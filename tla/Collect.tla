-------------------------------- MODULE Collect --------------------------------
(***************************************************************************)
(* The states of jsono_group_array and jsono_group_object                  *)
(* (src/src/jsono_collect.cpp) and the memory they account for             *)
(* (src/src/include/jsono_memory.hpp).                                     *)
(*                                                                         *)
(* Both aggregates are the same code twice: a state refers to immutable    *)
(* elements on the heap, which states share.  An element pays for itself   *)
(* and for the first reference to it, a state for the references that it   *)
(* copied from states which kept theirs.  The rows of an array have one    *)
(* key, which its result leaves out.                                       *)
(***************************************************************************)
EXTENDS Integers, FiniteSets, FiniteSetsExt, SequencesExt

CONSTANTS
  State,       \* aggregate states: DuckDB's, initialized and destroyed by it
  Row,         \* rows: a key, a value and the bytes they take
  NullKey,     \* a key that is SQL NULL
  SqlNull,     \* a value that is SQL NULL ...
  JsonNull,    \* ... and the JSON null it becomes
  Element,     \* heap addresses (bound: elements alive at once)
  RefBytes,    \* sizeof(CollectArrayElementRef)
  MaxRefs      \* bound: references in a state

ASSUME CollectAssumption ==
  /\ IsFiniteSet(State) /\ IsFiniteSet(Element)
  /\ \A r \in Row : r.bytes \in Nat
  /\ RefBytes \in Nat \ {0}
  /\ MaxRefs \in Nat

VARIABLES
  phase,       \* none before Initialize and after Destroy; live; moved
  container,   \* whether a state has allocated its list
  elements,    \* the references in it
  mem,         \* mem.reserved of a state
  heap,        \* the elements alive
  reserved,    \* what the buffer manager counts for all of them
  failed       \* an exception ended the query

vars == <<phase, container, elements, mem, heap, reserved, failed>>

Held(s) == {elements[s][i] : i \in 1 .. Len(elements[s])}

Init ==
  /\ phase = [s \in State |-> "none"]
  /\ container = [s \in State |-> FALSE]
  /\ elements = [s \in State |-> << >>]
  /\ mem = [s \in State |-> 0]
  /\ heap = << >>
  /\ reserved = 0
  /\ failed = FALSE

Initialize(s) ==
  /\ ~failed
  /\ phase[s] = "none"
  /\ phase' = [phase EXCEPT ![s] = "live"]
  /\ container' = [container EXCEPT ![s] = FALSE]
  /\ elements' = [elements EXCEPT ![s] = << >>]
  /\ mem' = [mem EXCEPT ![s] = 0]
  /\ UNCHANGED <<heap, reserved, failed>>

----------------------------------------------------------------------------
(* Update: one row.                                                        *)

SerializeRowValue(r) == IF r.value = SqlNull THEN JsonNull ELSE r.value

\* The document, the element object and the reference its creator stores.
ElementBytes(r) == r.bytes + RefBytes

Fresh == CHOOSE e \in Element : e \notin DOMAIN heap

AppendElement(s, r) ==
  /\ ~failed
  /\ phase[s] = "live"
  /\ r.key # NullKey
  /\ Len(elements[s]) < MaxRefs
  /\ Element \ DOMAIN heap # {}
  /\ container' = [container EXCEPT ![s] = TRUE]
  /\ heap' = [e \in DOMAIN heap \cup {Fresh} |->
                IF e = Fresh
                  THEN [key |-> r.key, value |-> SerializeRowValue(r),
                        bytes |-> r.bytes, reserved |-> ElementBytes(r)]
                  ELSE heap[e]]
  /\ reserved' = reserved + ElementBytes(r)
  /\ elements' = [elements EXCEPT ![s] = Append(@, Fresh)]
  /\ UNCHANGED <<phase, mem, failed>>

\* The reservation throws: other users of the database's memory may leave no
\* room at any time.  The list is there, the element goes with the exception.
AppendRefused(s) ==
  /\ ~failed
  /\ phase[s] = "live"
  /\ container' = [container EXCEPT ![s] = TRUE]
  /\ failed' = TRUE
  /\ UNCHANGED <<phase, elements, mem, heap, reserved>>

\* jsono_group_object: key cannot be NULL.
RefuseNullKey(s, r) ==
  /\ ~failed
  /\ phase[s] = "live"
  /\ r.key = NullKey
  /\ failed' = TRUE
  /\ UNCHANGED <<phase, container, elements, mem, heap, reserved>>

----------------------------------------------------------------------------
(* Combine: one pair of states.                                            *)

CanCombine(s, t) ==
  /\ ~failed
  /\ s # t
  /\ phase[s] \in {"live", "moved"}
  /\ phase[t] = "live"
  /\ Len(elements[t]) + Len(elements[s]) <= MaxRefs

CombineSourceFirst(s, t) ==                  \* mutant: the source's rows come first
  /\ CanCombine(s, t)
  /\ phase' = [phase EXCEPT ![s] = "moved"]
  /\ container' = [container EXCEPT ![t] = @ \/ elements[s] # << >>]
  /\ elements' = [elements EXCEPT ![t] = elements[s] \o @, ![s] = << >>]
  /\ mem' = [mem EXCEPT ![t] = @ + mem[s], ![s] = 0]
  /\ UNCHANGED <<heap, reserved, failed>>
CombineAllocating(s, t) ==                   \* mutant: the list is made before the skip
  /\ CanCombine(s, t)
  /\ phase' = [phase EXCEPT ![s] = "moved"]
  /\ container' = [container EXCEPT ![t] = TRUE]
  /\ elements' = [elements EXCEPT ![t] = @ \o elements[s], ![s] = << >>]
  /\ mem' = [mem EXCEPT ![t] = @ + mem[s], ![s] = 0]
  /\ UNCHANGED <<heap, reserved, failed>>
CombineKeepingItsBytes(s, t) ==              \* mutant: AbsorbFrom leaves the source's count
  /\ CanCombine(s, t)
  /\ phase' = [phase EXCEPT ![s] = "moved"]
  /\ container' = [container EXCEPT ![t] = @ \/ elements[s] # << >>]
  /\ elements' = [elements EXCEPT ![t] = @ \o elements[s], ![s] = << >>]
  /\ mem' = [mem EXCEPT ![t] = @ + mem[s]]
  /\ UNCHANGED <<heap, reserved, failed>>
\* A destructive combine moves the references and what was reserved for them;
\* the source's list stays, empty.  A source without elements is skipped.
CombineDestructive(s, t) ==
  /\ CanCombine(s, t)
  /\ phase' = [phase EXCEPT ![s] = "moved"]
  /\ \/ /\ elements[s] = << >>
        /\ UNCHANGED <<container, elements, mem>>
     \/ /\ elements[s] # << >>
        /\ container' = [container EXCEPT ![t] = TRUE]
        /\ elements' = [elements EXCEPT ![t] = @ \o elements[s], ![s] = << >>]
        /\ mem' = [mem EXCEPT ![t] = @ + mem[s], ![s] = 0]
  /\ UNCHANGED <<heap, reserved, failed>>

CombineMovingAnyway(s, t) ==                 \* mutant: the references are moved out
  LET bytes == Len(elements[s]) * RefBytes IN
  /\ CanCombine(s, t)
  /\ elements[s] # << >>
  /\ container' = [container EXCEPT ![t] = TRUE]
  /\ reserved' = reserved + bytes
  /\ mem' = [mem EXCEPT ![t] = @ + bytes]
  /\ elements' = [elements EXCEPT ![t] = @ \o elements[s], ![s] = << >>]
  /\ UNCHANGED <<phase, heap, failed>>
\* A preserving combine reserves the references, then copies them.  (Skipping a
\* source without elements changes nothing.)
CombinePreserving(s, t) ==
  LET bytes == Len(elements[s]) * RefBytes IN
  /\ CanCombine(s, t)
  /\ elements[s] # << >>
  /\ container' = [container EXCEPT ![t] = TRUE]
  /\ reserved' = reserved + bytes
  /\ mem' = [mem EXCEPT ![t] = @ + bytes]
  /\ elements' = [elements EXCEPT ![t] = @ \o elements[s]]
  /\ UNCHANGED <<phase, heap, failed>>

CombineRefused(s, t) ==
  /\ CanCombine(s, t)
  /\ elements[s] # << >>
  /\ container' = [container EXCEPT ![t] = TRUE]
  /\ failed' = TRUE
  /\ UNCHANGED <<phase, elements, mem, heap, reserved>>

----------------------------------------------------------------------------
(* Destroy: also of the states an exception left behind.                   *)

HeldByOthers(s) == UNION {Held(t) : t \in State \ {s}}
Sum(f) == MapThenSumSet(LAMBDA x : f[x], DOMAIN f)
ReservedBy(S) == Sum([e \in S |-> heap[e].reserved])

DestroyFreeingShared(s) ==                   \* mutant: elements owned, not shared
  /\ phase[s] # "none"
  /\ phase' = [phase EXCEPT ![s] = "none"]
  /\ reserved' = reserved - mem[s] - ReservedBy(Held(s))
  /\ mem' = [mem EXCEPT ![s] = 0]
  /\ heap' = [e \in DOMAIN heap \ Held(s) |-> heap[e]]
  /\ container' = [container EXCEPT ![s] = FALSE]
  /\ elements' = [elements EXCEPT ![s] = << >>]
  /\ UNCHANGED failed
\* What the state reserved is given back, then its list; an element nobody else
\* refers to goes with it and gives back its own.
Destroy(s) ==
  LET freed == DOMAIN heap \ HeldByOthers(s) IN
  /\ phase[s] # "none"
  /\ phase' = [phase EXCEPT ![s] = "none"]
  /\ reserved' = reserved - mem[s] - ReservedBy(freed)
  /\ mem' = [mem EXCEPT ![s] = 0]
  /\ heap' = [e \in DOMAIN heap \ freed |-> heap[e]]
  /\ container' = [container EXCEPT ![s] = FALSE]
  /\ elements' = [elements EXCEPT ![s] = << >>]
  /\ UNCHANGED failed

Next ==
  \/ \E s \in State : Initialize(s) \/ AppendRefused(s) \/ Destroy(s)
  \/ \E s \in State, r \in Row : AppendElement(s, r) \/ RefuseNullKey(s, r)
  \/ \E s, t \in State :
       CombineDestructive(s, t) \/ CombinePreserving(s, t) \/ CombineRefused(s, t)

Spec == Init /\ [][Next]_vars

----------------------------------------------------------------------------
(* Finalize reads a state and changes nothing.                             *)

FinalizeArray(s) ==
  [null |-> ~container[s],
   value |-> [i \in 1 .. Len(elements[s]) |-> heap[elements[s][i]].value]]

FirstByKey(s) ==                             \* mutant: the first row of a key wins
  [k \in {heap[e].key : e \in Held(s)} |->
     CHOOSE i \in 1 .. Len(elements[s]) :
       /\ heap[elements[s][i]].key = k
       /\ \A j \in 1 .. i - 1 : heap[elements[s][j]].key # k]
\* The index each key is mapped to last.
LastByKey(s) ==
  [k \in {heap[e].key : e \in Held(s)} |->
     CHOOSE i \in 1 .. Len(elements[s]) :
       /\ heap[elements[s][i]].key = k
       /\ \A j \in i + 1 .. Len(elements[s]) : heap[elements[s][j]].key # k]

FinalizeObject(s) ==
  [null |-> ~container[s],
   value |-> [k \in DOMAIN LastByKey(s) |-> heap[elements[s][LastByKey(s)[k]]].value]]

----------------------------------------------------------------------------
(* Properties.                                                             *)

\* References point to living elements, and no reservation is negative.
TypeOK ==
  /\ phase \in [State -> {"none", "live", "moved"}]
  /\ container \in [State -> BOOLEAN]
  /\ elements \in [State -> Seq(DOMAIN heap)]
  /\ mem \in [State -> Nat]
  /\ DOMAIN heap \subseteq Element
  /\ \A e \in DOMAIN heap : heap[e].reserved \in Nat
  /\ failed \in BOOLEAN

\* What a list of references says, and so what the states stand for.
ReadRefs(refs, h) ==
  [i \in 1 .. Len(refs) |-> [key |-> h[refs[i]].key, value |-> h[refs[i]].value]]
Folded == [s \in State |-> ReadRefs(elements[s], heap)]

Promise == INSTANCE CollectPromise WITH folded <- Folded

\* Whatever order states are fed, combined, shared and destroyed in, each stands
\* for the rows it should: no source that was kept loses a row to a target, and
\* no state sees what another did to a shared element.
ImplementsPromise == Promise!Spec

\* "Empty group -> SQL NULL": whichever partial states went into it, a group gives
\* its values in order, and NULL, not an empty array, if there were none.  (A state
\* that was moved from would give an empty array: it is not asked.)
ArraysAreThePromised ==
  ~failed => \A s \in State : phase[s] = "live" =>
    FinalizeArray(s) = Promise!ArrayOf(s)

\* "last-wins in fold order": an object has for each key what folding its rows
\* one by one would leave there.
ObjectsAreThePromised ==
  ~failed => \A s \in State : phase[s] = "live" =>
    FinalizeObject(s) = Promise!ObjectOf(s)

References == Sum([s \in State |-> Len(elements[s])])

\* "`reserved` always equals the bytes currently reserved for this state": the
\* buffer manager's count is what states and living elements will give back.
ReservationsAddUp == reserved = Sum(mem) + ReservedBy(DOMAIN heap)

\* "the accounted total tracks live bytes": what is alive is accounted for, and
\* no more than it and one reference per element, whose creator may have gone.
LiveBytesAreAccounted ==
  LET documents == Sum([e \in DOMAIN heap |-> heap[e].bytes])
      live == documents + RefBytes * References
  IN live <= reserved /\ reserved <= live + RefBytes * Cardinality(DOMAIN heap)

\* "no leak on early throw, no double free": once every state is destroyed, after
\* an exception as well, the buffer manager has everything back.
NothingIsLeftBehind ==
  (\A s \in State : phase[s] = "none") => reserved = 0 /\ DOMAIN heap = {}

\* Through every combine, refusal of memory and destruction, what is reserved is
\* what is alive, and at the end nothing is.
MemoryIsAccounted == ReservationsAddUp /\ LiveBytesAreAccounted /\ NothingIsLeftBehind

\* A state's list only grows, unless the state itself is moved from or destroyed:
\* "reuses the source across frames".
KeptSourcesKeepTheirElements ==
  [][\A s \in State : phase[s] = "live" /\ phase'[s] = "live" =>
       IsPrefix(elements[s], elements'[s])]_vars
=============================================================================
