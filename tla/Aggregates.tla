------------------------------ MODULE Aggregates ------------------------------
(***************************************************************************)
(* min, max and jsono_suggest_shredding over the rows of one group.        *)
(*                                                                         *)
(* DuckDB gives every row to one of the states, combines states in any     *)
(* order, keeps a source when a window needs it again, asks states for     *)
(* results and destroys them.  The memory reserved for a state is left     *)
(* out.                                                                    *)
(***************************************************************************)
EXTENDS Groups, Extrema, Advisor

CONSTANTS
  Calls,      \* bind data: min, max, or an advice with its two fractions
  Arguments   \* the values that each of them may be called with

VARIABLES
  call,      \* the aggregate
  argument,  \* the rows
  held,      \* the states
  live,      \* the buffers that are allocated
  gone,      \* the states that are destroyed
  reached,   \* history: the rows of each state
  aborted    \* the query failed

state == <<held, live, gone, reached>>
calls == <<call, argument>>
aggregate == <<calls, state, aborted>>

-----------------------------------------------------------------------------
(* What is assumed of the constants. *)

\* There is a buffer for every state.
EnoughBuffers ==
  /\ IsFiniteSet(Node)
  /\ \E f \in [Node -> Buffers] : \A s, t \in Node : f[s] = f[t] => s = t

TextArguments == \A kind \in {"min", "max"} : Arguments[kind] \subseteq Bytes \cup {SqlNull}

\* What the advisor is called with: documents of D, and fractions.
AdvisorAssumption(D) ==
  /\ MaxDepth \in Nat \ {0} /\ MaxPaths \in Nat /\ Scale \in Nat \ {0}
  /\ IsFiniteSet(Row) /\ IsFiniteSet(Keys)
  /\ IsClosed(D) /\ Arguments["suggest"] \subseteq D \cup {SqlNull}
  /\ \A c \in Calls : c.kind \in {"min", "max", "suggest"}
  /\ \A c \in Calls : c.kind = "suggest" => c.min_presence \in Nat /\ c.min_fit \in Nat

\* Of a group, where D are the documents and all that is inside them.
GroupAssumption(D) == ExtremaAssumption /\ EnoughBuffers /\ TextArguments /\ AdvisorAssumption(D)

-----------------------------------------------------------------------------

IsExtremum == call.kind \in {"min", "max"}

Initialized == IF IsExtremum THEN EmptyExtrema ELSE EmptySuggest

Cell(s) == [state |-> held[s], live |-> live]

-----------------------------------------------------------------------------
(* What becomes of a state and the buffers. *)

Folded(s, value) ==
  IF value = SqlNull THEN Cell(s)
  ELSE IF IsExtremum THEN FoldVarcharExtrema(Cell(s), call.kind, value)
  ELSE [Cell(s) EXCEPT !.state = MergeSuggest(@, SuggestOf(value))]

Combined(target, source) ==
  IF IsExtremum THEN FoldStateExtrema(Cell(target), held[source], call.kind)
  ELSE [Cell(target) EXCEPT !.state = MergeSuggest(@, held[source])]

Admissible(new) == IF IsExtremum THEN TRUE ELSE WithinCap(new)

Result(s) ==
  IF IsExtremum THEN FinalizeExtrema(held[s], SqlNull)
  ELSE FinalizeSuggest(held[s], call, SqlNull)

-----------------------------------------------------------------------------
GroupInit ==
  /\ call \in Calls
  /\ argument \in [Row -> Arguments[call.kind]]
  /\ held = [s \in Node |-> Initialized]
  /\ live = {}
  /\ gone = {}
  /\ reached = [s \in Node |-> {}]
  /\ aborted = FALSE

InUse(s) == ~aborted /\ s \notin gone

Holding(s, cell) ==
  /\ Admissible(cell.state)
  /\ held' = [held EXCEPT ![s] = cell.state]
  /\ live' = cell.live
  /\ UNCHANGED <<calls, gone, aborted>>

Throw ==
  /\ aborted' = TRUE
  /\ UNCHANGED <<calls, state>>

Update(s, r) ==
  /\ InUse(s)
  /\ r \notin reached[s]
  /\ Holding(s, Folded(s, argument[r]))
  /\ reached' = [reached EXCEPT ![s] = @ \cup {r}]

UpdateThrows(s, r) ==
  /\ InUse(s)
  /\ r \notin reached[s]
  /\ ~Admissible(Folded(s, argument[r]).state)
  /\ Throw

\* No row reaches a state twice.
CombineStates(source, target) ==
  /\ source # target
  /\ InUse(source)
  /\ InUse(target)
  /\ reached[source] \cap reached[target] = {}
  /\ Holding(target, Combined(target, source))
  /\ reached' = [reached EXCEPT ![target] = @ \cup reached[source]]

CombineThrows(source, target) ==
  /\ source # target
  /\ InUse(source)
  /\ InUse(target)
  /\ reached[source] \cap reached[target] = {}
  /\ ~Admissible(Combined(target, source).state)
  /\ Throw

\* Every state is destroyed, after its last result or when the query failed.
Destroy(s) ==
  /\ s \notin gone
  /\ gone' = gone \cup {s}
  /\ live' = IF IsExtremum THEN DestroyText(Cell(s)).live ELSE live
  /\ UNCHANGED <<calls, held, reached, aborted>>

GroupNext ==
  \/ \E s \in Node, r \in Row : Update(s, r) \/ UpdateThrows(s, r)
  \/ \E source, target \in Node : CombineStates(source, target) \/ CombineThrows(source, target)
  \/ \E s \in Node : Destroy(s)

GroupSpec == GroupInit /\ [][GroupNext]_aggregate

-----------------------------------------------------------------------------
(* Properties. *)

RowsOf(s) == {r \in reached[s] : argument[r] # SqlNull}

\* The text of the rows that comes first, or last, in the order of bytes: whether
\* a state held numbers or texts, when it changed, and what it was combined with.
IsExtremeText(text, s) ==
  \E w \in RowsOf(s) :
    /\ text = argument[w]
    /\ \A r \in RowsOf(s) : ~TextWins(call.kind, text, argument[r])

LanePaths == UNION {[1 .. n -> Keys \ {EmptyKey}] : n \in 1 .. MaxDepth}

\* The value at a path, Nowhere if what is on the way is no object or lacks the key.
Nowhere == [kind |-> "none"]

Descent(doc, p) ==
  LET node[n \in 0 .. Len(p)] ==
        IF n = 0 THEN doc
        ELSE IF IsObject(node[n - 1]) /\ p[n] \in DOMAIN node[n - 1].member
        THEN node[n - 1].member[p[n]] ELSE Nowhere
  IN node

ValueAt(doc, p) == Descent(doc, p)[Len(p)]

Has(doc, p) == ValueAt(doc, p) # Nowhere

Having(rows, p) == {r \in rows : Has(argument[r], p)}
At(r, p) == ValueAt(argument[r], p)

IsObjectArray(node) == IsArray(node) /\ \A i \in DOMAIN node.items : IsObject(node.items[i])

\* The objects in the arrays at a key, each as its row and its place.
Elements(rows, p) ==
  UNION {{<<r, i>> : i \in DOMAIN At(r, p).items} : r \in {x \in Having(rows, p) : IsObjectArray(At(x, p))}}
ElementAt(e, p) == At(e[1], p).items[e[2]]
With(rows, p, k) == {e \in Elements(rows, p) : k \in DOMAIN ElementAt(e, p).member}
Subfields(rows, p) == {k \in Keys \ {EmptyKey} : With(rows, p, k) # {}}

Count(S, P(_)) == Cardinality({x \in S : P(x)})

\* The counters of a path are those of the rows, each counted once.
CountsItsRows(c, rows, p) ==
  LET having == Having(rows, p)
      top == Len(p) = 1
  IN /\ c.scalar_present = Count(having, LAMBDA r : IsScalar(At(r, p)))
     /\ c.array_rows = IF top THEN Count(having, LAMBDA r : IsArray(At(r, p))) ELSE 0
     /\ c.scalar_present + c.array_rows + c.nonrole_present = Cardinality(having)
     /\ \A x \in Primitive : c.scalar_fit[x] = Count(having, LAMBDA r : FitsPrimitive(At(r, p), x))
     /\ top => /\ c.object_elements = Cardinality(Elements(rows, p))
               /\ DOMAIN c.subfields = Subfields(rows, p)
               /\ \A k \in DOMAIN c.subfields : c.subfields[k].present = Cardinality(With(rows, p, k))

\* A state stands for its rows, however they came: min and max give the extreme
\* text, the advisor has met every path of every document, and each once.
StatesStandForTheirRows ==
  \A s \in Node \ gone :
    IF IsExtremum
    THEN IF RowsOf(s) = {} THEN Result(s) = SqlNull ELSE IsExtremeText(Result(s), s)
    ELSE /\ held[s].non_null_rows = Cardinality(RowsOf(s))
         /\ DOMAIN held[s].paths = {p \in LanePaths : Having(RowsOf(s), p) # {}}
         /\ \A p \in DOMAIN held[s].paths : CountsItsRows(held[s].paths[p], RowsOf(s), p)

\* Every buffer belongs to one state, which is not destroyed: none is freed under
\* a state that still reads it, and none is left behind.
BuffersBelongToOneState ==
  IsExtremum =>
    LET owners == {s \in Node \ gone : OwnsText(held[s])}
    IN /\ live = {held[s].buffer : s \in owners}
       /\ \A s, t \in owners : held[s].buffer = held[t].buffer => s = t

\* Too many paths, or too many subfields at one of them.
TooMany(rows) ==
  \/ Count(LanePaths, LAMBDA p : Having(rows, p) # {}) > MaxPaths
  \/ \E k \in Keys \ {EmptyKey} : Cardinality(Subfields(rows, <<k>>)) > MaxPaths

\* The advice fails only when the rows together pass the cap, and no state holds
\* rows that do, in whatever order they were met and put together.
FailsOnlyOverTheCap ==
  /\ aborted => ~IsExtremum /\ TooMany({r \in Row : argument[r] # SqlNull})
  /\ \A s \in Node : ~IsExtremum => ~TooMany(RowsOf(s))

\* A lane holds a value: all of it, or of an array of objects the subfields.
Holds(type, node) ==
  CASE type.kind = "scalar" -> FitsPrimitive(node, type.primitive)
    [] type.kind = "list" ->
         IsArray(node) /\ \A i \in DOMAIN node.items : FitsPrimitive(node.items[i], type.primitive)
    [] type.kind = "struct" -> IsObjectArray(node)

HoldsSubfields(type, rows, p) ==
  \A k \in DOMAIN type.fields :
    LET with == With(rows, p, k)
        fitting == {e \in with : FitsPrimitive(ElementAt(e, p).member[k], type.fields[k])}
    IN Reaches(Cardinality(fitting), call.min_fit, Cardinality(with))

\* A suggested lane holds the share min_fit asks for of the rows that have its
\* path, and that path is in the share of rows min_presence asks for; and if
\* every value must fit, no suggested lane lies inside another.
SuggestedLanesHoldTheirShare ==
  \A s \in Node \ gone :
    ~IsExtremum /\ Result(s) # SqlNull =>
      LET lanes == Result(s)
          having(p) == Having(RowsOf(s), p)
          held_by(p) == Count(having(p), LAMBDA r : Holds(lanes[p], At(r, p)))
      IN /\ \A p \in DOMAIN lanes :
              /\ Reaches(held_by(p), call.min_fit, Cardinality(having(p)))
              /\ Reaches(Cardinality(having(p)), call.min_presence, Cardinality(RowsOf(s)))
              /\ lanes[p].kind = "struct" => HoldsSubfields(lanes[p], RowsOf(s), p)
         /\ call.min_fit = Scale =>
              \A p, q \in DOMAIN lanes : ~IsStrictPrefix(p, q)
=============================================================================
