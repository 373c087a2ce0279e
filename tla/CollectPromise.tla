---------------------------- MODULE CollectPromise ----------------------------
(***************************************************************************)
(* What jsono_group_array and jsono_group_object promise: a group is the   *)
(* sequence of its rows, and an array or an object is made of the sequence *)
(* however the rows were spread over partial states.                       *)
(***************************************************************************)
EXTENDS Naturals, SequencesExt

CONSTANTS
  State,       \* aggregate states
  Row,         \* rows: a key, a value and the bytes they take
  NullKey,     \* a key that is SQL NULL
  SqlNull,     \* a value that is SQL NULL ...
  JsonNull     \* ... and the JSON null it becomes

VARIABLES
  phase,       \* none, live, or moved: folded into another state for good
  folded,      \* the keys and values a state stands for, in order
  failed       \* the query was aborted

Member(r) ==
  [key |-> r.key, value |-> IF r.value = SqlNull THEN JsonNull ELSE r.value]

Init ==
  /\ phase = [s \in State |-> "none"]
  /\ folded = [s \in State |-> << >>]
  /\ failed = FALSE

Begin(s) ==
  /\ ~failed
  /\ phase[s] = "none"
  /\ phase' = [phase EXCEPT ![s] = "live"]
  /\ UNCHANGED <<folded, failed>>

Fold(s, r) ==
  /\ ~failed
  /\ phase[s] = "live"
  /\ r.key # NullKey
  /\ folded' = [folded EXCEPT ![s] = Append(@, Member(r))]
  /\ UNCHANGED <<phase, failed>>

\* A source's rows come after the target's; the source is kept for other
\* targets ...
Share(s, t) ==
  /\ ~failed
  /\ s # t
  /\ phase[s] \in {"live", "moved"}
  /\ phase[t] = "live"
  /\ folded' = [folded EXCEPT ![t] = @ \o folded[s]]
  /\ UNCHANGED <<phase, failed>>

\* ... or given up.
Move(s, t) ==
  /\ ~failed
  /\ s # t
  /\ phase[s] \in {"live", "moved"}
  /\ phase[t] = "live"
  /\ folded' = [folded EXCEPT ![t] = @ \o folded[s], ![s] = << >>]
  /\ phase' = [phase EXCEPT ![s] = "moved"]
  /\ UNCHANGED failed

\* A NULL key, or memory that is refused.
Fail ==
  /\ ~failed
  /\ failed' = TRUE
  /\ UNCHANGED <<phase, folded>>

End(s) ==
  /\ phase[s] # "none"
  /\ phase' = [phase EXCEPT ![s] = "none"]
  /\ folded' = [folded EXCEPT ![s] = << >>]
  /\ UNCHANGED failed

Next ==
  \/ Fail
  \/ \E s \in State : Begin(s) \/ End(s) \/ \E r \in Row : Fold(s, r)
  \/ \E s, t \in State : Share(s, t) \/ Move(s, t)

Spec == Init /\ [][Next]_<<phase, folded, failed>>

----------------------------------------------------------------------------
\* The array of a group has every value in order, a group of no rows is NULL.
ArrayOf(s) ==
  [null |-> folded[s] = << >>,
   value |-> [i \in 1 .. Len(folded[s]) |-> folded[s][i].value]]

\* The object of a group has for each key the last value that came with it.
ObjectOf(s) ==
  LET Put(o, m) == [k \in DOMAIN o \cup {m.key} |-> IF k = m.key THEN m.value ELSE o[k]]
  IN [null |-> folded[s] = << >>,
      value |-> FoldLeft(Put, << >>, folded[s])]
=============================================================================
