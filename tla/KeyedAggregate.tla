---------------------------- MODULE KeyedAggregate ----------------------------
(***************************************************************************)
(* What jsono_group_merge_max / _min promise, whatever carries the state:  *)
(* rows reach aggregate states in any order, states are combined in any    *)
(* order, and a state's result depends on nothing but the set of rows that *)
(* reached it.  A group with a path that changes kind between rows never   *)
(* yields a result, and no other group fails.                              *)
(***************************************************************************)
EXTENDS KeyedRows

CONSTANT Pending   \* the result of a state that was not finalized

VARIABLES
  table,    \* the input: a document and an order key per row
  fed,      \* the rows that reached each state
  out,      \* the result of each finalized state
  failed    \* the query was aborted with a mixed-kind error

vars == <<table, fed, out, failed>>

RowsOf(s) == {table[r] : r \in fed[s]}
MixedKinds == \E r1, r2 \in Row : Clash(table[r1], table[r2])
ConsistentRows(s) == \A r1, r2 \in fed[s] : ~Clash(table[r1], table[r2])

Running(s) == ~failed /\ out[s] = Pending

Init ==
  /\ table \in [Row -> TableRow]
  /\ fed = [s \in Node |-> {}]
  /\ out = [s \in Node |-> Pending]
  /\ failed = FALSE

Feed(s, r) ==
  /\ Running(s)
  /\ fed' = [fed EXCEPT ![s] = @ \cup {r}]
  /\ UNCHANGED <<table, out, failed>>

\* A destructive combine empties its source; a window keeps it.
Merge(source, target, destructive) ==
  /\ Running(source)
  /\ Running(target)
  /\ source # target
  /\ fed' = [fed EXCEPT ![target] = @ \cup fed[source],
                        ![source] = IF destructive THEN {} ELSE @]
  /\ UNCHANGED <<table, out, failed>>

Produce(s) ==
  /\ Running(s)
  /\ ConsistentRows(s)
  /\ out' = [out EXCEPT ![s] = Aggregate(RowsOf(s))]
  /\ UNCHANGED <<table, fed, failed>>

Abort ==
  /\ ~failed
  /\ MixedKinds
  /\ failed' = TRUE
  /\ UNCHANGED <<table, fed, out>>

Next ==
  \/ \E s \in Node, r \in Row : Feed(s, r)
  \/ \E source, target \in Node, destructive \in BOOLEAN :
       Merge(source, target, destructive)
  \/ \E s \in Node : Produce(s)
  \/ Abort

Spec == Init /\ [][Next]_vars
=============================================================================
