------------------------------ MODULE GroupMerge ------------------------------
(***************************************************************************)
(* jsono_group_merge(value ORDER BY key) over plain JSONO.                 *)
(*                                                                         *)
(* The rows of a group come in the order of the key.  A state folds rows   *)
(* one after the other, and a window folds the state of a later run of     *)
(* rows into that of the run just before it, leaving the source as it is.  *)
(***************************************************************************)
EXTENDS JsonoDoc

CONSTANTS
  Doc,       \* the documents rows may hold
  MaxRows,   \* bound on the rows of the group
  Node       \* aggregate states

VARIABLES
  rows,      \* the ordered rows of the group
  acc,       \* GroupMergeState::acc per state, SqlNull before any input
  span       \* history: the run of rows first .. next - 1 a state stands for

vars == <<rows, acc, span>>

\* An object is merged into an object, or stripped; anything else replaces.
FoldIntoGroupState(state, incoming) ==
  IF IsObject(incoming)
  THEN IF state # SqlNull /\ IsObject(state)
       THEN MergeTwoObjects(state, incoming, "IgnoreNulls")
       ELSE Strip(incoming, "IgnoreNulls")
  ELSE incoming

Init ==
  /\ rows \in UNION {[1 .. n -> Doc \cup {SqlNull}] : n \in 0 .. MaxRows}
  /\ acc = [s \in Node |-> SqlNull]
  /\ \E start \in [Node -> 1 .. Len(rows) + 1] :
       span = [s \in Node |-> [first |-> start[s], next |-> start[s]]]

SkipNullRow(s) ==
  /\ span[s].next <= Len(rows)
  /\ rows[span[s].next] = SqlNull
  /\ span' = [span EXCEPT ![s].next = @ + 1]
  /\ UNCHANGED <<rows, acc>>

Update(s) ==
  /\ span[s].next <= Len(rows)
  /\ rows[span[s].next] # SqlNull
  /\ acc' = [acc EXCEPT ![s] = FoldIntoGroupState(@, rows[span[s].next])]
  /\ span' = [span EXCEPT ![s].next = @ + 1]
  /\ UNCHANGED rows

Combine(source, target) ==
  /\ source # target
  /\ span[target].next = span[source].first
  /\ acc' = IF acc[source] = SqlNull
            THEN acc
            ELSE [acc EXCEPT ![target] = FoldIntoGroupState(@, acc[source])]
  /\ span' = [span EXCEPT ![target].next = span[source].next]
  /\ UNCHANGED rows

Next ==
  \/ \E s \in Node : SkipNullRow(s) \/ Update(s)
  \/ \E source, target \in Node : Combine(source, target)

Spec == Init /\ [][Next]_vars

-----------------------------------------------------------------------------
(* Properties. *)

LiveRows(s) == {i \in span[s].first .. span[s].next - 1 : rows[i] # SqlNull}

\* Rows that do not replace the whole: a partial state hides from a combine that
\* one of its rows did, so only over these is the merge associative.
Objects(s) == \A i \in LiveRows(s) : IsObject(rows[i])

\* One fold of the rows from first up to, and without, next.
FoldOf(first, next) ==
  LET fold[i \in first .. next] ==
        IF i = first THEN SqlNull
        ELSE IF rows[i - 1] = SqlNull THEN fold[i - 1]
        ELSE FoldIntoGroupState(fold[i - 1], rows[i - 1])
  IN fold[next]

\* "In the ordered stream, later patches overwrite earlier keys": a state that
\* was put together from partial states holds what one fold of its rows, in
\* their order, would hold.
PartialsMatchTheFold ==
  \A s \in Node : Objects(s) => acc[s] = FoldOf(span[s].first, span[s].next)

\* At every path the state holds the value of the last row that has one there,
\* and a null, or an object without values, has taken nothing away.
LastValuePerPath ==
  \A s \in Node : Objects(s) /\ acc[s] # SqlNull =>
    LET given == UNION {LeafPaths(rows[i]) : i \in LiveRows(s)}
    IN /\ LeafPaths(acc[s]) = given
       /\ \A path \in given :
            LET last == Max({i \in LiveRows(s) : path \in LeafPaths(rows[i])})
            IN acc[s][path] = rows[last][path]
=============================================================================
