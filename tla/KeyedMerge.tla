------------------------------ MODULE KeyedMerge ------------------------------
(***************************************************************************)
(* jsono_group_merge_max / jsono_group_merge_min over plain JSONO.         *)
(*                                                                         *)
(* Each aggregate state owns a tree whose leaves carry the winning sort    *)
(* key and value.  Update folds a row into a state, Combine folds one      *)
(* state into another (moving it, or copying it when a window needs it     *)
(* again), Finalize serializes the tree.  DuckDB calls them in any order   *)
(* and on any split of the rows, which is what Next allows.                *)
(***************************************************************************)
EXTENDS KeyedRows

CONSTANT Pending

VARIABLES
  table,    \* the input rows
  tree,     \* GroupMergeLWWState per state: has_input and the merge tree
  out,      \* the finalized result
  failed,   \* ThrowMixedKindConflict aborted the query
  fed       \* history: the rows that reached each state

vars == <<table, tree, out, failed, fed>>

EmptyTree == [has_input |-> FALSE, obj |-> TRUE, leaf |-> [p \in {} |-> 0]]

-----------------------------------------------------------------------------

\* The first row or tree is taken as it is, a later one is merged in.
Absorb(node, obj, leaf) ==
  IF node.has_input
  THEN [node EXCEPT !.leaf = MergeLeaves(@, leaf)]
  ELSE [has_input |-> TRUE, obj |-> obj, leaf |-> leaf]

\* Wrong: a state that nothing reached yields {}.
FinalizedAlways(node) ==
  [obj |-> node.obj, leaf |-> [p \in DOMAIN node.leaf |-> node.leaf[p].val]]

\* Finalize: no input is SQL NULL, otherwise the leaves without their keys.
Finalized(node) ==
  IF node.has_input
  THEN [obj |-> node.obj, leaf |-> [p \in DOMAIN node.leaf |-> node.leaf[p].val]]
  ELSE SqlNull

-----------------------------------------------------------------------------

Running(s) == ~failed /\ out[s] = Pending

Fail ==
  /\ failed' = TRUE
  /\ UNCHANGED <<table, tree, out, fed>>

Init ==
  /\ table \in [Row -> TableRow]
  /\ tree = [s \in Node |-> EmptyTree]
  /\ out = [s \in Node |-> Pending]
  /\ failed = FALSE
  /\ fed = [s \in Node |-> {}]

SkipNullRow(s, r) ==
  /\ Running(s)
  /\ table[r].doc = SqlNull
  /\ fed' = [fed EXCEPT ![s] = @ \cup {r}]
  /\ UNCHANGED <<table, tree, out, failed>>

FoldRow(s, r) ==
  /\ Running(s)
  /\ table[r].doc # SqlNull
  /\ ~Conflicts(tree[s], table[r].doc.obj, Incoming(table[r]))
  /\ tree' = [tree EXCEPT ![s] = Absorb(@, table[r].doc.obj, Incoming(table[r]))]
  /\ fed' = [fed EXCEPT ![s] = @ \cup {r}]
  /\ UNCHANGED <<table, out, failed>>

FoldRowConflict(s, r) ==
  /\ Running(s)
  /\ table[r].doc # SqlNull
  /\ Conflicts(tree[s], table[r].doc.obj, Incoming(table[r]))
  /\ Fail

\* A source without input is skipped; a destructive combine leaves a source
\* with input empty, a preserving one leaves it as it was.
Combine(source, target, destructive) ==
  /\ Running(source)
  /\ Running(target)
  /\ source # target
  /\ tree[source].has_input =>
       ~Conflicts(tree[target], tree[source].obj, tree[source].leaf)
  /\ tree' =
       IF tree[source].has_input
       THEN [tree EXCEPT
               ![target] = Absorb(@, tree[source].obj, tree[source].leaf),
               ![source] = IF destructive THEN EmptyTree ELSE @]
       ELSE tree
  /\ fed' = [fed EXCEPT ![target] = @ \cup fed[source],
                        ![source] = IF destructive THEN {} ELSE @]
  /\ UNCHANGED <<table, out, failed>>

CombineConflict(source, target) ==
  /\ Running(source)
  /\ Running(target)
  /\ source # target
  /\ tree[source].has_input
  /\ Conflicts(tree[target], tree[source].obj, tree[source].leaf)
  /\ Fail

Finalize(s) ==
  /\ Running(s)
  /\ out' = [out EXCEPT ![s] = Finalized(tree[s])]
  /\ UNCHANGED <<table, tree, failed, fed>>

Next ==
  \/ \E s \in Node, r \in Row :
       SkipNullRow(s, r) \/ FoldRow(s, r) \/ FoldRowConflict(s, r)
  \/ \E source, target \in Node, destructive \in BOOLEAN :
       Combine(source, target, destructive)
  \/ \E source, target \in Node : CombineConflict(source, target)
  \/ \E s \in Node : Finalize(s)

Spec == Init /\ [][Next]_vars

-----------------------------------------------------------------------------
(* Properties. *)

TypeOK ==
  /\ table \in [Row -> TableRow]
  /\ fed \in [Node -> SUBSET Row]
  /\ failed \in BOOLEAN
  /\ tree \in [Node -> [has_input : BOOLEAN, obj : BOOLEAN, leaf : LeafMap]]

LiveRows(s) == {r \in fed[s] : table[r].doc # SqlNull}

\* The tree holds the surviving leaves of the rows that reached it, no leaf is
\* lost by a merge or a combine, and none appears that no row has.
LeavesAreTheRowsLeaves ==
  \A s \in Node :
    DOMAIN tree[s].leaf = UNION {Surviving(table[r].doc) : r \in LiveRows(s)}

\* Every leaf is what some row that reached the state says of it, key and value
\* together: a merge never pairs the value of one row with the key of another.
LeavesComeFromRows ==
  \A s \in Node : \A p \in DOMAIN tree[s].leaf :
    \E r \in LiveRows(s) :
      p \in Surviving(table[r].doc) /\ tree[s].leaf[p] = Incoming(table[r])[p]

\* No row that reached the state beats the leaf it kept, in whatever order the
\* rows and the combined states came.
NoRowBeatsItsLeaf ==
  \A s \in Node : \A r \in LiveRows(s) : \A p \in Surviving(table[r].doc) :
    /\ p \in DOMAIN tree[s].leaf
    /\ ~Beats(Incoming(table[r])[p], tree[s].leaf[p])

\* "Per leaf the value from the row with the winning key wins", said of the keys as
\* the rows have them, and "a NULL key never wins" (jsono_group_merge_keyed.cpp:50).
AtLeastAsExtreme(k, l) ==
  \/ l = NullKey
  \/ k # NullKey /\ IF Direction = "max" THEN l <= k ELSE k <= l

ExtremeKeyWins ==
  \A s \in Node : \A p \in DOMAIN tree[s].leaf :
    \E r \in LiveRows(s) :
      /\ p \in Surviving(table[r].doc)
      /\ tree[s].leaf[p].val = table[r].doc.leaf[p]
      /\ \A q \in LiveRows(s) : p \in Surviving(table[q].doc) => AtLeastAsExtreme(table[r].key, table[q].key)

\* Whatever the order of rows and combines, a state holds for every path its
\* rows say something of what a row of the extreme key says, and nothing else.
LeavesAreTheWinners ==
  LeavesAreTheRowsLeaves /\ LeavesComeFromRows /\ NoRowBeatsItsLeaf /\ ExtremeKeyWins

\* A path that is an object in one row and a scalar or array in another is
\* never merged silently: rows in one state agree on every path's kind.
MixedKindsNeverMerge ==
  \A s \in Node : \A r1, r2 \in fed[s] : ~Clash(table[r1], table[r2])

\* The query only fails when two rows of the group really disagree on a kind.
FailsOnlyOnMixedKinds ==
  failed => \E r1, r2 \in Row : Clash(table[r1], table[r2])

\* ThrowMixedKindConflict aborts the query before rows of mixed kinds share a
\* state, and never without two such rows.
MixedKindsFailAlone == MixedKindsNeverMerge /\ FailsOnlyOnMixedKinds

\* States that the same rows reached hold the same tree: the aggregate is
\* commutative, associative and idempotent, as NOT_ORDER_DEPENDENT promises.
OrderIndependent ==
  \A s, t \in Node : fed[s] = fed[t] => tree[s] = tree[t]

\* The plain aggregate implements the promise of KeyedAggregate.
Promise == INSTANCE KeyedAggregate
ImplementsPromise == Promise!Spec
=============================================================================
