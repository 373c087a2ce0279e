--------------------------- MODULE KeyedMergeProofs ---------------------------
(* Theorems about KeyedMerge, for any rows, states, documents and values. *)
EXTENDS KeyedMerge, KeyedRowsLemmas, TLAPS

-----------------------------------------------------------------------------
(* The inductive invariant. *)

\* The part of the invariant that concerns one state, for a set of live rows.
Holds(node, rows) ==
  /\ node \in [has_input : BOOLEAN, obj : BOOLEAN, leaf : LeafMap]
  /\ node.has_input <=> rows # {}
  /\ ~node.has_input => node.obj
  /\ \A row \in rows : node.obj = row.doc.obj
  /\ \A p \in DOMAIN node.leaf : \E row \in rows :
       p \in Surviving(row.doc) /\ node.leaf[p] = Incoming(row)[p]
  /\ \A row \in rows : \A p \in Surviving(row.doc) :
       /\ p \in DOMAIN node.leaf
       /\ ~Beats(Incoming(row)[p], node.leaf[p])

\* Absorbing one correct state into another that agrees with it on kinds gives
\* a state correct for the rows of both: rows and combined states alike.
LEMMA AbsorbCorrect ==
  ASSUME NEW node, NEW rows \in SUBSET LiveRow, Holds(node, rows),
         NEW other, NEW others \in SUBSET LiveRow, Holds(other, others),
         other.has_input,
         ~Conflicts(node, other.obj, other.leaf)
  PROVE  Holds(Absorb(node, other.obj, other.leaf), rows \cup others)
<1> DEFINE M == Absorb(node, other.obj, other.leaf)
<1> USE DEF Holds
<1>1. CASE ~node.has_input
  <2>1. M = [has_input |-> TRUE, obj |-> other.obj, leaf |-> other.leaf]
    BY <1>1 DEF Absorb
  <2>2. rows = {}
    BY <1>1
  <2>3. QED
    BY <2>1, <2>2
<1>2. CASE node.has_input
  <2>1. M = [node EXCEPT !.leaf = MergeLeaves(node.leaf, other.leaf)]
    BY <1>2 DEF Absorb
  <2>2. node.leaf \in LeafMap /\ other.leaf \in LeafMap
    OBVIOUS
  <2>3. /\ M.leaf = MergeLeaves(node.leaf, other.leaf)
        /\ M.obj = node.obj
        /\ M.has_input
        /\ M.leaf \in LeafMap
        /\ M \in [has_input : BOOLEAN, obj : BOOLEAN, leaf : LeafMap]
    <3> HIDE DEF M
    <3>1. MergeLeaves(node.leaf, other.leaf) \in LeafMap
      BY <2>2, MergeLeavesCorrect
    <3>2. node \in [has_input : BOOLEAN, obj : BOOLEAN, leaf : LeafMap]
      OBVIOUS
    <3>3. QED
      BY ONLY <1>2, <2>1, <3>1, <3>2
  <2>4. /\ DOMAIN M.leaf = DOMAIN node.leaf \cup DOMAIN other.leaf
        /\ \A p \in DOMAIN M.leaf :
             \/ p \in DOMAIN node.leaf /\ M.leaf[p] = node.leaf[p]
             \/ p \in DOMAIN other.leaf /\ M.leaf[p] = other.leaf[p]
        /\ \A p \in DOMAIN node.leaf : ~Beats(node.leaf[p], M.leaf[p])
        /\ \A p \in DOMAIN other.leaf : ~Beats(other.leaf[p], M.leaf[p])
    <3> DEFINE N == MergeLeaves(node.leaf, other.leaf)
    <3> HIDE DEF M, Holds
    <3>1. /\ DOMAIN N = DOMAIN node.leaf \cup DOMAIN other.leaf
          /\ \A p \in DOMAIN N :
               \/ p \in DOMAIN node.leaf /\ N[p] = node.leaf[p]
               \/ p \in DOMAIN other.leaf /\ N[p] = other.leaf[p]
          /\ \A p \in DOMAIN node.leaf : ~Beats(node.leaf[p], N[p])
          /\ \A p \in DOMAIN other.leaf : ~Beats(other.leaf[p], N[p])
      BY <2>2, MergeLeavesCorrect
    <3> HIDE DEF N
    <3>2. M.leaf = N
      BY <2>3 DEF N
    <3>3. QED
      BY <3>1, <3>2
  <2>5. node.obj = other.obj
    BY <1>2 DEF Conflicts, KindClash
  <2>6. \A row \in rows \cup others : M.obj = row.doc.obj
    BY <2>3, <2>5
  <2>7. \A p \in DOMAIN M.leaf : \E row \in rows \cup others :
          p \in Surviving(row.doc) /\ M.leaf[p] = Incoming(row)[p]
    BY <2>4
  <2>8. ASSUME NEW row \in rows \cup others, NEW p \in Surviving(row.doc)
        PROVE  p \in DOMAIN M.leaf /\ ~Beats(Incoming(row)[p], M.leaf[p])
    <3>1. /\ M.leaf \in LeafMap
          /\ Incoming(row) \in LeafMap
          /\ DOMAIN Incoming(row) = Surviving(row.doc)
      BY <2>3, IncomingType DEF LiveRow
    <3>2. Incoming(row)[p] \in Leaf
      BY <3>1, LeafMapElim
    <3>3. CASE row \in rows
      <4>1. p \in DOMAIN node.leaf /\ ~Beats(Incoming(row)[p], node.leaf[p])
        BY <3>3
      <4>2. node.leaf[p] \in Leaf /\ M.leaf[p] \in Leaf
        BY <2>2, <2>4, <3>1, <4>1, LeafMapElim
      <4>3. QED
        BY <2>4, <3>2, <4>1, <4>2, BeatsTransitive
    <3>4. CASE row \in others
      <4>1. p \in DOMAIN other.leaf /\ ~Beats(Incoming(row)[p], other.leaf[p])
        BY <3>4
      <4>2. other.leaf[p] \in Leaf /\ M.leaf[p] \in Leaf
        BY <2>2, <2>4, <3>1, <4>1, LeafMapElim
      <4>3. QED
        BY <2>4, <3>2, <4>1, <4>2, BeatsTransitive
    <3>5. QED
      BY <3>3, <3>4
  <2>9. QED
    BY <1>2, <2>3, <2>6, <2>7, <2>8
<1>3. QED
  BY <1>1, <1>2

\* One row, seen as a state of its own, is correct for itself.
LEMMA RowHolds ==
  ASSUME NEW row \in LiveRow
  PROVE  Holds([has_input |-> TRUE, obj |-> row.doc.obj, leaf |-> Incoming(row)],
               {row})
<1>1. /\ row.doc.obj \in BOOLEAN
      /\ DOMAIN Incoming(row) = Surviving(row.doc)
      /\ Incoming(row) \in LeafMap
  BY IncomingType DEF LiveRow
<1>2. \A p \in Surviving(row.doc) : Incoming(row)[p] \in Leaf
  BY <1>1, LeafMapElim
<1>3. \A x \in Leaf : ~Beats(x, x)
  BY LeafFields DEF Beats
<1>4. QED
  BY <1>1, <1>2, <1>3 DEF Holds

\* Where no conflict is raised, no two rows behind the two states clash.
LEMMA NoConflictNoClash ==
  ASSUME NEW node, NEW rows \in SUBSET LiveRow, Holds(node, rows),
         NEW other, NEW others \in SUBSET LiveRow, Holds(other, others),
         ~Conflicts(node, other.obj, other.leaf),
         NEW row1 \in rows, NEW row2 \in others
  PROVE  ~Clash(row1, row2) /\ ~Clash(row2, row1)
<1>1. node.has_input
  BY DEF Holds
<1>2. /\ node.obj = other.obj
      /\ \A p \in DOMAIN node.leaf, q \in DOMAIN other.leaf :
           ~IsStrictPrefix(p, q) /\ ~IsStrictPrefix(q, p)
  BY <1>1 DEF Conflicts, KindClash
<1>3. node.obj = row1.doc.obj /\ other.obj = row2.doc.obj
  BY DEF Holds
<1>4. /\ Surviving(row1.doc) \subseteq DOMAIN node.leaf
      /\ Surviving(row2.doc) \subseteq DOMAIN other.leaf
  BY DEF Holds
<1>5. QED
  BY <1>2, <1>3, <1>4 DEF Clash, KindClash

\* A conflict is raised only for two rows that clash.
LEMMA ConflictMeansClash ==
  ASSUME NEW node, NEW rows \in SUBSET LiveRow, Holds(node, rows),
         NEW other, NEW others \in SUBSET LiveRow, Holds(other, others),
         other.has_input,
         Conflicts(node, other.obj, other.leaf)
  PROVE  \E row1 \in rows, row2 \in others : Clash(row1, row2)
<1>1. \A row \in rows \cup others : row.doc # SqlNull
  BY DEF LiveRow
<1>2. CASE node.obj # other.obj
  <2>1. PICK row1 \in rows, row2 \in others : TRUE
    BY DEF Holds, Conflicts
  <2>2. row1.doc.obj # row2.doc.obj
    BY <1>2 DEF Holds
  <2>3. QED
    BY <1>1, <2>2 DEF Clash, KindClash
<1>3. CASE node.obj = other.obj
  <2>1. PICK p \in DOMAIN node.leaf, q \in DOMAIN other.leaf :
          IsStrictPrefix(p, q) \/ IsStrictPrefix(q, p)
    BY <1>3 DEF Conflicts, KindClash
  <2>2. PICK row1 \in rows : p \in Surviving(row1.doc)
    BY DEF Holds
  <2>3. PICK row2 \in others : q \in Surviving(row2.doc)
    BY DEF Holds
  <2>4. QED
    BY <1>1, <2>1, <2>2, <2>3 DEF Clash, KindClash
<1>4. QED
  BY <1>2, <1>3

-----------------------------------------------------------------------------
(* The inductive invariant: every state is correct for its rows. *)

RowSet(s) == {table[r] : r \in LiveRows(s)}

StatesCorrect == \A s \in Node : Holds(tree[s], RowSet(s))

IInv ==
  /\ TypeOK
  /\ StatesCorrect
  /\ MixedKindsNeverMerge
  /\ FailsOnlyOnMixedKinds

LEMMA RowSetType ==
  ASSUME TypeOK, NEW s \in Node
  PROVE  RowSet(s) \in SUBSET LiveRow
  BY DEF TypeOK, RowSet, LiveRows, LiveRow

\* The state nothing reached is correct for no rows.
LEMMA EmptyTreeHolds == Holds(EmptyTree, {})
<1>1. EmptyTree.leaf \in [{} -> Leaf]
  BY DEF EmptyTree
<1>2. EmptyTree.leaf \in LeafMap
  BY <1>1, LeafMapIntro
<1>3. QED
  BY <1>2 DEF Holds, EmptyTree

LEMMA InitCorrect == Init => IInv
<1> SUFFICES ASSUME Init PROVE IInv
  OBVIOUS
<1>1. EmptyTree \in [has_input : BOOLEAN, obj : BOOLEAN, leaf : LeafMap]
  BY EmptyTreeHolds DEF Holds
<1>2. TypeOK
  BY <1>1 DEF Init, TypeOK
<1>3. \A s \in Node : RowSet(s) = {} /\ tree[s] = EmptyTree
  BY DEF Init, RowSet, LiveRows
<1>4. StatesCorrect
  BY <1>3, EmptyTreeHolds DEF StatesCorrect
<1>5. QED
  BY <1>2, <1>4 DEF Init, IInv, MixedKindsNeverMerge, FailsOnlyOnMixedKinds

\* Skipping a NULL row changes neither the tree nor the live rows.
LEMMA SkipNullRowCorrect ==
  ASSUME IInv, NEW s \in Node, NEW r \in Row, SkipNullRow(s, r)
  PROVE  IInv'
<1> USE DEF SkipNullRow
<1>1. /\ TypeOK'
      /\ \A t \in Node : LiveRows(t)' = LiveRows(t)
  BY DEF IInv, TypeOK, LiveRows
<1>2. \A t \in Node : RowSet(t)' = RowSet(t)
  BY <1>1 DEF RowSet
<1>3. StatesCorrect'
  BY <1>2 DEF IInv, StatesCorrect
<1>4. MixedKindsNeverMerge'
  <2> SUFFICES ASSUME NEW t \in Node, NEW r1 \in fed'[t], NEW r2 \in fed'[t]
               PROVE  ~Clash(table[r1], table[r2])
    BY DEF MixedKindsNeverMerge
  <2>1. CASE r1 = r \/ r2 = r
    BY <2>1 DEF Clash
  <2>2. CASE r1 # r /\ r2 # r
    BY <2>2 DEF IInv, TypeOK, MixedKindsNeverMerge
  <2>3. QED
    BY <2>1, <2>2
<1>5. QED
  BY <1>1, <1>3, <1>4 DEF IInv, FailsOnlyOnMixedKinds

\* Folding a row into a state it does not conflict with.
LEMMA FoldRowCorrect ==
  ASSUME IInv, NEW s \in Node, NEW r \in Row, FoldRow(s, r)
  PROVE  IInv'
<1> DEFINE row == table[r]
           one == [has_input |-> TRUE, obj |-> row.doc.obj, leaf |-> Incoming(row)]
<1>1. row \in LiveRow /\ row \in TableRow
  BY DEF IInv, TypeOK, FoldRow, LiveRow
<1>2. Holds(one, {row})
  BY <1>1, RowHolds
<1>3. Holds(tree[s], RowSet(s)) /\ RowSet(s) \in SUBSET LiveRow
  BY RowSetType DEF IInv, StatesCorrect
<1>4. ~Conflicts(tree[s], one.obj, one.leaf)
  BY DEF FoldRow
<1>5. Holds(Absorb(tree[s], one.obj, one.leaf), RowSet(s) \cup {row})
  <2> HIDE DEF one, row
  <2>1. one.has_input
    BY DEF one
  <2>2. QED
    BY <1>1, <1>2, <1>3, <1>4, <2>1, AbsorbCorrect
<1>6. tree' = [tree EXCEPT ![s] = Absorb(tree[s], one.obj, one.leaf)]
  BY DEF FoldRow
<1>7. TypeOK'
  <2>1. Absorb(tree[s], one.obj, one.leaf)
          \in [has_input : BOOLEAN, obj : BOOLEAN, leaf : LeafMap]
    BY <1>5 DEF Holds
  <2>2. QED
    BY <1>6, <2>1 DEF IInv, TypeOK, FoldRow
<1>8. /\ RowSet(s)' = RowSet(s) \cup {row}
      /\ \A t \in Node \ {s} : RowSet(t)' = RowSet(t)
  <2>1. /\ LiveRows(s)' = LiveRows(s) \cup {r}
        /\ \A t \in Node \ {s} : LiveRows(t)' = LiveRows(t)
    BY DEF IInv, TypeOK, FoldRow, LiveRows
  <2>2. table' = table
    BY DEF FoldRow
  <2>3. QED
    BY <2>1, <2>2 DEF RowSet
<1>9. StatesCorrect'
  <2> SUFFICES ASSUME NEW t \in Node
               PROVE  Holds(tree'[t], RowSet(t)')
    BY DEF StatesCorrect
  <2>1. CASE t = s
    BY <1>5, <1>6, <1>8, <2>1 DEF IInv, TypeOK
  <2>2. CASE t # s
    <3>1. tree'[t] = tree[t]
      BY <1>6, <2>2 DEF IInv, TypeOK
    <3>2. QED
      BY <1>8, <2>2, <3>1 DEF IInv, StatesCorrect
  <2>3. QED
    BY <2>1, <2>2
<1>10. MixedKindsNeverMerge'
  <2>1. \A r1 \in fed[s] : ~Clash(table[r1], row) /\ ~Clash(row, table[r1])
    <3> TAKE r1 \in fed[s]
    <3>1. CASE table[r1].doc = SqlNull
      BY <3>1 DEF Clash
    <3>2. CASE table[r1].doc # SqlNull
      <4>1. table[r1] \in RowSet(s)
        BY <3>2 DEF RowSet, LiveRows
      <4> HIDE DEF one, row
      <4>2. QED
        BY <1>1, <1>2, <1>3, <1>4, <4>1, NoConflictNoClash
    <3>3. QED
      BY <3>1, <3>2
  <2>2. ~Clash(row, row)
    BY <1>1, NoSelfClash
  <2> SUFFICES ASSUME NEW t \in Node, NEW r1 \in fed'[t], NEW r2 \in fed'[t]
               PROVE  ~Clash(table[r1], table[r2])
    BY DEF MixedKindsNeverMerge, FoldRow
  <2>3. CASE t = s
    BY <2>1, <2>2, <2>3 DEF IInv, TypeOK, MixedKindsNeverMerge, FoldRow
  <2>4. CASE t # s
    BY <2>4 DEF IInv, TypeOK, MixedKindsNeverMerge, FoldRow
  <2>5. QED
    BY <2>3, <2>4
<1>11. QED
  BY <1>7, <1>9, <1>10 DEF IInv, FailsOnlyOnMixedKinds, FoldRow

\* A row that conflicts aborts the query, and clashes with a row fed before.
LEMMA FoldRowConflictCorrect ==
  ASSUME IInv, NEW s \in Node, NEW r \in Row, FoldRowConflict(s, r)
  PROVE  IInv'
<1> DEFINE row == table[r]
           one == [has_input |-> TRUE, obj |-> row.doc.obj, leaf |-> Incoming(row)]
<1>1. row \in LiveRow /\ row \in TableRow
  BY DEF IInv, TypeOK, FoldRowConflict, LiveRow
<1>2. Holds(one, {row})
  BY <1>1, RowHolds
<1>3. Holds(tree[s], RowSet(s)) /\ RowSet(s) \in SUBSET LiveRow
  BY RowSetType DEF IInv, StatesCorrect
<1>4. Conflicts(tree[s], one.obj, one.leaf) /\ one.has_input
  BY DEF FoldRowConflict
<1>5. \E row1 \in RowSet(s), row2 \in {row} : Clash(row1, row2)
  <2> HIDE DEF one, row
  <2>1. QED
    BY <1>1, <1>2, <1>3, <1>4, ConflictMeansClash
<1>6. \E r1, r2 \in Row : Clash(table[r1], table[r2])
  BY <1>5 DEF RowSet, LiveRows, IInv, TypeOK
<1>7. UNCHANGED <<table, tree, out, fed>> /\ failed' = TRUE
  BY DEF FoldRowConflict, Fail
<1>8. TypeOK' /\ MixedKindsNeverMerge' /\ FailsOnlyOnMixedKinds'
  BY <1>6, <1>7 DEF IInv, TypeOK, MixedKindsNeverMerge, FailsOnlyOnMixedKinds
<1>9. StatesCorrect'
  BY <1>7 DEF IInv, StatesCorrect, RowSet, LiveRows
<1>10. QED
  BY <1>8, <1>9 DEF IInv

\* Combining two states that do not conflict, moving the source or keeping it.
LEMMA CombineCorrect ==
  ASSUME IInv, NEW source \in Node, NEW target \in Node,
         NEW destructive \in BOOLEAN, Combine(source, target, destructive)
  PROVE  IInv'
<1> DEFINE src == tree[source]
           merged == Absorb(tree[target], src.obj, src.leaf)
<1>1. /\ source # target
      /\ table' = table
      /\ src.has_input => ~Conflicts(tree[target], src.obj, src.leaf)
  BY DEF Combine
<1>2. /\ Holds(src, RowSet(source)) /\ RowSet(source) \in SUBSET LiveRow
      /\ Holds(tree[target], RowSet(target)) /\ RowSet(target) \in SUBSET LiveRow
  BY RowSetType DEF IInv, StatesCorrect
<1>3. /\ LiveRows(target)' = LiveRows(target) \cup LiveRows(source)
      /\ LiveRows(source)' = IF destructive THEN {} ELSE LiveRows(source)
      /\ \A t \in Node \ {source, target} : LiveRows(t)' = LiveRows(t)
  BY <1>1 DEF IInv, TypeOK, Combine, LiveRows
<1>4. /\ RowSet(target)' = RowSet(target) \cup RowSet(source)
      /\ RowSet(source)' = IF destructive THEN {} ELSE RowSet(source)
      /\ \A t \in Node \ {source, target} : RowSet(t)' = RowSet(t)
  BY <1>1, <1>3 DEF RowSet
<1>5. /\ tree'[target] = IF src.has_input THEN merged ELSE tree[target]
      /\ tree'[source] = IF src.has_input /\ destructive THEN EmptyTree ELSE src
      /\ \A t \in Node \ {source, target} : tree'[t] = tree[t]
      /\ tree' \in [Node -> {tree'[t] : t \in Node}]
  BY <1>1 DEF IInv, TypeOK, Combine
<1>6. Holds(tree'[target], RowSet(target)')
  <2> HIDE DEF src, merged
  <2>1. CASE src.has_input
    <3>1. Holds(merged, RowSet(target) \cup RowSet(source))
      BY <1>1, <1>2, <2>1, AbsorbCorrect DEF merged
    <3>2. QED
      BY <1>4, <1>5, <2>1, <3>1
  <2>2. CASE ~src.has_input
    <3>1. RowSet(source) = {}
      BY <1>2, <2>2 DEF Holds
    <3>2. QED
      BY <1>2, <1>4, <1>5, <2>2, <3>1
  <2>3. QED
    BY <2>1, <2>2
<1>7. Holds(tree'[source], RowSet(source)')
  <2> HIDE DEF src, merged
  <2>1. CASE destructive /\ src.has_input
    BY <1>4, <1>5, <2>1, EmptyTreeHolds
  <2>2. CASE destructive /\ ~src.has_input
    <3>1. RowSet(source) = {}
      BY <1>2, <2>2 DEF Holds
    <3>2. QED
      BY <1>2, <1>4, <1>5, <2>2, <3>1
  <2>3. CASE ~destructive
    BY <1>2, <1>4, <1>5, <2>3
  <2>4. QED
    BY <2>1, <2>2, <2>3
<1>8. \A t \in Node : Holds(tree'[t], RowSet(t)')
  <2> TAKE t \in Node
  <2>1. CASE t = target
    BY <1>6, <2>1
  <2>2. CASE t = source
    BY <1>7, <2>2
  <2>3. CASE t \notin {source, target}
    BY <1>4, <1>5, <2>3 DEF IInv, StatesCorrect
  <2>4. QED
    BY <2>1, <2>2, <2>3
<1>9. TypeOK'
  <2>1. \A t \in Node :
          tree'[t] \in [has_input : BOOLEAN, obj : BOOLEAN, leaf : LeafMap]
    BY <1>8 DEF Holds
  <2>2. tree' \in [Node -> [has_input : BOOLEAN, obj : BOOLEAN, leaf : LeafMap]]
    BY <1>5, <2>1
  <2>3. fed' \in [Node -> SUBSET Row]
    BY DEF IInv, TypeOK, Combine
  <2>4. QED
    BY <2>2, <2>3 DEF IInv, TypeOK, Combine
<1>10. MixedKindsNeverMerge'
  <2>1. \A r1 \in fed[target], r2 \in fed[source] :
          ~Clash(table[r1], table[r2]) /\ ~Clash(table[r2], table[r1])
    <3> TAKE r1 \in fed[target], r2 \in fed[source]
    <3>1. CASE table[r1].doc = SqlNull \/ table[r2].doc = SqlNull
      BY <3>1 DEF Clash
    <3>2. CASE table[r1].doc # SqlNull /\ table[r2].doc # SqlNull
      <4>1. table[r1] \in RowSet(target) /\ table[r2] \in RowSet(source)
        BY <3>2 DEF RowSet, LiveRows
      <4>2. src.has_input
        BY <1>2, <4>1 DEF Holds
      <4> HIDE DEF src, merged
      <4>3. QED
        BY <1>1, <1>2, <4>1, <4>2, NoConflictNoClash
    <3>3. QED
      BY <3>1, <3>2
  <2>2. /\ fed'[target] = fed[target] \cup fed[source]
        /\ fed'[source] = IF destructive THEN {} ELSE fed[source]
        /\ \A t \in Node \ {source, target} : fed'[t] = fed[t]
    BY <1>1 DEF IInv, TypeOK, Combine
  <2> SUFFICES ASSUME NEW t \in Node, NEW r1 \in fed'[t], NEW r2 \in fed'[t]
               PROVE  ~Clash(table[r1], table[r2])
    BY <1>1 DEF MixedKindsNeverMerge
  <2>3. CASE t = target
    BY <2>1, <2>2, <2>3 DEF IInv, MixedKindsNeverMerge
  <2>4. CASE t # target
    BY <2>2, <2>4 DEF IInv, MixedKindsNeverMerge
  <2>5. QED
    BY <2>3, <2>4
<1>11. QED
  BY <1>8, <1>9, <1>10 DEF IInv, StatesCorrect, FailsOnlyOnMixedKinds, Combine

\* Two states that conflict abort the query, and hold rows that clash.
LEMMA CombineConflictCorrect ==
  ASSUME IInv, NEW source \in Node, NEW target \in Node,
         CombineConflict(source, target)
  PROVE  IInv'
<1> DEFINE src == tree[source]
<1>1. /\ Holds(src, RowSet(source)) /\ RowSet(source) \in SUBSET LiveRow
      /\ Holds(tree[target], RowSet(target)) /\ RowSet(target) \in SUBSET LiveRow
  BY RowSetType DEF IInv, StatesCorrect
<1>2. Conflicts(tree[target], src.obj, src.leaf) /\ src.has_input
  BY DEF CombineConflict
<1>3. \E row1 \in RowSet(target), row2 \in RowSet(source) : Clash(row1, row2)
  <2> HIDE DEF src
  <2>1. QED
    BY <1>1, <1>2, ConflictMeansClash
<1>4. \E r1, r2 \in Row : Clash(table[r1], table[r2])
  BY <1>3 DEF RowSet, LiveRows, IInv, TypeOK
<1>5. UNCHANGED <<table, tree, out, fed>> /\ failed' = TRUE
  BY DEF CombineConflict, Fail
<1>6. TypeOK' /\ MixedKindsNeverMerge' /\ FailsOnlyOnMixedKinds'
  BY <1>4, <1>5 DEF IInv, TypeOK, MixedKindsNeverMerge, FailsOnlyOnMixedKinds
<1>7. StatesCorrect'
  BY <1>5 DEF IInv, StatesCorrect, RowSet, LiveRows
<1>8. QED
  BY <1>6, <1>7 DEF IInv

LEMMA StepCorrect == IInv /\ [Next]_vars => IInv'
<1> SUFFICES ASSUME IInv, [Next]_vars
             PROVE  IInv'
  OBVIOUS
<1>1. ASSUME NEW s \in Node, NEW r \in Row, SkipNullRow(s, r)
      PROVE  IInv'
  BY <1>1, SkipNullRowCorrect
<1>2. ASSUME NEW s \in Node, NEW r \in Row, FoldRow(s, r)
      PROVE  IInv'
  BY <1>2, FoldRowCorrect
<1>3. ASSUME NEW s \in Node, NEW r \in Row, FoldRowConflict(s, r)
      PROVE  IInv'
  BY <1>3, FoldRowConflictCorrect
<1>4. ASSUME NEW source \in Node, NEW target \in Node, NEW destructive \in BOOLEAN,
             Combine(source, target, destructive)
      PROVE  IInv'
  BY <1>4, CombineCorrect
<1>5. ASSUME NEW source \in Node, NEW target \in Node,
             CombineConflict(source, target)
      PROVE  IInv'
  BY <1>5, CombineConflictCorrect
<1>6. ASSUME NEW s \in Node, Finalize(s)
      PROVE  IInv'
  BY <1>6 DEF Finalize, IInv, TypeOK, StatesCorrect, RowSet, LiveRows,
              MixedKindsNeverMerge, FailsOnlyOnMixedKinds
<1>7. CASE UNCHANGED vars
  BY <1>7 DEF vars, IInv, TypeOK, StatesCorrect, RowSet, LiveRows,
              MixedKindsNeverMerge, FailsOnlyOnMixedKinds
<1>8. QED
  BY <1>1, <1>2, <1>3, <1>4, <1>5, <1>6, <1>7 DEF Next

\* The invariant holds in every reachable state.
THEOREM Invariance == Spec => []IInv
<1>1. Init => IInv
  BY InitCorrect
<1>2. IInv /\ [Next]_vars => IInv'
  BY StepCorrect
<1>3. QED
  BY <1>1, <1>2, PTL DEF Spec

-----------------------------------------------------------------------------
(* What the invariant gives. *)

\* At most one state is correct for a set of rows.
LEMMA HoldsUnique ==
  ASSUME NEW node, NEW other, NEW rows \in SUBSET LiveRow,
         Holds(node, rows), Holds(other, rows)
  PROVE  node = other
<1>1. /\ node \in [has_input : BOOLEAN, obj : BOOLEAN, leaf : LeafMap]
      /\ other \in [has_input : BOOLEAN, obj : BOOLEAN, leaf : LeafMap]
      /\ node.has_input = other.has_input
  BY DEF Holds
<1>2. node.obj = other.obj
  BY DEF Holds
<1>3. DOMAIN node.leaf = DOMAIN other.leaf
  BY DEF Holds
<1>4. ASSUME NEW p \in DOMAIN node.leaf
      PROVE  node.leaf[p] = other.leaf[p]
  <2>1. node.leaf[p] \in Leaf /\ other.leaf[p] \in Leaf
    BY <1>1, <1>3, LeafMapElim
  <2>2. ~Beats(node.leaf[p], other.leaf[p]) /\ ~Beats(other.leaf[p], node.leaf[p])
    BY <1>3 DEF Holds
  <2>3. QED
    BY <2>1, <2>2, BeatsTotal
<1>5. node.leaf = other.leaf
  <2>1. /\ node.leaf \in [DOMAIN node.leaf -> Leaf]
        /\ other.leaf \in [DOMAIN other.leaf -> Leaf]
    BY <1>1, LeafMapElim
  <2>2. QED
    BY <1>3, <1>4, <2>1
<1>6. QED
  BY <1>1, <1>2, <1>5

\* The variables keep their types: in particular a tree never holds a path or a
\* value no document has.
THEOREM TypeCorrect == Spec => []TypeOK
<1>1. IInv => TypeOK
  BY DEF IInv
<1>2. QED
  BY <1>1, Invariance, PTL

LEMMA InvariantGivesLeaves ==
  IInv => /\ LeavesAreTheRowsLeaves
          /\ LeavesComeFromRows
          /\ NoRowBeatsItsLeaf
<1> SUFFICES ASSUME IInv, NEW s \in Node
             PROVE  /\ DOMAIN tree[s].leaf =
                         UNION {Surviving(table[r].doc) : r \in LiveRows(s)}
                    /\ \A p \in DOMAIN tree[s].leaf : \E r \in LiveRows(s) :
                         /\ p \in Surviving(table[r].doc)
                         /\ tree[s].leaf[p] = Incoming(table[r])[p]
                    /\ \A r \in LiveRows(s) : \A p \in Surviving(table[r].doc) :
                         /\ p \in DOMAIN tree[s].leaf
                         /\ ~Beats(Incoming(table[r])[p], tree[s].leaf[p])
  BY DEF LeavesAreTheRowsLeaves, LeavesComeFromRows, NoRowBeatsItsLeaf
<1>1. Holds(tree[s], RowSet(s))
  BY DEF IInv, StatesCorrect
<1>2. \A p \in DOMAIN tree[s].leaf : \E r \in LiveRows(s) :
        p \in Surviving(table[r].doc) /\ tree[s].leaf[p] = Incoming(table[r])[p]
  BY <1>1 DEF Holds, RowSet
<1>3. \A r \in LiveRows(s) : \A p \in Surviving(table[r].doc) :
        p \in DOMAIN tree[s].leaf /\ ~Beats(Incoming(table[r])[p], tree[s].leaf[p])
  BY <1>1 DEF Holds, RowSet
<1>4. DOMAIN tree[s].leaf = UNION {Surviving(table[r].doc) : r \in LiveRows(s)}
  BY <1>2, <1>3
<1>5. QED
  BY <1>2, <1>3, <1>4

\* Sort keys of rows order their keys: the one that is not beaten is the extreme.
LEMMA SortKeyOrdersKeys ==
  ASSUME NEW k \in OrderKey, NEW l \in OrderKey, ~(SortKey(l) > SortKey(k))
  PROVE  AtLeastAsExtreme(k, l)
<1>1. MaxKey \in Nat /\ Direction \in {"max", "min"} /\ k \in 0 .. MaxKey /\ l \in 0 .. MaxKey
  BY KeyAssumption DEF OrderKey
<1>2. CASE Direction = "max"
  BY <1>1, <1>2 DEF SortKey, AtLeastAsExtreme, NullKey
<1>3. CASE Direction = "min"
  BY <1>1, <1>3 DEF SortKey, AtLeastAsExtreme, NullKey
<1>4. QED
  BY <1>1, <1>2, <1>3

LEMMA InvariantGivesKeys == IInv => ExtremeKeyWins
<1> SUFFICES ASSUME IInv, NEW s \in Node, NEW p \in DOMAIN tree[s].leaf
             PROVE  \E r \in LiveRows(s) :
                      /\ p \in Surviving(table[r].doc)
                      /\ tree[s].leaf[p].val = table[r].doc.leaf[p]
                      /\ \A q \in LiveRows(s) :
                           p \in Surviving(table[q].doc) => AtLeastAsExtreme(table[r].key, table[q].key)
  BY DEF ExtremeKeyWins
<1>1. PICK r \in LiveRows(s) :
        p \in Surviving(table[r].doc) /\ tree[s].leaf[p] = Incoming(table[r])[p]
  BY InvariantGivesLeaves DEF LeavesComeFromRows
<1>2. tree[s].leaf[p] = [key |-> SortKey(table[r].key), val |-> table[r].doc.leaf[p]]
  BY <1>1 DEF Incoming
<1>3. ASSUME NEW q \in LiveRows(s), p \in Surviving(table[q].doc)
      PROVE  AtLeastAsExtreme(table[r].key, table[q].key)
  <2>1. ~Beats(Incoming(table[q])[p], tree[s].leaf[p])
    BY <1>3, InvariantGivesLeaves DEF NoRowBeatsItsLeaf
  <2>2. Incoming(table[q])[p] = [key |-> SortKey(table[q].key), val |-> table[q].doc.leaf[p]]
    BY <1>3 DEF Incoming
  <2>3. ~(SortKey(table[q].key) > SortKey(table[r].key))
    BY <1>2, <2>1, <2>2 DEF Beats
  <2>4. table[q].key \in OrderKey /\ table[r].key \in OrderKey
    BY <1>1, <1>3 DEF IInv, TypeOK, TableRow, LiveRows
  <2>5. QED
    BY <2>3, <2>4, SortKeyOrdersKeys
<1>4. QED
  BY <1>1, <1>2, <1>3

\* Folds, combines and windows in any order: a state holds exactly what the
\* winners among its rows say, path by path.
THEOREM WinnersHeld == Spec => []LeavesAreTheWinners
<1>1. IInv => LeavesAreTheWinners
  BY InvariantGivesLeaves, InvariantGivesKeys DEF LeavesAreTheWinners
<1>2. QED
  BY <1>1, Invariance, PTL

\* No leaf is lost and none is invented, by any order of folds and combines.
THEOREM LeavesKept == Spec => []LeavesAreTheRowsLeaves
  BY InvariantGivesLeaves, Invariance, PTL

\* A leaf's key and value always come from one and the same row.
THEOREM LeavesGenuine == Spec => []LeavesComeFromRows
  BY InvariantGivesLeaves, Invariance, PTL

\* The leaf a state kept is one no row that reached it beats.
THEOREM LastWriteWins == Spec => []NoRowBeatsItsLeaf
  BY InvariantGivesLeaves, Invariance, PTL

\* Rows that disagree on the kind of a path never meet in one state.
THEOREM MixedKindsFailLoud == Spec => []MixedKindsNeverMerge
<1>1. IInv => MixedKindsNeverMerge
  BY DEF IInv
<1>2. QED
  BY <1>1, Invariance, PTL

\* A group whose rows agree on every kind never fails.
THEOREM NoSpuriousFailure == Spec => []FailsOnlyOnMixedKinds
<1>1. IInv => FailsOnlyOnMixedKinds
  BY DEF IInv
<1>2. QED
  BY <1>1, Invariance, PTL

\* Mixed kinds fail the query before they meet in a state, and nothing else does.
THEOREM ConflictsFailLoudAndAlone == Spec => []MixedKindsFailAlone
<1>1. IInv => MixedKindsFailAlone
  BY DEF IInv, MixedKindsFailAlone
<1>2. QED
  BY <1>1, Invariance, PTL

\* States the same rows reached are equal: the aggregate may be registered as
\* not order dependent.
THEOREM OrderIndependence == Spec => []OrderIndependent
<1>1. IInv => OrderIndependent
  <2> SUFFICES ASSUME IInv, NEW s \in Node, NEW t \in Node, fed[s] = fed[t]
               PROVE  tree[s] = tree[t]
    BY DEF OrderIndependent
  <2>1. RowSet(s) = RowSet(t)
    BY DEF RowSet, LiveRows
  <2>2. /\ Holds(tree[s], RowSet(s)) /\ Holds(tree[t], RowSet(t))
        /\ RowSet(s) \in SUBSET LiveRow
    BY RowSetType DEF IInv, StatesCorrect
  <2>3. QED
    BY <2>1, <2>2, HoldsUnique
<1>2. QED
  BY <1>1, Invariance, PTL

-----------------------------------------------------------------------------
(* KeyedMerge implements KeyedAggregate. *)

\* A correct state is finalized to the aggregate of its rows.
LEMMA FinalizedIsAggregate ==
  ASSUME NEW node, NEW rows \in SUBSET TableRow,
         Holds(node, {row \in rows : row.doc # SqlNull})
  PROVE  Finalized(node) = Aggregate(rows)
<1> DEFINE live == {row \in rows : row.doc # SqlNull}
           having(p) == {row \in live : p \in Surviving(row.doc)}
           candidates(p) == {Incoming(row)[p] : row \in having(p)}
<1>1. live \in SUBSET LiveRow
  BY DEF LiveRow
<1>2. CASE live = {}
  BY <1>2 DEF Holds, Finalized, Aggregate
<1>3. CASE live # {}
  <2>1. node.has_input /\ node.obj = (\E row \in live : row.doc.obj)
    <3>1. \A row \in live : row.doc.obj \in BOOLEAN /\ row.doc.obj = node.obj
      BY <1>1, IncomingType DEF Holds, LiveRow
    <3>2. node.obj \in BOOLEAN /\ node.has_input
      BY <1>3 DEF Holds
    <3>3. QED
      BY <1>3, <3>1, <3>2
  <2>2. DOMAIN node.leaf = UNION {Surviving(row.doc) : row \in live}
    BY DEF Holds
  <2>3. ASSUME NEW p \in DOMAIN node.leaf
        PROVE  Winner(candidates(p)) = node.leaf[p]
    <3>1. node.leaf[p] \in candidates(p)
      BY DEF Holds
    <3>2. candidates(p) \in SUBSET Leaf
      <4>1. \A row \in having(p) : /\ Incoming(row) \in LeafMap
                                   /\ DOMAIN Incoming(row) = Surviving(row.doc)
        BY <1>1, IncomingType DEF LiveRow
      <4>2. QED
        BY <4>1, LeafMapElim
    <3>3. \A d \in candidates(p) : ~Beats(d, node.leaf[p])
      BY DEF Holds
    <3> HIDE DEF candidates
    <3>4. QED
      BY <3>1, <3>2, <3>3, WinnerIs
  <2>4. Aggregate(rows) =
          [obj  |-> \E row \in live : row.doc.obj,
           leaf |-> [p \in UNION {Surviving(row.doc) : row \in live} |->
                       Winner(candidates(p)).val]]
    BY <1>3 DEF Aggregate
  <2>5. Finalized(node) =
          [obj |-> node.obj, leaf |-> [p \in DOMAIN node.leaf |-> node.leaf[p].val]]
    BY <2>1 DEF Finalized
  <2>6. [p \in DOMAIN node.leaf |-> node.leaf[p].val] =
          [p \in UNION {Surviving(row.doc) : row \in live} |->
             Winner(candidates(p)).val]
    <3> HIDE DEF candidates, live
    <3>1. QED
      BY <2>2, <2>3
  <2>7. QED
    BY <2>1, <2>4, <2>5, <2>6
<1>4. QED
  BY <1>2, <1>3

\* Both specifications read a clash of kinds the same way.
LEMMA SameClash ==
  ASSUME NEW row1, NEW row2
  PROVE  Clash(row1, row2) <=> Promise!Clash(row1, row2)
<1>1. \A p, q : IsStrictPrefix(p, q) <=> Promise!IsStrictPrefix(p, q)
  BY DEF IsStrictPrefix, Promise!IsStrictPrefix, IsPrefix, Promise!IsPrefix
<1>2. QED
  BY <1>1 DEF Clash, Promise!Clash, KindClash, Promise!KindClash,
              Surviving, Promise!Surviving

LEMMA InitRefines == Init => Promise!Init
  BY DEF Init, Promise!Init, TableRow, Promise!TableRow, OrderKey, Promise!OrderKey

LEMMA StepRefines == IInv /\ [Next]_vars => [Promise!Next]_(Promise!vars)
<1> SUFFICES ASSUME IInv, [Next]_vars
             PROVE  [Promise!Next]_(Promise!vars)
  OBVIOUS
<1>1. ASSUME NEW s \in Node, NEW r \in Row, SkipNullRow(s, r) \/ FoldRow(s, r)
      PROVE  Promise!Feed(s, r)
  BY <1>1 DEF SkipNullRow, FoldRow, Running, Promise!Feed, Promise!Running
<1>2. FailsOnlyOnMixedKinds' => (failed' => Promise!MixedKinds')
  BY SameClash DEF FailsOnlyOnMixedKinds, Promise!MixedKinds
<1>3. IInv'
  BY StepCorrect
<1>4. ASSUME Fail, ~failed
      PROVE  Promise!Abort
  <2>1. Promise!MixedKinds'
    BY <1>2, <1>3, <1>4 DEF IInv, Fail
  <2>2. Promise!MixedKinds
    BY <1>4, <2>1 DEF Fail, Promise!MixedKinds
  <2>3. QED
    BY <1>4, <2>2 DEF Fail, Promise!Abort
<1>5. ASSUME NEW source \in Node, NEW target \in Node, NEW destructive \in BOOLEAN,
             Combine(source, target, destructive)
      PROVE  Promise!Merge(source, target, destructive)
  BY <1>5 DEF Combine, Running, Promise!Merge, Promise!Running
<1>6. ASSUME NEW s \in Node, Finalize(s)
      PROVE  Promise!Produce(s)
  <2>1. Promise!RowsOf(s) \in SUBSET TableRow
    BY DEF IInv, TypeOK, Promise!RowsOf
  <2>2. {row \in Promise!RowsOf(s) : row.doc # SqlNull} = RowSet(s)
    BY DEF Promise!RowsOf, RowSet, LiveRows
  <2>3. Finalized(tree[s]) = Aggregate(Promise!RowsOf(s))
    BY <2>1, <2>2, FinalizedIsAggregate DEF IInv, StatesCorrect
  <2>4. Aggregate(Promise!RowsOf(s)) = Promise!Aggregate(Promise!RowsOf(s))
    BY DEF Aggregate, Promise!Aggregate, Winner, Promise!Winner, Beats, Promise!Beats,
           Incoming, Promise!Incoming, Surviving, Promise!Surviving,
           SortKey, Promise!SortKey, NullKey, Promise!NullKey
  <2>5. Promise!ConsistentRows(s)
    BY SameClash DEF IInv, MixedKindsNeverMerge, Promise!ConsistentRows
  <2>6. QED
    BY <1>6, <2>3, <2>4, <2>5 DEF Finalize, Running, Promise!Produce, Promise!Running
<1>7. CASE UNCHANGED vars
  BY <1>7 DEF vars, Promise!vars
<1>8. QED
  <2>1. CASE \E s \in Node, r \in Row : SkipNullRow(s, r) \/ FoldRow(s, r)
    BY <1>1, <2>1 DEF Promise!Next
  <2>2. CASE \/ \E s \in Node, r \in Row : FoldRowConflict(s, r)
             \/ \E source, target \in Node : CombineConflict(source, target)
    <3>1. Fail /\ ~failed
      BY <2>2 DEF FoldRowConflict, CombineConflict, Running
    <3>2. QED
      BY <1>4, <3>1 DEF Promise!Next
  <2>3. CASE \E source, target \in Node, destructive \in BOOLEAN :
               Combine(source, target, destructive)
    BY <1>5, <2>3 DEF Promise!Next
  <2>4. CASE \E s \in Node : Finalize(s)
    BY <1>6, <2>4 DEF Promise!Next
  <2>5. QED
    BY <1>7, <2>1, <2>2, <2>3, <2>4 DEF Next

\* The plain keyed aggregate implements its promise: its result is a function
\* of the set of rows, and it fails exactly where the promise allows it to.
THEOREM Implementation == Spec => ImplementsPromise
<1>1. Init => Promise!Init
  BY InitRefines
<1>2. IInv /\ [Next]_vars => [Promise!Next]_(Promise!vars)
  BY StepRefines
<1>3. QED
  BY <1>1, <1>2, Invariance, PTL DEF Spec, ImplementsPromise, Promise!Spec
=============================================================================
