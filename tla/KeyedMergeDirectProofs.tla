------------------------ MODULE KeyedMergeDirectProofs ------------------------
(* Theorems about KeyedMergeDirect, for any rows, states, documents and lanes. *)
EXTENDS KeyedMergeDirect, KeyedRowsLemmas, TLAPS

-----------------------------------------------------------------------------
(* The inductive invariant. *)

StateSpace ==
  [has_input : BOOLEAN, obj : BOOLEAN, leaf : LeafMap,
   scalar : LeafMap, list : LeafMap, lanes_made : BOOLEAN]

\* What a map of leaves holds at a path is at least as good as what a row says.
Carries(map, row, p) == p \in DOMAIN map /\ ~Beats(Incoming(row)[p], map[p])

\* The part of the invariant that concerns one state, for a set of live rows.
\* Every leaf of the tree and every lane slot is what one of the rows says, and
\* everything a row says is held in one of the three places or is beaten there.
Holds(st, rows) ==
  /\ st \in StateSpace
  /\ st.has_input <=> rows # {}
  /\ ~st.has_input => /\ st.obj
                      /\ DOMAIN st.leaf = {} /\ DOMAIN st.scalar = {} /\ DOMAIN st.list = {}
  /\ \A row \in rows : st.obj = row.doc.obj
  /\ \A p \in DOMAIN st.leaf : \E row \in rows :
       p \in Surviving(row.doc) /\ st.leaf[p] = Incoming(row)[p]
  /\ \A l \in DOMAIN st.scalar : \E row \in rows :
       l \in ScalarManifest(row.doc) /\ st.scalar[l] = Incoming(row)[l]
  /\ \A l \in DOMAIN st.list : \E row \in rows :
       l \in ListManifest(row.doc) /\ st.list[l] = Incoming(row)[l]
  /\ \A row \in rows : \A p \in Surviving(row.doc) :
       \/ Carries(st.leaf, row, p)
       \/ Carries(st.scalar, row, p)
       \/ Carries(st.list, row, p)
  /\ \A p, q \in DOMAIN st.leaf : ~IsStrictPrefix(p, q)

RowSet(s) == {table[r] : r \in LiveRows(s)}

TypeOK ==
  /\ table \in [Row -> TableRow]
  /\ fed \in [Node -> SUBSET Row]
  /\ failed \in BOOLEAN
  /\ state \in [Node -> StateSpace]
  /\ out \in [Node -> ResultRow \cup {Pending, SqlNull}]

\* A state is not touched once its result is out.
ResultsAreFinal ==
  \A s \in Node : out[s] # Pending =>
    ~FinalizeConflict(state[s]) /\ out[s] = Finalized(state[s])

StatesCorrect == \A s \in Node : Holds(state[s], RowSet(s))

IInv == TypeOK /\ StatesCorrect /\ ResultsAreFinal

-----------------------------------------------------------------------------
(* A shredded row, seen as a state of its own. *)

\* What the direct path takes from a row: its residual and its lanes.
RowState(row) ==
  [has_input |-> TRUE, obj |-> row.doc.obj, leaf |-> Residual(row),
   scalar |-> LaneValues(row, ScalarManifest(row.doc)),
   list |-> LaneValues(row, ListManifest(row.doc)),
   lanes_made |-> Lane # {}]

\* What a reconstructed row adds: a document and no lanes.
PlainState(row) ==
  [EmptyState EXCEPT !.has_input = TRUE, !.obj = row.doc.obj, !.leaf = Incoming(row)]

\* A state nothing reached holds nothing.
LEMMA EmptyStateFields ==
  /\ EmptyState \in StateSpace
  /\ ~EmptyState.has_input /\ EmptyState.obj /\ ~EmptyState.lanes_made
  /\ DOMAIN EmptyState.leaf = {} /\ DOMAIN EmptyState.scalar = {} /\ DOMAIN EmptyState.list = {}
<1>1. [p \in {} |-> 0] \in [{} -> Leaf]
  OBVIOUS
<1>2. [p \in {} |-> 0] \in LeafMap
  BY <1>1, LeafMapIntro
<1>3. EmptyState \in StateSpace
  BY <1>2 DEF EmptyState, StateSpace
<1>4. QED
  BY <1>3 DEF EmptyState

\* A manifest lists surviving leaves: no lane type holds a null or {}.
LEMMA ManifestsSurvive ==
  ASSUME NEW row \in LiveRow
  PROVE  /\ ScalarManifest(row.doc) \subseteq ScalarLane \cap Surviving(row.doc)
         /\ ListManifest(row.doc) \subseteq ListLane \cap Surviving(row.doc)
         /\ \A l \in ScalarManifest(row.doc) : row.doc.leaf[l] \in Fit[l]
<1>1. \A l \in ScalarLane : Null \notin Fit[l] /\ EmptyObject \notin Fit[l]
  BY LaneAssumption
<1>2. QED
  BY <1>1, LaneAssumption DEF ScalarManifest, ListManifest, Surviving

\* Strict prefixes need not be looked for at the leaf itself.
LEMMA StrictPrefixIrreflexive == \A p : ~IsStrictPrefix(p, p)
  BY DEF IsStrictPrefix

\* Residual and lanes share a row's surviving leaves among them.
LEMMA RowParts ==
  ASSUME NEW row \in LiveRow
  PROVE  /\ Residual(row) \in LeafMap
         /\ DOMAIN Residual(row) =
              Surviving(row.doc) \ (ScalarManifest(row.doc) \cup ListManifest(row.doc))
         /\ \A p \in DOMAIN Residual(row) : Residual(row)[p] = Incoming(row)[p]
         /\ \A lanes \in {ScalarManifest(row.doc), ListManifest(row.doc)} :
              /\ LaneValues(row, lanes) \in LeafMap
              /\ DOMAIN LaneValues(row, lanes) = lanes
              /\ \A l \in lanes : LaneValues(row, lanes)[l] = Incoming(row)[l]
<1> DEFINE kept == Surviving(row.doc) \ (ScalarManifest(row.doc) \cup ListManifest(row.doc))
<1>1. /\ Incoming(row) \in LeafMap
      /\ DOMAIN Incoming(row) = Surviving(row.doc)
  BY IncomingType DEF LiveRow
<1>2. /\ \A p \in Surviving(row.doc) : Incoming(row)[p] \in Leaf
      /\ Surviving(row.doc) \subseteq Path
  BY <1>1, LeafMapElim
<1>3. Residual(row) = [p \in kept |-> Incoming(row)[p]]
  BY DEF Residual, Restrict
<1>4. Residual(row) \in [kept -> Leaf]
  BY <1>2, <1>3
<1>5. Residual(row) \in LeafMap
  BY <1>2, <1>4, LeafMapIntro
<1>6. ASSUME NEW lanes \in {ScalarManifest(row.doc), ListManifest(row.doc)}
      PROVE  /\ LaneValues(row, lanes) \in LeafMap
             /\ DOMAIN LaneValues(row, lanes) = lanes
             /\ \A l \in lanes : LaneValues(row, lanes)[l] = Incoming(row)[l]
  <2>1. lanes \subseteq Surviving(row.doc)
    BY ManifestsSurvive
  <2>2. \A l \in lanes : LaneValues(row, lanes)[l] = Incoming(row)[l]
    BY <2>1 DEF LaneValues, Incoming
  <2>3. LaneValues(row, lanes) \in [lanes -> Leaf]
    BY <1>2, <2>1, <2>2 DEF LaneValues
  <2>4. LaneValues(row, lanes) \in LeafMap
    BY <1>2, <2>1, <2>3, LeafMapIntro
  <2>5. QED
    BY <2>2, <2>4 DEF LaneValues
<1>7. QED
  BY <1>3, <1>5, <1>6

LEMMA NothingBeatsItself == \A x \in Leaf : ~Beats(x, x)
  BY LeafFields DEF Beats

\* One shredded row is correct for itself.
LEMMA RowStateHolds ==
  ASSUME NEW row \in LiveRow
  PROVE  Holds(RowState(row), {row})
<1> DEFINE st == RowState(row)
<1>1. /\ row.doc \in Doc
      /\ row.doc.obj \in BOOLEAN
      /\ Incoming(row) \in LeafMap
      /\ DOMAIN Incoming(row) = Surviving(row.doc)
  BY IncomingType DEF LiveRow
<1>2. \A p \in Surviving(row.doc) : ~Beats(Incoming(row)[p], Incoming(row)[p])
  BY <1>1, LeafMapElim, NothingBeatsItself
<1>3. /\ st.leaf = Residual(row)
      /\ st.scalar = LaneValues(row, ScalarManifest(row.doc))
      /\ st.list = LaneValues(row, ListManifest(row.doc))
      /\ st.has_input /\ st.obj = row.doc.obj
  BY DEF RowState
<1>4. st \in StateSpace
  BY <1>1, RowParts DEF RowState, StateSpace
<1>5. \A p \in Surviving(row.doc) :
        Carries(st.leaf, row, p) \/ Carries(st.scalar, row, p) \/ Carries(st.list, row, p)
  <2> HIDE DEF st
  <2>1. /\ DOMAIN st.leaf =
             Surviving(row.doc) \ (ScalarManifest(row.doc) \cup ListManifest(row.doc))
        /\ \A p \in DOMAIN st.leaf : st.leaf[p] = Incoming(row)[p]
    BY <1>3, RowParts
  <2>2. /\ DOMAIN st.scalar = ScalarManifest(row.doc)
        /\ \A p \in DOMAIN st.scalar : st.scalar[p] = Incoming(row)[p]
    BY <1>3, RowParts
  <2>3. /\ DOMAIN st.list = ListManifest(row.doc)
        /\ \A p \in DOMAIN st.list : st.list[p] = Incoming(row)[p]
    BY <1>3, RowParts
  <2>4. QED
    BY <1>2, <2>1, <2>2, <2>3 DEF Carries
<1>6. \A p, q \in DOMAIN st.leaf : ~IsStrictPrefix(p, q)
  BY <1>1, <1>3, RowParts, DocAssumption DEF Surviving
<1>7. /\ \A p \in DOMAIN st.leaf : p \in Surviving(row.doc) /\ st.leaf[p] = Incoming(row)[p]
      /\ \A l \in DOMAIN st.scalar : l \in ScalarManifest(row.doc) /\ st.scalar[l] = Incoming(row)[l]
      /\ \A l \in DOMAIN st.list : l \in ListManifest(row.doc) /\ st.list[l] = Incoming(row)[l]
  BY <1>3, RowParts
<1> HIDE DEF st
<1>8. Holds(st, {row})
  BY <1>3, <1>4, <1>5, <1>6, <1>7 DEF Holds
<1>9. QED
  BY <1>8 DEF st

\* And so is one that was reconstructed.
LEMMA PlainStateHolds ==
  ASSUME NEW row \in LiveRow
  PROVE  Holds(PlainState(row), {row})
<1> DEFINE st == PlainState(row)
<1>1. /\ row.doc \in Doc
      /\ row.doc.obj \in BOOLEAN
      /\ Incoming(row) \in LeafMap
      /\ DOMAIN Incoming(row) = Surviving(row.doc)
  BY IncomingType DEF LiveRow
<1>2. \A p \in Surviving(row.doc) : ~Beats(Incoming(row)[p], Incoming(row)[p])
  BY <1>1, LeafMapElim, NothingBeatsItself
<1>3. /\ st \in StateSpace
      /\ st.has_input /\ st.obj = row.doc.obj /\ st.leaf = Incoming(row)
      /\ DOMAIN st.scalar = {} /\ DOMAIN st.list = {}
  BY <1>1, EmptyStateFields DEF PlainState, StateSpace
<1>5. \A p \in Surviving(row.doc) : Carries(st.leaf, row, p)
  BY <1>1, <1>2, <1>3 DEF Carries
<1>6. \A p, q \in DOMAIN st.leaf : ~IsStrictPrefix(p, q)
  BY <1>1, <1>3, DocAssumption DEF Surviving
<1> HIDE DEF st
<1>8. Holds(st, {row})
  BY <1>1, <1>3, <1>5, <1>6 DEF Holds
<1>9. QED
  BY <1>8 DEF st

-----------------------------------------------------------------------------
(* Absorbing one state into another. *)

LEMMA AbsorbFields ==
  ASSUME NEW st \in StateSpace, NEW other \in StateSpace
  PROVE  /\ AbsorbState(st, other) \in StateSpace
         /\ AbsorbState(st, other).has_input
         /\ AbsorbState(st, other).obj = IF st.has_input THEN st.obj ELSE other.obj
         /\ AbsorbState(st, other).leaf =
              IF st.has_input THEN MergeLeaves(st.leaf, other.leaf) ELSE other.leaf
         /\ AbsorbState(st, other).scalar = MergeLeaves(st.scalar, other.scalar)
         /\ AbsorbState(st, other).list = MergeLeaves(st.list, other.list)
         /\ AbsorbState(st, other).lanes_made = (st.lanes_made \/ other.lanes_made)
<1> DEFINE folded == AbsorbTree(st, other.obj, other.leaf)
<1>0. PICK made \in BOOLEAN : made = (st.lanes_made \/ other.lanes_made)
  OBVIOUS
<1>1. /\ MergeLeaves(st.leaf, other.leaf) \in LeafMap
      /\ MergeLeaves(st.scalar, other.scalar) \in LeafMap
      /\ MergeLeaves(st.list, other.list) \in LeafMap
  <2>1. \A old, new \in LeafMap : MergeLeaves(old, new) \in LeafMap
    BY MergeLeavesCorrect
  <2>2. QED
    BY <2>1 DEF StateSpace
<1>2. /\ folded \in StateSpace
      /\ folded.has_input
      /\ folded.obj = IF st.has_input THEN st.obj ELSE other.obj
      /\ folded.leaf =
           IF st.has_input THEN MergeLeaves(st.leaf, other.leaf) ELSE other.leaf
      /\ folded.scalar = st.scalar /\ folded.list = st.list
      /\ folded.lanes_made = st.lanes_made
  BY <1>1 DEF AbsorbTree, StateSpace
<1>3. AbsorbState(st, other) =
        [folded EXCEPT !.lanes_made = made,
                       !.scalar = MergeLeaves(st.scalar, other.scalar),
                       !.list = MergeLeaves(st.list, other.list)]
  BY <1>0, <1>2 DEF AbsorbState
<1> HIDE DEF folded
<1>4. /\ AbsorbState(st, other).has_input
      /\ AbsorbState(st, other).obj = folded.obj
      /\ AbsorbState(st, other).leaf = folded.leaf
      /\ AbsorbState(st, other).scalar = MergeLeaves(st.scalar, other.scalar)
      /\ AbsorbState(st, other).list = MergeLeaves(st.list, other.list)
      /\ AbsorbState(st, other).lanes_made = made
  BY <1>2, <1>3 DEF StateSpace
<1>5. AbsorbState(st, other) \in StateSpace
  BY <1>1, <1>2, <1>3 DEF StateSpace
<1>6. QED
  BY <1>0, <1>2, <1>4, <1>5

\* Merging keeps what either map carries for a row.
LEMMA MergeCarries ==
  ASSUME NEW old \in LeafMap, NEW new \in LeafMap,
         NEW row \in LiveRow, NEW p \in Surviving(row.doc),
         Carries(old, row, p) \/ Carries(new, row, p)
  PROVE  Carries(MergeLeaves(old, new), row, p)
<1> DEFINE M == MergeLeaves(old, new)
           x == Incoming(row)[p]
<1>1. x \in Leaf
  BY IncomingType, LeafMapElim DEF LiveRow
<1>2. M \in LeafMap /\ MergedFrom(M, old, new)
  BY MergeIsMerged
<1> HIDE DEF M
<1>3. /\ \A q \in DOMAIN old : old[q] \in Leaf
      /\ \A q \in DOMAIN new : new[q] \in Leaf
      /\ \A q \in DOMAIN M : M[q] \in Leaf
  BY <1>2, LeafMapElim
<1>4. p \in DOMAIN M
  BY <1>2 DEF Carries, MergedFrom
<1>5. PICK y \in Leaf : ~Beats(x, y) /\ ~Beats(y, M[p])
  BY <1>2, <1>3 DEF Carries, MergedFrom
<1> HIDE DEF x
<1>6. ~Beats(x, M[p])
  BY <1>1, <1>3, <1>4, <1>5, BeatsTransitive
<1>7. QED
  BY <1>4, <1>6 DEF Carries, M, x

\* Absorbing one correct state into another that agrees with it on the kinds of
\* the tree's paths gives a state correct for the rows of both.
LEMMA AbsorbCorrect ==
  ASSUME NEW st, NEW rows \in SUBSET LiveRow, Holds(st, rows),
         NEW other, NEW others \in SUBSET LiveRow, Holds(other, others),
         other.has_input,
         ~Conflicts(st, other.obj, other.leaf)
  PROVE  Holds(AbsorbState(st, other), rows \cup others)
<1> DEFINE M == AbsorbState(st, other)
           N == MergeLeaves(st.leaf, other.leaf)
<1>1. st \in StateSpace /\ other \in StateSpace
  BY DEF Holds
<1>2. /\ st.leaf \in LeafMap /\ st.scalar \in LeafMap /\ st.list \in LeafMap
      /\ other.leaf \in LeafMap /\ other.scalar \in LeafMap /\ other.list \in LeafMap
  BY <1>1 DEF StateSpace
<1>3. /\ M \in StateSpace /\ M.has_input
      /\ M.obj = IF st.has_input THEN st.obj ELSE other.obj
      /\ M.leaf = IF st.has_input THEN N ELSE other.leaf
      /\ M.scalar = MergeLeaves(st.scalar, other.scalar)
      /\ M.list = MergeLeaves(st.list, other.list)
  BY <1>1, AbsorbFields
<1>4. MergedFrom(N, st.leaf, other.leaf)
  BY <1>2, MergeIsMerged
<1>5. /\ \A l \in DOMAIN M.scalar :
           \/ l \in DOMAIN st.scalar /\ M.scalar[l] = st.scalar[l]
           \/ l \in DOMAIN other.scalar /\ M.scalar[l] = other.scalar[l]
      /\ \A l \in DOMAIN M.list :
           \/ l \in DOMAIN st.list /\ M.list[l] = st.list[l]
           \/ l \in DOMAIN other.list /\ M.list[l] = other.list[l]
  <2> DEFINE S == MergeLeaves(st.scalar, other.scalar)
             L == MergeLeaves(st.list, other.list)
  <2>1. MergedFrom(S, st.scalar, other.scalar) /\ MergedFrom(L, st.list, other.list)
    BY <1>2, MergeIsMerged
  <2> HIDE DEF M
  <2>2. M.scalar = S /\ M.list = L
    BY <1>3
  <2> HIDE DEF S, L
  <2>3. QED
    BY <2>1, <2>2 DEF MergedFrom
<1>6. \A p \in DOMAIN M.leaf : \/ p \in DOMAIN st.leaf /\ M.leaf[p] = st.leaf[p]
                               \/ p \in DOMAIN other.leaf /\ M.leaf[p] = other.leaf[p]
  <2> HIDE DEF N, M
  <2>1. QED
    BY <1>3, <1>4 DEF MergedFrom
<1>7. \A row \in rows \cup others : M.obj = row.doc.obj
  <2>1. CASE st.has_input
    BY <1>3, <2>1 DEF Holds, Conflicts, KindClash
  <2>2. CASE ~st.has_input
    BY <1>3, <2>2 DEF Holds
  <2>3. QED
    BY <2>1, <2>2
<1>8. \A p, q \in DOMAIN M.leaf : ~IsStrictPrefix(p, q)
  <2> HIDE DEF M, N
  <2>1. CASE st.has_input
    <3>1. \A p \in DOMAIN st.leaf, q \in DOMAIN other.leaf :
            ~IsStrictPrefix(p, q) /\ ~IsStrictPrefix(q, p)
      BY <2>1 DEF Conflicts, KindClash
    <3>2. QED
      BY <1>3, <1>4, <2>1, <3>1 DEF Holds, MergedFrom
  <2>2. CASE ~st.has_input
    BY <1>3, <2>2 DEF Holds
  <2>3. QED
    BY <2>1, <2>2
<1>9. ASSUME NEW row \in rows \cup others, NEW p \in Surviving(row.doc)
      PROVE  Carries(M.leaf, row, p) \/ Carries(M.scalar, row, p) \/ Carries(M.list, row, p)
  <2> HIDE DEF M
  <2>1. row \in LiveRow
    OBVIOUS
  <2>2. \/ Carries(st.leaf, row, p) \/ Carries(other.leaf, row, p)
        \/ Carries(st.scalar, row, p) \/ Carries(other.scalar, row, p)
        \/ Carries(st.list, row, p) \/ Carries(other.list, row, p)
    BY DEF Holds
  <2>3. CASE Carries(st.leaf, row, p) \/ Carries(other.leaf, row, p)
    <3>1. CASE st.has_input
      <4>1. Carries(N, row, p)
        BY <1>2, <2>1, <2>3, MergeCarries
      <4>2. QED
        BY <1>3, <3>1, <4>1
    <3>2. CASE ~st.has_input
      <4>1. ~Carries(st.leaf, row, p)
        BY <3>2 DEF Holds, Carries
      <4>2. QED
        BY <1>3, <2>3, <3>2, <4>1
    <3>3. QED
      BY <3>1, <3>2
  <2>4. CASE Carries(st.scalar, row, p) \/ Carries(other.scalar, row, p)
    BY <1>2, <1>3, <2>1, <2>4, MergeCarries
  <2>5. CASE Carries(st.list, row, p) \/ Carries(other.list, row, p)
    BY <1>2, <1>3, <2>1, <2>5, MergeCarries
  <2>6. QED
    BY <2>2, <2>3, <2>4, <2>5
<1>10. rows \cup others # {}
  BY DEF Holds
<1>11. /\ \A p \in DOMAIN M.leaf : \E row \in rows \cup others :
            p \in Surviving(row.doc) /\ M.leaf[p] = Incoming(row)[p]
       /\ \A l \in DOMAIN M.scalar : \E row \in rows \cup others :
            l \in ScalarManifest(row.doc) /\ M.scalar[l] = Incoming(row)[l]
       /\ \A l \in DOMAIN M.list : \E row \in rows \cup others :
            l \in ListManifest(row.doc) /\ M.list[l] = Incoming(row)[l]
  <2> HIDE DEF M
  <2>1. QED
    BY <1>5, <1>6 DEF Holds
<1> HIDE DEF M, N
<1>12. Holds(M, rows \cup others)
  BY <1>3, <1>7, <1>8, <1>9, <1>10, <1>11 DEF Holds
<1>13. QED
  BY <1>12 DEF M

\* Merging what an equal or better leaf is there for changes nothing.
LEMMA MergeUnchanged ==
  ASSUME NEW old \in LeafMap, NEW new,
         DOMAIN new \subseteq DOMAIN old,
         \A p \in DOMAIN new : ~Beats(new[p], old[p])
  PROVE  MergeLeaves(old, new) = old
<1>1. old \in [DOMAIN old -> Leaf]
  BY LeafMapElim
<1>2. MergeLeaves(old, new) = [p \in DOMAIN old |-> old[p]]
  BY DEF MergeLeaves
<1>3. QED
  BY <1>1, <1>2

\* Skipping the scalar lanes that have all lost is only an optimisation: the
\* direct path absorbs the row as it would absorb a state of that row alone.
LEMMA DirectAbsorbsRow ==
  ASSUME NEW st \in StateSpace, NEW row \in LiveRow
  PROVE  AbsorbDirect(st, row) = AbsorbState(st, RowState(row))
<1> DEFINE folded == AbsorbTree(st, row.doc.obj, Residual(row))
           S == LaneValues(row, ScalarManifest(row.doc))
           L == LaneValues(row, ListManifest(row.doc))
<1>1. PICK made \in BOOLEAN : made = (st.lanes_made \/ Lane # {})
  OBVIOUS
<1>2. st.scalar \in LeafMap /\ st.lanes_made \in BOOLEAN
  BY DEF StateSpace
<1>3. DOMAIN S = ScalarManifest(row.doc) /\ S \in LeafMap
  BY RowParts
<1>4. ASSUME CanSkipScalars(st, row)
      PROVE  MergeLeaves(st.scalar, S) = st.scalar
  <2>1. \A l \in DOMAIN S : l \in DOMAIN st.scalar /\ st.scalar[l].key > SortKey(row.key)
    BY <1>3, <1>4 DEF CanSkipScalars
  <2>2. ASSUME NEW l \in DOMAIN S
        PROVE  ~Beats(S[l], st.scalar[l])
    <3>1. S[l] = [key |-> SortKey(row.key), val |-> row.doc.leaf[l]]
      BY <1>3 DEF LaneValues
    <3>2. S[l].key = SortKey(row.key)
      BY <3>1
    <3>3. S[l] \in Leaf /\ st.scalar[l] \in Leaf
      BY <1>2, <1>3, <2>1, LeafMapElim
    <3> HIDE DEF S
    <3>4. S[l].key \in Nat /\ st.scalar[l].key \in Nat
      BY <3>3, LeafFields
    <3>5. QED
      BY <2>1, <3>2, <3>4 DEF Beats
  <2> HIDE DEF S
  <2>3. QED
    BY <1>2, <2>1, <2>2, MergeUnchanged
<1>5. /\ folded.scalar = st.scalar /\ folded.list = st.list
      /\ folded.lanes_made = st.lanes_made
      /\ folded \in [has_input : BOOLEAN, obj : {folded.obj}, leaf : {folded.leaf},
                     scalar : LeafMap, list : LeafMap, lanes_made : BOOLEAN]
  BY DEF AbsorbTree, StateSpace
<1>6. AbsorbDirect(st, row) =
        [folded EXCEPT !.lanes_made = made,
                       !.list = MergeLeaves(st.list, L),
                       !.scalar = MergeLeaves(st.scalar, S)]
  BY <1>1, <1>4, <1>5, Zenon DEF AbsorbDirect
<1>7. AbsorbState(st, RowState(row)) =
        [folded EXCEPT !.lanes_made = made,
                       !.scalar = MergeLeaves(st.scalar, S),
                       !.list = MergeLeaves(st.list, L)]
  <2>1. /\ RowState(row).obj = row.doc.obj
        /\ RowState(row).leaf = Residual(row)
        /\ RowState(row).scalar = S
        /\ RowState(row).list = L
        /\ RowState(row).lanes_made = (Lane # {})
    BY DEF RowState
  <2>2. QED
    BY <1>1, <1>5, <2>1, Zenon DEF AbsorbState
<1> HIDE DEF folded, S, L
<1>8. QED
  BY <1>5, <1>6, <1>7

\* Folding a reconstructed row leaves the lane slots as they are.
LEMMA ReconstructedAbsorbsRow ==
  ASSUME NEW st \in StateSpace, NEW row \in LiveRow
  PROVE  AbsorbTree(st, row.doc.obj, Incoming(row)) = AbsorbState(st, PlainState(row))
<1> DEFINE folded == AbsorbTree(st, row.doc.obj, Incoming(row))
           plain == PlainState(row)
<1>1. /\ plain.obj = row.doc.obj /\ plain.leaf = Incoming(row)
      /\ DOMAIN plain.scalar = {} /\ DOMAIN plain.list = {}
      /\ ~plain.lanes_made
  BY EmptyStateFields DEF PlainState, StateSpace
<1>2. /\ MergeLeaves(st.scalar, plain.scalar) = st.scalar
      /\ MergeLeaves(st.list, plain.list) = st.list
  <2>1. st.scalar \in LeafMap /\ st.list \in LeafMap
    BY DEF StateSpace
  <2> HIDE DEF plain
  <2>2. QED
    BY <1>1, <2>1, MergeUnchanged
<1>3. /\ folded.scalar = st.scalar /\ folded.list = st.list
      /\ folded.lanes_made = st.lanes_made
      /\ folded \in [has_input : BOOLEAN, obj : {folded.obj}, leaf : {folded.leaf},
                     scalar : LeafMap, list : LeafMap, lanes_made : BOOLEAN]
  BY DEF AbsorbTree, StateSpace
<1>4. PICK made \in BOOLEAN : made = (st.lanes_made \/ plain.lanes_made)
  OBVIOUS
<1>5. made = folded.lanes_made
  BY <1>1, <1>3, <1>4
<1>6. AbsorbState(st, plain) =
        [folded EXCEPT !.lanes_made = made, !.scalar = st.scalar, !.list = st.list]
  BY <1>1, <1>2, <1>3, <1>4, Zenon DEF AbsorbState
<1> HIDE DEF folded, plain
<1>7. folded = AbsorbState(st, plain)
  BY <1>3, <1>5, <1>6
<1>8. QED
  BY <1>7 DEF folded, plain

-----------------------------------------------------------------------------
(* Conflicts and clashes. *)

\* Lanes are separate when none lies within another.
SeparateLanes == \A l, m \in Lane : ~IsStrictPrefix(l, m)

\* The roots of all documents are objects.
RootsAreObjects == \A d \in Doc : d.obj

\* A conflict between two trees is raised only for two rows that clash.
LEMMA ConflictMeansClash ==
  ASSUME NEW st, NEW rows \in SUBSET LiveRow, Holds(st, rows),
         NEW other, NEW others \in SUBSET LiveRow, Holds(other, others),
         other.has_input,
         Conflicts(st, other.obj, other.leaf)
  PROVE  \E row1 \in rows, row2 \in others : Clash(row1, row2)
<1>1. \A row \in rows \cup others : row.doc # SqlNull
  BY DEF LiveRow
<1>2. CASE st.obj # other.obj
  <2>1. PICK row1 \in rows, row2 \in others : TRUE
    BY DEF Holds, Conflicts
  <2>2. row1.doc.obj # row2.doc.obj
    BY <1>2 DEF Holds
  <2>3. QED
    BY <1>1, <2>2 DEF Clash, KindClash
<1>3. CASE st.obj = other.obj
  <2>1. PICK p \in DOMAIN st.leaf, q \in DOMAIN other.leaf :
          IsStrictPrefix(p, q) \/ IsStrictPrefix(q, p)
    BY <1>3 DEF Conflicts, KindClash
  <2>2. PICK row1 \in rows : p \in Surviving(row1.doc)
    BY DEF Holds
  <2>3. PICK row2 \in others : q \in Surviving(row2.doc)
    BY DEF Holds
  <2>4. QED
    BY <1>1, <2>1, <2>2, <2>3 DEF Clash, KindClash
<1>4. QED
  BY <1>2, <1>3

\* What is in a lane slot survives in one of the rows.
LEMMA SlotsSurvive ==
  ASSUME NEW st, NEW rows \in SUBSET LiveRow, Holds(st, rows)
  PROVE  /\ DOMAIN st.scalar \subseteq ScalarLane
         /\ DOMAIN st.list \subseteq ListLane
         /\ \A l \in DOMAIN st.scalar \cup DOMAIN st.list : \E row \in rows :
              l \in Surviving(row.doc)
  BY ManifestsSurvive DEF Holds

\* Over objects Finalize, too, fails only for two rows that clash.
LEMMA FinalizeConflictMeansClash ==
  ASSUME RootsAreObjects,
         NEW st, NEW rows \in SUBSET LiveRow, Holds(st, rows),
         FinalizeConflict(st)
  PROVE  \E row1 \in rows, row2 \in rows : Clash(row1, row2)
<1>1. st.obj
  BY DEF Holds, RootsAreObjects, LiveRow, TableRow
<1>2. PICK l \in DOMAIN st.scalar \cup DOMAIN st.list, q \in DOMAIN st.leaf :
        IsStrictPrefix(l, q) \/ IsStrictPrefix(q, l)
  BY <1>1 DEF FinalizeConflict, HoldsObjectAt, HoldsLeafAbove
<1>3. PICK row1 \in rows : l \in Surviving(row1.doc)
  BY SlotsSurvive
<1>4. PICK row2 \in rows : q \in Surviving(row2.doc)
  BY DEF Holds
<1>5. row1.doc # SqlNull /\ row2.doc # SqlNull
  BY DEF LiveRow
<1>6. QED
  BY <1>2, <1>3, <1>4, <1>5 DEF Clash, KindClash

\* Nothing lies above a member of the root but the root.
LEMMA AboveListLane ==
  ASSUME NEW l \in ListLane, NEW q \in Path, IsStrictPrefix(q, l)
  PROVE  q = <<>>
<1>1. l \in Path /\ Len(l) = 1
  BY LaneAssumption
<1>2. q \in Seq(STRING) /\ l \in Seq(STRING)
  BY <1>1, DocAssumption DEF Path
<1>3. Len(q) <= Len(l) /\ q # l /\ SubSeq(q, 1, Len(q)) = SubSeq(l, 1, Len(q))
  BY DEF IsStrictPrefix, IsPrefix
<1>4. CASE Len(q) = 0
  BY <1>2, <1>4
<1>5. CASE Len(q) = 1
  <2>1. SubSeq(q, 1, 1) = q /\ SubSeq(l, 1, 1) = l
    BY <1>1, <1>2, <1>5
  <2>2. QED
    BY <1>3, <1>5, <2>1
<1>6. QED
  BY <1>1, <1>2, <1>3, <1>4, <1>5

\* Where the root of a row is an object, no leaf of it is the root.
LEMMA RootOfObjects ==
  ASSUME NEW row \in LiveRow, row.doc.obj
  PROVE  <<>> \notin Surviving(row.doc)
  BY DocAssumption DEF LiveRow, TableRow, Surviving

\* A lane slot is beside every leaf of the tree, or Finalize would have failed.
LEMMA SlotsApartFromTree ==
  ASSUME NEW st, NEW rows \in SUBSET LiveRow, Holds(st, rows),
         ~FinalizeConflict(st), st.obj,
         NEW l \in DOMAIN st.scalar \cup DOMAIN st.list, NEW q \in DOMAIN st.leaf
  PROVE  ~IsStrictPrefix(l, q) /\ ~IsStrictPrefix(q, l)
<1>1. ~IsStrictPrefix(l, q)
  BY DEF FinalizeConflict, HoldsObjectAt
<1>2. CASE l \in DOMAIN st.scalar
  BY <1>1, <1>2 DEF FinalizeConflict, HoldsLeafAbove
<1>3. CASE l \in DOMAIN st.list
  <2>1. PICK row \in rows : q \in Surviving(row.doc)
    BY DEF Holds
  <2>2. q \in Path
    BY LeafMapElim DEF Holds, StateSpace
  <2>3. q # <<>>
    BY <2>1, RootOfObjects DEF Holds
  <2>4. l \in ListLane
    BY <1>3, SlotsSurvive
  <2>5. QED
    BY <1>1, <2>2, <2>3, <2>4, AboveListLane
<1>4. QED
  BY <1>2, <1>3

\* Separate lanes hide no clash: rows of a state that Finalize accepts agree.
LEMMA FinalizedRowsAgree ==
  ASSUME SeparateLanes,
         NEW st, NEW rows \in SUBSET LiveRow, Holds(st, rows),
         ~FinalizeConflict(st),
         NEW row1 \in rows, NEW row2 \in rows
  PROVE  ~Clash(row1, row2)
<1> DEFINE places == DOMAIN st.leaf \cup DOMAIN st.scalar \cup DOMAIN st.list
<1>1. st.obj = row1.doc.obj /\ st.obj = row2.doc.obj
  BY DEF Holds
<1>2. \A row \in {row1, row2} : Surviving(row.doc) \subseteq places
  BY DEF Holds, Carries
<1>3. CASE ~st.obj
  <2>1. Surviving(row1.doc) = {<<>>} /\ Surviving(row2.doc) = {<<>>}
    BY <1>1, <1>3, DocAssumption DEF LiveRow, TableRow, Surviving
  <2>2. QED
    BY <1>1, <2>1, StrictPrefixIrreflexive DEF Clash, KindClash
<1>4. CASE st.obj
  <2>1. ASSUME NEW p \in places, NEW q \in places
        PROVE  ~IsStrictPrefix(p, q)
    <3>1. CASE p \in DOMAIN st.leaf /\ q \in DOMAIN st.leaf
      BY <3>1 DEF Holds
    <3>2. CASE p \in DOMAIN st.leaf /\ q \notin DOMAIN st.leaf
      BY <1>4, <3>2, SlotsApartFromTree
    <3>3. CASE p \notin DOMAIN st.leaf /\ q \in DOMAIN st.leaf
      BY <1>4, <3>3, SlotsApartFromTree
    <3>4. CASE p \notin DOMAIN st.leaf /\ q \notin DOMAIN st.leaf
      BY <3>4, SlotsSurvive DEF SeparateLanes, Lane
    <3>5. QED
      BY <3>1, <3>2, <3>3, <3>4
  <2>2. QED
    BY <1>1, <1>2, <2>1 DEF Clash, KindClash
<1>5. QED
  BY <1>3, <1>4

-----------------------------------------------------------------------------
(* The invariant is inductive. *)

LEMMA RowSetType ==
  ASSUME TypeOK, NEW s \in Node
  PROVE  RowSet(s) \in SUBSET LiveRow
  BY DEF TypeOK, RowSet, LiveRows, LiveRow

LEMMA EmptyStateHolds == Holds(EmptyState, {})
  BY EmptyStateFields DEF Holds

\* The values of leaves, at some of their paths.
LEMMA ValuesOfType ==
  ASSUME NEW map \in LeafMap, NEW paths, paths \subseteq DOMAIN map
  PROVE  /\ ValuesOf(map, paths) \in ValueMap
         /\ DOMAIN ValuesOf(map, paths) = paths
<1>1. DOMAIN map \subseteq Path /\ \A p \in DOMAIN map : map[p] \in Leaf
  BY LeafMapElim
<1>2. ValuesOf(map, paths) \in [paths -> Val]
  BY <1>1 DEF ValuesOf, Leaf
<1>3. QED
  BY <1>1, <1>2 DEF ValueMap, ValuesOf

\* Laying one map of values over another gives a map of values.
LEMMA OverlayType ==
  ASSUME NEW f \in ValueMap, NEW g \in ValueMap
  PROVE  /\ Overlay(f, g) \in ValueMap
         /\ DOMAIN Overlay(f, g) = DOMAIN f \cup DOMAIN g
         /\ \A p \in DOMAIN f : Overlay(f, g)[p] = f[p]
         /\ \A p \in DOMAIN g \ DOMAIN f : Overlay(f, g)[p] = g[p]
<1> DEFINE both == [p \in DOMAIN f \cup DOMAIN g |-> IF p \in DOMAIN f THEN f[p] ELSE g[p]]
<1>1. Overlay(f, g) = both
  BY DEF Overlay
<1>2. /\ DOMAIN f \in SUBSET Path /\ f \in [DOMAIN f -> Val]
      /\ DOMAIN g \in SUBSET Path /\ g \in [DOMAIN g -> Val]
  BY DEF ValueMap
<1>3. both \in [DOMAIN f \cup DOMAIN g -> Val]
  BY <1>2
<1>4. DOMAIN f \cup DOMAIN g \in SUBSET Path
  BY <1>2
<1>5. both \in ValueMap
  BY <1>3, <1>4 DEF ValueMap
<1>6. QED
  BY <1>1, <1>5

\* Where a result row keeps each of its paths.
LEMMA FinalizedParts ==
  ASSUME NEW st \in StateSpace
  PROVE  /\ ScalarSlotWins(st) \subseteq DOMAIN st.scalar \cap ScalarLane
         /\ ListSlotWins(st) \subseteq DOMAIN st.list \cap ListLane
         /\ Reshredded(st) \subseteq (DOMAIN st.leaf \cap ScalarLane) \ ScalarSlotWins(st)
         /\ Diverted(st) \subseteq ScalarLane \ (ScalarSlotWins(st) \cup Reshredded(st))
  BY DEF ScalarSlotWins, ListSlotWins, Reshredded, Diverted, Prevails

LEMMA FinalizedType ==
  ASSUME NEW st \in StateSpace
  PROVE  IF st.has_input THEN Finalized(st) \in ResultRow ELSE Finalized(st) = SqlNull
<1>1. st.leaf \in LeafMap /\ st.scalar \in LeafMap /\ st.list \in LeafMap
  BY DEF StateSpace
<1>2. \A paths \in SUBSET DOMAIN st.leaf : ValuesOf(st.leaf, paths) \in ValueMap
  BY <1>1, ValuesOfType
<1>3. CASE ~st.has_input
  BY <1>3 DEF Finalized
<1>4. CASE st.has_input /\ ~st.obj
  <2>1. [l \in {} |-> 0] \in ValueMap
    <3>1. [l \in {} |-> 0] \in [{} -> Val]
      OBVIOUS
    <3>2. QED
      BY <3>1 DEF ValueMap
  <2>2. QED
    BY <1>2, <1>4, <2>1 DEF Finalized, ResultRow
<1>5. CASE st.has_input /\ st.obj
  <2>1. /\ ValuesOf(st.scalar, ScalarSlotWins(st)) \in ValueMap
        /\ ValuesOf(st.leaf, Reshredded(st)) \in ValueMap
        /\ ValuesOf(st.list, ListSlotWins(st)) \in ValueMap
    BY <1>1, FinalizedParts, ValuesOfType
  <2>2. Overlay(ValuesOf(st.scalar, ScalarSlotWins(st)),
                Overlay(ValuesOf(st.leaf, Reshredded(st)),
                        ValuesOf(st.list, ListSlotWins(st)))) \in ValueMap
    BY <2>1, OverlayType
  <2>3. Diverted(st) \subseteq ScalarLane
    BY DEF Diverted
  <2>4. QED
    BY <1>2, <1>5, <2>2, <2>3 DEF Finalized, ResultRow
<1>6. QED
  BY <1>3, <1>4, <1>5

\* A step that leaves every state correct for its rows, and a finalized one as
\* it was, keeps the invariant.
LEMMA StatesStep ==
  ASSUME IInv, UNCHANGED <<table, out>>,
         failed' \in BOOLEAN, fed' \in [Node -> SUBSET Row],
         DOMAIN state' = Node, state' = [s \in Node |-> state'[s]],
         \A s \in Node : Holds(state'[s], RowSet(s)'),
         \A s \in Node : out[s] # Pending => state'[s] = state[s]
  PROVE  IInv'
<1>1. TypeOK'
  BY DEF IInv, TypeOK, Holds
<1>2. StatesCorrect'
  BY DEF StatesCorrect
<1>3. ResultsAreFinal'
  BY DEF IInv, ResultsAreFinal
<1>4. QED
  BY <1>1, <1>2, <1>3 DEF IInv

LEMMA InitCorrect == Init => IInv
<1> SUFFICES ASSUME Init PROVE IInv
  OBVIOUS
<1>1. TypeOK
  BY EmptyStateFields DEF Init, TypeOK
<1>2. \A s \in Node : RowSet(s) = {} /\ state[s] = EmptyState
  BY DEF Init, RowSet, LiveRows
<1>3. StatesCorrect
  BY <1>2, EmptyStateHolds DEF StatesCorrect
<1>4. QED
  BY <1>1, <1>3 DEF Init, IInv, ResultsAreFinal

LEMMA FailCorrect == IInv /\ Fail => IInv'
<1> SUFFICES ASSUME IInv, Fail PROVE IInv'
  OBVIOUS
<1>1. \A s \in Node : RowSet(s)' = RowSet(s)
  BY DEF Fail, RowSet, LiveRows
<1>2. QED
  BY <1>1, StatesStep DEF IInv, TypeOK, StatesCorrect, Fail

\* Skipping a NULL row changes neither a state nor its live rows.
LEMMA SkipNullRowCorrect ==
  ASSUME IInv, NEW s \in Node, NEW r \in Row, SkipNullRow(s, r)
  PROVE  IInv'
<1>1. \A t \in Node : LiveRows(t)' = LiveRows(t)
  BY DEF SkipNullRow, LiveRows, IInv, TypeOK
<1>2. \A t \in Node : RowSet(t)' = RowSet(t)
  BY <1>1 DEF RowSet, SkipNullRow
<1>3. fed' \in [Node -> SUBSET Row]
  BY DEF SkipNullRow, IInv, TypeOK
<1>4. QED
  BY <1>2, <1>3, StatesStep DEF IInv, TypeOK, StatesCorrect, SkipNullRow

\* The rows behind each state after one more row was fed to s.
LEMMA FedOneRow ==
  ASSUME TypeOK, NEW s \in Node, NEW r \in Row,
         table[r].doc # SqlNull, table' = table,
         fed' = [fed EXCEPT ![s] = @ \cup {r}]
  PROVE  /\ RowSet(s)' = RowSet(s) \cup {table[r]}
         /\ \A t \in Node \ {s} : RowSet(t)' = RowSet(t)
         /\ fed' \in [Node -> SUBSET Row]
  BY DEF TypeOK, RowSet, LiveRows

\* Feeding a row, whatever state it is seen as.
LEMMA FoldCorrect ==
  ASSUME IInv, NEW s \in Node, NEW r \in Row, Running(s),
         table[r].doc # SqlNull,
         NEW one, Holds(one, {table[r]}), one.has_input,
         ~Conflicts(state[s], one.obj, one.leaf),
         state' = [state EXCEPT ![s] = AbsorbState(@, one)],
         fed' = [fed EXCEPT ![s] = @ \cup {r}],
         UNCHANGED <<table, out, failed>>
  PROVE  IInv'
<1>1. table[r] \in LiveRow
  BY DEF IInv, TypeOK, LiveRow
<1>2. Holds(state[s], RowSet(s)) /\ RowSet(s) \in SUBSET LiveRow
  BY RowSetType DEF IInv, StatesCorrect
<1>3. Holds(AbsorbState(state[s], one), RowSet(s) \cup {table[r]})
  BY <1>1, <1>2, AbsorbCorrect
<1>4. /\ RowSet(s)' = RowSet(s) \cup {table[r]}
      /\ \A t \in Node \ {s} : RowSet(t)' = RowSet(t)
      /\ fed' \in [Node -> SUBSET Row]
  BY FedOneRow DEF IInv
<1>5. /\ state'[s] = AbsorbState(state[s], one)
      /\ \A t \in Node \ {s} : state'[t] = state[t]
      /\ DOMAIN state' = Node /\ state' = [t \in Node |-> state'[t]]
  BY DEF IInv, TypeOK
<1>6. \A t \in Node : Holds(state'[t], RowSet(t)')
  BY <1>3, <1>4, <1>5 DEF IInv, StatesCorrect
<1>7. \A t \in Node : out[t] # Pending => state'[t] = state[t]
  BY <1>5 DEF Running
<1>8. QED
  BY <1>4, <1>5, <1>6, <1>7, StatesStep DEF IInv, TypeOK

LEMMA FoldDirectCorrect ==
  ASSUME IInv, NEW s \in Node, NEW r \in Row, FoldDirect(s, r)
  PROVE  IInv'
<1> DEFINE one == RowState(table[r])
<1>1. table[r] \in LiveRow /\ state[s] \in StateSpace
  BY DEF IInv, TypeOK, FoldDirect, LiveRow
<1>2. /\ Holds(one, {table[r]}) /\ one.has_input
      /\ one.obj = table[r].doc.obj /\ one.leaf = Residual(table[r])
  BY <1>1, RowStateHolds DEF RowState
<1>3. AbsorbDirect(state[s], table[r]) = AbsorbState(state[s], one)
  BY <1>1, DirectAbsorbsRow
<1> HIDE DEF one
<1>4. QED
  BY <1>2, <1>3, FoldCorrect DEF FoldDirect

LEMMA FoldReconstructedCorrect ==
  ASSUME IInv, NEW s \in Node, NEW r \in Row, FoldReconstructed(s, r)
  PROVE  IInv'
<1> DEFINE one == PlainState(table[r])
<1>1. table[r] \in LiveRow /\ state[s] \in StateSpace
  BY DEF IInv, TypeOK, FoldReconstructed, LiveRow
<1>2. /\ Holds(one, {table[r]}) /\ one.has_input
      /\ one.obj = table[r].doc.obj /\ one.leaf = Incoming(table[r])
  BY <1>1, PlainStateHolds, EmptyStateFields DEF PlainState, StateSpace
<1>3. AbsorbTree(state[s], table[r].doc.obj, Incoming(table[r])) = AbsorbState(state[s], one)
  BY <1>1, ReconstructedAbsorbsRow
<1> HIDE DEF one
<1>4. QED
  BY <1>2, <1>3, FoldCorrect DEF FoldReconstructed

\* The rows behind each state after a combine.
LEMMA CombinedRows ==
  ASSUME TypeOK, NEW source \in Node, NEW target \in Node, NEW destructive \in BOOLEAN,
         Combine(source, target, destructive)
  PROVE  /\ RowSet(target)' = RowSet(target) \cup RowSet(source)
         /\ RowSet(source)' = IF destructive THEN {} ELSE RowSet(source)
         /\ \A t \in Node \ {source, target} : RowSet(t)' = RowSet(t)
         /\ fed' \in [Node -> SUBSET Row]
<1>1. /\ fed'[target] = fed[target] \cup fed[source]
      /\ fed'[source] = IF destructive THEN {} ELSE fed[source]
      /\ \A t \in Node \ {source, target} : fed'[t] = fed[t]
      /\ fed' \in [Node -> SUBSET Row]
  BY DEF Combine, TypeOK
<1>2. table' = table
  BY DEF Combine
<1>3. QED
  BY <1>1, <1>2 DEF RowSet, LiveRows

LEMMA CombineCorrect ==
  ASSUME IInv, NEW source \in Node, NEW target \in Node, NEW destructive \in BOOLEAN,
         Combine(source, target, destructive)
  PROVE  IInv'
<1>1. /\ Holds(state[source], RowSet(source)) /\ RowSet(source) \in SUBSET LiveRow
      /\ Holds(state[target], RowSet(target)) /\ RowSet(target) \in SUBSET LiveRow
  BY RowSetType DEF IInv, StatesCorrect
<1>2. source # target /\ out[source] = Pending /\ out[target] = Pending
  BY DEF Combine, Running
<1>3. /\ RowSet(target)' = RowSet(target) \cup RowSet(source)
      /\ RowSet(source)' = IF destructive THEN {} ELSE RowSet(source)
      /\ \A t \in Node \ {source, target} : RowSet(t)' = RowSet(t)
      /\ fed' \in [Node -> SUBSET Row]
  BY CombinedRows DEF IInv
<1>4. UNCHANGED <<table, out, failed>> /\ failed \in BOOLEAN
  BY DEF Combine, IInv, TypeOK
<1>5. CASE ~state[source].has_input
  <2>1. state' = state
    BY <1>5 DEF Combine
  <2>2. RowSet(source) = {}
    BY <1>1, <1>5 DEF Holds
  <2>3. \A t \in Node : RowSet(t)' = RowSet(t)
    BY <1>3, <2>2
  <2>4. \A t \in Node : Holds(state'[t], RowSet(t)')
    BY <2>1, <2>3 DEF IInv, StatesCorrect
  <2>5. DOMAIN state' = Node /\ state' = [t \in Node |-> state'[t]]
    BY <2>1 DEF IInv, TypeOK
  <2>6. QED
    BY <1>3, <1>4, <2>1, <2>4, <2>5, StatesStep
<1>6. CASE state[source].has_input
  <2>1. /\ state'[target] = AbsorbState(state[target], state[source])
        /\ state'[source] = IF destructive THEN EmptyState ELSE state[source]
        /\ \A t \in Node \ {source, target} : state'[t] = state[t]
        /\ DOMAIN state' = Node /\ state' = [t \in Node |-> state'[t]]
    BY <1>2, <1>6 DEF Combine, IInv, TypeOK
  <2>2. ~Conflicts(state[target], state[source].obj, state[source].leaf)
    BY <1>6 DEF Combine
  <2>3. Holds(state'[target], RowSet(target)')
    BY <1>1, <1>3, <1>6, <2>1, <2>2, AbsorbCorrect
  <2>4. Holds(state'[source], RowSet(source)')
    BY <1>1, <1>3, <2>1, EmptyStateHolds
  <2>5. \A t \in Node : Holds(state'[t], RowSet(t)')
    BY <1>3, <2>1, <2>3, <2>4 DEF IInv, StatesCorrect
  <2>6. \A t \in Node : out[t] # Pending => state'[t] = state[t]
    BY <1>2, <2>1
  <2>7. QED
    BY <1>3, <1>4, <2>1, <2>5, <2>6, StatesStep
<1>7. QED
  BY <1>5, <1>6

LEMMA FinalizeCorrect ==
  ASSUME IInv, NEW s \in Node, Finalize(s)
  PROVE  IInv'
<1>1. state[s] \in StateSpace
  BY DEF IInv, TypeOK
<1>2. Finalized(state[s]) \in ResultRow \cup {Pending, SqlNull}
  BY <1>1, FinalizedType
<1>3. TypeOK'
  BY <1>2 DEF Finalize, IInv, TypeOK
<1>4. StatesCorrect'
  BY DEF Finalize, IInv, StatesCorrect, RowSet, LiveRows
<1>5. ResultsAreFinal'
  BY DEF Finalize, IInv, TypeOK, ResultsAreFinal
<1>6. QED
  BY <1>3, <1>4, <1>5 DEF IInv

LEMMA StepCorrect == IInv /\ [Next]_vars => IInv'
<1> SUFFICES ASSUME IInv, [Next]_vars
             PROVE  IInv'
  OBVIOUS
<1>1. ASSUME NEW s \in Node, NEW r \in Row, SkipNullRow(s, r)
      PROVE  IInv'
  BY <1>1, SkipNullRowCorrect
<1>2. ASSUME NEW s \in Node, NEW r \in Row, FoldDirect(s, r)
      PROVE  IInv'
  BY <1>2, FoldDirectCorrect
<1>3. ASSUME NEW s \in Node, NEW r \in Row,
             FoldDirectConflict(s, r) \/ FoldReconstructedConflict(s, r)
      PROVE  IInv'
  BY <1>3, FailCorrect DEF FoldDirectConflict, FoldReconstructedConflict
<1>4. ASSUME NEW s \in Node, NEW r \in Row, FoldReconstructed(s, r)
      PROVE  IInv'
  BY <1>4, FoldReconstructedCorrect
<1>5. ASSUME NEW source \in Node, NEW target \in Node, NEW destructive \in BOOLEAN,
             Combine(source, target, destructive)
      PROVE  IInv'
  BY <1>5, CombineCorrect
<1>6. ASSUME NEW source \in Node, NEW target \in Node, CombineConflict(source, target)
      PROVE  IInv'
  BY <1>6, FailCorrect DEF CombineConflict
<1>7. ASSUME NEW s \in Node, Finalize(s)
      PROVE  IInv'
  BY <1>7, FinalizeCorrect
<1>8. ASSUME NEW s \in Node, FinalizeFails(s)
      PROVE  IInv'
  BY <1>8, FailCorrect DEF FinalizeFails
<1>9. CASE UNCHANGED vars
  BY <1>9 DEF vars, IInv, TypeOK, StatesCorrect, RowSet, LiveRows, ResultsAreFinal
<1>10. QED
  BY <1>1, <1>2, <1>3, <1>4, <1>5, <1>6, <1>7, <1>8, <1>9 DEF Next

\* The invariant holds in every reachable state, whatever the lanes.
THEOREM Invariance == Spec => []IInv
<1>1. Init => IInv
  BY InitCorrect
<1>2. IInv /\ [Next]_vars => IInv'
  BY StepCorrect
<1>3. QED
  BY <1>1, <1>2, PTL DEF Spec

\* The variables keep their types: slots and results hold paths and values that
\* documents have.
THEOREM TypeCorrect == Spec => []TypeOK
<1>1. IInv => TypeOK
  BY DEF IInv
<1>2. QED
  BY <1>1, Invariance, PTL

-----------------------------------------------------------------------------
(* What the invariant gives. *)

\* Tree and slots taken together.
HeldIn(st) == MergeLeaves(st.leaf, MergeLeaves(st.scalar, st.list))

\* Together they hold what the rows say: every path of theirs, no other one, and
\* at each of them a leaf of one of the rows that none of them beats.
LEMMA HeldIsBest ==
  ASSUME NEW st, NEW rows \in SUBSET LiveRow, Holds(st, rows)
  PROVE  /\ HeldIn(st) \in LeafMap
         /\ DOMAIN HeldIn(st) = UNION {Surviving(row.doc) : row \in rows}
         /\ \A p \in DOMAIN HeldIn(st) : \E row \in rows :
              p \in Surviving(row.doc) /\ HeldIn(st)[p] = Incoming(row)[p]
         /\ \A row \in rows : \A p \in Surviving(row.doc) : Carries(HeldIn(st), row, p)
<1> DEFINE slots == MergeLeaves(st.scalar, st.list)
           held == HeldIn(st)
<1>1. st.leaf \in LeafMap /\ st.scalar \in LeafMap /\ st.list \in LeafMap
  BY DEF Holds, StateSpace
<1>2. slots \in LeafMap /\ MergedFrom(slots, st.scalar, st.list)
  BY <1>1, MergeIsMerged
<1> HIDE DEF slots
<1>3. held = MergeLeaves(st.leaf, slots)
  BY DEF HeldIn, slots
<1>4. held \in LeafMap /\ MergedFrom(held, st.leaf, slots)
  BY <1>1, <1>2, <1>3, MergeIsMerged
<1> HIDE DEF held
<1>5. ASSUME NEW p \in DOMAIN held
      PROVE  \E row \in rows : p \in Surviving(row.doc) /\ held[p] = Incoming(row)[p]
  <2>1. \/ p \in DOMAIN st.leaf /\ held[p] = st.leaf[p]
        \/ p \in DOMAIN st.scalar /\ held[p] = st.scalar[p]
        \/ p \in DOMAIN st.list /\ held[p] = st.list[p]
    BY <1>2, <1>4 DEF MergedFrom
  <2>2. \A row \in rows : /\ ScalarManifest(row.doc) \subseteq Surviving(row.doc)
                          /\ ListManifest(row.doc) \subseteq Surviving(row.doc)
    BY ManifestsSurvive
  <2>3. QED
    BY <2>1, <2>2 DEF Holds
<1>6. ASSUME NEW row \in rows, NEW p \in Surviving(row.doc)
      PROVE  Carries(held, row, p)
  <2>1. Carries(st.leaf, row, p) \/ Carries(st.scalar, row, p) \/ Carries(st.list, row, p)
    BY DEF Holds
  <2>2. Carries(st.leaf, row, p) \/ Carries(slots, row, p)
    BY <1>1, <2>1, MergeCarries DEF slots
  <2>3. QED
    BY <1>1, <1>2, <1>3, <2>2, MergeCarries
<1>7. DOMAIN held = UNION {Surviving(row.doc) : row \in rows}
  <2>1. \A row \in rows : Surviving(row.doc) \subseteq DOMAIN held
    BY <1>6 DEF Carries
  <2>2. QED
    BY <1>5, <2>1
<1>8. QED
  BY <1>4, <1>5, <1>6, <1>7 DEF held

\* Folded directly or reconstructed, combined or kept for a window: of every
\* path of the rows the tree and the lane slots hold the winner between them.
THEOREM WinnersHeld == Spec => []TreeAndLanesHoldTheWinners
<1>1. IInv => TreeAndLanesHoldTheWinners
  <2> SUFFICES ASSUME IInv, NEW s \in Node
               PROVE  /\ DOMAIN HeldIn(state[s]) =
                           UNION {Surviving(table[r].doc) : r \in LiveRows(s)}
                      /\ \A r \in LiveRows(s) : \A p \in Surviving(table[r].doc) :
                           ~Beats(Incoming(table[r])[p], HeldIn(state[s])[p])
    BY DEF TreeAndLanesHoldTheWinners, HeldIn
  <2>1. Holds(state[s], RowSet(s)) /\ RowSet(s) \in SUBSET LiveRow
    BY RowSetType DEF IInv, StatesCorrect
  <2>2. /\ DOMAIN HeldIn(state[s]) = UNION {Surviving(row.doc) : row \in RowSet(s)}
        /\ \A row \in RowSet(s) : \A p \in Surviving(row.doc) :
             ~Beats(Incoming(row)[p], HeldIn(state[s])[p])
    BY <2>1, HeldIsBest DEF Carries
  <2>3. QED
    BY <2>2 DEF RowSet
<1>2. QED
  BY <1>1, Invariance, PTL

\* Rows that disagree on the kind of a path never yield a result, provided that
\* no lane lies within another: the proviso is what Finalize leaves unchecked.
THEOREM ConflictsFailLoud ==
  ASSUME SeparateLanes
  PROVE  Spec => []MixedKindsFailLoud
<1>1. IInv => MixedKindsFailLoud
  <2> SUFFICES ASSUME IInv, NEW s \in Node, out[s] # Pending,
                      NEW r1 \in fed[s], NEW r2 \in fed[s], Clash(table[r1], table[r2])
               PROVE  FALSE
    BY DEF MixedKindsFailLoud
  <2>1. Holds(state[s], RowSet(s)) /\ RowSet(s) \in SUBSET LiveRow
    BY RowSetType DEF IInv, StatesCorrect
  <2>2. table[r1] \in RowSet(s) /\ table[r2] \in RowSet(s)
    BY DEF Clash, RowSet, LiveRows
  <2>3. ~FinalizeConflict(state[s])
    BY DEF IInv, ResultsAreFinal
  <2>4. QED
    BY <2>1, <2>2, <2>3, FinalizedRowsAgree
<1>2. QED
  BY <1>1, Invariance, PTL

-----------------------------------------------------------------------------
(* Result rows. *)

LaneLeaves(st) == ScalarSlotWins(st) \cup Reshredded(st) \cup ListSlotWins(st)

\* The parts of the result of a state with an object at its root.
LEMMA ResultParts ==
  ASSUME NEW st \in StateSpace, st.has_input, st.obj
  PROVE  /\ Finalized(st).obj = TRUE
         /\ DOMAIN Finalized(st).leaf = DOMAIN st.leaf \ LaneLeaves(st)
         /\ \A p \in DOMAIN Finalized(st).leaf : Finalized(st).leaf[p] = st.leaf[p].val
         /\ DOMAIN Finalized(st).lane = LaneLeaves(st)
         /\ \A l \in ScalarSlotWins(st) : Finalized(st).lane[l] = st.scalar[l].val
         /\ \A l \in Reshredded(st) : Finalized(st).lane[l] = st.leaf[l].val
         /\ \A l \in ListSlotWins(st) : Finalized(st).lane[l] = st.list[l].val
         /\ Finalized(st).spilled = Diverted(st)
<1> DEFINE S == ScalarSlotWins(st)
           T == Reshredded(st)
           L == ListSlotWins(st)
           lane == Overlay(ValuesOf(st.scalar, S), Overlay(ValuesOf(st.leaf, T), ValuesOf(st.list, L)))
<1>1. Finalized(st) = [obj |-> TRUE, leaf |-> ValuesOf(st.leaf, DOMAIN st.leaf \ LaneLeaves(st)),
                       lane |-> lane, spilled |-> Diverted(st)]
  BY DEF Finalized, LaneLeaves
<1>2. S \cap T = {} /\ S \cap L = {} /\ T \cap L = {}
  BY FinalizedParts, LaneAssumption
<1>3. /\ DOMAIN lane = S \cup T \cup L
      /\ \A l \in S : lane[l] = st.scalar[l].val
      /\ \A l \in T : lane[l] = st.leaf[l].val
      /\ \A l \in L : lane[l] = st.list[l].val
  <2> HIDE DEF S, T, L
  <2>1. QED
    BY <1>2 DEF Overlay, ValuesOf
<1> HIDE DEF lane
<1>4. QED
  BY <1>1, <1>3 DEF LaneLeaves, ValuesOf

\* Separate lanes are all shown by a read of the whole row: none of them is
\* above or below another, or where the residual has something.
LEMMA LanesAreShown ==
  ASSUME SeparateLanes,
         NEW st, NEW rows \in SUBSET LiveRow, Holds(st, rows),
         ~FinalizeConflict(st), st.obj,
         NEW l \in LaneLeaves(st), NEW q \in DOMAIN st.leaf \cup LaneLeaves(st)
  PROVE  ~IsStrictPrefix(l, q) /\ ~IsStrictPrefix(q, l)
<1>1. st \in StateSpace
  BY DEF Holds
<1>2. l \in DOMAIN st.scalar \cup DOMAIN st.list \/ l \in DOMAIN st.leaf
  BY <1>1, FinalizedParts DEF LaneLeaves
<1>3. l \in Lane
  BY <1>1, FinalizedParts DEF LaneLeaves, Lane
<1>4. CASE q \in LaneLeaves(st)
  <2>1. q \in Lane
    BY <1>1, <1>4, FinalizedParts DEF LaneLeaves, Lane
  <2>2. QED
    BY <1>3, <2>1 DEF SeparateLanes
<1>5. CASE q \in DOMAIN st.leaf
  <2>1. CASE l \in DOMAIN st.leaf
    BY <1>5, <2>1 DEF Holds
  <2>2. CASE l \in DOMAIN st.scalar \cup DOMAIN st.list
    BY <1>5, <2>2, SlotsApartFromTree
  <2>3. QED
    BY <1>2, <2>1, <2>2
<1>6. QED
  BY <1>4, <1>5

\* So the row read whole has every leaf of residual and lanes.
LEMMA ReconstructedParts ==
  ASSUME SeparateLanes,
         NEW st, NEW rows \in SUBSET LiveRow, Holds(st, rows),
         ~FinalizeConflict(st), st.has_input, st.obj
  PROVE  \E leaf :
           /\ Reconstruct(Finalized(st)) = [obj |-> TRUE, leaf |-> leaf]
           /\ leaf = [p \in DOMAIN leaf |-> leaf[p]]
           /\ DOMAIN leaf = DOMAIN st.leaf \cup LaneLeaves(st)
           /\ \A p \in DOMAIN st.leaf \ LaneLeaves(st) : leaf[p] = st.leaf[p].val
           /\ \A l \in LaneLeaves(st) : leaf[l] = Finalized(st).lane[l]
<1> DEFINE R == Finalized(st)
           lanes == LaneLeaves(st)
           shown == {l \in DOMAIN R.lane : \A q \in DOMAIN R.leaf \cup DOMAIN R.lane :
                       /\ ~IsStrictPrefix(q, l)
                       /\ q \in DOMAIN R.leaf => q # l /\ ~IsStrictPrefix(l, q)}
           leaf == Overlay(R.leaf, Restrict(R.lane, shown))
<1>1. st \in StateSpace
  BY DEF Holds
<1>2. /\ R.obj = TRUE
      /\ DOMAIN R.leaf = DOMAIN st.leaf \ lanes
      /\ \A p \in DOMAIN R.leaf : R.leaf[p] = st.leaf[p].val
      /\ DOMAIN R.lane = lanes
  BY <1>1, ResultParts
<1>3. R \in ResultRow
  BY <1>1, FinalizedType
<1>4. R \notin {Pending, SqlNull}
  BY <1>3, ResultAssumption
<1>5. Reconstruct(R) = [obj |-> R.obj, leaf |-> leaf]
  <2> HIDE DEF R
  <2>1. QED
    BY <1>4 DEF Reconstruct
<1> HIDE DEF R
<1>6. shown = lanes
  BY <1>2, LanesAreShown
<1> HIDE DEF shown
<1>7. /\ DOMAIN leaf = DOMAIN st.leaf \cup lanes
      /\ \A p \in DOMAIN st.leaf \ lanes : leaf[p] = st.leaf[p].val
      /\ \A l \in lanes : leaf[l] = R.lane[l]
      /\ leaf = [p \in DOMAIN leaf |-> leaf[p]]
  BY <1>2, <1>6 DEF Overlay, Restrict
<1> HIDE DEF leaf
<1>8. QED
  BY <1>2, <1>5, <1>7 DEF R

\* A spill bit is set exactly where the residual has what its lane does not.
LEMMA SpillBitsTrue ==
  ASSUME SeparateLanes,
         NEW st, NEW rows \in SUBSET LiveRow, Holds(st, rows),
         ~FinalizeConflict(st), st.has_input, st.obj,
         NEW l \in ScalarLane
  PROVE  LET R == Finalized(st)
             doc == Reconstruct(R)
         IN IF l \in R.spilled
            THEN /\ l \notin DOMAIN R.lane
                 /\ \E p \in DOMAIN R.leaf : p = l \/ IsStrictPrefix(l, p)
            ELSE IF l \in DOMAIN R.lane
            THEN l \in DOMAIN doc.leaf /\ doc.leaf[l] = R.lane[l]
            ELSE \A p \in DOMAIN doc.leaf : p # l /\ ~IsStrictPrefix(l, p)
<1> DEFINE R == Finalized(st)
           doc == Reconstruct(R)
           lanes == LaneLeaves(st)
<1>1. st \in StateSpace /\ st.leaf \in LeafMap
  BY DEF Holds, StateSpace
<1>2. /\ DOMAIN R.leaf = DOMAIN st.leaf \ lanes
      /\ DOMAIN R.lane = lanes
      /\ R.spilled = Diverted(st)
  BY <1>1, ResultParts
<1>3. /\ DOMAIN doc.leaf = DOMAIN st.leaf \cup lanes
      /\ \A m \in lanes : doc.leaf[m] = R.lane[m]
  <2>1. PICK leaf :
           /\ doc = [obj |-> TRUE, leaf |-> leaf]
           /\ leaf = [p \in DOMAIN leaf |-> leaf[p]]
           /\ DOMAIN leaf = DOMAIN st.leaf \cup lanes
           /\ \A p \in DOMAIN st.leaf \ lanes : leaf[p] = st.leaf[p].val
           /\ \A m \in lanes : leaf[m] = R.lane[m]
    BY ReconstructedParts
  <2> HIDE DEF doc, R
  <2>2. doc.leaf = leaf
    BY <2>1
  <2>3. QED
    BY <2>1, <2>2
<1>4. \A p \in DOMAIN st.leaf : st.leaf[p].val # Null
  <2>1. ASSUME NEW p \in DOMAIN st.leaf
        PROVE  st.leaf[p].val # Null
    <3>1. PICK row \in rows : p \in Surviving(row.doc) /\ st.leaf[p] = Incoming(row)[p]
      BY DEF Holds
    <3>2. st.leaf[p].val = row.doc.leaf[p]
      BY <3>1 DEF Incoming
    <3>3. row.doc.obj
      BY <3>1 DEF Holds
    <3>4. QED
      BY <3>1, <3>2, <3>3 DEF Surviving
  <2>2. QED
    BY <2>1
<1> HIDE DEF R, doc
<1>5. CASE l \in Diverted(st)
  <2>1. l \notin lanes
    <3>1. l \notin ListSlotWins(st)
      BY <1>1, FinalizedParts, LaneAssumption
    <3>2. QED
      BY <1>5, <3>1 DEF Diverted, LaneLeaves
  <2>2. PICK p \in DOMAIN st.leaf : p = l \/ IsStrictPrefix(l, p)
    BY <1>5 DEF Diverted, HoldsObjectAt
  <2>3. p \notin lanes
    <3>1. lanes \subseteq Lane
      BY <1>1, FinalizedParts DEF LaneLeaves, Lane
    <3>2. QED
      BY <2>1, <2>2, <3>1 DEF SeparateLanes, Lane
  <2>4. QED
    BY <1>2, <1>5, <2>1, <2>2, <2>3 DEF R
<1>6. CASE l \notin Diverted(st) /\ l \in lanes
  BY <1>2, <1>3, <1>6 DEF R, doc
<1>7. CASE l \notin Diverted(st) /\ l \notin lanes
  <2>1. l \notin DOMAIN st.leaf /\ ~HoldsObjectAt(st, l)
    BY <1>4, <1>7 DEF Diverted, LaneLeaves
  <2>2. \A p \in DOMAIN st.leaf : p # l /\ ~IsStrictPrefix(l, p)
    BY <2>1 DEF HoldsObjectAt
  <2>3. \A p \in lanes : p # l /\ ~IsStrictPrefix(l, p)
    BY <1>1, <1>7, FinalizedParts DEF SeparateLanes, Lane, LaneLeaves
  <2>4. QED
    BY <1>2, <1>3, <1>7, <2>2, <2>3 DEF R, doc
<1>8. QED
  BY <1>5, <1>6, <1>7

\* A result that is not an object has no lanes, and says nothing at their paths.
LEMMA RootResult ==
  ASSUME NEW st, NEW rows \in SUBSET LiveRow, Holds(st, rows), st.has_input, ~st.obj
  PROVE  /\ Finalized(st).spilled = {}
         /\ DOMAIN Finalized(st).lane = {}
         /\ DOMAIN Reconstruct(Finalized(st)).leaf = {<<>>}
<1> DEFINE R == Finalized(st)
<1>1. /\ R.spilled = {} /\ DOMAIN R.lane = {}
      /\ DOMAIN R.leaf = DOMAIN st.leaf
  BY DEF Finalized, ValuesOf
<1>2. DOMAIN st.leaf = {<<>>}
  <2>1. \A row \in rows : Surviving(row.doc) = {<<>>}
    BY DocAssumption DEF Holds, LiveRow, TableRow, Surviving
  <2>2. \A row \in rows : ~row.doc.obj
    BY DEF Holds
  <2>3. DOMAIN st.scalar = {} /\ DOMAIN st.list = {}
    BY <2>2 DEF Holds, ScalarManifest, ListManifest
  <2>4. PICK row \in rows : TRUE
    BY DEF Holds
  <2>5. DOMAIN st.leaf \subseteq {<<>>}
    BY <2>1 DEF Holds
  <2>6. <<>> \in DOMAIN st.leaf
    <3>1. <<>> \in Surviving(row.doc)
      BY <2>1
    <3>2. Carries(st.leaf, row, <<>>) \/ Carries(st.scalar, row, <<>>) \/ Carries(st.list, row, <<>>)
      BY <3>1 DEF Holds
    <3>3. QED
      BY <2>3, <3>2 DEF Carries
  <2>7. QED
    BY <2>5, <2>6
<1>3. R \notin {Pending, SqlNull}
  BY FinalizedType, ResultAssumption DEF Holds
<1>4. Reconstruct(R).leaf = Overlay(R.leaf, Restrict(R.lane, {}))
  <2> DEFINE shown == {l \in DOMAIN R.lane : \A q \in DOMAIN R.leaf \cup DOMAIN R.lane :
                         /\ ~IsStrictPrefix(q, l)
                         /\ q \in DOMAIN R.leaf => q # l /\ ~IsStrictPrefix(l, q)}
  <2>1. shown = {}
    BY <1>1
  <2>2. Reconstruct(R) = [obj |-> R.obj, leaf |-> Overlay(R.leaf, Restrict(R.lane, shown))]
    <3> HIDE DEF R
    <3>1. QED
      BY <1>3 DEF Reconstruct
  <2> HIDE DEF shown, R
  <2>3. QED
    BY <2>1, <2>2
<1> HIDE DEF R
<1>5. DOMAIN Reconstruct(R).leaf = DOMAIN R.leaf
  BY <1>4 DEF Overlay, Restrict
<1>6. QED
  BY <1>1, <1>2, <1>5 DEF R

\* Nothing but the root lies at the root.
LEMMA BelowNoLane ==
  ASSUME NEW l \in ScalarLane
  PROVE  l # <<>> /\ ~IsStrictPrefix(l, <<>>)
<1>1. l \in Path /\ l # <<>>
  BY LaneAssumption
<1>2. l \in Seq(STRING)
  BY <1>1, DocAssumption DEF Path
<1>3. Len(l) # 0 /\ Len(l) \in Nat
  BY <1>1, <1>2
<1>4. QED
  BY <1>1, <1>3 DEF IsStrictPrefix, IsPrefix

\* Whatever mixture of rows and states it was made of, a result's spill bits are
\* true: clear ones let a reader trust the bare lane.
THEOREM SpillBitsTellTruth ==
  ASSUME SeparateLanes
  PROVE  Spec => []SpillBitsTellTheTruth
<1>1. ASSUME IInv, NEW s \in Node, out[s] \notin {Pending, SqlNull}, NEW l \in ScalarLane
      PROVE  LET doc == Reconstruct(out[s])
             IN IF l \in out[s].spilled
                THEN /\ l \notin DOMAIN out[s].lane
                     /\ \E p \in DOMAIN out[s].leaf : p = l \/ IsStrictPrefix(l, p)
                ELSE IF l \in DOMAIN out[s].lane
                THEN l \in DOMAIN doc.leaf /\ doc.leaf[l] = out[s].lane[l]
                ELSE \A p \in DOMAIN doc.leaf : p # l /\ ~IsStrictPrefix(l, p)
  <2>1. Holds(state[s], RowSet(s)) /\ RowSet(s) \in SUBSET LiveRow
    BY <1>1, RowSetType DEF IInv, StatesCorrect
  <2>2. out[s] = Finalized(state[s]) /\ ~FinalizeConflict(state[s])
    BY <1>1 DEF IInv, ResultsAreFinal
  <2>3. state[s].has_input
    BY <1>1, <2>1, <2>2, FinalizedType DEF Holds
  <2>4. CASE state[s].obj
    BY <2>1, <2>2, <2>3, <2>4, SpillBitsTrue
  <2>5. CASE ~state[s].obj
    BY <2>1, <2>2, <2>3, <2>5, RootResult, BelowNoLane
  <2>6. QED
    BY <2>4, <2>5
<1>2. IInv => SpillBitsTellTheTruth
  BY <1>1 DEF SpillBitsTellTheTruth
<1>3. QED
  BY <1>2, Invariance, PTL

-----------------------------------------------------------------------------
(* KeyedMergeDirect implements KeyedAggregate. *)

\* What the read of the whole row has at a path is what tree and slots hold there.
LEMMA ResultIsWhatIsHeld ==
  ASSUME SeparateLanes,
         NEW st, NEW rows \in SUBSET LiveRow, Holds(st, rows),
         ~FinalizeConflict(st), st.has_input, st.obj
  PROVE  Reconstruct(Finalized(st)) =
           [obj |-> TRUE, leaf |-> [p \in DOMAIN HeldIn(st) |-> HeldIn(st)[p].val]]
<1> DEFINE slots == MergeLeaves(st.scalar, st.list)
           held == HeldIn(st)
           lanes == LaneLeaves(st)
<1>1. /\ st \in StateSpace
      /\ st.leaf \in LeafMap /\ st.scalar \in LeafMap /\ st.list \in LeafMap
  BY DEF Holds, StateSpace
<1>2. slots \in LeafMap /\ MergedFrom(slots, st.scalar, st.list)
  BY <1>1, MergeIsMerged
<1> HIDE DEF slots
<1>3. held \in LeafMap /\ MergedFrom(held, st.leaf, slots)
  BY <1>1, <1>2, MergeIsMerged DEF HeldIn, slots
<1> HIDE DEF held
<1>4. /\ ScalarSlotWins(st) \subseteq DOMAIN st.scalar \cap ScalarLane
      /\ ListSlotWins(st) \subseteq DOMAIN st.list \cap ListLane
      /\ Reshredded(st) \subseteq (DOMAIN st.leaf \cap ScalarLane) \ ScalarSlotWins(st)
      /\ DOMAIN st.scalar \subseteq ScalarLane /\ DOMAIN st.list \subseteq ListLane
      /\ ScalarLane \cap ListLane = {}
  BY <1>1, FinalizedParts, SlotsSurvive, LaneAssumption
<1>5. /\ \A p \in DOMAIN st.leaf : st.leaf[p] \in Leaf
      /\ \A p \in DOMAIN st.scalar : st.scalar[p] \in Leaf
      /\ \A p \in DOMAIN st.list : st.list[p] \in Leaf
      /\ \A p \in DOMAIN held : held[p] \in Leaf
  BY <1>1, <1>3, LeafMapElim
<1>6. ASSUME NEW p \in ScalarSlotWins(st)
      PROVE  p \in DOMAIN held /\ held[p] = st.scalar[p]
  <2>1. p \in DOMAIN st.scalar /\ p \notin DOMAIN st.list
    BY <1>4
  <2>2. p \in DOMAIN slots /\ slots[p] = st.scalar[p]
    BY <1>2, <2>1 DEF MergedFrom
  <2>3. p \in DOMAIN held /\ ~Beats(slots[p], held[p])
    BY <1>3, <2>2 DEF MergedFrom
  <2>4. ~Beats(held[p], slots[p])
    <3>1. CASE p \in DOMAIN st.leaf /\ held[p] = st.leaf[p]
      BY <2>2, <3>1 DEF ScalarSlotWins, Prevails
    <3>2. CASE held[p] = slots[p]
      BY <1>5, <2>3, <3>2, NothingBeatsItself
    <3>3. QED
      BY <1>3, <2>3, <3>1, <3>2 DEF MergedFrom
  <2>5. QED
    BY <1>5, <2>1, <2>2, <2>3, <2>4, BeatsTotal
<1>7. ASSUME NEW p \in ListSlotWins(st)
      PROVE  p \in DOMAIN held /\ held[p] = st.list[p]
  <2>1. p \in DOMAIN st.list /\ p \notin DOMAIN st.scalar
    BY <1>4
  <2>2. p \in DOMAIN slots /\ slots[p] = st.list[p]
    BY <1>2, <2>1 DEF MergedFrom
  <2>3. p \in DOMAIN held /\ ~Beats(slots[p], held[p])
    BY <1>3, <2>2 DEF MergedFrom
  <2>4. ~Beats(held[p], slots[p])
    <3>1. CASE p \in DOMAIN st.leaf /\ held[p] = st.leaf[p]
      BY <2>2, <3>1 DEF ListSlotWins, Prevails
    <3>2. CASE held[p] = slots[p]
      BY <1>5, <2>3, <3>2, NothingBeatsItself
    <3>3. QED
      BY <1>3, <2>3, <3>1, <3>2 DEF MergedFrom
  <2>5. QED
    BY <1>5, <2>1, <2>2, <2>3, <2>4, BeatsTotal
<1>8. ASSUME NEW p \in DOMAIN held,
             p \notin ScalarSlotWins(st), p \notin ListSlotWins(st)
      PROVE  p \in DOMAIN st.leaf /\ held[p] = st.leaf[p]
  <2>1. p \in DOMAIN slots =>
          p \in DOMAIN st.leaf /\ Beats(st.leaf[p], slots[p])
    <3>1. ASSUME p \in DOMAIN slots
          PROVE  \/ p \in DOMAIN st.scalar /\ slots[p] = st.scalar[p]
                 \/ p \in DOMAIN st.list /\ slots[p] = st.list[p]
      BY <1>2, <3>1 DEF MergedFrom
    <3>2. QED
      BY <1>4, <1>8, <3>1 DEF ScalarSlotWins, ListSlotWins, Prevails
  <2>2. p \in DOMAIN st.leaf
    BY <1>3, <2>1 DEF MergedFrom
  <2>3. ~Beats(st.leaf[p], held[p])
    BY <1>3, <2>2 DEF MergedFrom
  <2>4. QED
    BY <1>3, <2>1, <2>2, <2>3 DEF MergedFrom
<1>9. /\ DOMAIN held = DOMAIN st.leaf \cup lanes
      /\ \A p \in DOMAIN st.leaf \ lanes : held[p] = st.leaf[p]
      /\ \A p \in Reshredded(st) : held[p] = st.leaf[p]
  <2>1. DOMAIN st.leaf \subseteq DOMAIN held
    BY <1>3 DEF MergedFrom
  <2>2. \A p \in Reshredded(st) : p \notin ScalarSlotWins(st) /\ p \notin ListSlotWins(st)
    BY <1>4
  <2>3. QED
    BY <1>4, <1>6, <1>7, <1>8, <2>1, <2>2 DEF LaneLeaves
<1>10. \A l \in lanes : Finalized(st).lane[l] = held[l].val
  <2>1. /\ \A l \in ScalarSlotWins(st) : Finalized(st).lane[l] = st.scalar[l].val
        /\ \A l \in Reshredded(st) : Finalized(st).lane[l] = st.leaf[l].val
        /\ \A l \in ListSlotWins(st) : Finalized(st).lane[l] = st.list[l].val
    BY <1>1, ResultParts
  <2>2. QED
    BY <1>6, <1>7, <1>9, <2>1 DEF LaneLeaves
<1>11. PICK leaf :
           /\ Reconstruct(Finalized(st)) = [obj |-> TRUE, leaf |-> leaf]
           /\ leaf = [p \in DOMAIN leaf |-> leaf[p]]
           /\ DOMAIN leaf = DOMAIN st.leaf \cup lanes
           /\ \A p \in DOMAIN st.leaf \ lanes : leaf[p] = st.leaf[p].val
           /\ \A l \in lanes : leaf[l] = Finalized(st).lane[l]
  BY ReconstructedParts
<1>12. \A p \in DOMAIN leaf : leaf[p] = held[p].val
  <2> HIDE DEF lanes
  <2>1. QED
    BY <1>9, <1>10, <1>11
<1>13. leaf = [p \in DOMAIN held |-> held[p].val]
  <2> HIDE DEF lanes
  <2>1. QED
    BY <1>9, <1>11, <1>12
<1>14. QED
  BY <1>11, <1>13 DEF held

\* A finalized row, read whole, is the aggregate of its rows.
LEMMA ResultIsAggregate ==
  ASSUME SeparateLanes, RootsAreObjects,
         NEW st, NEW rows \in SUBSET TableRow,
         Holds(st, {row \in rows : row.doc # SqlNull}),
         ~FinalizeConflict(st)
  PROVE  Reconstruct(Finalized(st)) = Aggregate(rows)
<1> DEFINE live == {row \in rows : row.doc # SqlNull}
           having(p) == {row \in live : p \in Surviving(row.doc)}
           candidates(p) == {Incoming(row)[p] : row \in having(p)}
<1>1. live \in SUBSET LiveRow
  BY DEF LiveRow
<1>2. CASE live = {}
  BY <1>2 DEF Holds, Finalized, Reconstruct, Aggregate
<1>3. CASE live # {}
  <2>1. st.has_input /\ st.obj /\ (\E row \in live : row.doc.obj) = TRUE
    BY <1>1, <1>3 DEF Holds, RootsAreObjects, LiveRow, TableRow
  <2>2. Reconstruct(Finalized(st)) =
           [obj |-> TRUE, leaf |-> [p \in DOMAIN HeldIn(st) |-> HeldIn(st)[p].val]]
    BY <1>1, <2>1, ResultIsWhatIsHeld
  <2>3. /\ DOMAIN HeldIn(st) = UNION {Surviving(row.doc) : row \in live}
        /\ \A p \in DOMAIN HeldIn(st) : \E row \in live :
             p \in Surviving(row.doc) /\ HeldIn(st)[p] = Incoming(row)[p]
        /\ \A row \in live : \A p \in Surviving(row.doc) : Carries(HeldIn(st), row, p)
    BY <1>1, HeldIsBest
  <2>4. ASSUME NEW p \in DOMAIN HeldIn(st)
        PROVE  Winner(candidates(p)) = HeldIn(st)[p]
    <3>1. HeldIn(st)[p] \in candidates(p)
      BY <2>3
    <3>2. candidates(p) \in SUBSET Leaf
      <4>1. \A row \in having(p) : /\ Incoming(row) \in LeafMap
                                   /\ DOMAIN Incoming(row) = Surviving(row.doc)
        BY <1>1, IncomingType DEF LiveRow
      <4>2. QED
        BY <4>1, LeafMapElim
    <3>3. \A d \in candidates(p) : ~Beats(d, HeldIn(st)[p])
      BY <2>3 DEF Carries
    <3> HIDE DEF candidates
    <3>4. QED
      BY <3>1, <3>2, <3>3, WinnerIs
  <2>5. Aggregate(rows) =
          [obj  |-> \E row \in live : row.doc.obj,
           leaf |-> [p \in UNION {Surviving(row.doc) : row \in live} |->
                       Winner(candidates(p)).val]]
    BY <1>3 DEF Aggregate
  <2>6. [p \in DOMAIN HeldIn(st) |-> HeldIn(st)[p].val] =
          [p \in UNION {Surviving(row.doc) : row \in live} |-> Winner(candidates(p)).val]
    <3> HIDE DEF candidates, live
    <3>1. QED
      BY <2>3, <2>4
  <2>7. QED
    BY <2>1, <2>2, <2>5, <2>6
<1>4. QED
  BY <1>2, <1>3

\* Both specifications read a clash of kinds and an aggregate of rows the same way.
LEMMA SamePromise ==
  /\ \A row1, row2 : Clash(row1, row2) <=> Promise!Clash(row1, row2)
  /\ \A rows : Aggregate(rows) = Promise!Aggregate(rows)
<1>1. \A p, q : IsStrictPrefix(p, q) <=> Promise!IsStrictPrefix(p, q)
  BY DEF IsStrictPrefix, Promise!IsStrictPrefix, IsPrefix, Promise!IsPrefix
<1>2. \A row1, row2 : Clash(row1, row2) <=> Promise!Clash(row1, row2)
  BY <1>1 DEF Clash, Promise!Clash, KindClash, Promise!KindClash,
              Surviving, Promise!Surviving
<1>3. \A rows : Aggregate(rows) = Promise!Aggregate(rows)
  BY DEF Aggregate, Promise!Aggregate, Winner, Promise!Winner, Beats, Promise!Beats,
         Incoming, Promise!Incoming, Surviving, Promise!Surviving,
         SortKey, Promise!SortKey, NullKey, Promise!NullKey
<1>4. QED
  BY <1>2, <1>3

\* The rows behind a state, as the promise counts them.
LEMMA PromisedRows ==
  ASSUME TypeOK, NEW s \in Node
  PROVE  /\ Promise!RowsOf(s) \in SUBSET TableRow
         /\ {row \in Promise!RowsOf(s) : row.doc # SqlNull} = RowSet(s)
  BY DEF TypeOK, Promise!RowsOf, RowSet, LiveRows

LEMMA InitRefines == Init => Promise!Init
<1> SUFFICES ASSUME Init PROVE Promise!Init
  OBVIOUS
<1>1. [s \in Node |-> Reconstruct(out[s])] = [s \in Node |-> Pending]
  BY DEF Init, Reconstruct
<1>2. QED
  BY <1>1 DEF Init, Promise!Init, TableRow, Promise!TableRow, OrderKey, Promise!OrderKey

\* A state that is running in the code is running in the promise.
LEMMA RunningRefines ==
  ASSUME NEW s \in Node, Running(s)
  PROVE  Promise!Running(s)
  BY DEF Running, Promise!Running, Reconstruct

\* Each of the four ways to fail is provoked by two rows that clash.
LEMMA FailureRefines ==
  ASSUME RootsAreObjects, IInv,
         \/ \E s \in Node, r \in Row : FoldDirectConflict(s, r) \/ FoldReconstructedConflict(s, r)
         \/ \E source, target \in Node : CombineConflict(source, target)
         \/ \E s \in Node : FinalizeFails(s)
  PROVE  Promise!Abort
<1> DEFINE clashing == \E row1, row2 \in {table[r] : r \in Row} : Clash(row1, row2)
<1>1. ASSUME NEW s \in Node
      PROVE  /\ Holds(state[s], RowSet(s)) /\ RowSet(s) \in SUBSET LiveRow
             /\ RowSet(s) \subseteq {table[r] : r \in Row}
  BY RowSetType DEF IInv, TypeOK, StatesCorrect, RowSet, LiveRows
<1>2. ASSUME NEW s \in Node, NEW r \in Row, NEW one, Holds(one, {table[r]}), one.has_input,
             table[r] \in LiveRow, Conflicts(state[s], one.obj, one.leaf)
      PROVE  clashing
  <2>1. \E row1 \in RowSet(s), row2 \in {table[r]} : Clash(row1, row2)
    BY <1>1, <1>2, ConflictMeansClash
  <2>2. QED
    BY <1>1, <2>1
<1>3. ASSUME NEW s \in Node, NEW r \in Row, FoldDirectConflict(s, r)
      PROVE  clashing
  <2> DEFINE one == RowState(table[r])
  <2>1. table[r] \in LiveRow
    BY <1>3 DEF FoldDirectConflict, IInv, TypeOK, LiveRow
  <2>2. /\ Holds(one, {table[r]}) /\ one.has_input
        /\ one.obj = table[r].doc.obj /\ one.leaf = Residual(table[r])
    BY <2>1, RowStateHolds DEF RowState
  <2> HIDE DEF one, clashing
  <2>3. QED
    BY <1>2, <1>3, <2>1, <2>2 DEF FoldDirectConflict
<1>4. ASSUME NEW s \in Node, NEW r \in Row, FoldReconstructedConflict(s, r)
      PROVE  clashing
  <2> DEFINE one == PlainState(table[r])
  <2>1. table[r] \in LiveRow
    BY <1>4 DEF FoldReconstructedConflict, IInv, TypeOK, LiveRow
  <2>2. /\ Holds(one, {table[r]}) /\ one.has_input
        /\ one.obj = table[r].doc.obj /\ one.leaf = Incoming(table[r])
    BY <2>1, PlainStateHolds, EmptyStateFields DEF PlainState, StateSpace
  <2> HIDE DEF one, clashing
  <2>3. QED
    BY <1>2, <1>4, <2>1, <2>2 DEF FoldReconstructedConflict
<1>5. ASSUME NEW source \in Node, NEW target \in Node, CombineConflict(source, target)
      PROVE  clashing
  <2>1. \E row1 \in RowSet(target), row2 \in RowSet(source) : Clash(row1, row2)
    BY <1>1, <1>5, ConflictMeansClash DEF CombineConflict
  <2>2. QED
    BY <1>1, <2>1
<1>6. ASSUME NEW s \in Node, FinalizeFails(s)
      PROVE  clashing
  <2>1. \E row1 \in RowSet(s), row2 \in RowSet(s) : Clash(row1, row2)
    BY <1>1, <1>6, FinalizeConflictMeansClash DEF FinalizeFails
  <2>2. QED
    BY <1>1, <2>1
<1>7. clashing
  <2> HIDE DEF clashing
  <2>1. QED
    BY <1>3, <1>4, <1>5, <1>6
<1>8. Promise!MixedKinds
  BY <1>7, SamePromise DEF Promise!MixedKinds
<1>9. Fail /\ ~failed
  BY DEF FoldDirectConflict, FoldReconstructedConflict, CombineConflict, FinalizeFails, Running
<1>10. QED
  BY <1>8, <1>9 DEF Fail, Promise!Abort

LEMMA ProduceRefines ==
  ASSUME SeparateLanes, RootsAreObjects, IInv, NEW s \in Node, Finalize(s)
  PROVE  Promise!Produce(s)
<1> DEFINE shown == [t \in Node |-> Reconstruct(out[t])]
<1>1. Holds(state[s], RowSet(s)) /\ RowSet(s) \in SUBSET LiveRow
  BY RowSetType DEF IInv, StatesCorrect
<1>2. ~FinalizeConflict(state[s])
  BY DEF Finalize
<1>3. /\ Promise!RowsOf(s) \in SUBSET TableRow
      /\ {row \in Promise!RowsOf(s) : row.doc # SqlNull} = RowSet(s)
  BY PromisedRows DEF IInv
<1>4. Reconstruct(Finalized(state[s])) = Promise!Aggregate(Promise!RowsOf(s))
  BY <1>1, <1>2, <1>3, ResultIsAggregate, SamePromise
<1>5. Promise!ConsistentRows(s)
  <2>1. ASSUME NEW r1 \in fed[s], NEW r2 \in fed[s], Clash(table[r1], table[r2])
        PROVE  FALSE
    <3>1. table[r1] \in RowSet(s) /\ table[r2] \in RowSet(s)
      BY <2>1 DEF Clash, RowSet, LiveRows
    <3>2. QED
      BY <1>1, <1>2, <2>1, <3>1, FinalizedRowsAgree
  <2>2. QED
    BY <2>1, SamePromise DEF Promise!ConsistentRows
<1>6. shown' = [shown EXCEPT ![s] = Reconstruct(Finalized(state[s]))]
  <2>1. out' = [out EXCEPT ![s] = Finalized(state[s])] /\ out \in [Node -> ResultRow \cup {Pending, SqlNull}]
    BY DEF Finalize, IInv, TypeOK
  <2>2. out'[s] = Finalized(state[s]) /\ \A t \in Node \ {s} : out'[t] = out[t]
    BY <2>1
  <2>3. \A t \in Node : Reconstruct(out'[t]) =
          IF t = s THEN Reconstruct(Finalized(state[s])) ELSE Reconstruct(out[t])
    BY <2>2
  <2>4. QED
    BY <2>3
<1>7. QED
  BY <1>4, <1>5, <1>6, RunningRefines DEF Finalize, Promise!Produce

LEMMA StepRefines ==
  ASSUME SeparateLanes, RootsAreObjects, IInv, [Next]_vars
  PROVE  [Promise!Next]_(Promise!vars)
<1>1. ASSUME NEW s \in Node, NEW r \in Row,
             SkipNullRow(s, r) \/ FoldDirect(s, r) \/ FoldReconstructed(s, r)
      PROVE  Promise!Feed(s, r)
  BY <1>1, RunningRefines DEF SkipNullRow, FoldDirect, FoldReconstructed, Promise!Feed
<1>2. ASSUME NEW source \in Node, NEW target \in Node, NEW destructive \in BOOLEAN,
             Combine(source, target, destructive)
      PROVE  Promise!Merge(source, target, destructive)
  BY <1>2, RunningRefines DEF Combine, Promise!Merge
<1>3. CASE UNCHANGED vars
  BY <1>3 DEF vars, Promise!vars
<1>4. CASE \E s \in Node, r \in Row :
             SkipNullRow(s, r) \/ FoldDirect(s, r) \/ FoldReconstructed(s, r)
  BY <1>1, <1>4 DEF Promise!Next
<1>5. CASE \/ \E s \in Node, r \in Row : FoldDirectConflict(s, r) \/ FoldReconstructedConflict(s, r)
           \/ \E source, target \in Node : CombineConflict(source, target)
           \/ \E s \in Node : FinalizeFails(s)
  BY <1>5, FailureRefines DEF Promise!Next
<1>6. CASE \E source, target \in Node, destructive \in BOOLEAN :
             Combine(source, target, destructive)
  BY <1>2, <1>6 DEF Promise!Next
<1>7. CASE \E s \in Node : Finalize(s)
  BY <1>7, ProduceRefines DEF Promise!Next
<1>8. QED
  BY <1>3, <1>4, <1>5, <1>6, <1>7 DEF Next

\* The shredded aggregate keeps the promise of the plain one, over objects and
\* lanes that are separate: its rows, read whole, are the aggregates of the rows
\* that reached each state, and it fails only where rows disagree on a kind.
THEOREM Implementation ==
  ASSUME SeparateLanes, RootsAreObjects
  PROVE  Spec => ImplementsPromise
<1>1. Init => Promise!Init
  BY InitRefines
<1>2. IInv /\ [Next]_vars => [Promise!Next]_(Promise!vars)
  BY StepRefines
<1>3. QED
  BY <1>1, <1>2, Invariance, PTL DEF Spec, ImplementsPromise, Promise!Spec
=============================================================================
