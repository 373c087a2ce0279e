--------------------------- MODULE KeyedRowsLemmas ---------------------------
(* Lemmas about the operators of KeyedRows that both keyed merges are built from. *)
EXTENDS KeyedRows, TLAPS

\* A sort key is one of the finitely many the key column can be encoded to.
LEMMA SortKeyType ==
  ASSUME NEW k \in OrderKey
  PROVE  SortKey(k) \in SortKeySpace
  BY KeyAssumption DEF OrderKey, SortKeySpace, SortKey, NullKey

\* Keys and values are compared as naturals.
LEMMA LeafFields ==
  ASSUME NEW x \in Leaf
  PROVE  /\ x.key \in Nat
         /\ x.val \in Nat
         /\ x = [key |-> x.key, val |-> x.val]
<1>1. SortKeySpace \subseteq Nat
  BY KeyAssumption DEF SortKeySpace
<1>2. QED
  BY <1>1, ValueAssumption DEF Leaf

\* Losing to a leaf carries over to every leaf that is not worse.
LEMMA BeatsTransitive ==
  ASSUME NEW x \in Leaf, NEW y \in Leaf, NEW z \in Leaf,
         ~Beats(x, y), ~Beats(y, z)
  PROVE  ~Beats(x, z)
<1>1. /\ x.key \in Nat /\ y.key \in Nat /\ z.key \in Nat
      /\ x.val \in Nat /\ y.val \in Nat /\ z.val \in Nat
  BY LeafFields
<1>2. QED
  BY <1>1 DEF Beats

\* Two leaves that do not beat each other are the same key and value bytes.
LEMMA BeatsTotal ==
  ASSUME NEW x \in Leaf, NEW y \in Leaf, ~Beats(x, y), ~Beats(y, x)
  PROVE  x = y
  BY LeafFields DEF Beats

LEMMA BeatsAsymmetric ==
  ASSUME NEW x \in Leaf, NEW y \in Leaf, Beats(x, y)
  PROVE  ~Beats(y, x)
  BY LeafFields DEF Beats

\* A function from paths to leaves is a leaf map.
LEMMA LeafMapIntro ==
  ASSUME NEW S, S \subseteq Path, NEW f, f \in [S -> Leaf]
  PROVE  f \in LeafMap
  BY DEF LeafMap

LEMMA LeafMapElim ==
  ASSUME NEW f \in LeafMap
  PROVE  /\ DOMAIN f \subseteq Path
         /\ f \in [DOMAIN f -> Leaf]
         /\ \A p \in DOMAIN f : f[p] \in Leaf
  BY DEF LeafMap

\* A row that has a value says something of each of its surviving leaves.
LEMMA IncomingType ==
  ASSUME NEW row \in TableRow, row.doc # SqlNull
  PROVE  /\ row.doc \in Doc
         /\ row.doc.obj \in BOOLEAN
         /\ DOMAIN Incoming(row) = Surviving(row.doc)
         /\ Incoming(row) \in LeafMap
<1>1. row.doc \in Doc /\ row.key \in OrderKey
  BY DEF TableRow
<1>2. Surviving(row.doc) \subseteq DOMAIN row.doc.leaf
  BY DEF Surviving
<1>3. DOMAIN row.doc.leaf \subseteq Path
  BY <1>1 DEF Path
<1>4. ASSUME NEW p \in Surviving(row.doc)
      PROVE  [key |-> SortKey(row.key), val |-> row.doc.leaf[p]] \in Leaf
  BY <1>1, <1>2, SortKeyType, DocAssumption DEF Leaf
<1>5. Incoming(row) \in [Surviving(row.doc) -> Leaf]
  BY <1>4 DEF Incoming
<1>6. Incoming(row) \in LeafMap
  BY <1>2, <1>3, <1>5, LeafMapIntro
<1>7. DOMAIN Incoming(row) = Surviving(row.doc)
  BY DEF Incoming
<1>8. row.doc.obj \in BOOLEAN
  BY <1>1, DocAssumption
<1>9. QED
  BY <1>1, <1>6, <1>7, <1>8

\* Merging two leaf maps keeps every path of both, invents no leaf, and keeps a
\* leaf neither side beats.
LEMMA MergeLeavesCorrect ==
  ASSUME NEW old \in LeafMap, NEW new \in LeafMap
  PROVE  /\ MergeLeaves(old, new) \in LeafMap
         /\ DOMAIN MergeLeaves(old, new) = DOMAIN old \cup DOMAIN new
         /\ \A p \in DOMAIN MergeLeaves(old, new) :
              \/ p \in DOMAIN old /\ MergeLeaves(old, new)[p] = old[p]
              \/ p \in DOMAIN new /\ MergeLeaves(old, new)[p] = new[p]
         /\ \A p \in DOMAIN old : ~Beats(old[p], MergeLeaves(old, new)[p])
         /\ \A p \in DOMAIN new : ~Beats(new[p], MergeLeaves(old, new)[p])
<1> DEFINE M == MergeLeaves(old, new)
<1>1. /\ \A p \in DOMAIN old : old[p] \in Leaf
      /\ \A p \in DOMAIN new : new[p] \in Leaf
      /\ DOMAIN old \cup DOMAIN new \subseteq Path
  BY LeafMapElim
<1>2. DOMAIN M = DOMAIN old \cup DOMAIN new
  BY DEF MergeLeaves
<1>3. \A p \in DOMAIN M : \/ p \in DOMAIN old /\ M[p] = old[p]
                          \/ p \in DOMAIN new /\ M[p] = new[p]
  BY DEF MergeLeaves
<1>4. M \in [DOMAIN old \cup DOMAIN new -> Leaf]
  BY <1>1 DEF MergeLeaves
<1>5. M \in LeafMap
  BY <1>1, <1>4, LeafMapIntro
<1>6. \A x \in Leaf : ~Beats(x, x)
  BY LeafFields DEF Beats
<1>7. ASSUME NEW p \in DOMAIN old
      PROVE  ~Beats(old[p], M[p])
  <2>1. CASE p \in DOMAIN new => ~Beats(new[p], old[p])
    BY <1>1, <1>6, <2>1 DEF MergeLeaves
  <2>2. CASE p \in DOMAIN new /\ Beats(new[p], old[p])
    <3>1. M[p] = new[p]
      BY <2>2 DEF MergeLeaves
    <3>2. QED
      BY <1>1, <2>2, <3>1, BeatsAsymmetric
  <2>3. QED
    BY <2>1, <2>2
<1>8. ASSUME NEW p \in DOMAIN new
      PROVE  ~Beats(new[p], M[p])
  <2>1. CASE p \in DOMAIN old /\ ~Beats(new[p], old[p])
    BY <2>1 DEF MergeLeaves
  <2>2. CASE ~(p \in DOMAIN old /\ ~Beats(new[p], old[p]))
    <3>1. M[p] = new[p]
      BY <2>2 DEF MergeLeaves
    <3>2. QED
      BY <1>1, <1>6, <3>1
  <2>3. QED
    BY <2>1, <2>2
<1>9. QED
  BY <1>2, <1>3, <1>5, <1>7, <1>8

\* A merged map has every path of both and nothing of its own, and what was
\* merged does not beat what is kept.
MergedFrom(M, old, new) ==
  /\ DOMAIN M = DOMAIN old \cup DOMAIN new
  /\ \A p \in DOMAIN M : \/ p \in DOMAIN old /\ M[p] = old[p]
                         \/ p \in DOMAIN new /\ M[p] = new[p]
  /\ \A p \in DOMAIN old : ~Beats(old[p], M[p])
  /\ \A p \in DOMAIN new : ~Beats(new[p], M[p])

LEMMA MergeIsMerged ==
  ASSUME NEW old \in LeafMap, NEW new \in LeafMap
  PROVE  /\ MergeLeaves(old, new) \in LeafMap
         /\ MergedFrom(MergeLeaves(old, new), old, new)
  BY MergeLeavesCorrect DEF MergedFrom

\* The rows that have a value.
LiveRow == {row \in TableRow : row.doc # SqlNull}

\* A row agrees with itself: no leaf of a document lies beneath another.
LEMMA NoSelfClash ==
  ASSUME NEW row \in TableRow
  PROVE  ~Clash(row, row)
  BY DocAssumption DEF TableRow, Clash, KindClash, Surviving

\* A leaf among the candidates that none of them beats is the winner.
LEMMA WinnerIs ==
  ASSUME NEW C \in SUBSET Leaf, NEW c \in C, \A d \in C : ~Beats(d, c)
  PROVE  Winner(C) = c
<1>1. \A d \in C : d = c \/ Beats(c, d)
  BY BeatsTotal
<1>2. Winner(C) \in C /\ \A d \in C : d = Winner(C) \/ Beats(Winner(C), d)
  BY <1>1 DEF Winner
<1>3. QED
  BY <1>2

=============================================================================
