--------------------------- MODULE ShreddedRowProofs ---------------------------
(* Theorems about shredded rows: lemmas on the documents and rows of JsonoDoc *)
(* and ShreddedRow, then jsono_group_merge (GroupMergeDirect),                *)
(* jsono_merge_patch (LaneMerge), jsono_diff (LaneDiff) and one after the     *)
(* other (LaneForms), for all row types, documents and rows.                  *)
EXTENDS GroupMergeDirect, LaneForms, SequenceTheorems, FiniteSetTheorems,
        WellFoundedInduction, TLAPS

Path == Seq(STRING)

LEMMA Least ==
  ASSUME NEW n \in Nat, NEW S, S \subseteq 0 .. n, S # {}
  PROVE  \E m \in S : \A i \in S : m <= i
<1> DEFINE B == {T \in SUBSET (0 .. n) : T # {} /\ ~\E x \in T : \A y \in T : x <= y}
<1>1. ASSUME B # {}
      PROVE  FALSE
  <2>1. PICK T \in B : \A U \in SUBSET T : U # T => U \notin B
    <3>1. IsFiniteSet(0 .. n)
      BY FS_Interval
    <3>2. B \subseteq SUBSET (0 .. n)
      OBVIOUS
    <3> DEFINE R == StrictSubsetOrdering(0 .. n)
    <3>3. IsWellFoundedOn(R, SUBSET (0 .. n))
      BY <3>1, FS_StrictSubsetOrderingWellFounded, FS_FiniteSubsetsOfFinite
    <3>4. \A T \in B, U \in B : U \subseteq T /\ U # T => <<U, T>> \in R
      BY <3>2 DEF StrictSubsetOrdering
    <3> HIDE DEF B, R
    <3>5. \E T \in B : \A U \in B : <<U, T>> \notin R
      BY <1>1, <3>2, <3>3, WFMin
    <3> QED
      BY <3>4, <3>5
  <2>2. PICK x \in T : TRUE
    OBVIOUS
  <2>3. /\ T \subseteq 0 .. n /\ ~\E a \in T : \A y \in T : a <= y
        /\ \A U \in SUBSET T : U # T /\ U # {} => \E a \in U : \A y \in U : a <= y
    BY <2>1
  <2>4. CASE T \ {x} = {}
    <3>1. \A y \in T : x <= y
      BY <2>2, <2>3, <2>4
    <3> QED
      BY <2>2, <2>3, <3>1
  <2>5. CASE T \ {x} # {}
    <3>1. PICK a \in T \ {x} : \A y \in T \ {x} : a <= y
      BY <2>2, <2>3, <2>5
    <3>2. CASE a <= x
      <4>1. \A y \in T : a <= y
        BY <3>1, <3>2
      <4> QED
        BY <2>3, <3>1, <4>1
    <3>3. CASE ~(a <= x)
      <4>1. \A y \in T : x <= y
        BY <2>2, <2>3, <3>1, <3>3
      <4> QED
        BY <2>2, <2>3, <4>1
    <3> QED
      BY <3>2, <3>3
  <2> QED
    BY <2>4, <2>5
<1> QED
  BY <1>1

LEMMA Greatest ==
  ASSUME NEW n \in Nat, NEW S, S \subseteq 0 .. n, S # {}
  PROVE  Max(S) \in S /\ \A i \in S : i <= Max(S)
<1> DEFINE mirrored == {n - i : i \in S}
<1>1. mirrored \subseteq 0 .. n /\ mirrored # {}
  <2>1. \A i \in S : n - i \in 0 .. n
    OBVIOUS
  <2>2. mirrored \subseteq 0 .. n
    BY <2>1
  <2>3. PICK i \in S : TRUE
    OBVIOUS
  <2>4. n - i \in mirrored
    BY <2>3
  <2> QED BY <2>2, <2>4
<1> HIDE DEF mirrored
<1>2. PICK k \in mirrored : \A j \in mirrored : k <= j
  BY <1>1, Least
<1>3. PICK m \in S : k = n - m
  BY <1>2 DEF mirrored
<1>4. \A i \in S : n - m <= n - i
  BY <1>2, <1>3 DEF mirrored
<1>5. \A i \in S : i <= m
  BY <1>4
<1> QED BY <1>3, <1>5 DEF Max

-----------------------------------------------------------------------------
(* Paths inside one another. *)

\* A prefix agrees with the sequence on its own length.
LEMMA PrefixByItems ==
  ASSUME NEW p \in Path, NEW q \in Path
  PROVE  IsPrefix(p, q) <=> Len(p) <= Len(q) /\ \A i \in 1 .. Len(p) : p[i] = q[i]
<1>1. ASSUME IsPrefix(p, q) PROVE Len(p) <= Len(q) /\ \A i \in 1 .. Len(p) : p[i] = q[i]
  <2>1. Len(p) <= Len(q) /\ SubSeq(p, 1, Len(p)) = SubSeq(q, 1, Len(p))
    BY <1>1 DEF IsPrefix
  <2> QED BY <2>1 DEF Path
<1>2. ASSUME Len(p) <= Len(q), \A i \in 1 .. Len(p) : p[i] = q[i] PROVE IsPrefix(p, q)
  <2>1. SubSeq(p, 1, Len(p)) = SubSeq(q, 1, Len(p))
    BY <1>2 DEF Path
  <2> QED BY <1>2, <2>1 DEF IsPrefix
<1> QED BY <1>1, <1>2

\* The start of a sequence, item by item.
LEMMA Start ==
  ASSUME NEW p \in Path, NEW n \in 0 .. Len(p)
  PROVE  /\ SubSeq(p, 1, n) \in Path
         /\ Len(SubSeq(p, 1, n)) = n
         /\ \A i \in 1 .. n : SubSeq(p, 1, n)[i] = p[i]
         /\ IsPrefix(SubSeq(p, 1, n), p)
<1>1. /\ SubSeq(p, 1, n) \in Path
      /\ Len(SubSeq(p, 1, n)) = n
      /\ \A i \in 1 .. n : SubSeq(p, 1, n)[i] = p[i]
  BY DEF Path
<1>2. n <= Len(p)
  BY DEF Path
<1> QED BY <1>1, <1>2, PrefixByItems

LEMMA PrefixReflexive ==
  ASSUME NEW p \in Path
  PROVE  IsPrefix(p, p)
BY PrefixByItems DEF Path

LEMMA PrefixTransitive ==
  ASSUME NEW p \in Path, NEW q \in Path, NEW r \in Path, IsPrefix(p, q), IsPrefix(q, r)
  PROVE  IsPrefix(p, r)
<1>1. Len(p) <= Len(q) /\ \A i \in 1 .. Len(p) : p[i] = q[i]
  BY PrefixByItems
<1>2. Len(q) <= Len(r) /\ \A i \in 1 .. Len(q) : q[i] = r[i]
  BY PrefixByItems
<1>3. Len(p) \in Nat /\ Len(q) \in Nat /\ Len(r) \in Nat
  BY DEF Path
<1>4. Len(p) <= Len(r) /\ \A i \in 1 .. Len(p) : p[i] = r[i]
  BY <1>1, <1>2, <1>3
<1> QED BY <1>4, PrefixByItems

LEMMA PrefixAntisymmetric ==
  ASSUME NEW p \in Path, NEW q \in Path, IsPrefix(p, q), IsPrefix(q, p)
  PROVE  p = q
<1>1. Len(p) <= Len(q) /\ \A i \in 1 .. Len(p) : p[i] = q[i]
  BY PrefixByItems
<1>2. Len(q) <= Len(p)
  BY PrefixByItems
<1> QED BY <1>1, <1>2 DEF Path

\* Two paths above a third are above one another.
LEMMA PrefixLinear ==
  ASSUME NEW p \in Path, NEW q \in Path, NEW r \in Path, IsPrefix(p, r), IsPrefix(q, r)
  PROVE  IsPrefix(p, q) \/ IsPrefix(q, p)
<1>1. Len(p) <= Len(r) /\ \A i \in 1 .. Len(p) : p[i] = r[i]
  BY PrefixByItems
<1>2. Len(q) <= Len(r) /\ \A i \in 1 .. Len(q) : q[i] = r[i]
  BY PrefixByItems
<1>3. Len(p) \in Nat /\ Len(q) \in Nat
  BY DEF Path
<1>4. \/ Len(p) <= Len(q) /\ \A i \in 1 .. Len(p) : p[i] = q[i]
      \/ Len(q) <= Len(p) /\ \A i \in 1 .. Len(q) : q[i] = p[i]
  BY <1>1, <1>2, <1>3
<1> QED BY <1>4, PrefixByItems

LEMMA RootIsPrefix ==
  ASSUME NEW p \in Path
  PROVE  << >> \in Path /\ IsPrefix(<< >>, p)
<1>1. << >> \in Path /\ Len(<< >>) = 0 /\ Len(p) \in Nat
  BY DEF Path
<1> QED BY <1>1, PrefixByItems

LEMMA NothingAboveTheRoot ==
  ASSUME NEW p \in Path, IsPrefix(p, << >>)
  PROVE  p = << >>
BY RootIsPrefix, PrefixAntisymmetric

LEMMA PrefixesArePrefixes ==
  ASSUME NEW p \in Path, NEW q
  PROVE  q \in Prefixes(p) <=> q \in Path /\ IsPrefix(q, p)
<1>1. ASSUME q \in Prefixes(p) PROVE q \in Path /\ IsPrefix(q, p)
  <2>1. PICK n \in 0 .. Len(p) : q = SubSeq(p, 1, n)
    BY <1>1 DEF Prefixes
  <2>2. q \in Path /\ Len(q) = n /\ \A i \in 1 .. n : q[i] = p[i]
    BY <2>1 DEF Path
  <2> QED BY <2>2, PrefixByItems DEF Path
<1>2. ASSUME q \in Path, IsPrefix(q, p) PROVE q \in Prefixes(p)
  <2>1. Len(q) <= Len(p) /\ \A i \in 1 .. Len(q) : q[i] = p[i]
    BY <1>2, PrefixByItems
  <2>2. Len(q) \in 0 .. Len(p)
    BY <1>2, <2>1 DEF Path
  <2>3. q = SubSeq(p, 1, Len(q))
    BY <1>2, <2>1, <2>2 DEF Path
  <2> QED BY <2>2, <2>3 DEF Prefixes
<1> QED BY <1>1, <1>2

\* The front of a path is the longest path strictly above it.
LEMMA FrontIsAbove ==
  ASSUME NEW p \in Path, p # << >>
  PROVE  /\ Front(p) \in Path
         /\ IsStrictPrefix(Front(p), p)
<1>1. Len(p) \in Nat \ {0}
  BY DEF Path
<1>2. Front(p) \in Path /\ Len(Front(p)) = Len(p) - 1 /\ \A i \in 1 .. Len(p) - 1 : Front(p)[i] = p[i]
  <2>1. Len(p) - 1 \in 0 .. Len(p)
    BY <1>1
  <2> QED BY <2>1, Start DEF Front
<1>3. IsPrefix(Front(p), p)
  BY <1>1, <1>2, PrefixByItems
<1>4. Front(p) # p
  BY <1>1, <1>2
<1> QED BY <1>2, <1>3, <1>4 DEF IsStrictPrefix

LEMMA AboveIsAboveFront ==
  ASSUME NEW p \in Path, NEW q \in Path, IsStrictPrefix(q, p)
  PROVE  p # << >> /\ IsPrefix(q, Front(p))
<1>1. IsPrefix(q, p) /\ q # p
  BY DEF IsStrictPrefix
<1>2. Len(q) <= Len(p) /\ \A i \in 1 .. Len(q) : q[i] = p[i]
  BY <1>1, PrefixByItems
<1>3. Len(q) # Len(p)
  BY <1>1, <1>2 DEF Path
<1>4. Len(p) \in Nat \ {0} /\ Len(q) \in Nat /\ Len(q) <= Len(p) - 1
  BY <1>2, <1>3 DEF Path
<1>5. Front(p) \in Path /\ Len(Front(p)) = Len(p) - 1 /\ \A i \in 1 .. Len(p) - 1 : Front(p)[i] = p[i]
  <2>1. Len(p) - 1 \in 0 .. Len(p)
    BY <1>4
  <2> QED BY <2>1, Start DEF Front
<1>6. IsPrefix(q, Front(p))
  BY <1>2, <1>4, <1>5, PrefixByItems
<1>7. p # << >>
  BY <1>4
<1> QED BY <1>6, <1>7

\* Going down a path that leaves a set of paths around the root, there is a first
\* path outside.
LEMMA FirstOutside ==
  ASSUME NEW inside, NEW p \in Path, << >> \in inside, p \notin inside
  PROVE  \E q \in Path : /\ IsPrefix(q, p)
                         /\ q # << >> /\ q \notin inside
                         /\ Front(q) \in inside
<1> DEFINE out == {n \in 0 .. Len(p) : SubSeq(p, 1, n) \notin inside}
<1>1. Len(p) \in Nat /\ SubSeq(p, 1, Len(p)) = p /\ SubSeq(p, 1, 0) = << >>
  BY DEF Path
<1>2. PICK n \in out : \A m \in out : n <= m
  <2>1. SubSeq(p, 1, Len(p)) \notin inside
    BY <1>1, Zenon
  <2>2. Len(p) \in out
    BY <1>1, <2>1
  <2>3. out \subseteq 0 .. Len(p) /\ out # {}
    BY <2>2
  <2> HIDE DEF out
  <2> QED BY <1>1, <2>3, Least
<1>3. n \in 0 .. Len(p) /\ n # 0 /\ SubSeq(p, 1, n) \notin inside
  BY <1>1, <1>2
<1>4. n - 1 \in 0 .. Len(p) /\ n - 1 \notin out
  BY <1>1, <1>2, <1>3
<1>5. SubSeq(p, 1, n - 1) \in inside
  BY <1>4
<1> DEFINE q == SubSeq(p, 1, n)
<1>6. q \in Path /\ Len(q) = n /\ IsPrefix(q, p) /\ q # << >>
  BY <1>3, Start
<1>7. Front(q) = SubSeq(p, 1, n - 1)
  <2>1. SubSeq(q, 1, n - 1) = SubSeq(p, 1, n - 1)
    BY <1>1, <1>3 DEF Path
  <2> QED BY <1>6, <2>1 DEF Front
<1> HIDE DEF q
<1> QED BY <1>3, <1>5, <1>6, <1>7 DEF q

-----------------------------------------------------------------------------
(* Documents. *)

LEMMA NodesDiffer ==
  ASSUME NEW v
  PROVE  Branch # Scalar(v)
BY DEF Branch, Scalar

LEMMA ScalarsDiffer ==
  ASSUME NEW v, NEW w, Scalar(v) = Scalar(w)
  PROVE  v = w
BY DEF Scalar

LEMMA AboveIsBranch ==
  ASSUME NEW doc, IsDocument(doc), NEW p \in DOMAIN doc, NEW q \in Path, IsPrefix(q, p), q # p
  PROVE  q \in DOMAIN doc /\ doc[q] = Branch
<1>1. p \in Path
  BY DEF IsDocument, Path
<1>2. q \in Prefixes(p) \ {p}
  BY <1>1, PrefixesArePrefixes
<1> QED BY <1>2 DEF IsDocument

LEMMA DocumentPaths ==
  ASSUME NEW doc, IsDocument(doc)
  PROVE  DOMAIN doc \subseteq Path /\ << >> \in DOMAIN doc
BY DEF IsDocument, Path

LEMMA DocumentByPaths ==
  ASSUME NEW doc, DOMAIN doc \subseteq Path, << >> \in DOMAIN doc,
         \A p \in DOMAIN doc : \A q \in Path :
           IsPrefix(q, p) /\ q # p => q \in DOMAIN doc /\ doc[q] = Branch
  PROVE  IsDocument(doc)
<1>1. ASSUME NEW p \in DOMAIN doc, NEW q \in Prefixes(p) \ {p}
      PROVE  q \in DOMAIN doc /\ doc[q] = Branch
  <2>1. p \in Path
    OBVIOUS
  <2>2. q \in Path /\ IsPrefix(q, p)
    BY <2>1, PrefixesArePrefixes
  <2> QED BY <2>2
<1>2. DOMAIN doc \subseteq Seq(STRING)
  BY DEF Path
<1> QED BY <1>1, <1>2 DEF IsDocument

\* What is not an object has nothing below it.
LEMMA NothingBelowALeaf ==
  ASSUME NEW doc, IsDocument(doc), NEW p \in DOMAIN doc, NEW q \in DOMAIN doc,
         doc[p] # Branch, IsPrefix(p, q)
  PROVE  p = q
BY AboveIsBranch, DocumentPaths

-----------------------------------------------------------------------------
(* The merge of two objects. *)

First(a, b, nulls) ==
  {p \in DOMAIN a : \E q \in Kept(a, b, nulls) :
     IsPrefix(q, p) /\ (nulls = "IgnoreNulls" => p = q \/ MemberSurvives(a, p, nulls))}
Second(a, b, nulls) ==
  {p \in DOMAIN b : \E q \in Put(a, b, nulls) : IsPrefix(q, p) /\ MemberSurvives(b, p, nulls)}

Objects2(a, b) == IsDocument(a) /\ IsObject(a) /\ IsDocument(b) /\ IsObject(b)

LEMMA MergeDomain ==
  ASSUME NEW a, NEW b, NEW nulls
  PROVE  DOMAIN MergeTwoObjects(a, b, nulls)
           = (Nested(a, b) \cup First(a, b, nulls)) \cup Second(a, b, nulls)
BY DEF MergeTwoObjects, First, Second

LEMMA MergeNode ==
  ASSUME NEW a, NEW b, NEW nulls, NEW p \in DOMAIN MergeTwoObjects(a, b, nulls)
  PROVE  MergeTwoObjects(a, b, nulls)[p] = IF p \in Second(a, b, nulls) THEN b[p] ELSE a[p]
BY DEF MergeTwoObjects, First, Second

LEMMA NestedIsClosed ==
  ASSUME NEW a, NEW b, Objects2(a, b), NEW p \in Nested(a, b), NEW q \in Path, IsPrefix(q, p)
  PROVE  q \in Nested(a, b)
BY AboveIsBranch DEF Nested, Objects2

LEMMA RootIsNested ==
  ASSUME NEW a, NEW b, Objects2(a, b)
  PROVE  << >> \in Nested(a, b)
BY DocumentPaths DEF Nested, Objects2, IsObject

LEMMA MetPaths ==
  ASSUME NEW a, NEW b, Objects2(a, b), NEW q \in Met(a, b)
  PROVE  q \in Path /\ q \notin Nested(a, b) /\ q \in DOMAIN a \cup DOMAIN b /\ q # << >>
<1>1. q \in DOMAIN a \cup DOMAIN b /\ q \notin Nested(a, b)
  BY DEF Met
<1>2. DOMAIN a \subseteq Path /\ DOMAIN b \subseteq Path
  BY DocumentPaths DEF Objects2
<1> QED BY <1>1, <1>2, RootIsNested

LEMMA AboveMetIsNested ==
  ASSUME NEW a, NEW b, Objects2(a, b), NEW q \in Met(a, b), NEW r \in Path, IsPrefix(r, q), r # q
  PROVE  r \in Nested(a, b)
<1>1. q \in Path
  BY MetPaths
<1>2. IsStrictPrefix(r, q)
  BY DEF IsStrictPrefix
<1>3. IsPrefix(r, Front(q))
  BY <1>1, <1>2, AboveIsAboveFront
<1>4. Front(q) \in Nested(a, b)
  BY DEF Met
<1> QED BY <1>3, <1>4, NestedIsClosed

LEMMA MetIsUnique ==
  ASSUME NEW a, NEW b, Objects2(a, b), NEW q \in Met(a, b), NEW r \in Met(a, b),
         NEW p \in Path, IsPrefix(q, p), IsPrefix(r, p)
  PROVE  q = r
<1>1. q \in Path /\ r \in Path /\ q \notin Nested(a, b) /\ r \notin Nested(a, b)
  BY MetPaths
<1>2. IsPrefix(q, r) \/ IsPrefix(r, q)
  BY <1>1, PrefixLinear
<1> QED BY <1>1, <1>2, AboveMetIsNested

LEMMA BelowMetIsNotNested ==
  ASSUME NEW a, NEW b, Objects2(a, b), NEW q \in Met(a, b), NEW p \in Path, IsPrefix(q, p)
  PROVE  p \notin Nested(a, b)
BY NestedIsClosed, MetPaths

\* Every path of either document that is not merged into is below one where they part.
LEMMA MetAbove ==
  ASSUME NEW a, NEW b, Objects2(a, b), NEW p \in DOMAIN a \cup DOMAIN b, p \notin Nested(a, b)
  PROVE  \E q \in Met(a, b) : /\ IsPrefix(q, p)
                              /\ p \in DOMAIN a => q \in DOMAIN a
                              /\ p \in DOMAIN b => q \in DOMAIN b
<1>1. p \in Path
  BY DocumentPaths DEF Objects2
<1>2. PICK q \in Path : /\ IsPrefix(q, p) /\ q # << >>
                        /\ q \notin Nested(a, b) /\ Front(q) \in Nested(a, b)
  BY <1>1, RootIsNested, FirstOutside
<1>3. (p \in DOMAIN a => q \in DOMAIN a) /\ (p \in DOMAIN b => q \in DOMAIN b)
  BY <1>2, AboveIsBranch DEF Objects2
<1>4. q \in Met(a, b)
  BY <1>2, <1>3 DEF Met
<1> QED BY <1>2, <1>3, <1>4

LEMMA FirstAndSecondPart ==
  ASSUME NEW a, NEW b, Objects2(a, b), NEW nulls, NEW p \in First(a, b, nulls)
  PROVE  p \notin Second(a, b, nulls)
<1> SUFFICES ASSUME p \in Second(a, b, nulls) PROVE FALSE
  OBVIOUS
<1>1. PICK q \in Kept(a, b, nulls) : IsPrefix(q, p)
  BY DEF First
<1>2. PICK r \in Put(a, b, nulls) : IsPrefix(r, p)
  BY DEF Second
<1>3. q \in Met(a, b) /\ r \in Met(a, b) /\ p \in Path
  BY DocumentPaths DEF Kept, Put, First, Objects2
<1>4. q = r
  BY <1>1, <1>2, <1>3, MetIsUnique
<1> QED BY <1>4 DEF Kept, Put, MemberSurvives

LEMMA MergeRoot ==
  ASSUME NEW a, NEW b, Objects2(a, b), NEW nulls, NEW p \in Nested(a, b)
  PROVE  p \in DOMAIN MergeTwoObjects(a, b, nulls) /\ MergeTwoObjects(a, b, nulls)[p] = Branch
<1>1. p \notin Second(a, b, nulls)
  <2>1. SUFFICES ASSUME NEW r \in Put(a, b, nulls), IsPrefix(r, p), p \in DOMAIN b PROVE FALSE
    BY DEF Second
  <2>2. r \in Met(a, b) /\ p \in Path
    BY <2>1, DocumentPaths DEF Put, Objects2
  <2> QED BY <2>1, <2>2, BelowMetIsNotNested
<1>2. p \in DOMAIN MergeTwoObjects(a, b, nulls)
  BY MergeDomain
<1>3. a[p] = Branch
  BY DEF Nested
<1> QED BY <1>1, <1>2, <1>3, MergeNode

LEMMA AboveSurvives ==
  ASSUME NEW doc, IsDocument(doc), NEW nulls, NEW p \in DOMAIN doc, MemberSurvives(doc, p, nulls),
         NEW q \in Path, IsPrefix(q, p)
  PROVE  q \in DOMAIN doc /\ MemberSurvives(doc, q, nulls)
<1>1. p \in Path /\ DOMAIN doc \subseteq Path
  BY DocumentPaths
<1>2. q \in DOMAIN doc /\ (q = p \/ doc[q] = Branch)
  BY AboveIsBranch
<1>3. doc[q] # Scalar(Null)
  BY <1>2, NodesDiffer DEF MemberSurvives
<1>4. ASSUME Survives(doc, p) PROVE Survives(doc, q)
  <2>1. PICK r \in LeafPaths(doc) : IsPrefix(p, r)
    BY <1>4 DEF Survives
  <2>2. r \in Path
    BY <1>1, <2>1 DEF LeafPaths
  <2>3. IsPrefix(q, r)
    BY <1>1, <2>1, <2>2, PrefixTransitive
  <2> QED BY <2>1, <2>3 DEF Survives
<1> QED BY <1>2, <1>3, <1>4 DEF MemberSurvives

LEMMA FirstIsClosed ==
  ASSUME NEW a, NEW b, Objects2(a, b), NEW nulls, NEW p \in First(a, b, nulls),
         NEW q \in Path, IsPrefix(q, p), q # p
  PROVE  q \in Nested(a, b) \cup First(a, b, nulls)
<1>1. PICK r \in Kept(a, b, nulls) :
        IsPrefix(r, p) /\ (nulls = "IgnoreNulls" => p = r \/ MemberSurvives(a, p, nulls))
  BY DEF First
<1>2. r \in Met(a, b) /\ r \in DOMAIN a /\ p \in DOMAIN a /\ p \in Path /\ r \in Path /\ IsDocument(a)
  BY DocumentPaths DEF Kept, First, Objects2
<1>3. CASE IsPrefix(q, r) /\ q # r
  BY <1>2, <1>3, AboveMetIsNested
<1>4. CASE ~(IsPrefix(q, r) /\ q # r)
  <2>1. IsPrefix(r, q)
    BY <1>1, <1>2, <1>4, PrefixLinear
  <2>2. q \in DOMAIN a
    BY <1>2, AboveIsBranch
  <2>3. p # r
    BY <1>2, <2>1, PrefixAntisymmetric
  <2>4. nulls = "IgnoreNulls" => MemberSurvives(a, q, nulls)
    BY <1>1, <1>2, <2>3, AboveSurvives
  <2> QED BY <2>1, <2>2, <2>4 DEF First
<1> QED BY <1>3, <1>4

LEMMA SecondIsClosed ==
  ASSUME NEW a, NEW b, Objects2(a, b), NEW nulls, NEW p \in Second(a, b, nulls),
         NEW q \in Path, IsPrefix(q, p), q # p
  PROVE  q \in Nested(a, b) \cup Second(a, b, nulls)
<1>1. PICK r \in Put(a, b, nulls) : IsPrefix(r, p) /\ MemberSurvives(b, p, nulls)
  BY DEF Second
<1>2. r \in Met(a, b) /\ r \in DOMAIN b /\ p \in DOMAIN b /\ p \in Path /\ r \in Path /\ IsDocument(b)
  BY DocumentPaths DEF Put, Second, Objects2
<1>3. CASE IsPrefix(q, r) /\ q # r
  BY <1>2, <1>3, AboveMetIsNested
<1>4. CASE ~(IsPrefix(q, r) /\ q # r)
  <2>1. IsPrefix(r, q)
    BY <1>1, <1>2, <1>4, PrefixLinear
  <2>2. q \in DOMAIN b /\ MemberSurvives(b, q, nulls)
    BY <1>1, <1>2, AboveSurvives
  <2> QED BY <2>1, <2>2 DEF Second
<1> QED BY <1>3, <1>4

\* The merge of two objects is an object.
LEMMA MergeIsDocument ==
  ASSUME NEW a, NEW b, Objects2(a, b), NEW nulls
  PROVE  /\ IsDocument(MergeTwoObjects(a, b, nulls))
         /\ IsObject(MergeTwoObjects(a, b, nulls))
<1> DEFINE m == MergeTwoObjects(a, b, nulls)
<1>1. DOMAIN m = (Nested(a, b) \cup First(a, b, nulls)) \cup Second(a, b, nulls)
  BY MergeDomain
<1>2. << >> \in DOMAIN m /\ m[<< >>] = Branch
  BY RootIsNested, MergeRoot
<1>3. DOMAIN a \subseteq Path /\ DOMAIN b \subseteq Path /\ IsDocument(a) /\ IsDocument(b)
  BY DocumentPaths DEF Objects2
<1>4. DOMAIN m \subseteq Path
  BY <1>1, <1>3 DEF Nested, First, Second
<1>5. ASSUME NEW p \in DOMAIN m, NEW q \in Path, IsPrefix(q, p), q # p
      PROVE  q \in DOMAIN m /\ m[q] = Branch
  <2>1. CASE q \in Nested(a, b)
    BY <2>1, MergeRoot
  <2>2. CASE p \in Nested(a, b)
    <3>1. q \in Nested(a, b)
      BY <1>5, <2>2, NestedIsClosed
    <3> QED BY <3>1, MergeRoot
  <2>3. CASE p \in First(a, b, nulls) /\ q \notin Nested(a, b)
    <3>1. q \in First(a, b, nulls)
      BY <1>5, <2>3, FirstIsClosed
    <3>2. q \notin Second(a, b, nulls)
      BY <3>1, FirstAndSecondPart
    <3>3. p \in DOMAIN a
      BY <2>3 DEF First
    <3>4. a[q] = Branch
      BY <1>3, <1>5, <3>3, AboveIsBranch
    <3> QED BY <1>1, <3>1, <3>2, <3>4, MergeNode
  <2>4. CASE p \in Second(a, b, nulls) /\ q \notin Nested(a, b)
    <3>1. q \in Second(a, b, nulls)
      BY <1>5, <2>4, SecondIsClosed
    <3>2. p \in DOMAIN b
      BY <2>4 DEF Second
    <3>3. b[q] = Branch
      BY <1>3, <1>5, <3>2, AboveIsBranch
    <3> QED BY <1>1, <3>1, <3>3, MergeNode
  <2> QED BY <1>1, <2>1, <2>2, <2>3, <2>4
<1> HIDE DEF m
<1>6. IsDocument(m)
  BY <1>2, <1>4, <1>5, DocumentByPaths
<1> QED BY <1>2, <1>6 DEF IsObject, m

-----------------------------------------------------------------------------
(* The merge that lays lanes over a residual. *)

\* Every node of the document has a leaf at or below it.
Full(doc) == \A p \in DOMAIN doc : p # << >> => MemberSurvives(doc, p, "Overlay")

\* Where following path ends in front of it, at a leaf.
Blocked(doc, path) == \E q \in DOMAIN doc : doc[q] # Branch /\ IsPrefix(q, path) /\ q # path

LEMMA OverlayDomain ==
  ASSUME NEW a, NEW b, Objects2(a, b), Full(b)
  PROVE  DOMAIN MergeTwoObjects(a, b, "Overlay")
           = DOMAIN a \cup {p \in DOMAIN b : p \notin DOMAIN a /\ ~Blocked(a, p)}
<1> DEFINE m == MergeTwoObjects(a, b, "Overlay")
<1>1. DOMAIN m = (Nested(a, b) \cup First(a, b, "Overlay")) \cup Second(a, b, "Overlay")
  BY MergeDomain
<1>2. DOMAIN a \subseteq Path /\ DOMAIN b \subseteq Path /\ IsDocument(a) /\ IsDocument(b)
  BY DocumentPaths DEF Objects2
<1>3. ASSUME NEW p \in DOMAIN a PROVE p \in DOMAIN m
  <2>1. CASE p \in Nested(a, b)
    BY <1>1, <2>1
  <2>2. CASE p \notin Nested(a, b)
    <3>1. PICK q \in Met(a, b) : IsPrefix(q, p) /\ q \in DOMAIN a
      BY <2>2, MetAbove
    <3>2. q \in Kept(a, b, "Overlay")
      BY <3>1 DEF Kept
    <3>3. p \in First(a, b, "Overlay")
      BY <3>1, <3>2 DEF First
    <3> QED BY <1>1, <3>3
  <2> QED BY <2>1, <2>2
<1>4. ASSUME NEW p \in DOMAIN b, p \notin DOMAIN a, ~Blocked(a, p) PROVE p \in DOMAIN m
  <2>1. p \notin Nested(a, b)
    BY <1>4 DEF Nested
  <2>2. PICK q \in Met(a, b) : IsPrefix(q, p) /\ q \in DOMAIN b
    BY <2>1, MetAbove
  <2>3. q \in Path /\ p \in Path /\ q \notin Nested(a, b) /\ q # << >>
    BY <1>2, <2>2, MetPaths
  <2>4. q \notin DOMAIN a
    <3>1. SUFFICES ASSUME q \in DOMAIN a PROVE FALSE
      OBVIOUS
    <3>2. q # p
      BY <1>4, <3>1
    <3>3. b[q] = Branch
      BY <1>2, <2>2, <2>3, <3>2, AboveIsBranch
    <3>4. a[q] = Branch
      BY <1>4, <2>2, <3>1, <3>2 DEF Blocked
    <3> QED BY <2>2, <2>3, <3>1, <3>3, <3>4 DEF Nested
  <2>5. MemberSurvives(b, q, "Overlay") /\ MemberSurvives(b, p, "Overlay")
    <3>1. p # << >>
      BY <1>4, <1>2, DocumentPaths
    <3> QED BY <2>2, <2>3, <3>1 DEF Full
  <2>6. q \in Put(a, b, "Overlay")
    BY <2>2, <2>4, <2>5 DEF Put
  <2>7. p \in Second(a, b, "Overlay")
    BY <2>2, <2>5, <2>6 DEF Second
  <2> QED BY <1>1, <2>7
<1>5. ASSUME NEW p \in DOMAIN m, p \notin DOMAIN a
      PROVE  p \in DOMAIN b /\ ~Blocked(a, p)
  <2>1. p \in Second(a, b, "Overlay")
    BY <1>1, <1>5 DEF Nested, First
  <2>2. PICK q \in Put(a, b, "Overlay") : IsPrefix(q, p) /\ p \in DOMAIN b
    BY <2>1 DEF Second
  <2>3. q \in Met(a, b) /\ q \notin DOMAIN a /\ q \in Path /\ p \in Path
    BY <1>2, <2>2, MetPaths DEF Put
  <2>4. SUFFICES ASSUME NEW r \in DOMAIN a, a[r] # Branch, IsPrefix(r, p), r # p PROVE FALSE
    BY <2>2 DEF Blocked
  <2>5. r \in Path /\ r \notin Nested(a, b)
    BY <1>2, <2>4 DEF Nested
  <2>6. ~IsPrefix(q, r)
    BY <1>2, <2>3, <2>5, AboveIsBranch
  <2>7. IsPrefix(r, q)
    BY <2>2, <2>3, <2>4, <2>5, <2>6, PrefixLinear
  <2> QED BY <2>3, <2>4, <2>5, <2>7, AboveMetIsNested
<1> HIDE DEF m
<1>6. DOMAIN m = DOMAIN a \cup {p \in DOMAIN b : p \notin DOMAIN a /\ ~Blocked(a, p)}
  BY <1>3, <1>4, <1>5
<1> QED BY <1>6 DEF m

LEMMA OverlayNode ==
  ASSUME NEW a, NEW b, Objects2(a, b), NEW p \in DOMAIN MergeTwoObjects(a, b, "Overlay")
  PROVE  MergeTwoObjects(a, b, "Overlay")[p] = IF p \in DOMAIN a THEN a[p] ELSE b[p]
<1>1. p \in (Nested(a, b) \cup First(a, b, "Overlay")) \cup Second(a, b, "Overlay")
  BY MergeDomain
<1>2. ASSUME p \in Second(a, b, "Overlay") PROVE p \notin DOMAIN a
  <2>1. PICK q \in Put(a, b, "Overlay") : IsPrefix(q, p)
    BY <1>2 DEF Second
  <2>2. q \in Path /\ q \notin DOMAIN a
    BY <2>1, MetPaths DEF Put
  <2> QED BY <2>1, <2>2, AboveIsBranch DEF Objects2
<1>3. ASSUME p \notin Second(a, b, "Overlay") PROVE p \in DOMAIN a
  BY <1>1, <1>3 DEF Nested, First
<1> QED BY <1>2, <1>3, MergeNode

-----------------------------------------------------------------------------
(* Taking a path out of a document. *)

LEMMA ChainIsDocument ==
  ASSUME NEW path \in Path, path # << >>, NEW value
  PROVE  /\ IsDocument(Chain(path, value))
         /\ IsObject(Chain(path, value))
<1> DEFINE c == Chain(path, value)
<1>1. DOMAIN c = Prefixes(path) /\ \A p \in DOMAIN c : c[p] = IF p = path THEN Scalar(value) ELSE Branch
  BY DEF Chain
<1>2. \A p : p \in DOMAIN c <=> p \in Path /\ IsPrefix(p, path)
  BY <1>1, PrefixesArePrefixes
<1>3. << >> \in DOMAIN c
  BY <1>2, RootIsPrefix
<1>4. c[<< >>] = Branch
  BY <1>1, <1>3
<1> HIDE DEF c
<1>5. ASSUME NEW p \in DOMAIN c, NEW q \in Path, IsPrefix(q, p), q # p
      PROVE  q \in DOMAIN c /\ c[q] = Branch
  <2>1. p \in Path /\ IsPrefix(p, path)
    BY <1>2
  <2>2. q \in DOMAIN c
    BY <1>2, <1>5, <2>1, PrefixTransitive
  <2>3. q # path
    BY <1>5, <2>1, PrefixAntisymmetric
  <2> QED BY <1>1, <2>2, <2>3
<1>6. IsDocument(c)
  <2>1. DOMAIN c \subseteq Path
    BY <1>2
  <2> QED BY <1>3, <1>5, <2>1, DocumentByPaths
<1> QED BY <1>4, <1>6 DEF IsObject, c

\* A patch with a null at a path takes the nodes at and below it out.
LEMMA NullPatchRemoves ==
  ASSUME NEW a, IsDocument(a), IsObject(a), NEW path \in DOMAIN a, path # << >>
  PROVE  DOMAIN MergeTwoObjects(a, Chain(path, Null), "Patch")
           = {p \in DOMAIN a : ~IsPrefix(path, p)}
<1> DEFINE c == Chain(path, Null)
           m == MergeTwoObjects(a, c, "Patch")
<1>1. path \in Path /\ DOMAIN a \subseteq Path
  BY DocumentPaths
<1>2. Objects2(a, c)
  BY <1>1, ChainIsDocument DEF Objects2
<1>3. DOMAIN c = Prefixes(path) /\ \A p \in DOMAIN c : c[p] = IF p = path THEN Scalar(Null) ELSE Branch
  BY DEF Chain
<1>4. \A p : p \in DOMAIN c <=> p \in Path /\ IsPrefix(p, path)
  BY <1>1, <1>3, PrefixesArePrefixes
<1> HIDE DEF c
<1>5. DOMAIN m = (Nested(a, c) \cup First(a, c, "Patch")) \cup Second(a, c, "Patch")
  BY MergeDomain
<1>6. ASSUME NEW p \in DOMAIN c PROVE p \in DOMAIN a /\ (p # path => a[p] = Branch)
  BY <1>1, <1>4, AboveIsBranch
<1>7. \A p : p \in Nested(a, c) <=> p \in DOMAIN c /\ p # path
  BY <1>3, <1>6, NodesDiffer DEF Nested
<1>8. Second(a, c, "Patch") = {}
  <2>1. SUFFICES ASSUME NEW q \in Put(a, c, "Patch") PROVE FALSE
    BY DEF Second
  <2>2. q \in Met(a, c) /\ q \in DOMAIN c /\ c[q] # Scalar(Null)
    BY DEF Put, MemberSurvives
  <2>3. q \notin Nested(a, c)
    BY <1>2, <2>2, MetPaths
  <2> QED BY <1>3, <1>7, <2>2, <2>3
<1>9. ASSUME NEW p \in DOMAIN m PROVE p \in DOMAIN a /\ ~IsPrefix(path, p)
  <2>1. CASE p \in Nested(a, c)
    <3>1. p \in DOMAIN a /\ p # path /\ p \in Path /\ IsPrefix(p, path)
      BY <1>4, <1>6, <1>7, <2>1
    <3> QED BY <1>1, <3>1, PrefixAntisymmetric
  <2>2. CASE p \in First(a, c, "Patch")
    <3>1. PICK q \in Kept(a, c, "Patch") : IsPrefix(q, p) /\ p \in DOMAIN a
      BY <2>2 DEF First
    <3>2. q \in Met(a, c) /\ q \notin DOMAIN c
      BY DEF Kept
    <3>3. q \in Path /\ p \in Path
      BY <1>1, <1>2, <3>1, <3>2, MetPaths
    <3>4. ASSUME IsPrefix(path, p) PROVE FALSE
      <4>1. IsPrefix(q, path) \/ IsPrefix(path, q)
        BY <1>1, <3>1, <3>3, <3>4, PrefixLinear
      <4>2. ~IsPrefix(q, path)
        BY <1>4, <3>2, <3>3
      <4>3. IsPrefix(path, q) /\ path # q
        BY <1>1, <4>1, <4>2, PrefixReflexive
      <4>4. path \in Nested(a, c)
        BY <1>1, <1>2, <3>2, <4>3, AboveMetIsNested
      <4> QED BY <1>7, <4>4
    <3> QED BY <3>1, <3>4
  <2> QED BY <1>5, <1>8, <2>1, <2>2
<1>10. ASSUME NEW p \in DOMAIN a, ~IsPrefix(path, p) PROVE p \in DOMAIN m
  <2>1. CASE p \in Nested(a, c)
    BY <1>5, <2>1
  <2>2. CASE p \notin Nested(a, c)
    <3>1. PICK q \in Met(a, c) : IsPrefix(q, p) /\ q \in DOMAIN a
      BY <1>2, <2>2, MetAbove
    <3>2. q \notin DOMAIN c
      <4>1. SUFFICES ASSUME q \in DOMAIN c PROVE FALSE
        OBVIOUS
      <4>2. q \notin Nested(a, c)
        BY <1>2, <3>1, MetPaths
      <4> QED BY <1>7, <1>10, <3>1, <4>1, <4>2
    <3>3. q \in Kept(a, c, "Patch")
      BY <3>1, <3>2 DEF Kept
    <3>4. p \in First(a, c, "Patch")
      BY <3>1, <3>3 DEF First
    <3> QED BY <1>5, <3>4
  <2> QED BY <2>1, <2>2
<1> HIDE DEF m
<1>11. DOMAIN m = {p \in DOMAIN a : ~IsPrefix(path, p)}
  BY <1>9, <1>10
<1> QED BY <1>11 DEF m, c

-----------------------------------------------------------------------------
(* Following a path. *)

LEMMA Deepest ==
  ASSUME NEW doc, IsDocument(doc), NEW path \in Path
  PROVE  LET depth == ClassifyResidualPath(doc, path).depth
         IN /\ depth \in 0 .. Len(path)
            /\ SubSeq(path, 1, depth) \in DOMAIN doc
            /\ \A i \in 0 .. Len(path) : SubSeq(path, 1, i) \in DOMAIN doc => i <= depth
<1> DEFINE reached == {i \in 0 .. Len(path) : Exists(doc, SubSeq(path, 1, i))}
<1>1. ClassifyResidualPath(doc, path).depth = Max(reached)
  BY DEF ClassifyResidualPath
<1>2. Len(path) \in Nat /\ reached \subseteq 0 .. Len(path)
  BY DEF Path
<1>3. 0 \in reached
  <2>1. SubSeq(path, 1, 0) = << >>
    BY DEF Path
  <2>2. Exists(doc, SubSeq(path, 1, 0))
    BY <2>1, DocumentPaths DEF Exists
  <2> QED BY <1>2, <2>2
<1>4. Max(reached) \in reached /\ \A i \in reached : i <= Max(reached)
  <2> HIDE DEF reached
  <2> QED BY <1>2, <1>3, Greatest
<1> QED BY <1>1, <1>4 DEF Exists

LEMMA Present ==
  ASSUME NEW doc, IsDocument(doc), NEW path \in Path
  PROVE  /\ ClassifyResidualPath(doc, path).outcome = "Present" <=> path \in DOMAIN doc
         /\ path \in DOMAIN doc =>
              SubSeq(path, 1, ClassifyResidualPath(doc, path).depth) = path
<1> DEFINE depth == ClassifyResidualPath(doc, path).depth
<1>1. /\ depth \in 0 .. Len(path)
      /\ SubSeq(path, 1, depth) \in DOMAIN doc
      /\ \A i \in 0 .. Len(path) : SubSeq(path, 1, i) \in DOMAIN doc => i <= depth
  BY Deepest
<1>2. Len(path) \in Nat /\ SubSeq(path, 1, Len(path)) = path
  BY DEF Path
<1>3. ClassifyResidualPath(doc, path).outcome =
        IF depth = Len(path) THEN "Present"
        ELSE IF doc[SubSeq(path, 1, depth)] = Branch THEN "Absent"
        ELSE "NonObjectPrefix"
  BY DEF ClassifyResidualPath
<1> HIDE DEF depth
<1>4. depth = Len(path) <=> path \in DOMAIN doc
  <2>1. ASSUME path \in DOMAIN doc PROVE depth = Len(path)
    <3>1. SubSeq(path, 1, Len(path)) \in DOMAIN doc
      BY <1>2, <2>1, Zenon
    <3>2. Len(path) \in 0 .. Len(path) /\ depth \in 0 .. Len(path)
      BY <1>1, <1>2
    <3> DEFINE n == Len(path)
    <3>3. n \in 0 .. Len(path) /\ SubSeq(path, 1, n) \in DOMAIN doc
      BY <3>1, <3>2
    <3> HIDE DEF n
    <3>4. n <= depth
      BY <1>1, <3>3
    <3>5. Len(path) <= depth
      BY <3>4 DEF n
    <3>6. Len(path) \in Nat
      BY <1>2
    <3> QED BY <3>2, <3>5, <3>6
  <2>2. ASSUME depth = Len(path) PROVE path \in DOMAIN doc
    BY <1>1, <1>2, <2>2
  <2> QED BY <2>1, <2>2
<1>5. ClassifyResidualPath(doc, path).outcome = "Present" <=> path \in DOMAIN doc
  BY <1>3, <1>4
<1>6. path \in DOMAIN doc => SubSeq(path, 1, depth) = path
  BY <1>2, <1>4
<1> QED BY <1>5, <1>6 DEF depth

LEMMA BlockedIsNonObjectPrefix ==
  ASSUME NEW doc, IsDocument(doc), NEW path \in Path
  PROVE  /\ ClassifyResidualPath(doc, path).outcome = "NonObjectPrefix" <=> Blocked(doc, path)
         /\ Blocked(doc, path) =>
              LET q == SubSeq(path, 1, ClassifyResidualPath(doc, path).depth)
              IN q \in DOMAIN doc /\ doc[q] # Branch /\ IsPrefix(q, path) /\ q # path
<1> DEFINE depth == ClassifyResidualPath(doc, path).depth
           q == SubSeq(path, 1, depth)
<1>1. /\ depth \in 0 .. Len(path)
      /\ q \in DOMAIN doc
      /\ \A i \in 0 .. Len(path) : SubSeq(path, 1, i) \in DOMAIN doc => i <= depth
  BY Deepest
<1>2. Len(path) \in Nat /\ q \in Path /\ Len(q) = depth /\ IsPrefix(q, path)
  <2>1. Len(path) \in Nat
    BY DEF Path
  <2> QED BY <1>1, <2>1, Start
<1>3. ClassifyResidualPath(doc, path).outcome =
        IF depth = Len(path) THEN "Present"
        ELSE IF doc[q] = Branch THEN "Absent"
        ELSE "NonObjectPrefix"
  BY DEF ClassifyResidualPath
<1> HIDE DEF depth, q
<1>4. depth = Len(path) <=> q = path
  <2>1. ASSUME depth = Len(path) PROVE q = path
    <3>1. SubSeq(path, 1, Len(path)) = path
      BY DEF Path
    <3> QED BY <2>1, <3>1 DEF q
  <2> QED BY <1>2, <2>1
<1>5. ASSUME Blocked(doc, path) PROVE doc[q] # Branch /\ q # path
  <2>1. PICK r \in DOMAIN doc : doc[r] # Branch /\ IsPrefix(r, path) /\ r # path
    BY <1>5 DEF Blocked
  <2>2. r \in Path
    BY DocumentPaths
  <2>3. Len(r) \in 0 .. Len(path) /\ SubSeq(path, 1, Len(r)) = r
    <3>1. Len(r) <= Len(path) /\ \A i \in 1 .. Len(r) : r[i] = path[i]
      BY <2>1, <2>2, PrefixByItems
    <3> QED BY <2>2, <3>1 DEF Path
  <2>4. IsPrefix(q, r) \/ IsPrefix(r, q)
    BY <1>2, <2>1, <2>2, PrefixLinear
  <2>5. IsPrefix(r, q)
    <3>1. SUFFICES ASSUME ~IsPrefix(r, q) PROVE FALSE
      OBVIOUS
    <3>2. IsPrefix(q, r)
      BY <2>4, <3>1
    <3>3. Len(r) <= depth /\ Len(r) \in Nat
      <4>1. SubSeq(path, 1, Len(r)) \in DOMAIN doc
        BY <2>1, <2>3, Zenon
      <4>2. Len(r) <= depth
        BY <1>1, <2>3, <4>1
      <4> QED BY <1>2, <2>3, <4>2
    <3>4. Len(q) <= Len(r)
      BY <1>2, <2>2, <3>2, PrefixByItems
    <3>5. Len(q) = Len(r) /\ \A i \in 1 .. Len(q) : q[i] = r[i]
      BY <1>2, <2>2, <3>2, <3>3, <3>4, PrefixByItems
    <3>6. IsPrefix(r, q)
      BY <1>2, <2>2, <3>5, PrefixByItems
    <3> QED BY <3>1, <3>6
  <2>6. q = r
    BY <1>1, <2>1, <2>2, <2>5, NothingBelowALeaf
  <2> QED BY <2>1, <2>6
<1>6. ASSUME doc[q] # Branch, q # path PROVE Blocked(doc, path)
  BY <1>1, <1>2, <1>6 DEF Blocked
<1>7. ClassifyResidualPath(doc, path).outcome = "NonObjectPrefix" <=> Blocked(doc, path)
  BY <1>3, <1>4, <1>5, <1>6
<1>8. Blocked(doc, path) => q \in DOMAIN doc /\ doc[q] # Branch /\ IsPrefix(q, path) /\ q # path
  BY <1>1, <1>2, <1>5
<1> QED BY <1>7, <1>8 DEF q, depth

LEMMA Outcomes ==
  ASSUME NEW doc, NEW path
  PROVE  ClassifyResidualPath(doc, path).outcome \in {"Present", "Absent", "NonObjectPrefix"}
BY DEF ClassifyResidualPath

-----------------------------------------------------------------------------
(* Restricted documents, and the document of lane values. *)

\* What is left of a document when the paths that go take what is below along.
LEMMA RestrictIsDocument ==
  ASSUME NEW doc, IsDocument(doc), NEW left, left \subseteq DOMAIN doc, << >> \in left,
         \A p \in left : \A q \in DOMAIN doc : IsPrefix(q, p) => q \in left
  PROVE  /\ IsDocument(Restrict(doc, left))
         /\ DOMAIN Restrict(doc, left) = left
         /\ \A p \in left : Restrict(doc, left)[p] = doc[p]
<1> DEFINE r == Restrict(doc, left)
<1>1. DOMAIN r = left /\ \A p \in left : r[p] = doc[p]
  BY DEF Restrict
<1> HIDE DEF r
<1>2. DOMAIN doc \subseteq Path
  BY DocumentPaths
<1>3. ASSUME NEW p \in DOMAIN r, NEW q \in Path, IsPrefix(q, p), q # p
      PROVE  q \in DOMAIN r /\ r[q] = Branch
  BY <1>1, <1>3, AboveIsBranch
<1>4. IsDocument(r)
  BY <1>1, <1>2, <1>3, DocumentByPaths
<1> QED BY <1>1, <1>4 DEF r

LEMMA WithoutLeaves ==
  ASSUME NEW doc, IsDocument(doc), IsObject(doc), NEW paths, paths \subseteq LeafPaths(doc)
  PROVE  /\ IsDocument(Without(doc, paths))
         /\ IsObject(Without(doc, paths))
         /\ DOMAIN Without(doc, paths) = DOMAIN doc \ paths
         /\ \A p \in DOMAIN doc \ paths : Without(doc, paths)[p] = doc[p]
<1> DEFINE left == {p \in DOMAIN doc : \A gone \in paths : ~IsPrefix(gone, p)}
<1>1. DOMAIN doc \subseteq Path /\ << >> \in DOMAIN doc
  BY DocumentPaths
<1>2. ASSUME NEW p \in DOMAIN doc, NEW gone \in paths PROVE IsPrefix(gone, p) <=> gone = p
  <2>1. gone \in DOMAIN doc /\ doc[gone] # Branch
    BY DEF LeafPaths
  <2> QED BY <1>1, <2>1, NothingBelowALeaf, PrefixReflexive
<1>3. left = DOMAIN doc \ paths
  BY <1>2
<1>4. << >> \in left
  BY <1>1, <1>3 DEF IsObject, LeafPaths
<1>5. \A p \in left : \A q \in DOMAIN doc : IsPrefix(q, p) => q \in left
  <2>1. SUFFICES ASSUME NEW p \in left, NEW q \in paths, IsPrefix(q, p) PROVE FALSE
    BY <1>3
  <2> QED BY <1>2, <1>3, <2>1
<1>6. Without(doc, paths) = Restrict(doc, left)
  BY DEF Without
<1> HIDE DEF left
<1>7. left \subseteq DOMAIN doc
  BY <1>3
<1>8. /\ IsDocument(Restrict(doc, left))
      /\ DOMAIN Restrict(doc, left) = left
      /\ \A p \in left : Restrict(doc, left)[p] = doc[p]
  BY <1>4, <1>5, <1>7, RestrictIsDocument
<1> QED BY <1>3, <1>4, <1>6, <1>8 DEF IsObject

\* A document of the values of lanes none of which lies inside another.
Separate(paths) == \A l, m \in paths : IsPrefix(l, m) => l = m

LEMMA EmittedLanes ==
  ASSUME NEW lane, DOMAIN lane \subseteq Path \ {<< >>}, Separate(DOMAIN lane)
  PROVE  /\ \A p : p \in DOMAIN EmitShredPatchObject(lane) <=>
                     p = << >> \/ (p \in Path /\ \E l \in DOMAIN lane : IsPrefix(p, l))
         /\ \A p \in DOMAIN EmitShredPatchObject(lane) :
              EmitShredPatchObject(lane)[p] = IF p \in DOMAIN lane THEN Scalar(lane[p]) ELSE Branch
         /\ IsDocument(EmitShredPatchObject(lane))
         /\ IsObject(EmitShredPatchObject(lane))
<1> DEFINE e == EmitShredPatchObject(lane)
           upper == {l \in DOMAIN lane : \A m \in DOMAIN lane : ~IsStrictPrefix(m, l)}
<1>1. upper = DOMAIN lane
  BY DEF IsStrictPrefix, Separate
<1>2. e = [p \in {<< >>} \cup UNION {Prefixes(l) : l \in upper} |->
             IF p \in upper THEN Scalar(lane[p]) ELSE Branch]
  BY DEF EmitShredPatchObject
<1> HIDE DEF upper, e
<1>3. DOMAIN e = {<< >>} \cup UNION {Prefixes(l) : l \in DOMAIN lane}
  BY <1>1, <1>2
<1>4. \A p \in DOMAIN e : e[p] = IF p \in DOMAIN lane THEN Scalar(lane[p]) ELSE Branch
  BY <1>1, <1>2
<1>5. ASSUME NEW p
      PROVE  p \in DOMAIN e <=> p = << >> \/ (p \in Path /\ \E l \in DOMAIN lane : IsPrefix(p, l))
  <2>1. p \in DOMAIN e <=> p = << >> \/ \E l \in DOMAIN lane : p \in Prefixes(l)
    BY <1>3
  <2>2. \A l \in DOMAIN lane : p \in Prefixes(l) <=> p \in Path /\ IsPrefix(p, l)
    BY PrefixesArePrefixes
  <2> QED BY <2>1, <2>2
<1>6. << >> \in DOMAIN e /\ e[<< >>] = Branch
  BY <1>4, <1>5
<1>7. DOMAIN e \subseteq Path
  <2>1. << >> \in Path
    BY DEF Path
  <2> QED BY <1>5, <2>1
<1>8. ASSUME NEW p \in DOMAIN e, NEW q \in Path, IsPrefix(q, p), q # p
      PROVE  q \in DOMAIN e /\ e[q] = Branch
  <2>1. p # << >>
    BY <1>8, NothingAboveTheRoot
  <2>2. PICK l \in DOMAIN lane : IsPrefix(p, l)
    BY <1>5, <2>1
  <2>3. l \in Path /\ p \in Path
    BY <1>7
  <2>4. IsPrefix(q, l)
    BY <1>8, <2>2, <2>3, PrefixTransitive
  <2>5. q \in DOMAIN e
    BY <1>5, <2>4
  <2>6. q \notin DOMAIN lane
    <3>1. SUFFICES ASSUME q \in DOMAIN lane PROVE FALSE
      OBVIOUS
    <3>2. q = l
      BY <2>4, <3>1 DEF Separate
    <3> QED BY <1>8, <2>2, <2>3, <3>2, PrefixAntisymmetric
  <2> QED BY <1>4, <2>5, <2>6
<1>9. IsDocument(e)
  BY <1>6, <1>7, <1>8, DocumentByPaths
<1> QED BY <1>4, <1>5, <1>6, <1>9 DEF IsObject, e

LEMMA EmittedIsFull ==
  ASSUME NEW lane, DOMAIN lane \subseteq Path \ {<< >>}, Separate(DOMAIN lane),
         \A l \in DOMAIN lane : lane[l] # Null
  PROVE  /\ Full(EmitShredPatchObject(lane))
         /\ LeafPaths(EmitShredPatchObject(lane)) = DOMAIN lane
<1> DEFINE e == EmitShredPatchObject(lane)
<1>1. \A p : p \in DOMAIN e <=> p = << >> \/ (p \in Path /\ \E l \in DOMAIN lane : IsPrefix(p, l))
  BY EmittedLanes
<1>2. \A p \in DOMAIN e : e[p] = IF p \in DOMAIN lane THEN Scalar(lane[p]) ELSE Branch
  BY EmittedLanes
<1> HIDE DEF e
<1>3. \A l \in DOMAIN lane : l \in DOMAIN e /\ e[l] = Scalar(lane[l])
  BY <1>1, <1>2, PrefixReflexive
<1>4. \A p \in DOMAIN e : e[p] # Scalar(Null)
  BY <1>2, NodesDiffer, ScalarsDiffer
<1>5. LeafPaths(e) = DOMAIN lane
  BY <1>2, <1>3, <1>4, NodesDiffer DEF LeafPaths
<1>6. ASSUME NEW p \in DOMAIN e, p # << >> PROVE MemberSurvives(e, p, "Overlay")
  <2>1. PICK l \in DOMAIN lane : IsPrefix(p, l)
    BY <1>1, <1>6
  <2>2. Survives(e, p)
    BY <1>5, <2>1 DEF Survives
  <2> QED BY <1>4, <2>2 DEF MemberSurvives
<1> QED BY <1>5, <1>6 DEF Full, e

-----------------------------------------------------------------------------
(* What a path reads. *)

LEMMA LeafAt ==
  ASSUME NEW doc, IsDocument(doc), NEW path \in DOMAIN doc, NEW v, doc[path] = Scalar(v)
  PROVE  At(doc, path) = Leaf(v)
<1> DEFINE below == {r \in DOMAIN doc : IsPrefix(path, r)}
           ends == {SubSeq(p, Len(path) + 1, Len(p)) : p \in below}
<1>1. path \in Path /\ doc[path] # Branch
  BY DocumentPaths, NodesDiffer
<1>2. below = {path}
  <2>1. path \in below
    BY <1>1, PrefixReflexive
  <2>2. \A r \in below : r = path
    BY <1>1, NothingBelowALeaf
  <2> QED BY <2>1, <2>2
<1>3. SubSeq(path, Len(path) + 1, Len(path)) = << >> /\ path \o << >> = path
  BY <1>1 DEF Path
<1>4. ends = {<< >>}
  <2>1. ends = {SubSeq(p, Len(path) + 1, Len(p)) : p \in {path}}
    BY <1>2
  <2>2. ends = {SubSeq(path, Len(path) + 1, Len(path))}
    BY <2>1
  <2> QED BY <1>3, <2>2
<1>5. At(doc, path) = [q \in ends |-> doc[path \o q]]
  BY DEF At
<1> HIDE DEF ends
<1>6. [q \in ends |-> doc[path \o q]] = [q \in {<< >>} |-> Scalar(v)]
  BY <1>3, <1>4
<1> QED BY <1>5, <1>6 DEF Leaf

-----------------------------------------------------------------------------
(* Merging under "IgnoreNulls". *)

NoNulls(doc) == \A p \in DOMAIN doc : doc[p] # Scalar(Null)

\* Where both documents have a value or an object they have the same of the two.
Agree(a, b) ==
  \A p \in DOMAIN a \cap DOMAIN b :
    a[p] # Scalar(Null) /\ b[p] # Scalar(Null) => (a[p] = Branch <=> b[p] = Branch)

LEMMA LeafSurvives ==
  ASSUME NEW doc, IsDocument(doc), NEW p \in LeafPaths(doc), NEW nulls
  PROVE  p \in DOMAIN doc /\ p \in Path /\ MemberSurvives(doc, p, nulls)
<1>1. p \in DOMAIN doc /\ p \in Path /\ doc[p] # Scalar(Null)
  BY DocumentPaths DEF LeafPaths
<1>2. Survives(doc, p)
  BY <1>1, PrefixReflexive DEF Survives
<1> QED BY <1>1, <1>2 DEF MemberSurvives

\* Stripping keeps the leaves, and the objects around them.
LEMMA StripLeaves ==
  ASSUME NEW doc, IsDocument(doc), IsObject(doc)
  PROVE  LET s == Strip(doc, "IgnoreNulls")
         IN /\ IsDocument(s) /\ IsObject(s) /\ Full(s) /\ NoNulls(s)
            /\ LeafPaths(s) = LeafPaths(doc)
            /\ DOMAIN s \subseteq DOMAIN doc
            /\ \A p \in DOMAIN s : s[p] = doc[p]
<1> DEFINE left == {p \in DOMAIN doc : p = << >> \/ MemberSurvives(doc, p, "IgnoreNulls")}
           s == Strip(doc, "IgnoreNulls")
<1>1. s = Restrict(doc, left)
  BY DEF Strip
<1>2. DOMAIN doc \subseteq Path /\ << >> \in DOMAIN doc
  BY DocumentPaths
<1>3. \A p \in left : \A q \in DOMAIN doc : IsPrefix(q, p) => q \in left
  <2>1. SUFFICES ASSUME NEW p \in left, NEW q \in DOMAIN doc, IsPrefix(q, p) PROVE q \in left
    OBVIOUS
  <2>2. CASE p = << >>
    BY <1>2, <2>1, <2>2, NothingAboveTheRoot
  <2>3. CASE MemberSurvives(doc, p, "IgnoreNulls")
    BY <1>2, <2>1, <2>3, AboveSurvives
  <2> QED BY <2>2, <2>3
<1>4. left \subseteq DOMAIN doc /\ << >> \in left
  BY <1>2
<1> HIDE DEF left
<1>5. /\ IsDocument(Restrict(doc, left))
      /\ DOMAIN Restrict(doc, left) = left
      /\ \A p \in left : Restrict(doc, left)[p] = doc[p]
  BY <1>3, <1>4, RestrictIsDocument
<1> HIDE DEF s
<1>6. IsDocument(s) /\ DOMAIN s = left /\ \A p \in left : s[p] = doc[p]
  BY <1>1, <1>5
<1>7. LeafPaths(s) = LeafPaths(doc)
  <2>1. \A p \in LeafPaths(doc) : p \in left
    BY LeafSurvives DEF left
  <2> QED BY <1>4, <1>6, <2>1 DEF LeafPaths
<1>8. IsObject(s)
  BY <1>4, <1>6 DEF IsObject
<1>9. \A p \in left : p # << >> => MemberSurvives(s, p, "Overlay")
  BY <1>6, <1>7 DEF left, MemberSurvives, Survives
<1>10. Full(s)
  BY <1>6, <1>9 DEF Full
<1>11. NoNulls(s)
  BY <1>6, <1>8, <1>9, NodesDiffer DEF NoNulls, MemberSurvives, IsObject
<1> QED BY <1>4, <1>6, <1>7, <1>8, <1>10, <1>11 DEF s

LEMMA SecondLeaves ==
  ASSUME NEW a, NEW b, Objects2(a, b), NoNulls(a), Agree(a, b), NEW p \in LeafPaths(b)
  PROVE  p \in Second(a, b, "IgnoreNulls")
<1>1. p \in DOMAIN b /\ p \in Path /\ b[p] # Branch /\ MemberSurvives(b, p, "IgnoreNulls")
  BY LeafSurvives DEF LeafPaths, Objects2
<1>2. p \notin Nested(a, b)
  BY <1>1 DEF Nested
<1>3. PICK q \in Met(a, b) : IsPrefix(q, p) /\ q \in DOMAIN b
  BY <1>1, <1>2, MetAbove
<1>4. q \in Path
  BY MetPaths
<1>5. MemberSurvives(b, q, "IgnoreNulls")
  BY <1>1, <1>3, <1>4, AboveSurvives DEF Objects2
<1>6. q \in Put(a, b, "IgnoreNulls")
  BY <1>3, <1>5 DEF Put
<1> QED BY <1>1, <1>3, <1>6 DEF Second

LEMMA FirstLeaves ==
  ASSUME NEW a, NEW b, Objects2(a, b), NoNulls(a), Agree(a, b),
         NEW p \in LeafPaths(a), p \notin LeafPaths(b)
  PROVE  p \in First(a, b, "IgnoreNulls")
<1>1. p \in DOMAIN a /\ p \in Path /\ a[p] # Branch /\ MemberSurvives(a, p, "IgnoreNulls")
  BY LeafSurvives DEF LeafPaths, Objects2
<1>2. p \notin Nested(a, b)
  BY <1>1 DEF Nested
<1>3. PICK q \in Met(a, b) : IsPrefix(q, p) /\ q \in DOMAIN a
  BY <1>1, <1>2, MetAbove
<1>4. q \in Path /\ q \notin Nested(a, b)
  BY MetPaths
<1>5. q \in DOMAIN b => b[q] = Scalar(Null)
  <2>1. SUFFICES ASSUME q \in DOMAIN b, b[q] # Scalar(Null) PROVE FALSE
    OBVIOUS
  <2>2. a[q] # Scalar(Null)
    BY <1>3 DEF NoNulls
  <2>3. a[q] = Branch <=> b[q] = Branch
    BY <1>3, <2>1, <2>2 DEF Agree
  <2>4. a[q] # Branch /\ b[q] # Branch
    BY <1>3, <1>4, <2>1, <2>3 DEF Nested
  <2>5. q = p
    BY <1>1, <1>3, <2>4, NothingBelowALeaf DEF Objects2
  <2> QED BY <2>1, <2>4, <2>5 DEF LeafPaths
<1>6. q \in Kept(a, b, "IgnoreNulls")
  BY <1>3, <1>5 DEF Kept, NoNulls
<1> QED BY <1>1, <1>3, <1>6 DEF First

\* The leaves of the merge are those of the second document and, where it has
\* none, those of the first one; every object stood in one of the two.
LEMMA MergedLeaves ==
  ASSUME NEW a, NEW b, Objects2(a, b), NoNulls(a), Agree(a, b)
  PROVE  LET m == MergeTwoObjects(a, b, "IgnoreNulls")
         IN /\ NoNulls(m)
            /\ LeafPaths(m) = LeafPaths(b) \cup LeafPaths(a)
            /\ \A p \in LeafPaths(m) : m[p] = IF p \in LeafPaths(b) THEN b[p] ELSE a[p]
            /\ \A p \in DOMAIN m : m[p] = Branch =>
                 \/ p \in DOMAIN a /\ a[p] = Branch
                 \/ p \in DOMAIN b /\ b[p] = Branch /\ Survives(b, p)
<1> DEFINE m == MergeTwoObjects(a, b, "IgnoreNulls")
<1>1. DOMAIN m = (Nested(a, b) \cup First(a, b, "IgnoreNulls")) \cup Second(a, b, "IgnoreNulls")
  BY MergeDomain
<1>2. \A p \in DOMAIN m : m[p] = IF p \in Second(a, b, "IgnoreNulls") THEN b[p] ELSE a[p]
  BY MergeNode
<1> HIDE DEF m
<1>3. \A p \in Second(a, b, "IgnoreNulls") : p \in DOMAIN b /\ b[p] # Scalar(Null) /\ Survives(b, p)
  BY DEF Second, MemberSurvives
<1>4. \A p \in Nested(a, b) \cup First(a, b, "IgnoreNulls") : p \in DOMAIN a
  BY DEF Nested, First
<1>5. NoNulls(m)
  BY <1>1, <1>2, <1>3, <1>4 DEF NoNulls
<1>6. \A p \in LeafPaths(b) : p \in DOMAIN m /\ m[p] = b[p]
  BY <1>1, <1>2, SecondLeaves
<1>7. \A p \in LeafPaths(a) \ LeafPaths(b) : p \in DOMAIN m /\ m[p] = a[p]
  <2>1. SUFFICES ASSUME NEW p \in LeafPaths(a), p \notin LeafPaths(b)
                 PROVE  p \in DOMAIN m /\ m[p] = a[p]
    OBVIOUS
  <2>2. p \in First(a, b, "IgnoreNulls")
    BY <2>1, FirstLeaves
  <2>3. p \notin Second(a, b, "IgnoreNulls")
    BY <2>2, FirstAndSecondPart
  <2> QED BY <1>1, <1>2, <2>2, <2>3
<1>8. \A p \in LeafPaths(m) : p \in LeafPaths(b) \cup LeafPaths(a)
  BY <1>1, <1>2, <1>3, <1>4 DEF LeafPaths
<1>9. LeafPaths(m) = LeafPaths(b) \cup LeafPaths(a)
  <2>1. \A p \in LeafPaths(b) \cup LeafPaths(a) : p \in LeafPaths(m)
    BY <1>6, <1>7 DEF LeafPaths
  <2> QED BY <1>8, <2>1
<1>10. \A p \in LeafPaths(m) : m[p] = IF p \in LeafPaths(b) THEN b[p] ELSE a[p]
  BY <1>6, <1>7, <1>9
<1>11. \A p \in DOMAIN m : m[p] = Branch =>
         \/ p \in DOMAIN a /\ a[p] = Branch
         \/ p \in DOMAIN b /\ b[p] = Branch /\ Survives(b, p)
  BY <1>1, <1>2, <1>3, <1>4
<1> QED BY <1>5, <1>9, <1>10, <1>11 DEF m

-----------------------------------------------------------------------------
(* Documents that their leaves determine. *)

\* A document with nothing to strip.
Clean(doc) == /\ IsDocument(doc) /\ IsObject(doc) /\ Full(doc)
              /\ doc = [p \in DOMAIN doc |-> doc[p]]

LeavesOf(doc) == [p \in LeafPaths(doc) |-> doc[p]]

LEMMA CleanDomain ==
  ASSUME NEW doc, Clean(doc)
  PROVE  /\ \A p : p \in DOMAIN doc <=>
              p = << >> \/ (p \in Path /\ \E l \in LeafPaths(doc) : IsPrefix(p, l))
         /\ \A p \in DOMAIN doc : p \notin LeafPaths(doc) => doc[p] = Branch
<1>1. DOMAIN doc \subseteq Path /\ << >> \in DOMAIN doc /\ IsDocument(doc) /\ doc[<< >>] = Branch
  BY DocumentPaths DEF Clean, IsObject
<1>2. ASSUME NEW p \in DOMAIN doc, p # << >>
      PROVE  doc[p] # Scalar(Null) /\ \E l \in LeafPaths(doc) : IsPrefix(p, l)
  BY <1>2 DEF Clean, Full, MemberSurvives, Survives
<1>3. ASSUME NEW p \in Path, NEW l \in LeafPaths(doc), IsPrefix(p, l) PROVE p \in DOMAIN doc
  <2>1. l \in DOMAIN doc
    BY DEF LeafPaths
  <2> QED BY <1>1, <1>3, <2>1, AboveIsBranch
<1>4. ASSUME NEW p \in DOMAIN doc, p \notin LeafPaths(doc) PROVE doc[p] = Branch
  <2>1. p # << >> => doc[p] # Scalar(Null)
    BY <1>2
  <2> QED BY <1>1, <1>4, <2>1 DEF LeafPaths
<1> QED BY <1>1, <1>2, <1>3, <1>4

LEMMA LeavesDetermine ==
  ASSUME NEW c, NEW d, Clean(c), Clean(d), LeavesOf(c) = LeavesOf(d)
  PROVE  c = d
<1>1. LeafPaths(c) = LeafPaths(d)
  <2>1. DOMAIN LeavesOf(c) = LeafPaths(c) /\ DOMAIN LeavesOf(d) = LeafPaths(d)
    BY DEF LeavesOf
  <2> QED BY <2>1
<1>2. \A p \in LeafPaths(c) : c[p] = d[p]
  <2>1. \A p \in LeafPaths(c) : LeavesOf(c)[p] = c[p]
    BY DEF LeavesOf
  <2>2. \A p \in LeafPaths(d) : LeavesOf(d)[p] = d[p]
    BY DEF LeavesOf
  <2> QED BY <1>1, <2>1, <2>2
<1>3. DOMAIN c = DOMAIN d
  <2>1. \A p : p \in DOMAIN c <=> p = << >> \/ (p \in Path /\ \E l \in LeafPaths(c) : IsPrefix(p, l))
    BY CleanDomain
  <2>2. \A p : p \in DOMAIN d <=> p = << >> \/ (p \in Path /\ \E l \in LeafPaths(d) : IsPrefix(p, l))
    BY CleanDomain
  <2>3. \A p : p \in DOMAIN c <=> p \in DOMAIN d
    BY <1>1, <2>1, <2>2
  <2> QED BY <2>3
<1>4. \A p \in DOMAIN c : c[p] = d[p]
  BY <1>1, <1>2, <1>3, CleanDomain
<1>5. c = [p \in DOMAIN c |-> c[p]] /\ d = [p \in DOMAIN d |-> d[p]]
  BY DEF Clean
<1> QED BY <1>3, <1>4, <1>5

-----------------------------------------------------------------------------
(* Writing a row. *)

LEMMA StrippedAreLeaves ==
  ASSUME NEW type, RowType(type), NEW doc, IsDocument(doc)
  PROVE  /\ Stripped(type, doc) \subseteq LeafPaths(doc)
         /\ Stripped(type, doc) \subseteq DOMAIN type
         /\ Stripped(type, doc) \subseteq Path \ {<< >>}
         /\ Separate(Stripped(type, doc))
         /\ \A l \in Stripped(type, doc) : doc[l] = Scalar(doc[l].value) /\ doc[l].value # Null
         /\ ~IsObject(doc) => Stripped(type, doc) = {}
<1> DEFINE taken == Stripped(type, doc)
<1>1. \A l \in taken : /\ l \in DOMAIN type /\ l \in Path /\ l # << >> /\ l \in DOMAIN doc
                       /\ \E v \in type[l] : v # Null /\ doc[l] = Scalar(v)
  <2>1. SUFFICES ASSUME NEW l \in taken
                 PROVE  /\ l \in DOMAIN type /\ l \in Path /\ l # << >> /\ l \in DOMAIN doc
                        /\ \E v \in type[l] : v # Null /\ doc[l] = Scalar(v)
    OBVIOUS
  <2>2. l \in DOMAIN type /\ l \in DOMAIN doc /\ \E v \in type[l] : doc[l] = Scalar(v)
    BY DEF Stripped, Exists
  <2>3. Null \notin type[l] /\ l \in Path /\ l # << >>
    BY <2>2 DEF RowType, Path
  <2> QED BY <2>2, <2>3
<1> HIDE DEF taken
<1>2. \A l \in taken : doc[l] = Scalar(doc[l].value) /\ doc[l].value # Null
  <2>1. SUFFICES ASSUME NEW l \in taken
                 PROVE  doc[l] = Scalar(doc[l].value) /\ doc[l].value # Null
    OBVIOUS
  <2>2. PICK v \in type[l] : v # Null /\ doc[l] = Scalar(v)
    BY <1>1
  <2>3. Scalar(v).value = v
    BY DEF Scalar
  <2> QED BY <2>2, <2>3
<1>3. \A l \in taken : l \in LeafPaths(doc)
  <2>1. SUFFICES ASSUME NEW l \in taken PROVE l \in LeafPaths(doc)
    OBVIOUS
  <2>2. PICK v \in type[l] : v # Null /\ doc[l] = Scalar(v)
    BY <1>1
  <2>3. doc[l] # Branch /\ doc[l] # Scalar(Null)
    BY <2>2, NodesDiffer, ScalarsDiffer
  <2> QED BY <1>1, <2>3 DEF LeafPaths
<1>4. Separate(taken)
  <2>1. SUFFICES ASSUME NEW l \in taken, NEW m \in taken, IsPrefix(l, m) PROVE l = m
    BY DEF Separate
  <2>2. l \in DOMAIN doc /\ m \in DOMAIN doc /\ doc[l] # Branch
    BY <1>3 DEF LeafPaths
  <2> QED BY <2>1, <2>2, NothingBelowALeaf
<1>5. ASSUME ~IsObject(doc) PROVE taken = {}
  <2>1. \A l \in taken : FALSE
    <3>1. SUFFICES ASSUME NEW l \in taken PROVE FALSE
      OBVIOUS
    <3>2. << >> \in DOMAIN doc /\ doc[<< >>] # Branch /\ IsPrefix(<< >>, l)
      BY <1>1, <1>5, DocumentPaths, RootIsPrefix DEF IsObject
    <3> QED BY <1>1, <3>2, NothingBelowALeaf
  <2> QED BY <2>1
<1> QED BY <1>1, <1>2, <1>3, <1>4, <1>5 DEF taken

LEMMA ShredParts ==
  ASSUME NEW type, RowType(type), NEW doc, IsDocument(doc)
  PROVE  LET row == Shred(type, doc)
             taken == Stripped(type, doc)
         IN /\ IsDocument(row.residual)
            /\ IsObject(row.residual) <=> IsObject(doc)
            /\ ~IsObject(doc) => row.residual = doc
            /\ IsObject(doc) =>
                 /\ DOMAIN row.residual = DOMAIN doc \ taken
                 /\ \A p \in DOMAIN row.residual : row.residual[p] = doc[p]
            /\ row.lane = [l \in taken |-> doc[l].value]
            /\ DOMAIN row.lane = taken
<1> DEFINE row == Shred(type, doc)
           taken == Stripped(type, doc)
<1>1. /\ row.residual = IF IsObject(doc) THEN Without(doc, taken) ELSE doc
      /\ row.lane = [l \in taken |-> doc[l].value]
  BY DEF Shred
<1>2. taken \subseteq LeafPaths(doc)
  BY StrippedAreLeaves
<1> HIDE DEF row, taken
<1>3. DOMAIN row.lane = taken
  BY <1>1
<1>4. CASE IsObject(doc)
  <2>1. /\ IsDocument(Without(doc, taken))
        /\ IsObject(Without(doc, taken))
        /\ DOMAIN Without(doc, taken) = DOMAIN doc \ taken
        /\ \A p \in DOMAIN doc \ taken : Without(doc, taken)[p] = doc[p]
    BY <1>2, <1>4, WithoutLeaves
  <2> QED BY <1>1, <1>3, <1>4, <2>1 DEF row, taken
<1>5. CASE ~IsObject(doc)
  BY <1>1, <1>3, <1>5 DEF row, taken
<1> QED BY <1>4, <1>5

\* A written row gives its document back.
LEMMA ShredReconstructs ==
  ASSUME NEW type, RowType(type), NEW doc, IsDocument(doc), doc = [p \in DOMAIN doc |-> doc[p]]
  PROVE  Reconstruct(Shred(type, doc)) = doc
<1> DEFINE row == Shred(type, doc)
           taken == Stripped(type, doc)
           patch == EmitShredPatchObject(row.lane)
           m == MergeTwoObjects(row.residual, patch, "Overlay")
<1>1. /\ IsDocument(row.residual)
      /\ IsObject(row.residual) <=> IsObject(doc)
      /\ ~IsObject(doc) => row.residual = doc
      /\ IsObject(doc) =>
           /\ DOMAIN row.residual = DOMAIN doc \ taken
           /\ \A p \in DOMAIN row.residual : row.residual[p] = doc[p]
      /\ row.lane = [l \in taken |-> doc[l].value]
      /\ DOMAIN row.lane = taken
  BY ShredParts
<1>2. /\ taken \subseteq LeafPaths(doc)
      /\ taken \subseteq Path \ {<< >>}
      /\ Separate(taken)
      /\ \A l \in taken : doc[l] = Scalar(doc[l].value) /\ doc[l].value # Null
  BY StrippedAreLeaves
<1>3. Reconstruct(row) = IF IsObject(row.residual) THEN m ELSE row.residual
  BY DEF Reconstruct
<1>4. m = [p \in DOMAIN m |-> m[p]]
  BY DEF MergeTwoObjects
<1> HIDE DEF row, taken, patch, m
<1>5. CASE ~IsObject(doc)
  BY <1>1, <1>3, <1>5 DEF row
<1>6. CASE IsObject(doc)
  <2>1. \A l \in taken : row.lane[l] = doc[l].value
    BY <1>1
  <2>2. /\ \A p : p \in DOMAIN patch <=> p = << >> \/ (p \in Path /\ \E l \in DOMAIN row.lane : IsPrefix(p, l))
        /\ \A p \in DOMAIN patch : patch[p] = IF p \in DOMAIN row.lane THEN Scalar(row.lane[p]) ELSE Branch
        /\ IsDocument(patch)
        /\ IsObject(patch)
    BY <1>1, <1>2, EmittedLanes DEF patch
  <2>3. Full(patch)
    BY <1>1, <1>2, <2>1, EmittedIsFull DEF patch
  <2>4. Objects2(row.residual, patch)
    BY <1>1, <1>6, <2>2 DEF Objects2
  <2>5. DOMAIN m = DOMAIN row.residual \cup {p \in DOMAIN patch : p \notin DOMAIN row.residual /\ ~Blocked(row.residual, p)}
    BY <2>3, <2>4, OverlayDomain DEF m
  <2>6. \A p \in DOMAIN m : m[p] = IF p \in DOMAIN row.residual THEN row.residual[p] ELSE patch[p]
    BY <2>4, OverlayNode DEF m
  <2>7. \A l \in taken : l \in DOMAIN m /\ l \notin DOMAIN row.residual
    <3>1. SUFFICES ASSUME NEW l \in taken
                   PROVE  l \in DOMAIN m /\ l \notin DOMAIN row.residual
      OBVIOUS
    <3>2. l \in DOMAIN doc /\ l \in Path /\ doc[l] # Branch
      BY <1>2 DEF LeafPaths
    <3>3. l \in DOMAIN patch
      BY <1>1, <2>2, <3>2, PrefixReflexive
    <3>4. ~Blocked(row.residual, l)
      <4>1. SUFFICES ASSUME NEW q \in DOMAIN row.residual, row.residual[q] # Branch, IsPrefix(q, l), q # l
                     PROVE  FALSE
        BY DEF Blocked
      <4>2. q \in DOMAIN doc /\ doc[q] # Branch
        BY <1>1, <1>6, <4>1
      <4> QED BY <3>2, <4>1, <4>2, NothingBelowALeaf
    <3> QED BY <1>1, <1>6, <2>5, <3>3, <3>4
  <2>8. DOMAIN m \subseteq DOMAIN doc
    <3>1. SUFFICES ASSUME NEW p \in DOMAIN patch PROVE p \in DOMAIN doc
      BY <1>1, <1>6, <2>5
    <3>2. << >> \in DOMAIN doc
      BY DocumentPaths
    <3>3. ASSUME NEW l \in taken, p \in Path, IsPrefix(p, l) PROVE p \in DOMAIN doc
      <4>1. l \in DOMAIN doc
        BY <1>2 DEF LeafPaths
      <4> QED BY <3>3, <4>1, AboveIsBranch
    <3> QED BY <1>1, <2>2, <3>2, <3>3
  <2>9. DOMAIN m = DOMAIN doc
    BY <1>1, <1>6, <2>5, <2>7, <2>8
  <2>10. \A p \in DOMAIN m : m[p] = doc[p]
    <3>1. SUFFICES ASSUME NEW p \in DOMAIN m PROVE m[p] = doc[p]
      OBVIOUS
    <3>2. CASE p \in taken
      <4>1. m[p] = patch[p] /\ p \in DOMAIN patch
        BY <2>5, <2>6, <2>7, <3>2
      <4>2. patch[p] = Scalar(row.lane[p])
        BY <1>1, <2>2, <3>2, <4>1
      <4> QED BY <1>2, <2>1, <3>2, <4>1, <4>2
    <3>3. CASE p \notin taken
      BY <1>1, <1>6, <2>6, <2>9, <3>3
    <3> QED BY <3>2, <3>3
  <2> QED BY <1>1, <1>3, <1>4, <1>6, <2>9, <2>10 DEF row
<1> QED BY <1>5, <1>6

\* A clear spill bit of a written row promises the answer.
LEMMA ShreddedReadsTrue ==
  ASSUME NEW type, RowType(type), NEW doc, IsDocument(doc), doc = [p \in DOMAIN doc |-> doc[p]],
         NEW read, read \subseteq DOMAIN type
  PROVE  ClearBitsAreTrue(read, Shred(type, doc))
<1> DEFINE row == Shred(type, doc)
           taken == Stripped(type, doc)
<1>1. Reconstruct(row) = doc
  BY ShredReconstructs
<1>2. row.lane = [l \in taken |-> doc[l].value] /\ DOMAIN row.lane = taken
  BY ShredParts
<1>3. \A l \in taken : l \in DOMAIN doc /\ doc[l] = Scalar(doc[l].value)
  BY StrippedAreLeaves DEF LeafPaths
<1>4. \A l \in DOMAIN type \ row.spilled : l \in taken \/ l \notin DOMAIN doc \/ doc[l] = Scalar(Null)
  BY DEF Shred, Exists
<1> HIDE DEF row, taken
<1>5. SUFFICES ASSUME NEW l \in read \ row.spilled
               PROVE  BareRead(row, l) = PathRead(doc, l)
  BY <1>1 DEF ClearBitsAreTrue, row
<1>6. CASE l \in taken
  <2>1. BareRead(row, l) = Leaf(doc[l].value)
    BY <1>2, <1>6 DEF BareRead
  <2>2. At(doc, l) = Leaf(doc[l].value)
    BY <1>3, <1>6, LeafAt
  <2> QED BY <1>3, <1>6, <2>1, <2>2 DEF PathRead, Exists
<1>7. CASE l \notin taken
  <2>1. BareRead(row, l) = Leaf(Null)
    BY <1>2, <1>7 DEF BareRead
  <2>2. l \in DOMAIN doc => At(doc, l) = Leaf(Null)
    BY <1>4, <1>7, LeafAt
  <2> QED BY <2>1, <2>2 DEF PathRead, Exists
<1> QED BY <1>6, <1>7

LEMMA LanesAreARowType == RowType(Fit) /\ Lane \subseteq Path \ {<< >>}
BY LaneAssumption DEF RowType, Lane, Path

-----------------------------------------------------------------------------
(* The clear bits. *)

\* A state as every step leaves it.
AccOK(acc) ==
  /\ acc = [kind |-> acc.kind, residual |-> acc.residual, slot |-> acc.slot]
  /\ acc.kind \in {"Empty", "NonObject", "Object"}
  /\ IsDocument(acc.residual)
  /\ acc.kind # "Empty" => (IsObject(acc.residual) <=> acc.kind = "Object")
  /\ acc.kind = "NonObject" => DOMAIN acc.slot = {}
  /\ DOMAIN acc.slot \subseteq Lane
  /\ \A l \in DOMAIN acc.slot : acc.slot[l] # Null

LanesOK(lane) == DOMAIN lane \subseteq Lane /\ \A l \in DOMAIN lane : lane[l] # Null

RowsOK == rows \in Seq(Doc \cup {SqlNull})

LEMMA RowIsDocument ==
  ASSUME RowsOK, NEW i \in DOMAIN rows, rows[i] # SqlNull
  PROVE  rows[i] \in Doc /\ IsDocument(rows[i]) /\ rows[i] = [p \in DOMAIN rows[i] |-> rows[i][p]]
BY DocAssumption DEF RowsOK

\* What is deleted for one lane takes all below it along, and never the root.
LEMMA ShadowDeleted ==
  ASSUME NEW doc, IsDocument(doc), IsObject(doc), NEW l \in Path, l # << >>
  PROVE  \E gone : /\ << >> \notin gone
                   /\ \A p, q \in Path : p \in gone /\ IsPrefix(p, q) => q \in gone
                   /\ DOMAIN DirectShadowDeletePath(doc, l) = DOMAIN doc \ gone
<1> DEFINE depth == ClassifyResidualPath(doc, l).depth
           outcome == ClassifyResidualPath(doc, l).outcome
           at == SubSeq(l, 1, depth)
<1>1. DirectShadowDeletePath(doc, l)
        = IF outcome = "Absent" THEN doc ELSE MergeTwoObjects(doc, Chain(at, Null), "Patch")
  BY DEF DirectShadowDeletePath
<1>2. outcome \in {"Present", "Absent", "NonObjectPrefix"}
  BY Outcomes
<1>3. CASE outcome = "Absent"
  <2>1. DOMAIN DirectShadowDeletePath(doc, l) = DOMAIN doc \ {}
    BY <1>1, <1>3
  <2> QED BY <2>1
<1>4. CASE outcome # "Absent"
  <2>1. at \in DOMAIN doc /\ at # << >> /\ at \in Path
    <3>1. CASE outcome = "Present"
      <4>1. l \in DOMAIN doc /\ at = l
        BY <3>1, Present
      <4> QED BY <4>1
    <3>2. CASE outcome = "NonObjectPrefix"
      <4>1. at \in DOMAIN doc /\ doc[at] # Branch
        BY <3>2, BlockedIsNonObjectPrefix
      <4> QED BY <4>1, DocumentPaths DEF IsObject
    <3> QED BY <1>2, <1>4, <3>1, <3>2
  <2> HIDE DEF at, outcome
  <2>2. DOMAIN MergeTwoObjects(doc, Chain(at, Null), "Patch") = {p \in DOMAIN doc : ~IsPrefix(at, p)}
    BY <2>1, NullPatchRemoves
  <2> DEFINE gone == {p \in Path : IsPrefix(at, p)}
  <2>3. << >> \notin gone
    BY <2>1, NothingAboveTheRoot
  <2>4. \A p, q \in Path : p \in gone /\ IsPrefix(p, q) => q \in gone
    BY <2>1, PrefixTransitive
  <2>5. DOMAIN DirectShadowDeletePath(doc, l) = DOMAIN doc \ gone
    <3>1. DOMAIN doc \subseteq Path
      BY DocumentPaths
    <3> QED BY <1>1, <1>4, <2>2, <3>1
  <2> QED BY <2>3, <2>4, <2>5
<1> QED BY <1>3, <1>4

TakenOver(slot, lane) ==
  [l \in DOMAIN slot \cup DOMAIN lane |-> IF l \in DOMAIN lane THEN lane[l] ELSE slot[l]]

AdoptedPaths(residual, lane) ==
  {p \in DOMAIN residual : \A l \in DOMAIN lane : p \in DOMAIN DirectShadowDeletePath(residual, l)}

Adopted(residual, slot, lane) ==
  AdoptLanes([kind |-> "Object", residual |-> residual, slot |-> slot], lane)

LEMMA AdoptParts ==
  ASSUME NEW residual, NEW slot, NEW lane,
         IsDocument(residual), IsObject(residual), LanesOK(lane)
  PROVE  /\ Adopted(residual, slot, lane)
              = [kind |-> "Object", residual |-> Adopted(residual, slot, lane).residual,
                 slot |-> TakenOver(slot, lane)]
         /\ IsDocument(Adopted(residual, slot, lane).residual)
         /\ IsObject(Adopted(residual, slot, lane).residual)
         /\ DOMAIN Adopted(residual, slot, lane).residual = AdoptedPaths(residual, lane)
         /\ \A p \in AdoptedPaths(residual, lane) :
              Adopted(residual, slot, lane).residual[p] = residual[p]
         /\ Adopted(residual, slot, lane).residual
              = [p \in AdoptedPaths(residual, lane) |-> Adopted(residual, slot, lane).residual[p]]
<1> DEFINE left == AdoptedPaths(residual, lane)
           r == Restrict(residual, left)
<1>1. Adopted(residual, slot, lane)
        = [kind |-> "Object", residual |-> r, slot |-> TakenOver(slot, lane)]
  <2> DEFINE before == [kind |-> "Object", residual |-> residual, slot |-> slot]
  <2>1. before.kind = "Object" /\ before.residual = residual /\ before.slot = slot
    OBVIOUS
  <2> HIDE DEF before
  <2>2. AdoptLanes(before, lane) = [kind |-> "Object", residual |-> r, slot |-> TakenOver(slot, lane)]
    BY <2>1 DEF AdoptLanes, AdoptedPaths, TakenOver
  <2> QED BY <2>2 DEF before, Adopted
<1>2. DOMAIN residual \subseteq Path /\ << >> \in DOMAIN residual
  BY DocumentPaths
<1>3. \A l \in DOMAIN lane :
        \E gone : /\ << >> \notin gone
                  /\ \A p, q \in Path : p \in gone /\ IsPrefix(p, q) => q \in gone
                  /\ DOMAIN DirectShadowDeletePath(residual, l) = DOMAIN residual \ gone
  <2>1. SUFFICES ASSUME NEW l \in DOMAIN lane
                 PROVE \E gone : /\ << >> \notin gone
                                 /\ \A p, q \in Path : p \in gone /\ IsPrefix(p, q) => q \in gone
                                 /\ DOMAIN DirectShadowDeletePath(residual, l) = DOMAIN residual \ gone
    OBVIOUS
  <2>2. l \in Path /\ l # << >>
    BY LanesAreARowType DEF LanesOK
  <2> QED BY <2>2, ShadowDeleted
<1>4. << >> \in left /\ left \subseteq DOMAIN residual
  BY <1>2, <1>3 DEF AdoptedPaths
<1>5. \A p \in left : \A q \in DOMAIN residual : IsPrefix(q, p) => q \in left
  <2>1. SUFFICES ASSUME NEW p \in left, NEW q \in DOMAIN residual, IsPrefix(q, p),
                        NEW l \in DOMAIN lane
                 PROVE  q \in DOMAIN DirectShadowDeletePath(residual, l)
    BY DEF AdoptedPaths
  <2>2. PICK gone : /\ \A x, y \in Path : x \in gone /\ IsPrefix(x, y) => y \in gone
                    /\ DOMAIN DirectShadowDeletePath(residual, l) = DOMAIN residual \ gone
    BY <1>3
  <2>3. p \in DOMAIN DirectShadowDeletePath(residual, l) /\ p \in DOMAIN residual
    BY DEF AdoptedPaths
  <2> QED BY <1>2, <2>1, <2>2, <2>3
<1> HIDE DEF left
<1>6. /\ IsDocument(r) /\ DOMAIN r = left
      /\ \A p \in left : r[p] = residual[p]
  BY <1>4, <1>5, RestrictIsDocument
<1>7. r = [p \in DOMAIN r |-> r[p]]
  BY DEF Restrict
<1>8. IsObject(r)
  BY <1>4, <1>6 DEF IsObject
<1> HIDE DEF r
<1>9. Adopted(residual, slot, lane).residual = r
  BY <1>1
<1>10. r = [p \in left |-> r[p]]
  BY <1>6, <1>7
<1>11. /\ IsDocument(Adopted(residual, slot, lane).residual)
       /\ IsObject(Adopted(residual, slot, lane).residual)
       /\ DOMAIN Adopted(residual, slot, lane).residual = left
       /\ \A p \in left : Adopted(residual, slot, lane).residual[p] = residual[p]
  BY <1>6, <1>8, <1>9
<1>12. Adopted(residual, slot, lane).residual
         = [p \in left |-> Adopted(residual, slot, lane).residual[p]]
  BY <1>9, <1>10
<1> QED BY <1>1, <1>9, <1>11, <1>12 DEF left

LEMMA AdoptKeepsOK ==
  ASSUME NEW residual, NEW slot, NEW lane,
         IsDocument(residual), IsObject(residual), LanesOK(lane), LanesOK(slot)
  PROVE  AccOK(Adopted(residual, slot, lane))
<1> DEFINE acc == Adopted(residual, slot, lane)
<1>1. /\ acc = [kind |-> "Object", residual |-> acc.residual, slot |-> TakenOver(slot, lane)]
      /\ IsDocument(acc.residual)
      /\ IsObject(acc.residual)
      /\ DOMAIN acc.residual = AdoptedPaths(residual, lane)
      /\ \A p \in AdoptedPaths(residual, lane) : acc.residual[p] = residual[p]
      /\ acc.residual = [p \in AdoptedPaths(residual, lane) |-> acc.residual[p]]
  BY AdoptParts
<1>2. LanesOK(TakenOver(slot, lane))
  <2> DEFINE s == TakenOver(slot, lane)
  <2>1. /\ DOMAIN s = DOMAIN slot \cup DOMAIN lane
        /\ \A x \in DOMAIN s : s[x] = IF x \in DOMAIN lane THEN lane[x] ELSE slot[x]
    BY DEF TakenOver
  <2> HIDE DEF s
  <2>2. LanesOK(s)
    BY <2>1 DEF LanesOK
  <2> QED BY <2>2 DEF s
<1> HIDE DEF acc
<1>3. acc.kind = "Object" /\ acc.slot = TakenOver(slot, lane)
  BY <1>1
<1> DEFINE s == TakenOver(slot, lane)
<1>4. acc = [kind |-> acc.kind, residual |-> acc.residual, slot |-> acc.slot]
  BY <1>1, <1>3
<1>5. LanesOK(acc.slot)
  BY <1>2, <1>3
<1> QED BY <1>1, <1>3, <1>4, <1>5 DEF AccOK, LanesOK, acc

LEMMA ReplacedIsOK ==
  ASSUME NEW doc, IsDocument(doc), ~IsObject(doc)
  PROVE  AccOK(Replaced(doc))
<1>1. /\ Replaced(doc).kind = "NonObject" /\ Replaced(doc).residual = doc
      /\ Replaced(doc).slot = << >>
      /\ Replaced(doc) = [kind |-> "NonObject", residual |-> doc, slot |-> << >>]
  BY DEF Replaced
<1>2. DOMAIN << >> = {}
  OBVIOUS
<1> QED BY <1>1, <1>2 DEF AccOK

LEMMA EmptyIsOK == AccOK(EmptyAcc)
<1>1. /\ EmptyAcc.kind = "Empty" /\ EmptyAcc.residual = EmptyObject /\ EmptyAcc.slot = << >>
      /\ EmptyAcc = [kind |-> "Empty", residual |-> EmptyObject, slot |-> << >>]
  BY DEF EmptyAcc
<1>2. IsDocument(EmptyObject)
  <2>1. DOMAIN EmptyObject = {<< >>} /\ << >> \in Path
    BY DEF EmptyObject, Path
  <2>2. \A p \in DOMAIN EmptyObject : \A q \in Path :
          IsPrefix(q, p) /\ q # p => q \in DOMAIN EmptyObject /\ EmptyObject[q] = Branch
    BY <2>1, NothingAboveTheRoot
  <2> QED BY <2>1, <2>2, DocumentByPaths
<1>3. DOMAIN << >> = {}
  OBVIOUS
<1> QED BY <1>1, <1>2, <1>3 DEF AccOK

\* What a row brings: a document, and values for lanes.
RowOK(row) ==
  /\ IsDocument(row.residual)
  /\ LanesOK(row.lane)

LEMMA ShreddedIsOK ==
  ASSUME NEW doc, IsDocument(doc)
  PROVE  RowOK(Shred(Fit, doc))
<1> DEFINE row == Shred(Fit, doc)
           taken == Stripped(Fit, doc)
<1>1. /\ IsDocument(row.residual)
      /\ row.lane = [l \in taken |-> doc[l].value]
      /\ DOMAIN row.lane = taken
  BY LanesAreARowType, ShredParts
<1>2. taken \subseteq Lane /\ \A l \in taken : doc[l].value # Null
  BY LanesAreARowType, StrippedAreLeaves DEF Lane
<1> HIDE DEF row, taken
<1>3. LanesOK(row.lane)
  BY <1>1, <1>2 DEF LanesOK
<1> QED BY <1>1, <1>3 DEF RowOK, row

LEMMA FoldRowKeepsOK ==
  ASSUME NEW acc, AccOK(acc), NEW row, RowOK(row)
  PROVE  AccOK(DirectFoldRow(acc, row))
<1>1. CASE ~IsObject(row.residual)
  <2>1. DirectFoldRow(acc, row) = Replaced(row.residual)
    BY <1>1 DEF DirectFoldRow
  <2> QED BY <1>1, <2>1, ReplacedIsOK DEF RowOK
<1>2. CASE IsObject(row.residual) /\ acc.kind # "Object"
  <2> DEFINE s == Strip(row.residual, "IgnoreNulls")
  <2>1. DirectFoldRow(acc, row) = Adopted(s, << >>, row.lane)
    BY <1>2 DEF DirectFoldRow, Adopted
  <2>2. IsDocument(s) /\ IsObject(s)
    BY <1>2, StripLeaves DEF RowOK
  <2>3. LanesOK(<< >>)
    BY DEF LanesOK
  <2> HIDE DEF s
  <2> QED BY <2>1, <2>2, <2>3, AdoptKeepsOK DEF RowOK
<1>3. CASE IsObject(row.residual) /\ acc.kind = "Object"
  <2> DEFINE m == MergeTwoObjects(acc.residual, row.residual, "IgnoreNulls")
  <2>1. [acc EXCEPT !.residual = m] = [kind |-> "Object", residual |-> m, slot |-> acc.slot]
    <3> HIDE DEF m
    <3> QED BY <1>3 DEF AccOK
  <2>2. DirectFoldRow(acc, row) = Adopted(m, acc.slot, row.lane)
    BY <1>3, <2>1 DEF DirectFoldRow, Adopted
  <2>3. IsDocument(m) /\ IsObject(m)
    BY <1>3, MergeIsDocument DEF AccOK, RowOK, Objects2
  <2>4. LanesOK(acc.slot)
    BY DEF AccOK, LanesOK
  <2> HIDE DEF m
  <2> QED BY <2>2, <2>3, <2>4, AdoptKeepsOK DEF RowOK
<1> QED BY <1>1, <1>2, <1>3

\* The slots of a source that count.
Counted(acc) ==
  Restrict(acc.slot, {l \in DOMAIN acc.slot : ClassifyResidualPath(acc.residual, l).outcome = "Absent"})

LEMMA CountedSlots ==
  ASSUME NEW acc
  PROVE  /\ DOMAIN Counted(acc) = {l \in DOMAIN acc.slot : ClassifyResidualPath(acc.residual, l).outcome = "Absent"}
         /\ \A l \in DOMAIN Counted(acc) : Counted(acc)[l] = acc.slot[l]
         /\ AccOK(acc) => LanesOK(Counted(acc))
<1> DEFINE counted == {l \in DOMAIN acc.slot : ClassifyResidualPath(acc.residual, l).outcome = "Absent"}
<1>1. counted \subseteq DOMAIN acc.slot
  OBVIOUS
<1>2. Counted(acc) = Restrict(acc.slot, counted)
  BY DEF Counted
<1> HIDE DEF counted
<1>3. DOMAIN Restrict(acc.slot, counted) = counted /\ \A l \in counted : Restrict(acc.slot, counted)[l] = acc.slot[l]
  BY <1>1 DEF Restrict
<1>4. AccOK(acc) => LanesOK(Counted(acc))
  BY <1>1, <1>2, <1>3 DEF AccOK, LanesOK
<1> QED BY <1>2, <1>3, <1>4 DEF counted

LEMMA FoldStateKeepsOK ==
  ASSUME NEW target, AccOK(target), NEW source, AccOK(source)
  PROVE  AccOK(DirectFoldState(target, source))
<1>1. CASE source.kind = "Empty"
  BY <1>1 DEF DirectFoldState
<1>2. CASE source.kind = "NonObject" \/ (source.kind # "Empty" /\ target.kind # "Object")
  BY <1>2 DEF DirectFoldState
<1>3. CASE source.kind = "Object" /\ target.kind = "Object"
  <2> DEFINE m == MergeTwoObjects(target.residual, source.residual, "IgnoreNulls")
  <2>1. [target EXCEPT !.residual = m] = [kind |-> "Object", residual |-> m, slot |-> target.slot]
    <3> HIDE DEF m
    <3> QED BY <1>3 DEF AccOK
  <2>2. DirectFoldState(target, source) = Adopted(m, target.slot, Counted(source))
    BY <1>3, <2>1 DEF DirectFoldState, Counted, Adopted
  <2>3. IsDocument(m) /\ IsObject(m)
    BY <1>3, MergeIsDocument DEF AccOK, Objects2
  <2>4. LanesOK(target.slot) /\ LanesOK(Counted(source))
    BY CountedSlots DEF AccOK, LanesOK
  <2> HIDE DEF m
  <2> QED BY <2>2, <2>3, <2>4, AdoptKeepsOK
<1> QED BY <1>1, <1>2, <1>3 DEF AccOK

\* The slots that a result row writes.
LEMMA FinalizedParts ==
  ASSUME NEW acc, AccOK(acc), Separate(Lane)
  PROVE  /\ Finalized(acc).residual = acc.residual
         /\ Finalized(acc).lane = Counted(acc)
         /\ DOMAIN Counted(acc) = {l \in DOMAIN acc.slot : l \notin DOMAIN acc.residual /\ ~Blocked(acc.residual, l)}
         /\ \A l \in DOMAIN Counted(acc) : Counted(acc)[l] = acc.slot[l]
         /\ Finalized(acc).spilled = Lane \cap DOMAIN acc.residual
         /\ LanesOK(Counted(acc))
         /\ Separate(DOMAIN Counted(acc))
         /\ DOMAIN Counted(acc) \subseteq Path \ {<< >>}
<1>1. /\ Finalized(acc).residual = acc.residual
      /\ Finalized(acc).lane = Counted(acc)
      /\ Finalized(acc).spilled = {l \in Lane : ClassifyResidualPath(acc.residual, l).outcome = "Present"}
  BY DEF Finalized, Counted
<1>2. /\ DOMAIN Counted(acc) = {l \in DOMAIN acc.slot : ClassifyResidualPath(acc.residual, l).outcome = "Absent"}
      /\ \A l \in DOMAIN Counted(acc) : Counted(acc)[l] = acc.slot[l]
      /\ LanesOK(Counted(acc))
  BY CountedSlots
<1>3. \A l \in Lane : ClassifyResidualPath(acc.residual, l).outcome = "Present" <=> l \in DOMAIN acc.residual
  BY LanesAreARowType, Present DEF AccOK
<1>4. \A l \in Lane : ClassifyResidualPath(acc.residual, l).outcome = "NonObjectPrefix" <=> Blocked(acc.residual, l)
  BY LanesAreARowType, BlockedIsNonObjectPrefix DEF AccOK
<1>5. \A l \in Lane : ClassifyResidualPath(acc.residual, l).outcome = "Absent"
                        <=> l \notin DOMAIN acc.residual /\ ~Blocked(acc.residual, l)
  <2>1. SUFFICES ASSUME NEW l \in Lane
                 PROVE  ClassifyResidualPath(acc.residual, l).outcome = "Absent"
                          <=> l \notin DOMAIN acc.residual /\ ~Blocked(acc.residual, l)
    OBVIOUS
  <2>2. ClassifyResidualPath(acc.residual, l).outcome \in {"Present", "Absent", "NonObjectPrefix"}
    BY Outcomes
  <2> QED BY <1>3, <1>4, <2>2
<1>6. DOMAIN acc.slot \subseteq Lane
  BY DEF AccOK
<1>7. Finalized(acc).spilled = Lane \cap DOMAIN acc.residual
  BY <1>1, <1>3
<1>8. DOMAIN Counted(acc) = {l \in DOMAIN acc.slot : l \notin DOMAIN acc.residual /\ ~Blocked(acc.residual, l)}
  BY <1>2, <1>5, <1>6
<1>9. Separate(DOMAIN Counted(acc)) /\ DOMAIN Counted(acc) \subseteq Path \ {<< >>}
  BY <1>6, <1>8, LanesAreARowType DEF Separate
<1> QED BY <1>1, <1>2, <1>7, <1>8, <1>9

LEMMA ReadNodes ==
  ASSUME NEW acc, AccOK(acc), acc.kind = "Object", Separate(Lane)
  PROVE  LET v == Reconstruct(Finalized(acc))
         IN /\ IsDocument(v) /\ IsObject(v)
            /\ v = [p \in DOMAIN v |-> v[p]]
            /\ \A p \in DOMAIN v :
                 \/ p \in DOMAIN acc.residual /\ v[p] = acc.residual[p]
                 \/ /\ p \notin DOMAIN acc.residual
                    /\ \E l \in DOMAIN Counted(acc) : IsPrefix(p, l)
                    /\ v[p] = IF p \in DOMAIN Counted(acc) THEN Scalar(acc.slot[p]) ELSE Branch
            /\ DOMAIN acc.residual \subseteq DOMAIN v
            /\ DOMAIN Counted(acc) \subseteq DOMAIN v
<1> DEFINE r == acc.residual
           c == Counted(acc)
           patch == EmitShredPatchObject(c)
           v == Reconstruct(Finalized(acc))
<1>1. /\ Finalized(acc).residual = r
      /\ Finalized(acc).lane = c
      /\ DOMAIN c = {l \in DOMAIN acc.slot : l \notin DOMAIN r /\ ~Blocked(r, l)}
      /\ \A l \in DOMAIN c : c[l] = acc.slot[l]
      /\ Finalized(acc).spilled = Lane \cap DOMAIN r
      /\ LanesOK(c)
      /\ Separate(DOMAIN c)
      /\ DOMAIN c \subseteq Path \ {<< >>}
  BY FinalizedParts
<1>2. IsDocument(r) /\ IsObject(r)
  BY DEF AccOK
<1>3. v = MergeTwoObjects(r, patch, "Overlay")
  BY <1>1, <1>2 DEF Reconstruct
<1> HIDE DEF c, r
<1>4. /\ \A p : p \in DOMAIN patch <=> p = << >> \/ (p \in Path /\ \E l \in DOMAIN c : IsPrefix(p, l))
      /\ \A p \in DOMAIN patch : patch[p] = IF p \in DOMAIN c THEN Scalar(c[p]) ELSE Branch
      /\ IsDocument(patch)
      /\ IsObject(patch)
  BY <1>1, EmittedLanes
<1>5. Full(patch)
  BY <1>1, EmittedIsFull DEF LanesOK
<1>6. Objects2(r, patch)
  BY <1>2, <1>4 DEF Objects2
<1>7. v = [p \in DOMAIN v |-> v[p]]
  BY <1>3 DEF MergeTwoObjects
<1> HIDE DEF patch, v
<1>8. DOMAIN v = DOMAIN r \cup {p \in DOMAIN patch : p \notin DOMAIN r /\ ~Blocked(r, p)}
  BY <1>3, <1>5, <1>6, OverlayDomain
<1>9. \A p \in DOMAIN v : v[p] = IF p \in DOMAIN r THEN r[p] ELSE patch[p]
  BY <1>3, <1>6, OverlayNode
<1>10. IsDocument(v) /\ IsObject(v)
  BY <1>3, <1>6, MergeIsDocument
<1>11. \A p \in DOMAIN v :
         \/ p \in DOMAIN r /\ v[p] = r[p]
         \/ /\ p \notin DOMAIN r
            /\ \E l \in DOMAIN c : IsPrefix(p, l)
            /\ v[p] = IF p \in DOMAIN c THEN Scalar(acc.slot[p]) ELSE Branch
  <2>1. SUFFICES ASSUME NEW p \in DOMAIN v, p \notin DOMAIN r
                 PROVE  /\ \E l \in DOMAIN c : IsPrefix(p, l)
                        /\ v[p] = IF p \in DOMAIN c THEN Scalar(acc.slot[p]) ELSE Branch
    BY <1>9
  <2>2. p \in DOMAIN patch /\ v[p] = patch[p]
    BY <1>8, <1>9, <2>1
  <2>3. p # << >>
    BY <1>2, <2>1, DocumentPaths
  <2> QED BY <1>1, <1>4, <2>2, <2>3
<1>12. DOMAIN c \subseteq DOMAIN v
  <2>1. \A l \in DOMAIN c : l \in DOMAIN patch
    BY <1>1, <1>4, PrefixReflexive
  <2> QED BY <1>1, <1>8, <2>1
<1>13. DOMAIN r \subseteq DOMAIN v
  BY <1>8
<1> QED BY <1>7, <1>10, <1>11, <1>12, <1>13 DEF c, r, v

LEMMA FinalizedReadsTrue ==
  ASSUME NEW acc, AccOK(acc), acc.kind # "Empty", Separate(Lane)
  PROVE  ClearBitsAreTrue(Lane, Finalized(acc))
<1> DEFINE row == Finalized(acc)
           v == Reconstruct(row)
           c == Counted(acc)
<1>1. /\ row.residual = acc.residual
      /\ row.lane = c
      /\ DOMAIN c = {l \in DOMAIN acc.slot : l \notin DOMAIN acc.residual /\ ~Blocked(acc.residual, l)}
      /\ \A l \in DOMAIN c : c[l] = acc.slot[l]
      /\ row.spilled = Lane \cap DOMAIN acc.residual
      /\ LanesOK(c)
      /\ Separate(DOMAIN c)
      /\ DOMAIN c \subseteq Path \ {<< >>}
  BY FinalizedParts
<1> HIDE DEF row, c
<1>2. SUFFICES ASSUME NEW l \in Lane, l \notin DOMAIN acc.residual
               PROVE  BareRead(row, l) = PathRead(v, l)
  BY <1>1 DEF ClearBitsAreTrue, row
<1>3. CASE acc.kind = "NonObject"
  <2>1. v = acc.residual
    BY <1>1, <1>3 DEF Reconstruct, AccOK
  <2>2. l \notin DOMAIN c
    BY <1>1, <1>3 DEF AccOK
  <2>3. BareRead(row, l) = Leaf(Null)
    BY <1>1, <2>2 DEF BareRead
  <2> QED BY <1>2, <2>1, <2>3 DEF PathRead, Exists
<1>4. CASE acc.kind = "Object"
  <2>1. /\ IsDocument(v) /\ IsObject(v)
        /\ v = [p \in DOMAIN v |-> v[p]]
        /\ \A p \in DOMAIN v :
             \/ p \in DOMAIN acc.residual /\ v[p] = acc.residual[p]
             \/ /\ p \notin DOMAIN acc.residual
                /\ \E m \in DOMAIN c : IsPrefix(p, m)
                /\ v[p] = IF p \in DOMAIN c THEN Scalar(acc.slot[p]) ELSE Branch
        /\ DOMAIN acc.residual \subseteq DOMAIN v
        /\ DOMAIN c \subseteq DOMAIN v
    BY <1>4, ReadNodes DEF row, c
  <2> HIDE DEF v
  <2>2. CASE l \in DOMAIN c
    <3>1. l \in DOMAIN v /\ v[l] = Scalar(acc.slot[l])
      BY <1>2, <2>1, <2>2
    <3>2. At(v, l) = Leaf(acc.slot[l])
      BY <2>1, <3>1, LeafAt
    <3>3. BareRead(row, l) = Leaf(acc.slot[l])
      BY <1>1, <2>2 DEF BareRead
    <3> QED BY <3>1, <3>2, <3>3 DEF PathRead, Exists
  <2>3. CASE l \notin DOMAIN c
    <3>1. l \notin DOMAIN v
      <4>1. SUFFICES ASSUME l \in DOMAIN v PROVE FALSE
        OBVIOUS
      <4>2. PICK m \in DOMAIN c : IsPrefix(l, m)
        BY <1>2, <2>1, <4>1
      <4>3. m \in Lane
        BY <1>1 DEF LanesOK
      <4> QED BY <2>3, <4>2, <4>3 DEF Separate
    <3>2. BareRead(row, l) = Leaf(Null)
      BY <1>1, <2>3 DEF BareRead
    <3> QED BY <3>1, <3>2 DEF PathRead, Exists
  <2> QED BY <2>2, <2>3
<1> QED BY <1>3, <1>4 DEF AccOK

-----------------------------------------------------------------------------
(* Steps and states. *)

SpanOK(s) ==
  /\ span[s] = [first |-> span[s].first, next |-> span[s].next]
  /\ span[s].first \in 1 .. span[s].next
  /\ span[s].next \in 1 .. Len(rows) + 1

StateOK ==
  /\ RowsOK
  /\ direct = [s \in Node |-> direct[s]] /\ \A s \in Node : AccOK(direct[s])
  /\ written = [s \in Node |-> Value(direct[s])]
  /\ span = [s \in Node |-> span[s]] /\ \A s \in Node : SpanOK(s)

LEMMA InitIsOK ==
  ASSUME Init
  PROVE  StateOK
<1>1. RowsOK
  <2>1. PICK n \in 0 .. MaxRows : rows \in [1 .. n -> Doc \cup {SqlNull}]
    BY DEF Init
  <2>2. n \in Nat
    OBVIOUS
  <2> QED BY <2>1, <2>2, SeqDef DEF RowsOK
<1>2. direct = [s \in Node |-> direct[s]] /\ \A s \in Node : direct[s] = EmptyAcc
  BY DEF Init
<1>3. written = [s \in Node |-> Value(direct[s])]
  <2>1. Value(EmptyAcc) = SqlNull
    BY DEF Value, EmptyAcc
  <2> QED BY <1>2, <2>1 DEF Init
<1>4. PICK start \in [Node -> 1 .. Len(rows) + 1] :
        span = [s \in Node |-> [first |-> start[s], next |-> start[s]]]
  BY DEF Init
<1>5. Len(rows) \in Nat
  BY <1>1 DEF RowsOK
<1>6. \A s \in Node : SpanOK(s)
  <2>1. SUFFICES ASSUME NEW s \in Node PROVE SpanOK(s)
    OBVIOUS
  <2>2. span[s] = [first |-> start[s], next |-> start[s]] /\ start[s] \in 1 .. Len(rows) + 1
    BY <1>4
  <2>3. span[s].first = start[s] /\ span[s].next = start[s]
    BY <2>2
  <2> QED BY <1>5, <2>2, <2>3 DEF SpanOK
<1>7. span = [s \in Node |-> span[s]]
  BY <1>4
<1> QED BY <1>1, <1>2, <1>3, <1>6, <1>7, EmptyIsOK DEF StateOK

\* How a step moves the span of a state: s now stands for the rows up to next.
Moved(s, next) ==
  /\ span' = [t \in Node |-> IF t = s THEN span'[s] ELSE span[t]]
  /\ span'[s] = [first |-> span[s].first, next |-> next]
  /\ rows' = rows

Folded(s, acc) ==
  /\ direct' = [t \in Node |-> IF t = s THEN acc ELSE direct[t]]
  /\ written' = [t \in Node |-> IF t = s THEN Value(acc) ELSE written[t]]

LEMMA SkipNullRowStep ==
  ASSUME StateOK, NEW s \in Node, SkipNullRow(s)
  PROVE  /\ span[s].next \in DOMAIN rows /\ rows[span[s].next] = SqlNull
         /\ Moved(s, span[s].next + 1)
         /\ UNCHANGED <<direct, written>>
<1>1. SpanOK(s) /\ Len(rows) \in Nat /\ DOMAIN rows = 1 .. Len(rows)
  BY DEF StateOK, RowsOK
<1>2. /\ span[s].next <= Len(rows) /\ rows[span[s].next] = SqlNull
      /\ span' = [span EXCEPT ![s].next = span[s].next + 1]
      /\ rows' = rows
      /\ UNCHANGED <<direct, written>>
  BY DEF SkipNullRow
<1>3. Moved(s, span[s].next + 1)
  <2>1. span = [t \in Node |-> span[t]] /\ span[s] = [first |-> span[s].first, next |-> span[s].next]
    BY DEF StateOK, SpanOK
  <2>2. span'[s] = [first |-> span[s].first, next |-> span[s].next + 1]
    BY <1>2, <2>1
  <2>3. span' = [t \in Node |-> IF t = s THEN span'[s] ELSE span[t]]
    BY <1>2, <2>1
  <2> QED BY <1>2, <2>2, <2>3 DEF Moved
<1> QED BY <1>1, <1>2, <1>3 DEF SpanOK

LEMMA UpdateStep ==
  ASSUME StateOK, NEW s \in Node, Update(s)
  PROVE  /\ span[s].next \in DOMAIN rows /\ rows[span[s].next] # SqlNull
         /\ Moved(s, span[s].next + 1)
         /\ Folded(s, DirectFoldRow(direct[s], Shred(Fit, rows[span[s].next])))
<1> DEFINE acc == DirectFoldRow(direct[s], Shred(Fit, rows[span[s].next]))
<1>1. SpanOK(s) /\ Len(rows) \in Nat /\ DOMAIN rows = 1 .. Len(rows)
  BY DEF StateOK, RowsOK
<1>2. /\ span[s].next <= Len(rows) /\ rows[span[s].next] # SqlNull
      /\ span' = [span EXCEPT ![s].next = span[s].next + 1]
      /\ rows' = rows
      /\ direct' = [direct EXCEPT ![s] = acc]
      /\ written' = [written EXCEPT ![s] = Value(direct'[s])]
  BY DEF Update
<1> HIDE DEF acc
<1>3. Moved(s, span[s].next + 1)
  <2>1. span = [t \in Node |-> span[t]] /\ span[s] = [first |-> span[s].first, next |-> span[s].next]
    BY DEF StateOK, SpanOK
  <2>2. span'[s] = [first |-> span[s].first, next |-> span[s].next + 1]
    BY <1>2, <2>1
  <2>3. span' = [t \in Node |-> IF t = s THEN span'[s] ELSE span[t]]
    BY <1>2, <2>1
  <2> QED BY <1>2, <2>2, <2>3 DEF Moved
<1>4. direct = [t \in Node |-> direct[t]]
  BY DEF StateOK
<1>5. direct' = [t \in Node |-> IF t = s THEN acc ELSE direct[t]] /\ direct'[s] = acc
  BY <1>2, <1>4
<1>6. written' = [t \in Node |-> IF t = s THEN Value(acc) ELSE written[t]]
  <2>1. written = [t \in Node |-> written[t]]
    BY DEF StateOK
  <2> QED BY <1>2, <1>5, <2>1
<1>7. Folded(s, acc)
  BY <1>5, <1>6 DEF Folded
<1> QED BY <1>1, <1>2, <1>3, <1>7 DEF SpanOK, acc

LEMMA CombineStep ==
  ASSUME StateOK, NEW source \in Node, NEW target \in Node, Combine(source, target)
  PROVE  /\ source # target /\ span[target].next = span[source].first
         /\ Moved(target, span[source].next)
         /\ Folded(target, DirectFoldState(direct[target], direct[source]))
<1> DEFINE acc == DirectFoldState(direct[target], direct[source])
<1>1. SpanOK(target)
  BY DEF StateOK
<1>2. /\ source # target /\ span[target].next = span[source].first
      /\ span' = [span EXCEPT ![target].next = span[source].next]
      /\ rows' = rows
      /\ direct' = [direct EXCEPT ![target] = acc]
      /\ written' = [written EXCEPT ![target] = Value(direct'[target])]
  BY DEF Combine
<1> HIDE DEF acc
<1>3. Moved(target, span[source].next)
  <2>1. span = [t \in Node |-> span[t]] /\ span[target] = [first |-> span[target].first, next |-> span[target].next]
    BY DEF StateOK, SpanOK
  <2>2. span'[target] = [first |-> span[target].first, next |-> span[source].next]
    BY <1>2, <2>1
  <2>3. span' = [t \in Node |-> IF t = target THEN span'[target] ELSE span[t]]
    BY <1>2, <2>1
  <2> QED BY <1>2, <2>2, <2>3 DEF Moved
<1>4. direct = [t \in Node |-> direct[t]]
  BY DEF StateOK
<1>5. direct' = [t \in Node |-> IF t = target THEN acc ELSE direct[t]] /\ direct'[target] = acc
  BY <1>2, <1>4
<1>6. written' = [t \in Node |-> IF t = target THEN Value(acc) ELSE written[t]]
  <2>1. written = [t \in Node |-> written[t]]
    BY DEF StateOK
  <2> QED BY <1>2, <1>5, <2>1
<1>7. Folded(target, acc)
  BY <1>5, <1>6 DEF Folded
<1> QED BY <1>2, <1>3, <1>7 DEF acc

LEMMA MovedKeepsSpans ==
  ASSUME StateOK, NEW s \in Node, NEW next \in Nat, Moved(s, next),
         span[s].next <= next, next <= Len(rows) + 1
  PROVE  /\ span' = [t \in Node |-> span'[t]]
         /\ \A t \in Node : SpanOK(t)'
         /\ span'[s].first = span[s].first /\ span'[s].next = next
         /\ \A t \in Node : t # s => span'[t] = span[t]
<1>1. /\ span' = [t \in Node |-> IF t = s THEN span'[s] ELSE span[t]]
      /\ span'[s] = [first |-> span[s].first, next |-> next]
      /\ rows' = rows
  BY DEF Moved
<1>2. Len(rows) \in Nat /\ \A t \in Node : SpanOK(t)
  BY DEF StateOK, RowsOK
<1>3. span'[s].first = span[s].first /\ span'[s].next = next
  BY <1>1
<1>4. \A t \in Node : t # s => span'[t] = span[t]
  BY <1>1
<1>5. ASSUME NEW t \in Node
      PROVE  SpanOK(t)'
  <2>1. CASE t = s
    <3>1. /\ span'[t] = [first |-> span'[t].first, next |-> span'[t].next]
          /\ span'[t].first = span[s].first /\ span'[t].next = next
      BY <1>1, <1>3, <2>1
    <3>2. span[s].first \in 1 .. span[s].next /\ span[s].next \in 1 .. Len(rows) + 1
      BY <1>2 DEF SpanOK
    <3>3. span[s].first \in 1 .. next /\ next \in 1 .. Len(rows) + 1
      BY <1>2, <3>2
    <3> QED BY <1>1, <3>1, <3>3 DEF SpanOK
  <2>2. CASE t # s
    <3>1. SpanOK(t) /\ span'[t] = span[t] /\ rows' = rows
      BY <1>1, <1>2, <1>4, <2>2
    <3> QED BY <3>1 DEF SpanOK
  <2> QED BY <2>1, <2>2
<1> QED BY <1>1, <1>3, <1>4, <1>5

LEMMA FoldedKeepsAccs ==
  ASSUME StateOK, NEW s \in Node, NEW acc, AccOK(acc), Folded(s, acc)
  PROVE  /\ direct' = [t \in Node |-> direct'[t]]
         /\ \A t \in Node : AccOK(direct'[t])
         /\ written' = [t \in Node |-> Value(direct'[t])]
<1>1. /\ direct' = [t \in Node |-> IF t = s THEN acc ELSE direct[t]]
      /\ written' = [t \in Node |-> IF t = s THEN Value(acc) ELSE written[t]]
  BY DEF Folded
<1>2. \A t \in Node : AccOK(direct[t]) /\ written[t] = Value(direct[t])
  BY DEF StateOK
<1>3. \A t \in Node : direct'[t] = IF t = s THEN acc ELSE direct[t]
  BY <1>1
<1>4. \A t \in Node : written'[t] = Value(direct'[t])
  BY <1>1, <1>2, <1>3
<1>5. written' = [t \in Node |-> written'[t]] /\ direct' = [t \in Node |-> direct'[t]]
  BY <1>1
<1>6. [t \in Node |-> written'[t]] = [t \in Node |-> Value(direct'[t])]
  BY <1>4
<1> QED BY <1>2, <1>3, <1>5, <1>6

LEMMA NextIsOK ==
  ASSUME StateOK, [Next]_vars
  PROVE  StateOK'
<1> USE DEF StateOK
<1>1. CASE UNCHANGED vars
  BY <1>1 DEF vars, RowsOK, SpanOK
<1>2. ASSUME NEW s \in Node, SkipNullRow(s)
      PROVE  StateOK'
  <2>1. /\ span[s].next \in DOMAIN rows
        /\ Moved(s, span[s].next + 1)
        /\ UNCHANGED <<direct, written>>
    BY <1>2, SkipNullRowStep
  <2>2. DOMAIN rows = 1 .. Len(rows) /\ Len(rows) \in Nat
    BY DEF RowsOK
  <2> DEFINE next == span[s].next + 1
  <2>3. next \in Nat /\ span[s].next <= next /\ next <= Len(rows) + 1 /\ Moved(s, next)
    BY <2>1, <2>2
  <2> HIDE DEF next
  <2>4. span' = [t \in Node |-> span'[t]] /\ \A t \in Node : SpanOK(t)'
    BY <2>3, MovedKeepsSpans
  <2>5. rows' = rows
    BY <2>3 DEF Moved
  <2> QED BY <2>1, <2>4, <2>5 DEF RowsOK
<1>3. ASSUME NEW s \in Node, Update(s)
      PROVE  StateOK'
  <2> DEFINE next == span[s].next + 1
             row == Shred(Fit, rows[span[s].next])
             acc == DirectFoldRow(direct[s], row)
  <2>1. /\ span[s].next \in DOMAIN rows /\ rows[span[s].next] # SqlNull
        /\ Moved(s, next)
        /\ Folded(s, acc)
    BY <1>3, UpdateStep
  <2>2. DOMAIN rows = 1 .. Len(rows) /\ Len(rows) \in Nat
    BY DEF RowsOK
  <2>3. next \in Nat /\ span[s].next <= next /\ next <= Len(rows) + 1
    BY <2>1, <2>2
  <2>4. AccOK(acc)
    <3>1. IsDocument(rows[span[s].next])
      BY <2>1, RowIsDocument
    <3>2. RowOK(row)
      BY <3>1, ShreddedIsOK
    <3> HIDE DEF row
    <3> QED BY <3>2, FoldRowKeepsOK
  <2> HIDE DEF next, row, acc
  <2>5. span' = [t \in Node |-> span'[t]] /\ \A t \in Node : SpanOK(t)'
    BY <2>1, <2>3, MovedKeepsSpans
  <2>6. /\ direct' = [t \in Node |-> direct'[t]]
        /\ \A t \in Node : AccOK(direct'[t])
        /\ written' = [t \in Node |-> Value(direct'[t])]
    BY <2>1, <2>4, FoldedKeepsAccs
  <2>7. rows' = rows
    BY <2>1 DEF Moved
  <2> QED BY <2>5, <2>6, <2>7 DEF RowsOK
<1>4. ASSUME NEW source \in Node, NEW target \in Node, Combine(source, target)
      PROVE  StateOK'
  <2> DEFINE next == span[source].next
             acc == DirectFoldState(direct[target], direct[source])
  <2>1. /\ span[target].next = span[source].first
        /\ Moved(target, next)
        /\ Folded(target, acc)
    BY <1>4, CombineStep
  <2>2. Len(rows) \in Nat /\ SpanOK(source) /\ SpanOK(target)
    BY DEF RowsOK
  <2>3. next \in Nat /\ span[target].next <= next /\ next <= Len(rows) + 1
    BY <2>1, <2>2 DEF SpanOK
  <2>4. AccOK(acc)
    BY FoldStateKeepsOK
  <2> HIDE DEF next, acc
  <2>5. span' = [t \in Node |-> span'[t]] /\ \A t \in Node : SpanOK(t)'
    BY <2>1, <2>3, MovedKeepsSpans
  <2>6. /\ direct' = [t \in Node |-> direct'[t]]
        /\ \A t \in Node : AccOK(direct'[t])
        /\ written' = [t \in Node |-> Value(direct'[t])]
    BY <2>1, <2>4, FoldedKeepsAccs
  <2>7. rows' = rows
    BY <2>1 DEF Moved
  <2> QED BY <2>5, <2>6, <2>7 DEF RowsOK
<1> QED BY <1>1, <1>2, <1>3, <1>4 DEF Next

\* Every state that Finalize could write has the form the reads rely on.
THEOREM StatesAreOK == Spec => []StateOK
BY InitIsOK, NextIsOK, PTL DEF Spec

\* Where no lane lies inside another one, a clear spill bit of a written row, and
\* of an input row, means that the lane alone answers the read (jsono_group_merge's
\* Finalize and the writer's spill bits).
THEOREM ClearBits ==
  ASSUME Separate(Lane)
  PROVE  Spec => []ClearBitMeansBareReadIsTrue
<1>1. ASSUME StateOK
      PROVE  ClearBitMeansBareReadIsTrue
  <2>1. ASSUME NEW s \in Node, direct[s].kind # "Empty"
        PROVE  ClearBitsAreTrue(Lane, Finalized(direct[s]))
    <3>1. AccOK(direct[s])
      BY <1>1 DEF StateOK
    <3> QED BY <2>1, <3>1, FinalizedReadsTrue
  <2>2. ASSUME NEW i \in DOMAIN rows, rows[i] # SqlNull
        PROVE  ClearBitsAreTrue(Lane, Shred(Fit, rows[i])) /\ Reconstruct(Shred(Fit, rows[i])) = rows[i]
    <3>1. IsDocument(rows[i]) /\ rows[i] = [p \in DOMAIN rows[i] |-> rows[i][p]]
      BY <1>1, <2>2, RowIsDocument DEF StateOK
    <3>2. Lane \subseteq DOMAIN Fit
      BY DEF Lane
    <3> QED BY <3>1, <3>2, LanesAreARowType, ShreddedReadsTrue, ShredReconstructs
  <2> QED BY <2>1, <2>2 DEF ClearBitMeansBareReadIsTrue
<1> QED BY <1>1, StatesAreOK, PTL

-----------------------------------------------------------------------------
(* Stable kinds: a path that is an object in one document of the group and *)
(* holds a value in another one is excluded.                               *)

ObjectDoc == {d \in Doc : IsObject(d)}
KindsStable == \A c, d \in ObjectDoc : Agree(c, d)

Branches == UNION {{p \in DOMAIN d : d[p] = Branch} : d \in ObjectDoc}
Values == UNION {LeafPaths(d) : d \in ObjectDoc}

LEMMA ObjectDocs ==
  ASSUME NEW d \in ObjectDoc
  PROVE  IsDocument(d) /\ IsObject(d)
BY DocAssumption DEF ObjectDoc

LEMMA KindsApart ==
  ASSUME KindsStable, NEW p \in Branches, NEW q \in Values
  PROVE  p # q
<1>1. SUFFICES ASSUME p = q PROVE FALSE
  OBVIOUS
<1>2. PICK c \in ObjectDoc : p \in DOMAIN c /\ c[p] = Branch
  BY DEF Branches
<1>3. PICK d \in ObjectDoc : p \in DOMAIN d /\ d[p] # Branch /\ d[p] # Scalar(Null)
  BY <1>1 DEF Values, LeafPaths
<1>4. c[p] # Scalar(Null)
  BY <1>2, NodesDiffer
<1> QED BY <1>2, <1>3, <1>4 DEF KindsStable, Agree

LEMMA AboveValues ==
  ASSUME NEW p \in Values
  PROVE  /\ p \in Path /\ p # << >>
         /\ \A q \in Path : IsPrefix(q, p) /\ q # p => q \in Branches
<1>1. PICK d \in ObjectDoc : p \in DOMAIN d /\ d[p] # Branch
  BY DEF Values, LeafPaths
<1>2. IsDocument(d) /\ IsObject(d)
  BY ObjectDocs
<1>3. \A q \in Path : IsPrefix(q, p) /\ q # p => q \in DOMAIN d /\ d[q] = Branch
  BY <1>1, <1>2, AboveIsBranch
<1>4. p \in Path /\ p # << >>
  BY <1>1, <1>2, DocumentPaths DEF IsObject
<1> QED BY <1>3, <1>4 DEF Branches

\* Nodes as the documents of the group have them; explicit nulls stand anywhere.
Conforms(doc) ==
  \A p \in DOMAIN doc : doc[p] # Scalar(Null) =>
    IF doc[p] = Branch THEN p = << >> \/ p \in Branches ELSE p \in Values

LEMMA DocumentConforms ==
  ASSUME NEW d \in ObjectDoc
  PROVE  Conforms(d) /\ LeafPaths(d) \subseteq Values
BY DEF Conforms, Branches, Values, LeafPaths

LEMMA ConformingAgree ==
  ASSUME KindsStable, NEW a, NEW b, Conforms(a), Conforms(b)
  PROVE  Agree(a, b)
<1>1. SUFFICES ASSUME NEW p \in DOMAIN a \cap DOMAIN b, a[p] # Scalar(Null), b[p] # Scalar(Null)
               PROVE  a[p] = Branch <=> b[p] = Branch
  BY DEF Agree
<1>2. IF a[p] = Branch THEN p = << >> \/ p \in Branches ELSE p \in Values
  BY <1>1 DEF Conforms
<1>3. IF b[p] = Branch THEN p = << >> \/ p \in Branches ELSE p \in Values
  BY <1>1 DEF Conforms
<1>4. p \in Values => p # << >> /\ p \notin Branches
  BY AboveValues, KindsApart
<1> QED BY <1>2, <1>3, <1>4

-----------------------------------------------------------------------------
(* The leaves that stand for a state. *)

\* g where f says nothing.
Over(f, g) == [x \in DOMAIN f \cup DOMAIN g |-> IF x \in DOMAIN f THEN f[x] ELSE g[x]]

LEMMA OverAssociates ==
  ASSUME NEW f, NEW g, NEW h
  PROVE  Over(Over(f, g), h) = Over(f, Over(g, h))
BY DEF Over

LEMMA OverNothing ==
  ASSUME NEW f, f = [x \in DOMAIN f |-> f[x]], NEW g, DOMAIN g = {}
  PROVE  Over(f, g) = f
BY DEF Over

\* What jsono_group_merge has of an object with these leaves under a new one.
LEMMA MergedIsClean ==
  ASSUME KindsStable, NEW a, Clean(a), Conforms(a),
         NEW b, IsDocument(b), IsObject(b), Conforms(b)
  PROVE  LET m == MergeTwoObjects(a, b, "IgnoreNulls")
         IN Clean(m) /\ Conforms(m) /\ LeavesOf(m) = Over(LeavesOf(b), LeavesOf(a))
<1> DEFINE m == MergeTwoObjects(a, b, "IgnoreNulls")
<1>1. Objects2(a, b) /\ Agree(a, b)
  BY ConformingAgree DEF Objects2, Clean
<1>2. NoNulls(a)
  <2>1. ASSUME NEW p \in DOMAIN a PROVE a[p] # Scalar(Null)
    BY NodesDiffer DEF Clean, Full, IsObject, MemberSurvives
  <2> QED BY <2>1 DEF NoNulls
<1>3. IsDocument(m) /\ IsObject(m)
  BY <1>1, MergeIsDocument
<1>4. /\ NoNulls(m)
      /\ LeafPaths(m) = LeafPaths(b) \cup LeafPaths(a)
      /\ \A p \in LeafPaths(m) : m[p] = IF p \in LeafPaths(b) THEN b[p] ELSE a[p]
      /\ \A p \in DOMAIN m : m[p] = Branch =>
           \/ p \in DOMAIN a /\ a[p] = Branch
           \/ p \in DOMAIN b /\ b[p] = Branch /\ Survives(b, p)
  BY <1>1, <1>2, MergedLeaves
<1>5. m = [p \in DOMAIN m |-> m[p]]
  BY DEF MergeTwoObjects
<1> HIDE DEF m
<1>6. Full(m)
  <2>1. SUFFICES ASSUME NEW p \in DOMAIN m, p # << >> PROVE MemberSurvives(m, p, "Overlay")
    BY DEF Full
  <2>2. m[p] # Scalar(Null)
    BY <1>4 DEF NoNulls
  <2>3. CASE m[p] # Branch
    BY <1>3, <2>2, <2>3, LeafSurvives DEF LeafPaths
  <2>4. CASE m[p] = Branch
    <3>1. \E q \in LeafPaths(m) : IsPrefix(p, q)
      <4>1. CASE p \in DOMAIN a /\ a[p] = Branch
        <5>1. \E q \in LeafPaths(a) : IsPrefix(p, q)
          BY <2>1, <4>1 DEF Clean, Full, MemberSurvives, Survives
        <5> QED BY <1>4, <5>1
      <4>2. CASE Survives(b, p)
        BY <1>4, <4>2 DEF Survives
      <4> QED BY <1>4, <2>4, <4>1, <4>2
    <3> QED BY <2>2, <3>1 DEF MemberSurvives, Survives
  <2> QED BY <2>3, <2>4
<1>7. Conforms(m)
  <2>1. SUFFICES ASSUME NEW p \in DOMAIN m, m[p] # Scalar(Null)
                 PROVE  IF m[p] = Branch THEN p = << >> \/ p \in Branches ELSE p \in Values
    BY DEF Conforms
  <2>2. CASE m[p] = Branch
    <3>1. (p \in DOMAIN a /\ a[p] = Branch) \/ (p \in DOMAIN b /\ b[p] = Branch)
      BY <1>4, <2>2
    <3> QED BY <2>2, <3>1, NodesDiffer DEF Conforms
  <2>3. CASE m[p] # Branch
    <3>1. p \in LeafPaths(b) \cup LeafPaths(a)
      BY <1>4, <2>1, <2>3 DEF LeafPaths
    <3> QED BY <2>3, <3>1 DEF Conforms, LeafPaths
  <2> QED BY <2>2, <2>3
<1>8. LeavesOf(m) = Over(LeavesOf(b), LeavesOf(a))
  <2>1. DOMAIN LeavesOf(b) = LeafPaths(b) /\ DOMAIN LeavesOf(a) = LeafPaths(a)
    BY DEF LeavesOf
  <2>2. \A p \in LeafPaths(m) : m[p] = IF p \in LeafPaths(b) THEN LeavesOf(b)[p] ELSE LeavesOf(a)[p]
    BY <1>4 DEF LeavesOf
  <2> QED BY <1>4, <2>1, <2>2 DEF LeavesOf, Over
<1> QED BY <1>3, <1>5, <1>6, <1>7, <1>8 DEF Clean, m

LEMMA StrippedIsClean ==
  ASSUME NEW b, IsDocument(b), IsObject(b), Conforms(b)
  PROVE  LET s == Strip(b, "IgnoreNulls")
         IN Clean(s) /\ Conforms(s) /\ LeavesOf(s) = LeavesOf(b)
<1> DEFINE s == Strip(b, "IgnoreNulls")
<1>1. /\ IsDocument(s) /\ IsObject(s) /\ Full(s) /\ NoNulls(s)
      /\ LeafPaths(s) = LeafPaths(b)
      /\ DOMAIN s \subseteq DOMAIN b
      /\ \A p \in DOMAIN s : s[p] = b[p]
  BY StripLeaves
<1>2. s = [p \in DOMAIN s |-> s[p]]
  BY DEF Strip, Restrict
<1> HIDE DEF s
<1>3. Conforms(s)
  BY <1>1 DEF Conforms
<1>4. LeavesOf(s) = LeavesOf(b)
  <2>1. \A p \in LeafPaths(b) : s[p] = b[p]
    BY <1>1 DEF LeafPaths
  <2> QED BY <1>1, <2>1 DEF LeavesOf
<1> QED BY <1>1, <1>2, <1>3, <1>4 DEF Clean, s

Slots(slot) == [l \in DOMAIN slot |-> Scalar(slot[l])]
StandsFor(acc) == Over(LeavesOf(acc.residual), Slots(acc.slot))

\* A residual over slots for the given paths: every object in it holds a value,
\* or a slot would have its value inside.
Tidy(residual, paths) ==
  /\ IsDocument(residual) /\ IsObject(residual)
  /\ NoNulls(residual) /\ Conforms(residual)
  /\ \A p \in DOMAIN residual : residual[p] = Branch /\ p # << >> =>
       \E l \in LeafPaths(residual) \cup paths : IsPrefix(p, l)

Settled(acc) ==
  acc.kind = "Object" => Tidy(acc.residual, DOMAIN acc.slot) /\ DOMAIN acc.slot \subseteq Values

LEMMA ValuesAreLeaves ==
  ASSUME KindsStable, NEW doc, Conforms(doc), NoNulls(doc), NEW l \in Values
  PROVE  /\ ~Blocked(doc, l)
         /\ l \in DOMAIN doc => l \in LeafPaths(doc)
<1>1. ASSUME NEW q \in DOMAIN doc, doc[q] # Branch
      PROVE  q \in Values
  BY <1>1 DEF Conforms, NoNulls
<1>2. \A q \in Path : IsPrefix(q, l) /\ q # l => q \in Branches
  BY AboveValues
<1>3. ASSUME Blocked(doc, l)
      PROVE  FALSE
  <2>1. PICK q \in DOMAIN doc : doc[q] # Branch /\ IsPrefix(q, l) /\ q # l
    BY <1>3 DEF Blocked
  <2>2. q \in Values
    BY <1>1, <2>1
  <2>3. q \in Branches
    BY <1>2, <2>1, <2>2, AboveValues
  <2> QED BY <2>2, <2>3, KindsApart
<1>4. ASSUME l \in DOMAIN doc
      PROVE  l \in LeafPaths(doc)
  <2>1. l # << >> /\ l \notin Branches
    BY AboveValues, KindsApart
  <2>2. doc[l] # Scalar(Null)
    BY <1>4 DEF NoNulls
  <2>3. doc[l] # Branch
    BY <1>4, <2>1, <2>2 DEF Conforms
  <2> QED BY <1>4, <2>2, <2>3 DEF LeafPaths
<1> QED BY <1>3, <1>4

LEMMA SlotIsLeaf ==
  ASSUME NEW v, v # Null
  PROVE  Scalar(v) \notin {Branch, Scalar(Null)}
BY NodesDiffer, ScalarsDiffer

\* The result of a settled state is the document of the leaves it stands for.
LEMMA ValueIsClean ==
  ASSUME KindsStable, Separate(Lane), NEW acc, AccOK(acc), acc.kind = "Object", Settled(acc)
  PROVE  Clean(Value(acc)) /\ Conforms(Value(acc)) /\ LeavesOf(Value(acc)) = StandsFor(acc)
<1> DEFINE r == acc.residual
           c == Counted(acc)
           v == Reconstruct(Finalized(acc))
<1>1. Value(acc) = v
  BY DEF Value
<1>2. /\ IsDocument(v) /\ IsObject(v)
      /\ v = [p \in DOMAIN v |-> v[p]]
      /\ \A p \in DOMAIN v :
           \/ p \in DOMAIN r /\ v[p] = r[p]
           \/ /\ p \notin DOMAIN r
              /\ \E l \in DOMAIN c : IsPrefix(p, l)
              /\ v[p] = IF p \in DOMAIN c THEN Scalar(acc.slot[p]) ELSE Branch
      /\ DOMAIN r \subseteq DOMAIN v
      /\ DOMAIN c \subseteq DOMAIN v
  BY ReadNodes
<1>3. DOMAIN c = {l \in DOMAIN acc.slot : l \notin DOMAIN r /\ ~Blocked(r, l)}
  BY FinalizedParts
<1>4. /\ IsDocument(r) /\ IsObject(r) /\ NoNulls(r) /\ Conforms(r)
      /\ \A p \in DOMAIN r : r[p] = Branch /\ p # << >> =>
           \E l \in LeafPaths(r) \cup DOMAIN acc.slot : IsPrefix(p, l)
      /\ DOMAIN acc.slot \subseteq Values
  BY DEF Settled, Tidy
<1> HIDE DEF r, c, v
<1>5. \A l \in DOMAIN acc.slot : l \in LeafPaths(r) \/ (l \notin DOMAIN r /\ l \in DOMAIN c)
  BY <1>3, <1>4, ValuesAreLeaves
<1>6. \A l \in DOMAIN acc.slot : Scalar(acc.slot[l]) \notin {Branch, Scalar(Null)}
  BY SlotIsLeaf DEF AccOK
<1>7. \A p \in LeafPaths(r) : p \in LeafPaths(v) /\ v[p] = r[p]
  BY <1>2 DEF LeafPaths
<1>8. \A l \in DOMAIN c : l \in LeafPaths(v) /\ v[l] = Scalar(acc.slot[l])
  BY <1>2, <1>3, <1>6 DEF LeafPaths
<1>9. \A p \in LeafPaths(v) : p \in LeafPaths(r) \/ p \in DOMAIN c
  BY <1>2 DEF LeafPaths
<1>10. LeafPaths(v) = LeafPaths(r) \cup DOMAIN acc.slot
  BY <1>3, <1>5, <1>7, <1>8, <1>9
<1>11. LeavesOf(v) = StandsFor(acc)
  <2> DEFINE f == LeavesOf(r)
             g == Slots(acc.slot)
  <2>1. DOMAIN f = LeafPaths(r) /\ \A p \in LeafPaths(r) : f[p] = r[p]
    BY DEF LeavesOf
  <2>2. DOMAIN g = DOMAIN acc.slot /\ \A l \in DOMAIN acc.slot : g[l] = Scalar(acc.slot[l])
    BY DEF Slots
  <2> HIDE DEF f, g
  <2>3. \A p \in LeafPaths(v) : v[p] = IF p \in DOMAIN f THEN f[p] ELSE g[p]
    BY <1>5, <1>7, <1>8, <1>10, <2>1, <2>2
  <2>4. LeafPaths(v) = DOMAIN f \cup DOMAIN g
    BY <1>10, <2>1, <2>2
  <2>5. LeavesOf(v) = Over(f, g)
    BY <2>3, <2>4 DEF LeavesOf, Over
  <2> QED BY <2>5 DEF f, g, r, StandsFor
<1>12. Full(v)
  <2>1. SUFFICES ASSUME NEW p \in DOMAIN v, p # << >> PROVE MemberSurvives(v, p, "Overlay")
    BY DEF Full
  <2>2. \E l \in LeafPaths(v) : IsPrefix(p, l)
    <3>1. CASE p \in DOMAIN r /\ r[p] = Branch
      BY <1>4, <1>10, <2>1, <3>1
    <3>2. CASE p \in DOMAIN r /\ r[p] # Branch
      <4>1. p \in LeafPaths(r) /\ p \in Path
        BY <1>4, <3>2, DocumentPaths DEF LeafPaths, NoNulls
      <4> QED BY <1>10, <4>1, PrefixReflexive
    <3>3. CASE p \notin DOMAIN r
      <4>1. PICK l \in DOMAIN c : IsPrefix(p, l)
        BY <1>2, <3>3
      <4> QED BY <1>8, <4>1
    <3> QED BY <3>1, <3>2, <3>3
  <2>3. v[p] # Scalar(Null)
    BY <1>2, <1>3, <1>4, <1>6, NodesDiffer DEF NoNulls
  <2> QED BY <2>2, <2>3 DEF MemberSurvives, Survives
<1>13. Conforms(v)
  <2>1. SUFFICES ASSUME NEW p \in DOMAIN v, v[p] # Scalar(Null)
                 PROVE  IF v[p] = Branch THEN p = << >> \/ p \in Branches ELSE p \in Values
    BY DEF Conforms
  <2>2. CASE p \in DOMAIN r
    BY <1>2, <1>4, <2>1, <2>2 DEF Conforms
  <2>3. CASE p \notin DOMAIN r
    <3>1. PICK l \in DOMAIN c : IsPrefix(p, l)
      BY <1>2, <2>3
    <3>2. l \in Values /\ p \in Path
      BY <1>2, <1>3, <1>4, DocumentPaths
    <3>3. CASE p \in DOMAIN c
      BY <1>2, <1>3, <1>4, <1>6, <2>3, <3>3
    <3>4. CASE p \notin DOMAIN c
      <4>1. v[p] = Branch /\ p # l
        BY <1>2, <2>3, <3>4
      <4>2. p \in Branches
        BY <3>1, <3>2, <4>1, AboveValues
      <4> QED BY <4>1, <4>2
    <3> QED BY <3>3, <3>4
  <2> QED BY <2>2, <2>3
<1> QED BY <1>1, <1>2, <1>11, <1>12, <1>13 DEF Clean

\* Adopting lanes takes the leaves at their paths away, and nothing else.
LEMMA AdoptedPathsAreLeft ==
  ASSUME KindsStable, NEW residual, NEW lane, IsDocument(residual), IsObject(residual),
         NoNulls(residual), Conforms(residual), LanesOK(lane), DOMAIN lane \subseteq Values
  PROVE  AdoptedPaths(residual, lane) = DOMAIN residual \ DOMAIN lane
<1>1. ASSUME NEW l \in DOMAIN lane
      PROVE  DOMAIN DirectShadowDeletePath(residual, l) = DOMAIN residual \ {l}
  <2> DEFINE outcome == ClassifyResidualPath(residual, l).outcome
             at == SubSeq(l, 1, ClassifyResidualPath(residual, l).depth)
  <2>1. DirectShadowDeletePath(residual, l)
          = IF outcome = "Absent" THEN residual ELSE MergeTwoObjects(residual, Chain(at, Null), "Patch")
    BY DEF DirectShadowDeletePath
  <2>2. outcome \in {"Present", "Absent", "NonObjectPrefix"}
    BY Outcomes
  <2>3. l \in Path /\ l # << >> /\ l \in Values
    BY AboveValues
  <2>4. ~Blocked(residual, l) /\ (l \in DOMAIN residual => l \in LeafPaths(residual))
    BY <2>3, ValuesAreLeaves
  <2>5. outcome # "NonObjectPrefix"
    BY <2>3, <2>4, BlockedIsNonObjectPrefix
  <2>6. CASE l \in DOMAIN residual
    <3>1. outcome = "Present" /\ at = l
      BY <2>3, <2>6, Present
    <3> HIDE DEF outcome, at
    <3>2. DirectShadowDeletePath(residual, l) = MergeTwoObjects(residual, Chain(l, Null), "Patch")
      BY <2>1, <3>1
    <3>3. DOMAIN DirectShadowDeletePath(residual, l) = {p \in DOMAIN residual : ~IsPrefix(l, p)}
      BY <2>3, <2>6, <3>2, NullPatchRemoves
    <3>4. \A p \in DOMAIN residual : IsPrefix(l, p) => p = l
      BY <2>4, <2>6, NothingBelowALeaf DEF LeafPaths
    <3> QED BY <2>3, <3>3, <3>4, PrefixReflexive
  <2>7. CASE l \notin DOMAIN residual
    <3>1. outcome # "Present"
      BY <2>3, <2>7, Present
    <3> HIDE DEF outcome
    <3>2. DirectShadowDeletePath(residual, l) = residual
      BY <2>1, <2>2, <2>5, <3>1
    <3> QED BY <2>7, <3>2
  <2> QED BY <2>6, <2>7
<1> QED BY <1>1 DEF AdoptedPaths

LEMMA AdoptSettles ==
  ASSUME KindsStable, NEW residual, NEW slot, NEW lane, LanesOK(lane),
         Tidy(residual, DOMAIN slot \cup DOMAIN lane),
         DOMAIN slot \subseteq Values, DOMAIN lane \subseteq Values
  PROVE  /\ Adopted(residual, slot, lane).kind = "Object"
         /\ Settled(Adopted(residual, slot, lane))
         /\ StandsFor(Adopted(residual, slot, lane))
              = Over(Slots(lane), Over(LeavesOf(residual), Slots(slot)))
<1> DEFINE acc == Adopted(residual, slot, lane)
           r == acc.residual
           left == AdoptedPaths(residual, lane)
<1>1. /\ acc = [kind |-> "Object", residual |-> r, slot |-> TakenOver(slot, lane)]
      /\ IsDocument(r)
      /\ IsObject(r)
      /\ DOMAIN r = left
      /\ \A p \in left : r[p] = residual[p]
      /\ r = [p \in left |-> r[p]]
  BY AdoptParts DEF Tidy
<1>2. left = DOMAIN residual \ DOMAIN lane
  BY AdoptedPathsAreLeft DEF Tidy
<1>3. acc.kind = "Object" /\ acc.slot = TakenOver(slot, lane)
  BY <1>1
<1> HIDE DEF acc, left
<1>4. /\ DOMAIN acc.slot = DOMAIN slot \cup DOMAIN lane
      /\ \A l \in DOMAIN acc.slot : acc.slot[l] = IF l \in DOMAIN lane THEN lane[l] ELSE slot[l]
  BY <1>3 DEF TakenOver
<1>5. /\ DOMAIN r = DOMAIN residual \ DOMAIN lane
      /\ \A p \in DOMAIN r : r[p] = residual[p]
  BY <1>1, <1>2
<1>6. LeafPaths(r) = LeafPaths(residual) \ DOMAIN lane
  BY <1>5 DEF LeafPaths
<1>7. Tidy(r, DOMAIN acc.slot)
  <2>1. NoNulls(r) /\ Conforms(r)
    BY <1>5 DEF Tidy, NoNulls, Conforms
  <2>2. ASSUME NEW p \in DOMAIN r, r[p] = Branch, p # << >>
        PROVE  \E l \in LeafPaths(r) \cup DOMAIN acc.slot : IsPrefix(p, l)
    <3>1. p \in DOMAIN residual /\ residual[p] = Branch
      BY <1>5, <2>2
    <3>2. PICK l \in LeafPaths(residual) \cup (DOMAIN slot \cup DOMAIN lane) : IsPrefix(p, l)
      BY <2>2, <3>1 DEF Tidy
    <3>3. l \in LeafPaths(r) \cup DOMAIN acc.slot
      BY <1>4, <1>6
    <3> QED BY <3>2, <3>3
  <2> QED BY <1>1, <2>1, <2>2 DEF Tidy
<1>8. Settled(acc)
  BY <1>4, <1>7 DEF Settled
<1>9. StandsFor(acc) = Over(Slots(lane), Over(LeavesOf(residual), Slots(slot)))
  <2> DEFINE f == LeavesOf(residual)
             g == Slots(slot)
             h == Slots(lane)
             f2 == LeavesOf(r)
             g2 == Slots(acc.slot)
  <2>1. DOMAIN f = LeafPaths(residual) /\ \A p \in LeafPaths(residual) : f[p] = residual[p]
    BY DEF LeavesOf
  <2>2. DOMAIN g = DOMAIN slot /\ \A l \in DOMAIN slot : g[l] = Scalar(slot[l])
    BY DEF Slots
  <2>3. DOMAIN h = DOMAIN lane /\ \A l \in DOMAIN lane : h[l] = Scalar(lane[l])
    BY DEF Slots
  <2>4. DOMAIN f2 = DOMAIN f \ DOMAIN h /\ \A p \in DOMAIN f2 : f2[p] = f[p]
    <3>1. DOMAIN f2 = LeafPaths(r) /\ \A p \in LeafPaths(r) : f2[p] = r[p]
      BY DEF LeavesOf
    <3>2. LeafPaths(r) \subseteq DOMAIN r
      BY DEF LeafPaths
    <3> HIDE DEF f, f2, h
    <3> QED BY <1>5, <1>6, <2>1, <2>3, <3>1, <3>2
  <2>5. DOMAIN g2 = DOMAIN g \cup DOMAIN h
        /\ \A l \in DOMAIN g2 : g2[l] = IF l \in DOMAIN h THEN h[l] ELSE g[l]
    <3>1. DOMAIN g2 = DOMAIN acc.slot /\ \A l \in DOMAIN acc.slot : g2[l] = Scalar(acc.slot[l])
      BY DEF Slots
    <3> HIDE DEF g, g2, h
    <3> QED BY <1>4, <2>2, <2>3, <3>1
  <2> HIDE DEF f, g, h, f2, g2
  <2>6. Over(f2, g2) = Over(h, Over(f, g))
    BY <2>4, <2>5 DEF Over
  <2> QED BY <2>6 DEF f, g, h, f2, g2, StandsFor
<1> QED BY <1>3, <1>8, <1>9 DEF acc

LEMMA MergeIsTidy ==
  ASSUME KindsStable, NEW a, NEW paths, Tidy(a, paths), NEW b, IsDocument(b), IsObject(b), Conforms(b)
  PROVE  LET m == MergeTwoObjects(a, b, "IgnoreNulls")
         IN Tidy(m, paths) /\ LeavesOf(m) = Over(LeavesOf(b), LeavesOf(a))
<1> DEFINE m == MergeTwoObjects(a, b, "IgnoreNulls")
<1>1. Objects2(a, b) /\ Agree(a, b) /\ NoNulls(a)
  BY ConformingAgree DEF Objects2, Tidy
<1>2. IsDocument(m) /\ IsObject(m)
  BY <1>1, MergeIsDocument
<1>3. /\ NoNulls(m)
      /\ LeafPaths(m) = LeafPaths(b) \cup LeafPaths(a)
      /\ \A p \in LeafPaths(m) : m[p] = IF p \in LeafPaths(b) THEN b[p] ELSE a[p]
      /\ \A p \in DOMAIN m : m[p] = Branch =>
           \/ p \in DOMAIN a /\ a[p] = Branch
           \/ p \in DOMAIN b /\ b[p] = Branch /\ Survives(b, p)
  BY <1>1, MergedLeaves
<1> HIDE DEF m
<1>4. ASSUME NEW p \in DOMAIN m, m[p] = Branch, p # << >>
      PROVE  \E l \in LeafPaths(m) \cup paths : IsPrefix(p, l)
  <2>1. CASE p \in DOMAIN a /\ a[p] = Branch
    <3>1. PICK l \in LeafPaths(a) \cup paths : IsPrefix(p, l)
      BY <1>4, <2>1 DEF Tidy
    <3> QED BY <1>3, <3>1
  <2>2. CASE Survives(b, p)
    BY <1>3, <2>2 DEF Survives
  <2> QED BY <1>3, <1>4, <2>1, <2>2
<1>5. Conforms(m)
  <2>1. SUFFICES ASSUME NEW p \in DOMAIN m, m[p] # Scalar(Null)
                 PROVE  IF m[p] = Branch THEN p = << >> \/ p \in Branches ELSE p \in Values
    BY DEF Conforms
  <2>2. Conforms(a)
    BY DEF Tidy
  <2>3. CASE m[p] = Branch
    <3>1. (p \in DOMAIN a /\ a[p] = Branch) \/ (p \in DOMAIN b /\ b[p] = Branch)
      BY <1>3, <2>3
    <3> QED BY <2>2, <2>3, <3>1, NodesDiffer DEF Conforms
  <2>4. CASE m[p] # Branch
    <3>1. p \in LeafPaths(b) \cup LeafPaths(a)
      BY <1>3, <2>1, <2>4 DEF LeafPaths
    <3> QED BY <2>2, <2>4, <3>1 DEF Conforms, LeafPaths
  <2> QED BY <2>3, <2>4
<1>6. LeavesOf(m) = Over(LeavesOf(b), LeavesOf(a))
  <2>1. DOMAIN LeavesOf(b) = LeafPaths(b) /\ DOMAIN LeavesOf(a) = LeafPaths(a)
    BY DEF LeavesOf
  <2>2. \A p \in LeafPaths(m) : m[p] = IF p \in LeafPaths(b) THEN LeavesOf(b)[p] ELSE LeavesOf(a)[p]
    BY <1>3 DEF LeavesOf
  <2> QED BY <1>3, <2>1, <2>2 DEF LeavesOf, Over
<1> QED BY <1>2, <1>3, <1>4, <1>5, <1>6 DEF Tidy, m

LEMMA StripIsTidy ==
  ASSUME NEW b, IsDocument(b), IsObject(b), Conforms(b)
  PROVE  LET s == Strip(b, "IgnoreNulls")
         IN Tidy(s, {}) /\ LeavesOf(s) = LeavesOf(b)
<1> DEFINE s == Strip(b, "IgnoreNulls")
<1>1. Clean(s) /\ Conforms(s) /\ LeavesOf(s) = LeavesOf(b)
  BY StrippedIsClean
<1>2. NoNulls(s)
  BY StripLeaves
<1> HIDE DEF s
<1>3. \A p \in DOMAIN s : s[p] = Branch /\ p # << >> =>
        \E l \in LeafPaths(s) \cup {} : IsPrefix(p, l)
  BY <1>1 DEF Clean, Full, MemberSurvives, Survives
<1> QED BY <1>1, <1>2, <1>3 DEF Clean, Tidy, s

LEMMA TidyOverMore ==
  ASSUME NEW a, NEW paths, Tidy(a, paths), NEW more
  PROVE  Tidy(a, paths \cup more)
BY DEF Tidy

\* A row holds the leaves of its document, in its lanes and its residual.
LEMMA ShreddedLeaves ==
  ASSUME NEW d \in ObjectDoc
  PROVE  LET row == Shred(Fit, d)
         IN /\ IsDocument(row.residual) /\ IsObject(row.residual) /\ Conforms(row.residual)
            /\ LanesOK(row.lane) /\ DOMAIN row.lane \subseteq Values
            /\ Over(Slots(row.lane), LeavesOf(row.residual)) = LeavesOf(d)
<1> DEFINE row == Shred(Fit, d)
           taken == Stripped(Fit, d)
<1>1. IsDocument(d) /\ IsObject(d)
  BY ObjectDocs
<1>2. /\ IsDocument(row.residual)
      /\ IsObject(row.residual) <=> IsObject(d)
      /\ ~IsObject(d) => row.residual = d
      /\ IsObject(d) =>
           /\ DOMAIN row.residual = DOMAIN d \ taken
           /\ \A p \in DOMAIN row.residual : row.residual[p] = d[p]
      /\ row.lane = [l \in taken |-> d[l].value]
      /\ DOMAIN row.lane = taken
  BY <1>1, LanesAreARowType, ShredParts
<1>3. /\ taken \subseteq LeafPaths(d)
      /\ \A l \in taken : d[l] = Scalar(d[l].value)
  BY <1>1, LanesAreARowType, StrippedAreLeaves
<1>4. LanesOK(row.lane)
  BY <1>1, ShreddedIsOK DEF RowOK
<1> HIDE DEF row, taken
<1>5. Conforms(d) /\ LeafPaths(d) \subseteq Values
  BY DocumentConforms
<1>6. Conforms(row.residual)
  BY <1>1, <1>2, <1>5 DEF Conforms
<1>7. LeafPaths(row.residual) = LeafPaths(d) \ taken
  BY <1>1, <1>2 DEF LeafPaths
<1>8. Over(Slots(row.lane), LeavesOf(row.residual)) = LeavesOf(d)
  <2> DEFINE f == Slots(row.lane)
             g == LeavesOf(row.residual)
  <2>1. DOMAIN f = taken /\ \A l \in taken : f[l] = d[l]
    BY <1>2, <1>3 DEF Slots
  <2>2. DOMAIN g = LeafPaths(d) \ taken /\ \A p \in DOMAIN g : g[p] = d[p]
    <3>1. \A p \in LeafPaths(row.residual) : p \in DOMAIN row.residual
      BY DEF LeafPaths
    <3> QED BY <1>1, <1>2, <1>7, <3>1 DEF LeavesOf
  <2> HIDE DEF f, g
  <2>3. DOMAIN f \cup DOMAIN g = LeafPaths(d)
    BY <1>3, <2>1, <2>2
  <2>4. \A p \in LeafPaths(d) : (IF p \in DOMAIN f THEN f[p] ELSE g[p]) = d[p]
    BY <2>1, <2>2
  <2>5. Over(f, g) = LeavesOf(d)
    BY <2>3, <2>4 DEF Over, LeavesOf
  <2> QED BY <2>5 DEF f, g
<1> QED BY <1>1, <1>2, <1>3, <1>4, <1>5, <1>6, <1>8 DEF row

LEMMA FoldRowReplaces ==
  ASSUME NEW acc, NEW d \in Doc, ~IsObject(d)
  PROVE  DirectFoldRow(acc, Shred(Fit, d)) = Replaced(d)
<1> DEFINE row == Shred(Fit, d)
<1>1. ~IsObject(row.residual) /\ row.residual = d
  BY DocAssumption, LanesAreARowType, ShredParts
<1> HIDE DEF row
<1>2. DirectFoldRow(acc, row) = Replaced(d)
  BY <1>1 DEF DirectFoldRow
<1> QED BY <1>2 DEF row

\* An object row puts its leaves over those the state stands for.
LEMMA FoldRowSettles ==
  ASSUME KindsStable, NEW acc, AccOK(acc), Settled(acc), NEW d \in ObjectDoc
  PROVE  /\ DirectFoldRow(acc, Shred(Fit, d)).kind = "Object"
         /\ Settled(DirectFoldRow(acc, Shred(Fit, d)))
         /\ StandsFor(DirectFoldRow(acc, Shred(Fit, d)))
              = IF acc.kind = "Object" THEN Over(LeavesOf(d), StandsFor(acc)) ELSE LeavesOf(d)
<1> DEFINE row == Shred(Fit, d)
           b == row.residual
           lane == row.lane
           new == DirectFoldRow(acc, row)
<1>1. /\ IsDocument(b) /\ IsObject(b) /\ Conforms(b)
      /\ LanesOK(lane) /\ DOMAIN lane \subseteq Values
      /\ Over(Slots(lane), LeavesOf(b)) = LeavesOf(d)
  BY ShreddedLeaves
<1> HIDE DEF row
<1>2. CASE acc.kind # "Object"
  <2> DEFINE s == Strip(b, "IgnoreNulls")
  <2>1. new = Adopted(s, << >>, lane)
    BY <1>1, <1>2 DEF DirectFoldRow, Adopted
  <2>2. Tidy(s, {}) /\ LeavesOf(s) = LeavesOf(b)
    BY <1>1, StripIsTidy
  <2> HIDE DEF s, new, b, lane
  <2>3. DOMAIN << >> = {}
    OBVIOUS
  <2>4. Tidy(s, DOMAIN << >> \cup DOMAIN lane) /\ DOMAIN << >> \subseteq Values
    BY <2>2, <2>3, TidyOverMore
  <2>5. new.kind = "Object" /\ Settled(new)
        /\ StandsFor(new) = Over(Slots(lane), Over(LeavesOf(s), Slots(<< >>)))
    BY <1>1, <2>1, <2>4, AdoptSettles
  <2>6. Over(LeavesOf(s), Slots(<< >>)) = LeavesOf(s)
    <3>1. DOMAIN Slots(<< >>) = {}
      BY <2>3 DEF Slots
    <3>2. LeavesOf(s) = [p \in DOMAIN LeavesOf(s) |-> LeavesOf(s)[p]]
      BY DEF LeavesOf
    <3> QED BY <3>1, <3>2, OverNothing
  <2>7. StandsFor(new) = LeavesOf(d)
    BY <1>1, <2>2, <2>5, <2>6
  <2> QED BY <1>2, <2>5, <2>7 DEF new, row
<1>3. CASE acc.kind = "Object"
  <2> DEFINE m == MergeTwoObjects(acc.residual, b, "IgnoreNulls")
  <2>1. [acc EXCEPT !.residual = m] = [kind |-> "Object", residual |-> m, slot |-> acc.slot]
    <3> HIDE DEF m
    <3> QED BY <1>3 DEF AccOK
  <2>2. new = Adopted(m, acc.slot, lane)
    BY <1>1, <1>3, <2>1 DEF DirectFoldRow, Adopted
  <2>3. Tidy(acc.residual, DOMAIN acc.slot) /\ DOMAIN acc.slot \subseteq Values
    BY <1>3 DEF Settled
  <2>4. Tidy(m, DOMAIN acc.slot) /\ LeavesOf(m) = Over(LeavesOf(b), LeavesOf(acc.residual))
    BY <1>1, <2>3, MergeIsTidy
  <2> HIDE DEF m, new, b, lane
  <2>5. Tidy(m, DOMAIN acc.slot \cup DOMAIN lane)
    BY <2>4, TidyOverMore
  <2>6. new.kind = "Object" /\ Settled(new)
        /\ StandsFor(new) = Over(Slots(lane), Over(LeavesOf(m), Slots(acc.slot)))
    BY <1>1, <2>2, <2>3, <2>5, AdoptSettles
  <2>7. Over(LeavesOf(m), Slots(acc.slot)) = Over(LeavesOf(b), StandsFor(acc))
    BY <2>4, OverAssociates DEF StandsFor
  <2>8. StandsFor(new) = Over(LeavesOf(d), StandsFor(acc))
    BY <1>1, <2>6, <2>7, OverAssociates
  <2> QED BY <1>3, <2>6, <2>8 DEF new, row
<1> QED BY <1>2, <1>3

\* Folding a state puts its leaves over those of the earlier state.
LEMMA FoldStateSettles ==
  ASSUME KindsStable, NEW target, AccOK(target), Settled(target),
         NEW source, AccOK(source), Settled(source), source.kind = "Object", target.kind = "Object"
  PROVE  /\ DirectFoldState(target, source).kind = "Object"
         /\ Settled(DirectFoldState(target, source))
         /\ StandsFor(DirectFoldState(target, source)) = Over(StandsFor(source), StandsFor(target))
<1> DEFINE b == source.residual
           lane == Counted(source)
           m == MergeTwoObjects(target.residual, b, "IgnoreNulls")
           new == DirectFoldState(target, source)
<1>1. /\ Tidy(b, DOMAIN source.slot) /\ DOMAIN source.slot \subseteq Values
      /\ Tidy(target.residual, DOMAIN target.slot) /\ DOMAIN target.slot \subseteq Values
  BY DEF Settled
<1>2. [target EXCEPT !.residual = m] = [kind |-> "Object", residual |-> m, slot |-> target.slot]
  <2> HIDE DEF m
  <2> QED BY DEF AccOK
<1>3. new = Adopted(m, target.slot, lane)
  BY <1>2 DEF DirectFoldState, Counted, Adopted
<1>4. IsDocument(b) /\ IsObject(b) /\ Conforms(b) /\ NoNulls(b)
  BY <1>1 DEF Tidy
<1>5. Tidy(m, DOMAIN target.slot) /\ LeavesOf(m) = Over(LeavesOf(b), LeavesOf(target.residual))
  BY <1>1, <1>4, MergeIsTidy
<1>6. /\ DOMAIN lane = {l \in DOMAIN source.slot : ClassifyResidualPath(b, l).outcome = "Absent"}
      /\ \A l \in DOMAIN lane : lane[l] = source.slot[l]
      /\ LanesOK(lane)
  BY CountedSlots
<1> HIDE DEF m, new, b, lane
<1>7. Tidy(m, DOMAIN target.slot \cup DOMAIN lane) /\ DOMAIN lane \subseteq Values
  BY <1>1, <1>5, <1>6, TidyOverMore
<1>8. new.kind = "Object" /\ Settled(new)
      /\ StandsFor(new) = Over(Slots(lane), Over(LeavesOf(m), Slots(target.slot)))
  BY <1>1, <1>3, <1>6, <1>7, AdoptSettles
<1>9. Over(LeavesOf(m), Slots(target.slot)) = Over(LeavesOf(b), StandsFor(target))
  BY <1>5, OverAssociates DEF StandsFor
<1>10. \A l \in DOMAIN source.slot : l \in DOMAIN lane <=> l \notin LeafPaths(b)
  <2>1. SUFFICES ASSUME NEW l \in DOMAIN source.slot PROVE l \in DOMAIN lane <=> l \notin LeafPaths(b)
    OBVIOUS
  <2>2. l \in Values /\ l \in Path
    BY <1>1, AboveValues
  <2>3. ~Blocked(b, l) /\ (l \in DOMAIN b => l \in LeafPaths(b))
    BY <1>4, <2>2, ValuesAreLeaves
  <2>4. ClassifyResidualPath(b, l).outcome = "Present" <=> l \in DOMAIN b
    BY <1>4, <2>2, Present
  <2>5. ClassifyResidualPath(b, l).outcome # "NonObjectPrefix"
    BY <1>4, <2>2, <2>3, BlockedIsNonObjectPrefix
  <2>6. ClassifyResidualPath(b, l).outcome \in {"Present", "Absent", "NonObjectPrefix"}
    BY Outcomes
  <2>7. l \in LeafPaths(b) => l \in DOMAIN b
    BY DEF LeafPaths
  <2> QED BY <1>6, <2>3, <2>4, <2>5, <2>6, <2>7
<1>11. Over(Slots(lane), LeavesOf(b)) = StandsFor(source)
  <2> DEFINE f == LeavesOf(b)
             g == Slots(source.slot)
             h == Slots(lane)
  <2>1. DOMAIN f = LeafPaths(b)
    BY DEF LeavesOf
  <2>2. DOMAIN g = DOMAIN source.slot /\ \A l \in DOMAIN source.slot : g[l] = Scalar(source.slot[l])
    BY DEF Slots
  <2>3. DOMAIN h = DOMAIN lane /\ \A l \in DOMAIN lane : h[l] = Scalar(lane[l])
    BY DEF Slots
  <2> HIDE DEF f, g, h
  <2>4. DOMAIN h = DOMAIN g \ DOMAIN f /\ \A l \in DOMAIN h : h[l] = g[l]
    BY <1>6, <1>10, <2>1, <2>2, <2>3
  <2>5. Over(h, f) = Over(f, g)
    BY <2>4 DEF Over
  <2> QED BY <2>5 DEF f, g, h, b, StandsFor
<1>12. StandsFor(new) = Over(StandsFor(source), StandsFor(target))
  BY <1>8, <1>9, <1>11, OverAssociates
<1> QED BY <1>8, <1>12 DEF new

-----------------------------------------------------------------------------
(* The fold of whole documents, and the steps of the plain aggregate. *)

FoldPlain(state, incoming) ==
  IF IsObject(incoming)
  THEN IF state # SqlNull /\ IsObject(state)
       THEN MergeTwoObjects(state, incoming, "IgnoreNulls")
       ELSE Strip(incoming, "IgnoreNulls")
  ELSE incoming

LEMMA PlainIsObject ==
  ASSUME NEW doc
  PROVE  Plain!IsObject(doc) = IsObject(doc)
BY DEF Plain!IsObject, IsObject, Plain!Branch, Branch

LEMMA PlainLeafPaths ==
  ASSUME NEW doc
  PROVE  Plain!LeafPaths(doc) = LeafPaths(doc)
BY DEF Plain!LeafPaths, LeafPaths, Plain!Branch, Branch, Plain!Scalar, Scalar

LEMMA PlainSurvives ==
  ASSUME NEW doc, NEW p, NEW nulls
  PROVE  Plain!MemberSurvives(doc, p, nulls) = MemberSurvives(doc, p, nulls)
<1>1. Plain!Survives(doc, p) = Survives(doc, p)
  BY PlainLeafPaths DEF Plain!Survives, Survives, Plain!IsPrefix, IsPrefix
<1> QED BY <1>1 DEF Plain!MemberSurvives, MemberSurvives, Plain!Scalar, Scalar

LEMMA PlainStrip ==
  ASSUME NEW doc, NEW nulls
  PROVE  Plain!Strip(doc, nulls) = Strip(doc, nulls)
BY PlainSurvives DEF Plain!Strip, Strip, Plain!Restrict, Restrict

LEMMA PlainNested ==
  ASSUME NEW a, NEW b
  PROVE  Plain!Nested(a, b) = Nested(a, b) /\ Plain!Met(a, b) = Met(a, b)
<1>1. Plain!Nested(a, b) = Nested(a, b)
  BY DEF Plain!Nested, Nested, Plain!Branch, Branch
<1>2. \A p : Plain!Front(p) = Front(p)
  BY DEF Plain!Front, Front
<1>3. Plain!Met(a, b) = {p \in (DOMAIN a \cup DOMAIN b) \ Nested(a, b) : Front(p) \in Nested(a, b)}
  BY <1>1, <1>2 DEF Plain!Met
<1> QED BY <1>1, <1>3 DEF Met

LEMMA PlainKeptAndPut ==
  ASSUME NEW a, NEW b, NEW nulls
  PROVE  Plain!Kept(a, b, nulls) = Kept(a, b, nulls) /\ Plain!Put(a, b, nulls) = Put(a, b, nulls)
<1>1. Plain!Met(a, b) = Met(a, b)
  BY PlainNested
<1>2. Plain!Kept(a, b, nulls) = Kept(a, b, nulls)
  BY <1>1 DEF Plain!Kept, Kept, Plain!Scalar, Scalar
<1>3. Plain!Put(a, b, nulls) = Put(a, b, nulls)
  <2>1. \A p : Plain!MemberSurvives(b, p, nulls) = MemberSurvives(b, p, nulls)
    BY PlainSurvives
  <2> QED BY <1>1, <2>1 DEF Plain!Put, Put
<1> QED BY <1>2, <1>3

LEMMA PlainMerge ==
  ASSUME NEW a, NEW b, NEW nulls
  PROVE  Plain!MergeTwoObjects(a, b, nulls) = MergeTwoObjects(a, b, nulls)
<1> DEFINE first == {p \in DOMAIN a : \E q \in Kept(a, b, nulls) :
              IsPrefix(q, p) /\ (nulls = "IgnoreNulls" => p = q \/ MemberSurvives(a, p, nulls))}
           second == {p \in DOMAIN b : \E q \in Put(a, b, nulls) :
              IsPrefix(q, p) /\ MemberSurvives(b, p, nulls)}
           first2 == {p \in DOMAIN a : \E q \in Plain!Kept(a, b, nulls) :
              Plain!IsPrefix(q, p) /\ (nulls = "IgnoreNulls" => p = q \/ Plain!MemberSurvives(a, p, nulls))}
           second2 == {p \in DOMAIN b : \E q \in Plain!Put(a, b, nulls) :
              Plain!IsPrefix(q, p) /\ Plain!MemberSurvives(b, p, nulls)}
<1>1. /\ Plain!Kept(a, b, nulls) = Kept(a, b, nulls)
      /\ Plain!Put(a, b, nulls) = Put(a, b, nulls)
      /\ Plain!Nested(a, b) = Nested(a, b)
  BY PlainNested, PlainKeptAndPut
<1>2. /\ \A p : Plain!MemberSurvives(a, p, nulls) = MemberSurvives(a, p, nulls)
      /\ \A p : Plain!MemberSurvives(b, p, nulls) = MemberSurvives(b, p, nulls)
      /\ \A p, q : Plain!IsPrefix(q, p) = IsPrefix(q, p)
  BY PlainSurvives DEF Plain!IsPrefix, IsPrefix
<1>3. first2 = first
  BY <1>1, <1>2
<1>4. second2 = second
  BY <1>1, <1>2
<1>5. MergeTwoObjects(a, b, nulls)
        = [p \in (Nested(a, b) \cup first) \cup second |-> IF p \in second THEN b[p] ELSE a[p]]
  BY DEF MergeTwoObjects
<1>6. Plain!MergeTwoObjects(a, b, nulls)
        = [p \in (Plain!Nested(a, b) \cup first2) \cup second2 |-> IF p \in second2 THEN b[p] ELSE a[p]]
  BY DEF Plain!MergeTwoObjects
<1> HIDE DEF first, second, first2, second2
<1> QED BY <1>1, <1>3, <1>4, <1>5, <1>6

LEMMA PlainFold ==
  ASSUME NEW state, NEW incoming
  PROVE  Plain!FoldIntoGroupState(state, incoming) = FoldPlain(state, incoming)
<1>1. Plain!IsObject(state) = IsObject(state) /\ Plain!IsObject(incoming) = IsObject(incoming)
  BY PlainIsObject
<1>2. /\ Plain!MergeTwoObjects(state, incoming, "IgnoreNulls") = MergeTwoObjects(state, incoming, "IgnoreNulls")
      /\ Plain!Strip(incoming, "IgnoreNulls") = Strip(incoming, "IgnoreNulls")
  BY PlainMerge, PlainStrip
<1> QED BY <1>1, <1>2 DEF Plain!FoldIntoGroupState, FoldPlain

NoDocumentIsNull == \A doc : IsDocument(doc) => doc # SqlNull

LEMMA ValueOfAcc ==
  ASSUME KindsStable, Separate(Lane), NoDocumentIsNull, NEW acc, AccOK(acc), Settled(acc)
  PROVE  /\ acc.kind = "Empty" <=> Value(acc) = SqlNull
         /\ acc.kind = "NonObject" => Value(acc) = acc.residual /\ ~IsObject(Value(acc))
         /\ acc.kind = "Object" =>
              /\ IsObject(Value(acc)) /\ Clean(Value(acc)) /\ Conforms(Value(acc))
              /\ LeavesOf(Value(acc)) = StandsFor(acc)
<1>1. CASE acc.kind = "Empty"
  BY <1>1 DEF Value
<1>2. CASE acc.kind = "NonObject"
  <2>1. IsDocument(acc.residual) /\ ~IsObject(acc.residual)
    BY <1>2 DEF AccOK
  <2>2. Finalized(acc).residual = acc.residual
    BY DEF Finalized
  <2>3. Value(acc) = acc.residual
    BY <1>2, <2>1, <2>2 DEF Value, Reconstruct
  <2> QED BY <1>2, <2>1, <2>3 DEF NoDocumentIsNull
<1>3. CASE acc.kind = "Object"
  <2>1. Clean(Value(acc)) /\ Conforms(Value(acc)) /\ LeavesOf(Value(acc)) = StandsFor(acc)
    BY <1>3, ValueIsClean
  <2> QED BY <1>3, <2>1 DEF Clean, NoDocumentIsNull
<1> QED BY <1>1, <1>2, <1>3 DEF AccOK

LEMMA FoldRowIsPlain ==
  ASSUME KindsStable, Separate(Lane), NoDocumentIsNull,
         NEW acc, AccOK(acc), Settled(acc), NEW d \in Doc
  PROVE  /\ Settled(DirectFoldRow(acc, Shred(Fit, d)))
         /\ Value(DirectFoldRow(acc, Shred(Fit, d))) = FoldPlain(Value(acc), d)
<1> DEFINE new == DirectFoldRow(acc, Shred(Fit, d))
<1>1. IsDocument(d)
  BY DocAssumption
<1>2. AccOK(new)
  BY <1>1, FoldRowKeepsOK, ShreddedIsOK
<1>3. CASE ~IsObject(d)
  <2>1. new = Replaced(d)
    BY <1>3, FoldRowReplaces
  <2>2. new.kind = "NonObject" /\ new.residual = d
    BY <2>1 DEF Replaced
  <2> HIDE DEF new
  <2>3. Settled(new)
    BY <2>2 DEF Settled
  <2>4. Value(new) = d
    BY <1>2, <2>2, <2>3, ValueOfAcc
  <2> QED BY <1>3, <2>3, <2>4 DEF FoldPlain, new
<1>4. CASE IsObject(d)
  <2>1. d \in ObjectDoc
    BY <1>4 DEF ObjectDoc
  <2>2. new.kind = "Object" /\ Settled(new)
        /\ StandsFor(new) = IF acc.kind = "Object" THEN Over(LeavesOf(d), StandsFor(acc)) ELSE LeavesOf(d)
    BY <2>1, FoldRowSettles
  <2>3. Conforms(d)
    BY <2>1, DocumentConforms
  <2> HIDE DEF new
  <2>4. Clean(Value(new)) /\ LeavesOf(Value(new)) = StandsFor(new)
    BY <1>2, <2>2, ValueOfAcc
  <2>5. CASE acc.kind = "Object"
    <3> DEFINE v == Value(acc)
    <3>1. v # SqlNull /\ IsObject(v) /\ Clean(v) /\ Conforms(v) /\ LeavesOf(v) = StandsFor(acc)
      BY <2>5, ValueOfAcc
    <3>2. FoldPlain(v, d) = MergeTwoObjects(v, d, "IgnoreNulls")
      BY <1>4, <3>1 DEF FoldPlain
    <3> DEFINE m == MergeTwoObjects(v, d, "IgnoreNulls")
    <3> HIDE DEF v
    <3>3. Clean(m) /\ LeavesOf(m) = Over(LeavesOf(d), LeavesOf(v))
      BY <1>1, <1>4, <2>3, <3>1, MergedIsClean
    <3> HIDE DEF m
    <3>4. LeavesOf(m) = LeavesOf(Value(new))
      BY <2>2, <2>4, <2>5, <3>1, <3>3
    <3>5. Value(new) = m
      BY <2>4, <3>3, <3>4, LeavesDetermine
    <3> QED BY <2>2, <3>2, <3>5 DEF new, m, v
  <2>6. CASE acc.kind # "Object"
    <3> DEFINE v == Value(acc)
               s == Strip(d, "IgnoreNulls")
    <3>1. v = SqlNull \/ ~IsObject(v)
      BY <2>6, ValueOfAcc DEF AccOK
    <3>2. FoldPlain(v, d) = s
      BY <1>4, <3>1 DEF FoldPlain
    <3>3. Clean(s) /\ LeavesOf(s) = LeavesOf(d)
      BY <1>1, <1>4, <2>3, StrippedIsClean
    <3> HIDE DEF v, s
    <3>4. Value(new) = s
      BY <2>2, <2>4, <2>6, <3>3, LeavesDetermine
    <3> QED BY <2>2, <3>2, <3>4 DEF new, v
  <2> QED BY <2>5, <2>6
<1> QED BY <1>3, <1>4

LEMMA FoldStateIsPlain ==
  ASSUME KindsStable, Separate(Lane), NoDocumentIsNull,
         NEW target, AccOK(target), Settled(target), NEW source, AccOK(source), Settled(source)
  PROVE  /\ Settled(DirectFoldState(target, source))
         /\ Value(source) = SqlNull => DirectFoldState(target, source) = target
         /\ Value(source) # SqlNull =>
              Value(DirectFoldState(target, source)) = FoldPlain(Value(target), Value(source))
<1> DEFINE new == DirectFoldState(target, source)
<1>1. Value(source) = SqlNull <=> source.kind = "Empty"
  BY ValueOfAcc
<1>2. CASE source.kind = "Empty"
  BY <1>1, <1>2 DEF DirectFoldState
<1>3. CASE source.kind = "NonObject"
  <2>1. new = source
    BY <1>3 DEF DirectFoldState
  <2>2. ~IsObject(Value(source))
    BY <1>3, ValueOfAcc
  <2> QED BY <1>1, <1>3, <2>1, <2>2 DEF FoldPlain
<1>4. CASE source.kind = "Object" /\ target.kind # "Object"
  <2> DEFINE v == Value(source)
             s == Strip(v, "IgnoreNulls")
  <2>1. new = source
    BY <1>4 DEF DirectFoldState
  <2>2. IsObject(v) /\ Clean(v) /\ Conforms(v)
    BY <1>4, ValueOfAcc
  <2>3. Value(target) = SqlNull \/ ~IsObject(Value(target))
    BY <1>4, ValueOfAcc DEF AccOK
  <2>4. FoldPlain(Value(target), v) = s
    BY <2>2, <2>3 DEF FoldPlain
  <2> HIDE DEF v
  <2>5. Clean(s) /\ LeavesOf(s) = LeavesOf(v)
    BY <2>2, StrippedIsClean DEF Clean
  <2> HIDE DEF s
  <2>6. s = v
    BY <2>2, <2>5, LeavesDetermine
  <2> QED BY <1>1, <1>4, <2>1, <2>4, <2>6 DEF v
<1>5. CASE source.kind = "Object" /\ target.kind = "Object"
  <2> DEFINE v == Value(target)
             w == Value(source)
             m == MergeTwoObjects(v, w, "IgnoreNulls")
  <2>1. AccOK(new)
    BY FoldStateKeepsOK
  <2>2. new.kind = "Object" /\ Settled(new) /\ StandsFor(new) = Over(StandsFor(source), StandsFor(target))
    BY <1>5, FoldStateSettles
  <2>3. v # SqlNull /\ IsObject(v) /\ Clean(v) /\ Conforms(v) /\ LeavesOf(v) = StandsFor(target)
    BY <1>5, ValueOfAcc
  <2>4. w # SqlNull /\ IsObject(w) /\ Clean(w) /\ Conforms(w) /\ LeavesOf(w) = StandsFor(source)
    BY <1>5, ValueOfAcc
  <2>5. FoldPlain(v, w) = m
    BY <2>3, <2>4 DEF FoldPlain
  <2> HIDE DEF v, w, new
  <2>6. Clean(Value(new)) /\ LeavesOf(Value(new)) = StandsFor(new)
    BY <2>1, <2>2, ValueOfAcc
  <2>7. Clean(m) /\ LeavesOf(m) = Over(LeavesOf(w), LeavesOf(v))
    <3>1. IsDocument(w)
      BY <2>4 DEF Clean
    <3> QED BY <2>3, <2>4, <3>1, MergedIsClean
  <2> HIDE DEF m
  <2>8. LeavesOf(m) = LeavesOf(Value(new))
    BY <2>2, <2>3, <2>4, <2>6, <2>7
  <2>9. Value(new) = m
    BY <2>6, <2>7, <2>8, LeavesDetermine
  <2> QED BY <1>1, <1>5, <2>2, <2>5, <2>9 DEF new, v, w
<1> QED BY <1>2, <1>3, <1>4, <1>5 DEF AccOK

StatesSettled == \A s \in Node : Settled(direct[s])

LEMMA InitIsSettled ==
  ASSUME Init
  PROVE  StatesSettled
BY DEF Init, EmptyAcc, StatesSettled, Settled

LEMMA UpdateIsPlain ==
  ASSUME KindsStable, Separate(Lane), NoDocumentIsNull,
         StateOK, StatesSettled, NEW s \in Node, Update(s)
  PROVE  StatesSettled' /\ Plain!Update(s)
<1> DEFINE d == rows[span[s].next]
           acc == DirectFoldRow(direct[s], Shred(Fit, d))
<1>1. span[s].next \in DOMAIN rows /\ d # SqlNull /\ Folded(s, acc)
  BY UpdateStep
<1>2. d \in Doc
  BY <1>1, RowIsDocument DEF StateOK
<1>3. AccOK(direct[s]) /\ Settled(direct[s])
  BY DEF StateOK, StatesSettled
<1> HIDE DEF d
<1>4. Settled(acc) /\ Value(acc) = FoldPlain(Value(direct[s]), d)
  BY <1>2, <1>3, FoldRowIsPlain
<1> HIDE DEF acc
<1>5. /\ direct' = [t \in Node |-> IF t = s THEN acc ELSE direct[t]]
      /\ written' = [t \in Node |-> IF t = s THEN Value(acc) ELSE written[t]]
  BY <1>1 DEF Folded
<1>6. StatesSettled'
  <2>1. \A t \in Node : direct'[t] = IF t = s THEN acc ELSE direct[t]
    BY <1>5
  <2> QED BY <1>4, <2>1 DEF StatesSettled
<1>7. written = [t \in Node |-> written[t]] /\ written[s] = Value(direct[s])
  BY DEF StateOK
<1>8. Value(acc) = Plain!FoldIntoGroupState(written[s], d)
  BY <1>4, <1>7, PlainFold
<1>9. written' = [written EXCEPT ![s] = Plain!FoldIntoGroupState(written[s], d)]
  BY <1>5, <1>7, <1>8
<1>10. /\ span[s].next <= Len(rows) /\ d # SqlNull
       /\ span' = [span EXCEPT ![s].next = span[s].next + 1]
       /\ UNCHANGED rows
  BY DEF Update, d
<1> QED BY <1>6, <1>9, <1>10 DEF Plain!Update, d

LEMMA CombineIsPlain ==
  ASSUME KindsStable, Separate(Lane), NoDocumentIsNull,
         StateOK, StatesSettled, NEW source \in Node, NEW target \in Node, Combine(source, target)
  PROVE  StatesSettled' /\ Plain!Combine(source, target)
<1> DEFINE acc == DirectFoldState(direct[target], direct[source])
<1>1. Folded(target, acc)
  BY CombineStep
<1>2. /\ AccOK(direct[source]) /\ Settled(direct[source])
      /\ AccOK(direct[target]) /\ Settled(direct[target])
  BY DEF StateOK, StatesSettled
<1>3. /\ Settled(acc)
      /\ Value(direct[source]) = SqlNull => acc = direct[target]
      /\ Value(direct[source]) # SqlNull =>
           Value(acc) = FoldPlain(Value(direct[target]), Value(direct[source]))
  BY <1>2, FoldStateIsPlain
<1> HIDE DEF acc
<1>4. /\ direct' = [t \in Node |-> IF t = target THEN acc ELSE direct[t]]
      /\ written' = [t \in Node |-> IF t = target THEN Value(acc) ELSE written[t]]
  BY <1>1 DEF Folded
<1>5. StatesSettled'
  <2>1. \A t \in Node : direct'[t] = IF t = target THEN acc ELSE direct[t]
    BY <1>4
  <2> QED BY <1>3, <2>1 DEF StatesSettled
<1>6. /\ written = [t \in Node |-> written[t]]
      /\ written[source] = Value(direct[source]) /\ written[target] = Value(direct[target])
  BY DEF StateOK
<1>7. written' = IF written[source] = SqlNull THEN written
                 ELSE [written EXCEPT ![target] = Plain!FoldIntoGroupState(written[target], written[source])]
  <2>1. CASE written[source] = SqlNull
    <3>1. Value(acc) = written[target]
      BY <1>3, <1>6, <2>1
    <3>2. written' = [t \in Node |-> written[t]]
      BY <1>4, <3>1
    <3> QED BY <1>6, <2>1, <3>2
  <2>2. CASE written[source] # SqlNull
    <3>1. Value(acc) = Plain!FoldIntoGroupState(written[target], written[source])
      BY <1>3, <1>6, <2>2, PlainFold
    <3>2. written' = [written EXCEPT ![target] = Value(acc)]
      BY <1>4, <1>6
    <3> QED BY <2>2, <3>1, <3>2
  <2> QED BY <2>1, <2>2
<1>8. /\ source # target /\ span[target].next = span[source].first
      /\ span' = [span EXCEPT ![target].next = span[source].next]
      /\ UNCHANGED rows
  BY DEF Combine
<1> QED BY <1>5, <1>7, <1>8 DEF Plain!Combine

LEMMA NextIsPlain ==
  ASSUME KindsStable, Separate(Lane), NoDocumentIsNull, StateOK, StatesSettled, [Next]_vars
  PROVE  StatesSettled' /\ [Plain!Next]_(Plain!vars)
<1>1. CASE UNCHANGED vars
  BY <1>1 DEF vars, Plain!vars, StatesSettled
<1>2. ASSUME NEW s \in Node, SkipNullRow(s)
      PROVE  StatesSettled' /\ Plain!SkipNullRow(s)
  <2>1. direct' = direct
    BY <1>2 DEF SkipNullRow
  <2>2. StatesSettled'
    BY <2>1 DEF StatesSettled
  <2> QED BY <1>2, <2>2 DEF SkipNullRow, Plain!SkipNullRow
<1>3. ASSUME NEW s \in Node, Update(s)
      PROVE  StatesSettled' /\ Plain!Update(s)
  BY <1>3, UpdateIsPlain
<1>4. ASSUME NEW source \in Node, NEW target \in Node, Combine(source, target)
      PROVE  StatesSettled' /\ Plain!Combine(source, target)
  BY <1>4, CombineIsPlain
<1> QED BY <1>1, <1>2, <1>3, <1>4 DEF Next, Plain!Next

LEMMA InitIsPlain ==
  ASSUME Init
  PROVE  Plain!Init
BY DEF Init, Plain!Init

\* Folding residuals and lane slots implements folding the whole documents: every
\* step of the shredded aggregate is a step of the plain one on the rows that its
\* states would write, where no lane lies inside another one and no path is an
\* object in one row and a value in another one.
THEOREM DirectFoldImplementsThePlainFold ==
  ASSUME KindsStable, Separate(Lane), NoDocumentIsNull
  PROVE  Spec => ImplementsPlain
<1>1. Init => StatesSettled /\ Plain!Init
  BY InitIsSettled, InitIsPlain
<1>2. StateOK /\ StatesSettled /\ [Next]_vars => StatesSettled' /\ [Plain!Next]_(Plain!vars)
  BY NextIsPlain
<1>3. Spec => []StateOK
  BY StatesAreOK
<1> QED BY <1>1, <1>2, <1>3, PTL DEF Spec, Plain!Spec, ImplementsPlain

-----------------------------------------------------------------------------
(* The last values of the rows r[i] .. r[j - 1]. *)

Live(r, i, j) == {k \in i .. j - 1 : r[k] # SqlNull}
AllObjects(r, i, j) == \A k \in Live(r, i, j) : r[k] \in ObjectDoc

\* f has, per path that one of the rows has a value at, the one of the last such row.
IsLastOf(f, r, i, j) ==
  /\ f = [p \in DOMAIN f |-> f[p]]
  /\ \A k \in Live(r, i, j) : \A p \in LeafPaths(r[k]) : p \in DOMAIN f
  /\ \A p \in DOMAIN f : \E k \in Live(r, i, j) :
       /\ p \in LeafPaths(r[k]) /\ f[p] = r[k][p]
       /\ \A m \in Live(r, i, j) : p \in LeafPaths(r[m]) => m <= k

LEMMA LastIsUnique ==
  ASSUME NEW r, NEW i \in Int, NEW j \in Int, NEW f, IsLastOf(f, r, i, j), NEW g, IsLastOf(g, r, i, j)
  PROVE  f = g
<1>1. DOMAIN f = DOMAIN g
  BY DEF IsLastOf
<1>2. ASSUME NEW p \in DOMAIN f
      PROVE  f[p] = g[p]
  <2>1. PICK k \in Live(r, i, j) :
          /\ p \in LeafPaths(r[k]) /\ f[p] = r[k][p]
          /\ \A m \in Live(r, i, j) : p \in LeafPaths(r[m]) => m <= k
    BY DEF IsLastOf
  <2>2. PICK n \in Live(r, i, j) :
          /\ p \in LeafPaths(r[n]) /\ g[p] = r[n][p]
          /\ \A m \in Live(r, i, j) : p \in LeafPaths(r[m]) => m <= n
    BY <1>1 DEF IsLastOf
  <2>3. k <= n /\ n <= k /\ k \in Int /\ n \in Int
    BY <2>1, <2>2 DEF Live
  <2> QED BY <2>1, <2>2, <2>3
<1> QED BY <1>1, <1>2 DEF IsLastOf

LEMMA LiveConcat ==
  ASSUME NEW r, NEW i \in Int, NEW j \in Int, NEW k \in Int, i <= j, j <= k
  PROVE  /\ Live(r, i, k) = Live(r, i, j) \cup Live(r, j, k)
         /\ \A m \in Live(r, i, j), n \in Live(r, j, k) : m < n
         /\ \A m \in Live(r, i, k) : m \in Int
BY DEF Live

LEMMA LastConcat ==
  ASSUME NEW r, NEW i \in Int, NEW j \in Int, NEW k \in Int, i <= j, j <= k,
         NEW f, IsLastOf(f, r, i, j), NEW g, IsLastOf(g, r, j, k)
  PROVE  IsLastOf(Over(g, f), r, i, k)
<1> DEFINE h == Over(g, f)
           L == Live(r, i, j)
           R == Live(r, j, k)
           A == Live(r, i, k)
<1>1. A = L \cup R /\ (\A m \in L, n \in R : m < n) /\ \A m \in A : m \in Int
  BY LiveConcat
<1>2. /\ DOMAIN h = DOMAIN g \cup DOMAIN f
      /\ \A p \in DOMAIN h : h[p] = IF p \in DOMAIN g THEN g[p] ELSE f[p]
      /\ h = [p \in DOMAIN h |-> h[p]]
  BY DEF Over
<1>3. /\ \A m \in L : \A p \in LeafPaths(r[m]) : p \in DOMAIN f
      /\ \A p \in DOMAIN f : \E m \in L :
           /\ p \in LeafPaths(r[m]) /\ f[p] = r[m][p]
           /\ \A n \in L : p \in LeafPaths(r[n]) => n <= m
  BY DEF IsLastOf
<1>4. /\ \A m \in R : \A p \in LeafPaths(r[m]) : p \in DOMAIN g
      /\ \A p \in DOMAIN g : \E m \in R :
           /\ p \in LeafPaths(r[m]) /\ g[p] = r[m][p]
           /\ \A n \in R : p \in LeafPaths(r[n]) => n <= m
  BY DEF IsLastOf
<1> HIDE DEF h, L, R, A
<1>5. \A m \in A : \A p \in LeafPaths(r[m]) : p \in DOMAIN h
  BY <1>1, <1>2, <1>3, <1>4
<1>6. ASSUME NEW p \in DOMAIN h
      PROVE  \E m \in A : /\ p \in LeafPaths(r[m]) /\ h[p] = r[m][p]
                          /\ \A n \in A : p \in LeafPaths(r[n]) => n <= m
  <2>1. CASE p \in DOMAIN g
    <3>1. PICK m \in R : /\ p \in LeafPaths(r[m]) /\ g[p] = r[m][p]
                         /\ \A n \in R : p \in LeafPaths(r[n]) => n <= m
      BY <1>4, <2>1
    <3>2. \A n \in L : n <= m
      BY <1>1
    <3> QED BY <1>1, <1>2, <2>1, <3>1, <3>2
  <2>2. CASE p \notin DOMAIN g
    <3>1. p \in DOMAIN f /\ h[p] = f[p]
      BY <1>2, <2>2
    <3>2. PICK m \in L : /\ p \in LeafPaths(r[m]) /\ f[p] = r[m][p]
                         /\ \A n \in L : p \in LeafPaths(r[n]) => n <= m
      BY <1>3, <3>1
    <3>3. \A n \in R : p \notin LeafPaths(r[n])
      BY <1>4, <2>2
    <3> QED BY <1>1, <3>1, <3>2, <3>3
  <2> QED BY <2>1, <2>2
<1> QED BY <1>2, <1>5, <1>6 DEF IsLastOf, h, A

LEMMA LastOfOneRow ==
  ASSUME NEW r, NEW i \in Int, r[i] # SqlNull
  PROVE  Live(r, i, i + 1) = {i} /\ IsLastOf(LeavesOf(r[i]), r, i, i + 1)
<1>1. Live(r, i, i + 1) = {i}
  BY DEF Live
<1> DEFINE f == LeavesOf(r[i])
<1>2. DOMAIN f = LeafPaths(r[i]) /\ (\A p \in LeafPaths(r[i]) : f[p] = r[i][p]) /\ f = [p \in DOMAIN f |-> f[p]]
  BY DEF LeavesOf
<1> HIDE DEF f
<1>3. IsLastOf(f, r, i, i + 1)
  BY <1>1, <1>2 DEF IsLastOf
<1> QED BY <1>1, <1>3 DEF f

LEMMA LastOfNone ==
  ASSUME NEW r, NEW i, NEW j, NEW k, NEW m, NEW f, IsLastOf(f, r, i, j), Live(r, k, m) = Live(r, i, j)
  PROVE  IsLastOf(f, r, k, m)
BY DEF IsLastOf

\* A fold of the rows, as the recursive definition has it.
IsFold(f, r, i, j) ==
  f = [k \in i .. j |-> IF k = i THEN SqlNull
                        ELSE IF r[k - 1] = SqlNull THEN f[k - 1]
                        ELSE Plain!FoldIntoGroupState(f[k - 1], r[k - 1])]

LEMMA FoldExists ==
  ASSUME NEW r, NEW i \in Int, NEW d \in Nat
  PROVE  \E f : IsFold(f, r, i, i + d)
<1> DEFINE B == {m \in 0 .. d : ~\E f : IsFold(f, r, i, i + m)}
<1>1. SUFFICES ASSUME B # {}
               PROVE  FALSE
  OBVIOUS
<1>2. PICK m \in B : \A n \in B : m <= n
  <2> HIDE DEF B
  <2> B \subseteq 0 .. d
    BY DEF B
  <2> QED BY <1>1, Least
<1>3. m # 0
  <2>1. IsFold([k \in i .. i + 0 |-> SqlNull], r, i, i + 0)
    BY DEF IsFold
  <2> QED BY <1>2, <2>1
<1>4. PICK v : IsFold(v, r, i, i + (m - 1))
  <2>1. m - 1 \in 0 .. d /\ ~(m <= m - 1)
    BY <1>2, <1>3
  <2> QED BY <1>2, <2>1
<1> DEFINE j == i + m
           last == IF r[j - 1] = SqlNull THEN v[j - 1] ELSE Plain!FoldIntoGroupState(v[j - 1], r[j - 1])
           w == [k \in i .. j |-> IF k = j THEN last ELSE v[k]]
<1>5. j \in Int /\ i < j /\ j - 1 = i + (m - 1)
  BY <1>2, <1>3
<1> HIDE DEF j
<1>6. IsFold(w, r, i, j)
  <2>1. ASSUME NEW k \in i .. j
        PROVE  w[k] = IF k = i THEN SqlNull
                      ELSE IF r[k - 1] = SqlNull THEN w[k - 1]
                      ELSE Plain!FoldIntoGroupState(w[k - 1], r[k - 1])
    <3>1. CASE k = j
      <4>1. w[k] = last /\ w[k - 1] = v[k - 1]
        BY <1>5, <3>1
      <4>2. last = IF r[k - 1] = SqlNull THEN v[k - 1] ELSE Plain!FoldIntoGroupState(v[k - 1], r[k - 1])
        BY <3>1
      <4> HIDE DEF w, last
      <4> QED BY <1>5, <3>1, <4>1, <4>2
    <3>2. CASE k # j
      <4>1. k \in i .. i + (m - 1) /\ w[k] = v[k]
        BY <1>5, <3>2
      <4>2. v[k] = IF k = i THEN SqlNull
                   ELSE IF r[k - 1] = SqlNull THEN v[k - 1]
                   ELSE Plain!FoldIntoGroupState(v[k - 1], r[k - 1])
        BY <1>4, <4>1 DEF IsFold
      <4>3. k # i => w[k - 1] = v[k - 1]
        BY <1>5, <3>2
      <4> HIDE DEF w
      <4> QED BY <4>1, <4>2, <4>3
    <3> QED BY <3>1, <3>2
  <2>2. w = [k \in i .. j |-> w[k]]
    OBVIOUS
  <2> HIDE DEF w
  <2>3. [k \in i .. j |-> w[k]]
          = [k \in i .. j |-> IF k = i THEN SqlNull
                              ELSE IF r[k - 1] = SqlNull THEN w[k - 1]
                              ELSE Plain!FoldIntoGroupState(w[k - 1], r[k - 1])]
    BY <2>1
  <2> QED BY <2>2, <2>3 DEF IsFold
<1> QED BY <1>2, <1>6 DEF j

LEMMA FoldOfIs ==
  ASSUME NEW i \in Int, NEW j \in Int, i <= j
  PROVE  \E f : IsFold(f, rows, i, j) /\ Plain!FoldOf(i, j) = f[j]
<1> DEFINE F == CHOOSE f : IsFold(f, rows, i, j)
<1>1. Plain!FoldOf(i, j) = F[j]
  BY DEF Plain!FoldOf, IsFold
<1>2. \E f : IsFold(f, rows, i, j)
  <2>1. j - i \in Nat /\ i + (j - i) = j
    OBVIOUS
  <2>2. \E f : IsFold(f, rows, i, i + (j - i))
    BY <2>1, FoldExists
  <2> QED BY <2>1, <2>2
<1>3. IsFold(F, rows, i, j)
  BY <1>2
<1> QED BY <1>1, <1>3

\* What a fold of objects holds: their last values.
HoldsLast(state, r, i, j) ==
  IF Live(r, i, j) = {} THEN state = SqlNull
  ELSE /\ state # SqlNull /\ IsObject(state) /\ Clean(state) /\ Conforms(state)
       /\ IsLastOf(LeavesOf(state), r, i, j)

LEMMA HoldsLastIsUnique ==
  ASSUME NEW r, NEW i \in Int, NEW j \in Int,
         NEW c, HoldsLast(c, r, i, j), NEW d, HoldsLast(d, r, i, j)
  PROVE  c = d
<1>1. CASE Live(r, i, j) = {}
  BY <1>1 DEF HoldsLast
<1>2. CASE Live(r, i, j) # {}
  <2>1. /\ Clean(c) /\ IsLastOf(LeavesOf(c), r, i, j)
        /\ Clean(d) /\ IsLastOf(LeavesOf(d), r, i, j)
    BY <1>2 DEF HoldsLast
  <2>2. LeavesOf(c) = LeavesOf(d)
    BY <2>1, LastIsUnique
  <2> QED BY <2>1, <2>2, LeavesDetermine
<1> QED BY <1>1, <1>2

\* The fold of what stands for later rows onto what stands for earlier ones.
LEMMA FoldLater ==
  ASSUME KindsStable, NoDocumentIsNull, NEW r, NEW i \in Int, NEW j \in Int, NEW k \in Int, i <= j, j <= k,
         NEW state, HoldsLast(state, r, i, j),
         NEW d, IsDocument(d), IsObject(d), Conforms(d),
         Live(r, j, k) # {}, IsLastOf(LeavesOf(d), r, j, k)
  PROVE  HoldsLast(FoldPlain(state, d), r, i, k)
<1> DEFINE new == FoldPlain(state, d)
<1>3. Live(r, i, k) = Live(r, i, j) \cup Live(r, j, k)
  BY LiveConcat
<1>4. Live(r, i, k) # {}
  BY <1>3
<1>5. CASE Live(r, i, j) = {}
  <2> DEFINE s == Strip(d, "IgnoreNulls")
  <2>1. state = SqlNull
    BY <1>5 DEF HoldsLast
  <2>2. new = s
    BY <2>1 DEF FoldPlain
  <2> HIDE DEF new
  <2>3. Clean(s) /\ Conforms(s) /\ LeavesOf(s) = LeavesOf(d)
    BY StrippedIsClean
  <2> HIDE DEF s
  <2>4. s # SqlNull /\ IsObject(s)
    BY <2>3 DEF Clean, NoDocumentIsNull
  <2>5. IsLastOf(LeavesOf(s), r, i, k)
    <3>1. Live(r, i, k) = Live(r, j, k)
      BY <1>3, <1>5
    <3>2. IsLastOf(LeavesOf(s), r, j, k)
      BY <2>3
    <3> QED BY <3>1, <3>2, LastOfNone
  <2> QED BY <1>4, <2>2, <2>3, <2>4, <2>5 DEF HoldsLast, new
<1>6. CASE Live(r, i, j) # {}
  <2> DEFINE m == MergeTwoObjects(state, d, "IgnoreNulls")
  <2>1. state # SqlNull /\ IsObject(state) /\ Clean(state) /\ Conforms(state)
        /\ IsLastOf(LeavesOf(state), r, i, j)
    BY <1>6 DEF HoldsLast
  <2>2. new = m
    BY <2>1 DEF FoldPlain
  <2> HIDE DEF new
  <2>3. Clean(m) /\ Conforms(m) /\ LeavesOf(m) = Over(LeavesOf(d), LeavesOf(state))
    BY <2>1, MergedIsClean
  <2> HIDE DEF m
  <2>4. m # SqlNull /\ IsObject(m)
    BY <2>3 DEF Clean, NoDocumentIsNull
  <2>5. IsLastOf(LeavesOf(m), r, i, k)
    <3> DEFINE f == LeavesOf(state)
               g == LeavesOf(d)
    <3>1. IsLastOf(f, r, i, j) /\ IsLastOf(g, r, j, k)
      BY <2>1
    <3> HIDE DEF f, g
    <3>2. IsLastOf(Over(g, f), r, i, k)
      BY <3>1, LastConcat
    <3> QED BY <2>3, <3>2 DEF f, g
  <2> QED BY <1>4, <2>2, <2>3, <2>4, <2>5 DEF HoldsLast, new
<1> QED BY <1>5, <1>6

LEMMA FoldOneMore ==
  ASSUME KindsStable, NoDocumentIsNull, NEW r, NEW i \in Int, NEW j \in Int, i <= j,
         NEW state, HoldsLast(state, r, i, j), r[j] \in ObjectDoc
  PROVE  HoldsLast(FoldPlain(state, r[j]), r, i, j + 1)
<1> DEFINE d == r[j]
           k == j + 1
<1>1. IsDocument(d) /\ IsObject(d) /\ Conforms(d) /\ d # SqlNull
  BY ObjectDocs, DocumentConforms DEF NoDocumentIsNull
<1>2. k \in Int /\ j <= k /\ Live(r, j, k) # {} /\ IsLastOf(LeavesOf(d), r, j, k)
  BY <1>1, LastOfOneRow
<1> HIDE DEF d, k
<1>3. HoldsLast(FoldPlain(state, d), r, i, k)
  BY <1>1, <1>2, FoldLater
<1> QED BY <1>3 DEF d, k

LEMMA FoldHoldsLast ==
  ASSUME KindsStable, NoDocumentIsNull, NEW r, NEW i \in Int, NEW d \in Nat, AllObjects(r, i, i + d),
         NEW f, IsFold(f, r, i, i + d)
  PROVE  HoldsLast(f[i + d], r, i, i + d)
<1> DEFINE B == {m \in 0 .. d : ~HoldsLast(f[i + m], r, i, i + m)}
<1>1. SUFFICES ASSUME B # {}
               PROVE  FALSE
  OBVIOUS
<1>2. PICK m \in B : \A n \in B : m <= n
  <2> HIDE DEF B
  <2> B \subseteq 0 .. d
    BY DEF B
  <2> QED BY <1>1, Least
<1>3. \A k \in i .. i + d : f[k] = IF k = i THEN SqlNull
                                   ELSE IF r[k - 1] = SqlNull THEN f[k - 1]
                                   ELSE Plain!FoldIntoGroupState(f[k - 1], r[k - 1])
  BY DEF IsFold
<1>4. m # 0
  <2>1. f[i + 0] = SqlNull
    BY <1>3
  <2>2. Live(r, i, i + 0) = {}
    BY DEF Live
  <2> QED BY <1>2, <2>1, <2>2 DEF HoldsLast
<1> DEFINE j == i + (m - 1)
<1>5. HoldsLast(f[j], r, i, j)
  <2>1. m - 1 \in 0 .. d /\ ~(m <= m - 1)
    BY <1>2, <1>4
  <2> QED BY <1>2, <2>1
<1>6. j \in Int /\ i <= j /\ j + 1 = i + m /\ j + 1 \in i .. i + d /\ j + 1 # i /\ (j + 1) - 1 = j
  BY <1>2, <1>4
<1> HIDE DEF j
<1>7. f[j + 1] = IF r[j] = SqlNull THEN f[j] ELSE Plain!FoldIntoGroupState(f[j], r[j])
  BY <1>3, <1>6
<1>8. HoldsLast(f[j + 1], r, i, j + 1)
  <2>1. CASE r[j] = SqlNull
    <3>1. Live(r, i, j + 1) = Live(r, i, j)
      BY <1>6, <2>1 DEF Live
    <3>2. f[j + 1] = f[j]
      BY <1>7, <2>1
    <3>3. IsLastOf(LeavesOf(f[j]), r, i, j) => IsLastOf(LeavesOf(f[j]), r, i, j + 1)
      BY <3>1, LastOfNone
    <3> QED BY <1>5, <3>1, <3>2, <3>3 DEF HoldsLast
  <2>2. CASE r[j] # SqlNull
    <3>1. r[j] \in ObjectDoc
      BY <1>6, <2>2 DEF AllObjects, Live
    <3>2. f[j + 1] = FoldPlain(f[j], r[j])
      BY <1>7, <2>2, PlainFold
    <3> QED BY <1>5, <1>6, <3>1, <3>2, FoldOneMore
  <2> QED BY <2>1, <2>2
<1> QED BY <1>2, <1>6, <1>8

Held(s) == AllObjects(rows, span[s].first, span[s].next)
             => HoldsLast(written[s], rows, span[s].first, span[s].next)

LastValuesHeld == \A s \in Node : Held(s)

LEMMA InitIsHeld ==
  ASSUME Init
  PROVE  LastValuesHeld
<1>1. SUFFICES ASSUME NEW s \in Node PROVE Held(s)
  BY DEF LastValuesHeld
<1>2. written[s] = SqlNull
  BY DEF Init
<1>3. SpanOK(s)
  BY InitIsOK DEF StateOK
<1>4. span[s].first = span[s].next
  <2>1. PICK start \in [Node -> 1 .. Len(rows) + 1] :
          span = [t \in Node |-> [first |-> start[t], next |-> start[t]]]
    BY DEF Init
  <2>2. span[s] = [first |-> start[s], next |-> start[s]]
    BY <2>1
  <2> QED BY <2>2
<1>5. Live(rows, span[s].first, span[s].next) = {}
  BY <1>3, <1>4 DEF Live, SpanOK
<1> QED BY <1>2, <1>5 DEF Held, HoldsLast

\* A state that now stands for one row more, or for those of another state too.
LEMMA SkipNullRowHolds ==
  ASSUME StateOK, LastValuesHeld, NEW s \in Node, SkipNullRow(s)
  PROVE  LastValuesHeld'
<1> DEFINE i == span[s].first
           j == span[s].next
<1>1. /\ j \in DOMAIN rows /\ rows[j] = SqlNull
      /\ Moved(s, j + 1)
      /\ written' = written
  BY SkipNullRowStep
<1>2. /\ span' = [t \in Node |-> IF t = s THEN span'[s] ELSE span[t]]
      /\ span'[s] = [first |-> i, next |-> j + 1]
      /\ rows' = rows
  BY <1>1 DEF Moved
<1>3. span'[s].first = i /\ span'[s].next = j + 1
  BY <1>2
<1>4. i \in Int /\ j \in Int /\ i <= j
  BY DEF StateOK, SpanOK
<1>5. \A t \in Node : t # s => span'[t] = span[t]
  BY <1>2
<1>6. Held(s)
  BY DEF LastValuesHeld
<1> HIDE DEF i, j
<1>7. Live(rows, i, j + 1) = Live(rows, i, j)
  BY <1>1, <1>4 DEF Live
<1>8. HoldsLast(written[s], rows, i, j) => HoldsLast(written[s], rows, i, j + 1)
  BY <1>7, LastOfNone DEF HoldsLast
<1>9. AllObjects(rows, i, j + 1) => AllObjects(rows, i, j)
  BY <1>7 DEF AllObjects
<1>10. Held(s)'
  BY <1>1, <1>2, <1>3, <1>6, <1>8, <1>9 DEF Held, i, j
<1>11. \A t \in Node : t # s => Held(t)'
  BY <1>1, <1>2, <1>5 DEF Held, LastValuesHeld
<1> QED BY <1>10, <1>11 DEF LastValuesHeld

LEMMA UpdateHolds ==
  ASSUME KindsStable, NoDocumentIsNull, StateOK, LastValuesHeld,
         NEW s \in Node, Update(s), Plain!Update(s)
  PROVE  LastValuesHeld'
<1> DEFINE i == span[s].first
           j == span[s].next
           d == rows[j]
           new == FoldPlain(written[s], d)
<1>1. j \in DOMAIN rows /\ d # SqlNull /\ Moved(s, j + 1)
  BY UpdateStep
<1>2. /\ span' = [t \in Node |-> IF t = s THEN span'[s] ELSE span[t]]
      /\ span'[s] = [first |-> i, next |-> j + 1]
      /\ rows' = rows
  BY <1>1 DEF Moved
<1>3. span'[s].first = i /\ span'[s].next = j + 1
  BY <1>2
<1>4. i \in Int /\ j \in Int /\ i <= j
  BY DEF StateOK, SpanOK
<1>5. \A t \in Node : t # s => span'[t] = span[t]
  BY <1>2
<1>6. Held(s)
  BY DEF LastValuesHeld
<1>7. written' = [written EXCEPT ![s] = new]
  BY PlainFold DEF Plain!Update
<1>8. written = [t \in Node |-> written[t]]
  BY DEF StateOK
<1>9. written'[s] = new /\ \A t \in Node : t # s => written'[t] = written[t]
  <2> HIDE DEF new
  <2> QED BY <1>7, <1>8
<1> HIDE DEF i, j
<1>10. ASSUME AllObjects(rows, i, j + 1)
       PROVE  HoldsLast(new, rows, i, j + 1)
  <2>1. d \in ObjectDoc /\ AllObjects(rows, i, j)
    BY <1>1, <1>4, <1>10 DEF AllObjects, Live
  <2>2. HoldsLast(written[s], rows, i, j)
    BY <1>6, <2>1 DEF Held, i, j
  <2> QED BY <1>4, <2>1, <2>2, FoldOneMore
<1> HIDE DEF new
<1>11. Held(s)'
  BY <1>2, <1>3, <1>9, <1>10 DEF Held
<1>12. \A t \in Node : t # s => Held(t)'
  BY <1>2, <1>5, <1>9 DEF Held, LastValuesHeld
<1> QED BY <1>11, <1>12 DEF LastValuesHeld

LEMMA CombineHolds ==
  ASSUME KindsStable, NoDocumentIsNull, StateOK, LastValuesHeld,
         NEW source \in Node, NEW target \in Node, Combine(source, target), Plain!Combine(source, target)
  PROVE  LastValuesHeld'
<1> DEFINE i == span[target].first
           j == span[source].first
           k == span[source].next
           new == written'[target]
<1>1. source # target /\ span[target].next = j /\ Moved(target, k)
  BY CombineStep
<1>2. /\ span' = [t \in Node |-> IF t = target THEN span'[target] ELSE span[t]]
      /\ span'[target] = [first |-> i, next |-> k]
      /\ rows' = rows
  BY <1>1 DEF Moved
<1>3. span'[target].first = i /\ span'[target].next = k
  BY <1>2
<1>4. i \in Int /\ j \in Int /\ k \in Int /\ i <= j /\ j <= k
  BY <1>1 DEF StateOK, SpanOK
<1>5. \A t \in Node : t # target => span'[t] = span[t]
  BY <1>2
<1>6. Held(source) /\ Held(target)
  BY DEF LastValuesHeld
<1>7. written = [t \in Node |-> written[t]]
  BY DEF StateOK
<1>8. written' = IF written[source] = SqlNull THEN written
                 ELSE [written EXCEPT ![target] = FoldPlain(written[target], written[source])]
  BY PlainFold DEF Plain!Combine
<1>9. new = IF written[source] = SqlNull THEN written[target]
            ELSE FoldPlain(written[target], written[source])
  BY <1>7, <1>8
<1>10. \A t \in Node : t # target => written'[t] = written[t]
  BY <1>7, <1>8
<1> HIDE DEF i, j, k, new
<1>11. Live(rows, i, k) = Live(rows, i, j) \cup Live(rows, j, k)
  BY <1>4, LiveConcat
<1>12. ASSUME AllObjects(rows, i, k)
       PROVE  HoldsLast(new, rows, i, k)
  <2>1. AllObjects(rows, i, j) /\ AllObjects(rows, j, k)
    BY <1>11, <1>12 DEF AllObjects
  <2>2. HoldsLast(written[target], rows, i, j) /\ HoldsLast(written[source], rows, j, k)
    BY <1>1, <1>6, <2>1 DEF Held, i, j, k
  <2>3. CASE Live(rows, j, k) = {}
    <3>1. new = written[target]
      BY <1>9, <2>2, <2>3 DEF HoldsLast
    <3>2. Live(rows, i, k) = Live(rows, i, j)
      BY <1>11, <2>3
    <3> QED BY <2>2, <3>1, <3>2, LastOfNone DEF HoldsLast
  <2>4. CASE Live(rows, j, k) # {}
    <3> DEFINE d == written[source]
    <3>1. d # SqlNull /\ IsObject(d) /\ Clean(d) /\ Conforms(d) /\ IsLastOf(LeavesOf(d), rows, j, k)
      BY <2>2, <2>4 DEF HoldsLast
    <3>2. IsDocument(d) /\ new = FoldPlain(written[target], d)
      BY <1>9, <3>1 DEF Clean
    <3> HIDE DEF d
    <3>3. HoldsLast(FoldPlain(written[target], d), rows, i, k)
      BY <1>4, <2>2, <2>4, <3>1, <3>2, FoldLater
    <3> QED BY <3>2, <3>3
  <2> QED BY <2>3, <2>4
<1>13. Held(target)'
  BY <1>2, <1>3, <1>12 DEF Held, new
<1>14. \A t \in Node : t # target => Held(t)'
  BY <1>2, <1>5, <1>10 DEF Held, LastValuesHeld
<1> QED BY <1>13, <1>14 DEF LastValuesHeld

LEMMA NextHolds ==
  ASSUME KindsStable, Separate(Lane), NoDocumentIsNull,
         StateOK, StatesSettled, LastValuesHeld, [Next]_vars
  PROVE  LastValuesHeld'
<1>1. CASE UNCHANGED vars
  BY <1>1 DEF vars, LastValuesHeld, Held
<1>2. ASSUME NEW s \in Node, SkipNullRow(s)
      PROVE  LastValuesHeld'
  BY <1>2, SkipNullRowHolds
<1>3. ASSUME NEW s \in Node, Update(s)
      PROVE  LastValuesHeld'
  BY <1>3, UpdateIsPlain, UpdateHolds
<1>4. ASSUME NEW source \in Node, NEW target \in Node, Combine(source, target)
      PROVE  LastValuesHeld'
  BY <1>4, CombineIsPlain, CombineHolds
<1> QED BY <1>1, <1>2, <1>3, <1>4 DEF Next

LEMMA PlainLive ==
  ASSUME NEW s \in Node
  PROVE  Plain!LiveRows(s) = Live(rows, span[s].first, span[s].next)
BY DEF Plain!LiveRows, Live

LEMMA ObjectsAreObjects ==
  ASSUME StateOK, NEW s \in Node, Plain!Objects(s)
  PROVE  AllObjects(rows, span[s].first, span[s].next)
<1> DEFINE i == span[s].first
           j == span[s].next
<1>1. SUFFICES ASSUME NEW k \in Live(rows, i, j) PROVE rows[k] \in ObjectDoc
  BY DEF AllObjects
<1>2. k \in Plain!LiveRows(s)
  BY PlainLive
<1>3. IsObject(rows[k])
  BY <1>2, PlainIsObject DEF Plain!Objects
<1>4. i \in 1 .. j /\ j \in 1 .. Len(rows) + 1 /\ Len(rows) \in Nat /\ DOMAIN rows = 1 .. Len(rows)
  BY DEF StateOK, SpanOK, RowsOK
<1> HIDE DEF i, j
<1>5. k \in DOMAIN rows /\ rows[k] # SqlNull
  BY <1>4 DEF Live
<1> QED BY <1>3, <1>5, RowIsDocument DEF StateOK, ObjectDoc

LEMMA HeldIsTheFold ==
  ASSUME KindsStable, NoDocumentIsNull, StateOK, LastValuesHeld, NEW s \in Node, Plain!Objects(s)
  PROVE  written[s] = Plain!FoldOf(span[s].first, span[s].next)
<1> DEFINE i == span[s].first
           j == span[s].next
<1>1. i \in Int /\ j \in Int /\ i <= j
  BY DEF StateOK, SpanOK
<1>2. AllObjects(rows, i, j)
  BY ObjectsAreObjects
<1>3. HoldsLast(written[s], rows, i, j)
  BY <1>2 DEF LastValuesHeld, Held
<1> HIDE DEF i, j
<1>4. PICK f : IsFold(f, rows, i, j) /\ Plain!FoldOf(i, j) = f[j]
  BY <1>1, FoldOfIs
<1> DEFINE d == j - i
<1>5. d \in Nat /\ i + d = j
  BY <1>1
<1> HIDE DEF d
<1>6. AllObjects(rows, i, i + d) /\ IsFold(f, rows, i, i + d)
  BY <1>2, <1>4, <1>5
<1>7. HoldsLast(f[i + d], rows, i, i + d)
  BY <1>1, <1>5, <1>6, FoldHoldsLast
<1>8. HoldsLast(f[j], rows, i, j)
  BY <1>5, <1>7
<1>9. written[s] = f[j]
  BY <1>1, <1>3, <1>8, HoldsLastIsUnique
<1> QED BY <1>4, <1>9 DEF i, j

LEMMA GreatestIs ==
  ASSUME NEW S, S \subseteq Int, NEW k \in S, \A m \in S : m <= k
  PROVE  Plain!Max(S) = k
<1> DEFINE x == Plain!Max(S)
<1>1. x = CHOOSE y \in S : \A m \in S : y >= m
  BY DEF Plain!Max
<1>2. \A m \in S : k >= m
  OBVIOUS
<1>3. x \in S /\ \A m \in S : x >= m
  <2> HIDE DEF x
  <2> QED BY <1>1, <1>2
<1> HIDE DEF x
<1>4. x = k
  BY <1>3
<1> QED BY <1>4 DEF x

LEMMA HeldIsTheLastValue ==
  ASSUME StateOK, LastValuesHeld, NEW s \in Node, Plain!Objects(s), written[s] # SqlNull
  PROVE  LET given == UNION {Plain!LeafPaths(rows[i]) : i \in Plain!LiveRows(s)}
         IN /\ Plain!LeafPaths(written[s]) = given
            /\ \A path \in given :
                 LET last == Plain!Max({i \in Plain!LiveRows(s) : path \in Plain!LeafPaths(rows[i])})
                 IN written[s][path] = rows[last][path]
<1> DEFINE L == Live(rows, span[s].first, span[s].next)
           v == written[s]
           given == UNION {Plain!LeafPaths(rows[i]) : i \in Plain!LiveRows(s)}
<1>1. HoldsLast(v, rows, span[s].first, span[s].next)
  BY ObjectsAreObjects DEF LastValuesHeld, Held
<1>2. IsLastOf(LeavesOf(v), rows, span[s].first, span[s].next)
  BY <1>1 DEF HoldsLast
<1>3. /\ \A k \in L : \A p \in LeafPaths(rows[k]) : p \in LeafPaths(v)
      /\ \A p \in LeafPaths(v) : \E k \in L :
           /\ p \in LeafPaths(rows[k]) /\ v[p] = rows[k][p]
           /\ \A m \in L : p \in LeafPaths(rows[m]) => m <= k
  BY <1>2 DEF IsLastOf, LeavesOf
<1>4. Plain!LiveRows(s) = L /\ \A doc : Plain!LeafPaths(doc) = LeafPaths(doc)
  BY PlainLive, PlainLeafPaths
<1>5. L \subseteq Int
  BY DEF Live
<1> HIDE DEF L, v
<1>6. given = UNION {LeafPaths(rows[i]) : i \in L}
  BY <1>4
<1> HIDE DEF given
<1>7. given = LeafPaths(v)
  BY <1>3, <1>6
<1>8. ASSUME NEW path \in given
      PROVE  v[path] = rows[Plain!Max({i \in Plain!LiveRows(s) : path \in Plain!LeafPaths(rows[i])})][path]
  <2> DEFINE S == {i \in L : path \in LeafPaths(rows[i])}
  <2>1. PICK k \in L : /\ path \in LeafPaths(rows[k]) /\ v[path] = rows[k][path]
                       /\ \A m \in L : path \in LeafPaths(rows[m]) => m <= k
    BY <1>3, <1>7
  <2>2. k \in S /\ S \subseteq Int /\ \A m \in S : m <= k
    BY <1>5, <2>1
  <2>3. {i \in Plain!LiveRows(s) : path \in Plain!LeafPaths(rows[i])} = S
    BY <1>4
  <2> HIDE DEF S
  <2>4. Plain!Max(S) = k
    BY <2>2, GreatestIs
  <2> QED BY <2>1, <2>3, <2>4
<1> QED BY <1>4, <1>7, <1>8 DEF v, given

\* Whatever the association of the combines, over objects a state would write the
\* fold of its rows in their order, and that holds the last value of every path.
THEOREM DirectResultsAreTheLastValues ==
  ASSUME KindsStable, Separate(Lane), NoDocumentIsNull
  PROVE  Spec => []ResultsAreTheLastValues
<1>1. Init => StatesSettled /\ LastValuesHeld
  BY InitIsSettled, InitIsHeld
<1>2. StateOK /\ StatesSettled /\ LastValuesHeld /\ [Next]_vars => StatesSettled' /\ LastValuesHeld'
  BY NextIsPlain, NextHolds
<1>3. StateOK /\ LastValuesHeld => ResultsAreTheLastValues
  BY HeldIsTheFold, HeldIsTheLastValue
     DEF ResultsAreTheLastValues, Plain!PartialsMatchTheFold, Plain!LastValuePerPath
<1>4. Spec => []StateOK
  BY StatesAreOK
<1> QED BY <1>1, <1>2, <1>3, <1>4, PTL DEF Spec

-----------------------------------------------------------------------------
(* The rows whose lanes are copied. *)

\* The patches that come shredded are objects.
ShreddedPatchesAreObjects ==
  \A list \in ArgumentLists : \A i \in DOMAIN list \ {1} :
    list[i] # PlainType => \A doc \in Arguments(list, i) \ {SqlNull} : IsObject(doc)

Whole(doc) == IsDocument(doc) /\ doc = [p \in DOMAIN doc |-> doc[p]]

LEMMA StripIsWhole ==
  ASSUME NEW patch, IsDocument(patch), IsObject(patch)
  PROVE  Whole(Strip(patch, "Patch")) /\ IsObject(Strip(patch, "Patch"))
<1> DEFINE left == {p \in DOMAIN patch : p = << >> \/ MemberSurvives(patch, p, "Patch")}
<1>1. Strip(patch, "Patch") = Restrict(patch, left)
  BY DEF Strip
<1>2. \A p : p \in left <=> p \in DOMAIN patch /\ (p = << >> \/ patch[p] # Scalar(Null))
  BY DEF MemberSurvives
<1> HIDE DEF left
<1>3. left \subseteq DOMAIN patch /\ << >> \in left
  BY <1>2, DocumentPaths
<1>4. ASSUME NEW p \in left, NEW q \in DOMAIN patch, IsPrefix(q, p)
      PROVE  q \in left
  <2>1. CASE q = p
    BY <2>1, <1>4
  <2>2. CASE q # p
    <3>1. p \in DOMAIN patch /\ q \in Path
      BY <1>2, <1>4, DocumentPaths
    <3>2. patch[q] = Branch
      BY <1>4, <2>2, <3>1, AboveIsBranch
    <3> QED BY <1>2, <1>4, <3>2, NodesDiffer
  <2> QED BY <2>1, <2>2
<1>5. /\ IsDocument(Restrict(patch, left))
      /\ DOMAIN Restrict(patch, left) = left
      /\ \A p \in left : Restrict(patch, left)[p] = patch[p]
  BY <1>3, <1>4, RestrictIsDocument
<1>6. Restrict(patch, left) = [p \in DOMAIN Restrict(patch, left) |-> Restrict(patch, left)[p]]
  BY DEF Restrict
<1> QED BY <1>1, <1>3, <1>5, <1>6 DEF IsObject, Whole

LEMMA FoldStepIsWhole ==
  ASSUME NEW acc, acc = SqlNull \/ Whole(acc), NEW patch, patch = SqlNull \/ Whole(patch)
  PROVE  /\ MergeFoldStep(acc, patch) = SqlNull \/ Whole(MergeFoldStep(acc, patch))
         /\ patch # SqlNull /\ IsObject(patch) => IsObject(MergeFoldStep(acc, patch))
<1>1. CASE patch = SqlNull
  BY <1>1 DEF MergeFoldStep
<1>2. CASE patch # SqlNull /\ ~IsObject(patch)
  BY <1>2 DEF MergeFoldStep
<1>3. CASE patch # SqlNull /\ IsObject(patch) /\ acc # SqlNull /\ IsObject(acc)
  <2>1. MergeFoldStep(acc, patch) = MergeTwoObjects(acc, patch, "Patch")
    BY <1>3 DEF MergeFoldStep
  <2>2. Objects2(acc, patch)
    BY <1>3 DEF Objects2, Whole
  <2>3. IsDocument(MergeTwoObjects(acc, patch, "Patch")) /\ IsObject(MergeTwoObjects(acc, patch, "Patch"))
    BY <2>2, MergeIsDocument
  <2>4. MergeTwoObjects(acc, patch, "Patch")
          = [p \in DOMAIN MergeTwoObjects(acc, patch, "Patch") |-> MergeTwoObjects(acc, patch, "Patch")[p]]
    BY DEF MergeTwoObjects
  <2> QED BY <2>1, <2>3, <2>4 DEF Whole
<1>4. CASE patch # SqlNull /\ IsObject(patch) /\ ~(acc # SqlNull /\ IsObject(acc))
  <2>1. MergeFoldStep(acc, patch) = Strip(patch, "Patch")
    BY <1>4 DEF MergeFoldStep
  <2>2. IsDocument(patch)
    BY <1>4 DEF Whole
  <2> QED BY <1>4, <2>1, <2>2, StripIsWhole
<1> QED BY <1>1, <1>2, <1>3, <1>4

IsResidualFold(f, values, n) ==
  f = [i \in 1 .. n |-> IF i = 1 THEN values[1] ELSE MergeFoldStep(f[i - 1], values[i])]

LEMMA ResidualFoldExists ==
  ASSUME NEW values, NEW n \in Nat
  PROVE  \E f : IsResidualFold(f, values, n)
<1> DEFINE B == {m \in 0 .. n : ~\E f : IsResidualFold(f, values, m)}
<1>1. SUFFICES ASSUME B # {} PROVE FALSE
  OBVIOUS
<1>2. PICK m \in B : \A i \in B : m <= i
  <2> HIDE DEF B
  <2> B \subseteq 0 .. n
    BY DEF B
  <2> QED BY <1>1, Least
<1>3. m # 0
  <2>1. IsResidualFold([i \in 1 .. 0 |-> SqlNull], values, 0)
    BY DEF IsResidualFold
  <2> QED BY <1>2, <2>1
<1>4. PICK v : IsResidualFold(v, values, m - 1)
  <2>1. m - 1 \in 0 .. n /\ ~(m <= m - 1)
    BY <1>2, <1>3
  <2> QED BY <1>2, <2>1
<1> DEFINE last == IF m = 1 THEN values[1] ELSE MergeFoldStep(v[m - 1], values[m])
           w == [i \in 1 .. m |-> IF i = m THEN last ELSE v[i]]
<1>5. m \in Nat \ {0}
  BY <1>2, <1>3
<1>6. IsResidualFold(w, values, m)
  <2>1. ASSUME NEW i \in 1 .. m
        PROVE  w[i] = IF i = 1 THEN values[1] ELSE MergeFoldStep(w[i - 1], values[i])
    <3>1. CASE i = m
      <4>1. w[i] = last /\ (i # 1 => w[i - 1] = v[i - 1])
        BY <1>5, <3>1
      <4>2. last = IF i = 1 THEN values[1] ELSE MergeFoldStep(v[i - 1], values[i])
        BY <3>1
      <4> HIDE DEF w, last
      <4> QED BY <4>1, <4>2
    <3>2. CASE i # m
      <4>1. i \in 1 .. m - 1 /\ w[i] = v[i] /\ (i # 1 => w[i - 1] = v[i - 1])
        BY <1>5, <3>2
      <4>2. v[i] = IF i = 1 THEN values[1] ELSE MergeFoldStep(v[i - 1], values[i])
        BY <1>4, <4>1 DEF IsResidualFold
      <4> HIDE DEF w, last
      <4> QED BY <4>1, <4>2
    <3> QED BY <3>1, <3>2
  <2>2. w = [i \in 1 .. m |-> w[i]]
    OBVIOUS
  <2> HIDE DEF w
  <2>3. [i \in 1 .. m |-> w[i]]
          = [i \in 1 .. m |-> IF i = 1 THEN values[1] ELSE MergeFoldStep(w[i - 1], values[i])]
    BY <2>1
  <2> QED BY <2>2, <2>3 DEF IsResidualFold
<1> QED BY <1>2, <1>6

LEMMA ResidualFoldIsWhole ==
  ASSUME NEW values, NEW n \in Nat \ {0}, DOMAIN values = 1 .. n, Len(values) = n,
         \A i \in 1 .. n : values[i] = SqlNull \/ Whole(values[i])
  PROVE  RunResidualFold(values) = SqlNull \/ Whole(RunResidualFold(values))
<1> DEFINE f == CHOOSE g : IsResidualFold(g, values, n)
<1>1. RunResidualFold(values) = f[n]
  BY DEF RunResidualFold, IsResidualFold
<1>2. IsResidualFold(f, values, n)
  BY ResidualFoldExists
<1> HIDE DEF f
<1>3. \A i \in 1 .. n : f[i] = IF i = 1 THEN values[1] ELSE MergeFoldStep(f[i - 1], values[i])
  BY <1>2 DEF IsResidualFold
<1> DEFINE B == {i \in 1 .. n : ~(f[i] = SqlNull \/ Whole(f[i]))}
<1>4. SUFFICES ASSUME B # {} PROVE FALSE
  BY <1>1
<1>5. PICK m \in B : \A i \in B : m <= i
  <2> HIDE DEF B
  <2> B \subseteq 0 .. n
    BY DEF B
  <2> QED BY <1>4, Least
<1>6. m \in 1 .. n /\ m # 1
  BY <1>3, <1>5
<1>7. m - 1 \in 1 .. n /\ (f[m - 1] = SqlNull \/ Whole(f[m - 1]))
  <2>1. m - 1 \in 1 .. n /\ ~(m <= m - 1)
    BY <1>6
  <2> QED BY <1>5, <2>1
<1>8. f[m] = MergeFoldStep(f[m - 1], values[m]) /\ (values[m] = SqlNull \/ Whole(values[m]))
  BY <1>3, <1>6
<1> HIDE DEF B
<1>9. f[m] = SqlNull \/ Whole(f[m])
  BY <1>7, <1>8, FoldStepIsWhole
<1> QED BY <1>5, <1>9 DEF B

\* A list of argument types.
Typed ==
  /\ Len(arguments) \in Nat \ {0} /\ DOMAIN arguments = 1 .. Len(arguments)
  /\ \A i \in DOMAIN arguments :
       /\ arguments[i] = PlainType \/ arguments[i] = ShreddedType(arguments[i].lanes)
       /\ RowType(arguments[i].lanes)

LEMMA ListsAreTyped ==
  ASSUME arguments \in ArgumentLists
  PROVE  Typed
BY ArgumentAssumption DEF Typed

LEMMA ArgumentTypes ==
  ASSUME Typed
  PROVE  /\ Len(arguments) \in Nat \ {0} /\ DOMAIN arguments = 1 .. Len(arguments)
         /\ \A i \in DOMAIN arguments :
              /\ arguments[i] = PlainType \/ arguments[i] = ShreddedType(arguments[i].lanes)
              /\ RowType(arguments[i].lanes)
              /\ Lanes(arguments[i]) \subseteq Path \ {<< >>}
BY DEF Typed, RowType, Lanes, Path

LEMMA LastDeclaring ==
  ASSUME Typed, NEW l \in ResultLanes
  PROVE  /\ Max(Declaring(l)) \in Declaring(l)
         /\ ResultType.lanes[l] = arguments[Max(Declaring(l))].lanes[l]
<1>1. l \in UNION {Lanes(arguments[i]) : i \in DOMAIN arguments}
      /\ ResultType.lanes[l] = arguments[Max(Declaring(l))].lanes[l]
  BY DEF ResultLanes, ResultType, ShreddedType, Lanes
<1>2. Declaring(l) # {} /\ Declaring(l) \subseteq 0 .. Len(arguments)
  BY <1>1, ArgumentTypes DEF Declaring
<1>3. Len(arguments) \in Nat
  BY ArgumentTypes
<1> QED BY <1>1, <1>2, <1>3, Greatest

\* The result is of a row type, with the lanes of all arguments.
LEMMA ResultIsARowType ==
  ASSUME Typed
  PROVE  /\ RowType(ResultType.lanes)
         /\ DOMAIN ResultType.lanes = ResultLanes
         /\ ResultLanes \subseteq Path \ {<< >>}
         /\ \A i \in DOMAIN arguments : Lanes(arguments[i]) \subseteq ResultLanes
<1>1. DOMAIN ResultType.lanes = ResultLanes
  BY DEF ResultLanes, Lanes
<1>2. ResultLanes = UNION {Lanes(arguments[i]) : i \in DOMAIN arguments}
  BY DEF ResultLanes, ResultType, ShreddedType, Lanes
<1>3. ResultLanes \subseteq Path \ {<< >>}
  BY <1>2, ArgumentTypes
<1>4. ASSUME NEW l \in ResultLanes
      PROVE  Null \notin ResultType.lanes[l]
  <2>1. Max(Declaring(l)) \in DOMAIN arguments /\ l \in Lanes(arguments[Max(Declaring(l))])
        /\ ResultType.lanes[l] = arguments[Max(Declaring(l))].lanes[l]
    BY LastDeclaring DEF Declaring
  <2> QED BY <2>1, ArgumentTypes DEF RowType, Lanes
<1> QED BY <1>1, <1>2, <1>3, <1>4 DEF RowType, Path

-----------------------------------------------------------------------------
(* The states of a call. *)

InputRows(i) == {RowOf(arguments[i].lanes, doc) : doc \in Arguments(arguments, i)}

\* What is read are written rows, and their fold is a document; one that is not
\* an object comes of a plain argument, or of a lone row without a lane.
MergeOK ==
  /\ arguments \in ArgumentLists
  /\ inputs \in Seq(UNION {InputRows(i) : i \in DOMAIN arguments})
  /\ Len(inputs) <= Len(arguments)
  /\ \A i \in DOMAIN inputs : inputs[i] \in InputRows(i)
  /\ folded = SqlNull \/ Whole(folded)
  /\ folded # SqlNull /\ ~IsObject(folded) =>
       \/ PlainInputs # {}
       \/ Len(inputs) = 1 /\ inputs[1] # SqlNull /\ DOMAIN inputs[1].lane = {}
  /\ CopiedLanesReadTrue

LEMMA InputIsWritten ==
  ASSUME arguments \in ArgumentLists, NEW i \in DOMAIN arguments, NEW row \in InputRows(i), row # SqlNull
  PROVE  \E doc \in Arguments(arguments, i) \ {SqlNull} :
           /\ Whole(doc)
           /\ row = Shred(arguments[i].lanes, doc)
<1>1. PICK doc \in Arguments(arguments, i) : row = RowOf(arguments[i].lanes, doc)
  BY DEF InputRows
<1>2. doc # SqlNull /\ row = Shred(arguments[i].lanes, doc)
  BY <1>1 DEF RowOf
<1>3. Whole(doc)
  BY <1>2, ArgumentAssumption DEF Whole
<1> QED BY <1>2, <1>3

\* What a written row is made of.
LEMMA WrittenRow ==
  ASSUME NEW type, RowType(type), NEW doc, Whole(doc)
  PROVE  LET row == Shred(type, doc)
         IN /\ Whole(row.residual)
            /\ IsObject(row.residual) <=> IsObject(doc)
            /\ ~IsObject(doc) => DOMAIN row.lane = {}
            /\ DOMAIN row.lane \subseteq DOMAIN type
            /\ \A l \in DOMAIN row.lane : row.lane[l] # Null
            /\ Reconstruct(row) = doc
<1> DEFINE row == Shred(type, doc)
           taken == Stripped(type, doc)
<1>0. IsDocument(doc) /\ doc = [p \in DOMAIN doc |-> doc[p]]
  BY DEF Whole
<1>1. /\ IsDocument(row.residual)
      /\ IsObject(row.residual) <=> IsObject(doc)
      /\ row.lane = [l \in taken |-> doc[l].value]
      /\ DOMAIN row.lane = taken
  BY <1>0, ShredParts
<1>2. Reconstruct(row) = doc
  BY <1>0, ShredReconstructs
<1>3. /\ taken \subseteq DOMAIN type
      /\ taken \subseteq LeafPaths(doc)
      /\ \A l \in taken : doc[l] = Scalar(doc[l].value)
      /\ ~IsObject(doc) => taken = {}
  BY <1>0, StrippedAreLeaves
<1>4. row.residual = IF IsObject(doc) THEN Without(doc, taken) ELSE doc
  BY DEF Shred
<1>5. Without(doc, taken) = [p \in DOMAIN Without(doc, taken) |-> Without(doc, taken)[p]]
  BY DEF Without, Restrict
<1>6. Whole(row.residual)
  <2> HIDE DEF taken, row
  <2> QED BY <1>0, <1>1, <1>4, <1>5 DEF Whole
<1>7. ASSUME NEW l \in taken PROVE row.lane[l] # Null
  <2>1. row.lane[l] = doc[l].value /\ doc[l] # Scalar(Null)
    BY <1>1, <1>3 DEF LeafPaths
  <2> QED BY <1>3, <2>1
<1> QED BY <1>1, <1>2, <1>3, <1>6, <1>7

\* What is known of a call by its rows and their fold alone.
RowsRead ==
  /\ Typed
  /\ Len(inputs) \in Nat /\ DOMAIN inputs = 1 .. Len(inputs) /\ Len(inputs) <= Len(arguments)
  /\ \A i \in DOMAIN inputs : inputs[i] # SqlNull =>
       \E doc : doc # SqlNull /\ Whole(doc) /\ inputs[i] = Shred(arguments[i].lanes, doc)
  /\ folded = SqlNull \/ Whole(folded)
  /\ folded # SqlNull /\ ~IsObject(folded) =>
       \/ PlainInputs # {}
       \/ Len(inputs) = 1 /\ inputs[1] # SqlNull /\ DOMAIN inputs[1].lane = {}

LEMMA RowsAreRead ==
  ASSUME MergeOK
  PROVE  RowsRead
<1>1. /\ arguments \in ArgumentLists
      /\ inputs \in Seq(UNION {InputRows(k) : k \in DOMAIN arguments})
      /\ Len(inputs) <= Len(arguments)
      /\ \A i \in DOMAIN inputs : inputs[i] \in InputRows(i)
  BY DEF MergeOK
<1>2. Typed
  BY <1>1, ListsAreTyped
<1>3. Len(inputs) \in Nat /\ DOMAIN inputs = 1 .. Len(inputs)
  BY <1>1
<1>4. DOMAIN inputs \subseteq DOMAIN arguments
  BY <1>1, <1>2, <1>3, ArgumentTypes
<1>5. ASSUME NEW i \in DOMAIN inputs, inputs[i] # SqlNull
      PROVE  \E doc : doc # SqlNull /\ Whole(doc) /\ inputs[i] = Shred(arguments[i].lanes, doc)
  <2> DEFINE row == inputs[i]
  <2>1. i \in DOMAIN arguments /\ row \in InputRows(i) /\ row # SqlNull
    BY <1>1, <1>4, <1>5
  <2> HIDE DEF row
  <2>2. \E doc \in Arguments(arguments, i) \ {SqlNull} : Whole(doc) /\ row = Shred(arguments[i].lanes, doc)
    BY <1>1, <2>1, InputIsWritten
  <2> QED BY <2>2 DEF row
<1> QED BY <1>1, <1>2, <1>3, <1>5 DEF RowsRead, MergeOK

LEMMA MergeInitOK == MergeInit => MergeOK
<1> SUFFICES ASSUME MergeInit PROVE MergeOK
  OBVIOUS
<1>1. inputs = << >> /\ Len(inputs) = 0 /\ DOMAIN inputs = {}
  BY DEF MergeInit
<1>2. arguments \in ArgumentLists /\ folded = SqlNull /\ result = Pending
  BY DEF MergeInit
<1>3. Len(inputs) <= Len(arguments)
  BY <1>1, <1>2, ListsAreTyped, ArgumentTypes
<1> QED BY <1>1, <1>2, <1>3 DEF MergeOK, CopiedLanesReadTrue

LEMMA ReadOK ==
  ASSUME ShreddedPatchesAreObjects, MergeOK,
         NEW i \in DOMAIN arguments, NEW doc \in Arguments(arguments, i), Read(i, doc)
  PROVE  MergeOK'
<1> DEFINE row == RowOf(arguments[i].lanes, doc)
           residual == IF row = SqlNull THEN SqlNull ELSE row.residual
           InputSet == UNION {InputRows(k) : k \in DOMAIN arguments}
<1>1. /\ i = Len(inputs) + 1
      /\ inputs' = Append(inputs, row)
      /\ folded' = IF i = 1 THEN residual ELSE MergeFoldStep(folded, residual)
      /\ arguments' = arguments /\ result' = result
  BY DEF Read
<1>2. /\ arguments \in ArgumentLists /\ inputs \in Seq(InputSet) /\ Len(inputs) <= Len(arguments)
      /\ \A k \in DOMAIN inputs : inputs[k] \in InputRows(k)
      /\ (folded = SqlNull \/ Whole(folded))
  BY DEF MergeOK
<1>3. row \in InputRows(i) /\ row \in InputSet
  BY DEF InputRows
<1>4. row # SqlNull => /\ doc # SqlNull /\ row = Shred(arguments[i].lanes, doc) /\ Whole(doc)
                       /\ RowType(arguments[i].lanes)
  BY <1>2, ArgumentAssumption DEF RowOf, Whole
<1>5. row # SqlNull => /\ Whole(row.residual)
                       /\ IsObject(row.residual) <=> IsObject(doc)
                       /\ ~IsObject(doc) => DOMAIN row.lane = {}
  BY <1>4, WrittenRow
<1>6. residual = SqlNull \/ Whole(residual)
  BY <1>5
<1> HIDE DEF InputSet
<1>7. /\ inputs' \in Seq(InputSet)
      /\ Len(inputs') = i
      /\ DOMAIN inputs' = 1 .. i
      /\ \A k \in 1 .. i : inputs'[k] = IF k = i THEN row ELSE inputs[k]
  <2> HIDE DEF row
  <2> QED BY <1>1, <1>2, <1>3
<1>8. i <= Len(arguments) /\ i \in Nat
  BY <1>2, ListsAreTyped, ArgumentTypes
<1>9. \A k \in DOMAIN inputs' : inputs'[k] \in InputRows(k)
  <2> HIDE DEF row
  <2>1. \A k \in 1 .. i : k # i => k \in DOMAIN inputs
    BY <1>1, <1>2, <1>8
  <2> QED BY <1>2, <1>3, <1>7, <2>1
<1>10. folded' = SqlNull \/ Whole(folded')
  <2>1. MergeFoldStep(folded, residual) = SqlNull \/ Whole(MergeFoldStep(folded, residual))
    <3> HIDE DEF residual, row
    <3> QED BY <1>2, <1>6, FoldStepIsWhole
  <2> HIDE DEF residual, row
  <2> QED BY <1>1, <1>6, <2>1
<1>11. ASSUME folded' # SqlNull, ~IsObject(folded'), PlainInputs = {}
       PROVE  Len(inputs') = 1 /\ inputs'[1] # SqlNull /\ DOMAIN inputs'[1].lane = {}
  <2>1. CASE i = 1
    <3>1. folded' = residual /\ inputs'[1] = row
      BY <1>1, <1>7, <2>1
    <3>2. row # SqlNull /\ ~IsObject(row.residual)
      BY <1>11, <3>1
    <3> QED BY <1>5, <1>7, <2>1, <3>1, <3>2
  <2>2. CASE i # 1
    <3>1. folded' = MergeFoldStep(folded, residual)
      BY <1>1, <2>2
    <3>2. residual # SqlNull
      <4> HIDE DEF residual
      <4> QED BY <1>11, <3>1 DEF MergeFoldStep
    <3>3. row # SqlNull /\ residual = row.residual
      BY <3>2
    <3>4. arguments[i] # PlainType
      BY <1>11 DEF PlainInputs
    <3>5. doc # SqlNull /\ IsObject(doc)
      <4>1. doc # SqlNull
        BY <1>4, <3>3
      <4> QED BY <1>2, <2>2, <3>4, <4>1 DEF ShreddedPatchesAreObjects
    <3>6. IsObject(residual)
      BY <1>5, <3>3, <3>5
    <3>7. IsObject(MergeFoldStep(folded, residual))
      <4> HIDE DEF residual, row
      <4> QED BY <1>2, <1>6, <3>2, <3>6, FoldStepIsWhole
    <3> QED BY <1>11, <3>1, <3>7
  <2> QED BY <2>1, <2>2
<1>12. (folded # SqlNull /\ ~IsObject(folded) =>
         \/ PlainInputs # {}
         \/ Len(inputs) = 1 /\ inputs[1] # SqlNull /\ DOMAIN inputs[1].lane = {})'
  BY <1>1, <1>11 DEF PlainInputs, IsObject
<1>13. (arguments \in ArgumentLists)' /\ (Len(inputs) <= Len(arguments))'
  BY <1>1, <1>2, <1>7, <1>8
<1>14. (inputs \in Seq(UNION {InputRows(k) : k \in DOMAIN arguments}))'
  BY <1>1, <1>7 DEF InputRows, InputSet
<1>15. (\A k \in DOMAIN inputs : inputs[k] \in InputRows(k))'
  BY <1>1, <1>9 DEF InputRows
<1>16. (folded = SqlNull \/ Whole(folded))'
  BY <1>10 DEF Whole, IsDocument
<1>17. CopiedLanesReadTrue'
  BY <1>1 DEF MergeOK, CopiedLanesReadTrue, ClearBitsAreTrue, ResultLanes, ResultType, Declaring, Lanes,
              ShreddedType, BareRead, PathRead, Reconstruct
<1> QED BY <1>12, <1>13, <1>14, <1>15, <1>16, <1>17 DEF MergeOK

-----------------------------------------------------------------------------
(* The two ways to write the result. *)

\* Lanes laid over a residual with nothing on their paths are what a read finds.
LEMMA CopiedRowReadsTrue ==
  ASSUME NEW row, IsDocument(row.residual), IsObject(row.residual),
         NEW read, read \subseteq Path \ {<< >>}, Separate(read),
         DOMAIN row.lane \subseteq read,
         \A l \in DOMAIN row.lane : row.lane[l] # Null,
         \A l \in read : l \notin DOMAIN row.residual /\ ~Blocked(row.residual, l),
         NEW l \in read
  PROVE  BareRead(row, l) = PathRead(Reconstruct(row), l)
<1> DEFINE r == row.residual
           lane == row.lane
           patch == EmitShredPatchObject(lane)
           v == MergeTwoObjects(r, patch, "Overlay")
<1>1. Reconstruct(row) = v
  BY DEF Reconstruct
<1>2. BareRead(row, l) = IF l \in DOMAIN lane THEN Leaf(lane[l]) ELSE Leaf(Null)
  BY DEF BareRead
<1> HIDE DEF r, lane
<1>3. /\ DOMAIN lane \subseteq Path \ {<< >>}
      /\ Separate(DOMAIN lane)
      /\ \A m \in DOMAIN lane : m \in read /\ lane[m] # Null
  BY DEF Separate, lane
<1>4. /\ \A p : p \in DOMAIN patch <=> p = << >> \/ (p \in Path /\ \E m \in DOMAIN lane : IsPrefix(p, m))
      /\ \A p \in DOMAIN patch : patch[p] = IF p \in DOMAIN lane THEN Scalar(lane[p]) ELSE Branch
      /\ IsDocument(patch)
      /\ IsObject(patch)
  BY <1>3, EmittedLanes
<1>5. Full(patch)
  BY <1>3, EmittedIsFull
<1>6. IsDocument(r) /\ IsObject(r) /\ l \notin DOMAIN r /\ ~Blocked(r, l)
  BY DEF r
<1>7. Objects2(r, patch)
  BY <1>4, <1>6 DEF Objects2
<1> HIDE DEF patch, v
<1>8. DOMAIN v = DOMAIN r \cup {p \in DOMAIN patch : p \notin DOMAIN r /\ ~Blocked(r, p)}
  BY <1>5, <1>7, OverlayDomain DEF v
<1>9. \A p \in DOMAIN v : v[p] = IF p \in DOMAIN r THEN r[p] ELSE patch[p]
  BY <1>7, OverlayNode DEF v
<1>10. IsDocument(v)
  BY <1>7, MergeIsDocument DEF v
<1>11. l \in Path /\ l # << >>
  OBVIOUS
<1>12. CASE l \in DOMAIN lane
  <2>1. l \in DOMAIN patch /\ patch[l] = Scalar(lane[l])
    BY <1>4, <1>11, <1>12, PrefixReflexive
  <2>2. l \in DOMAIN v /\ v[l] = Scalar(lane[l])
    BY <1>6, <1>8, <1>9, <2>1
  <2>3. At(v, l) = Leaf(lane[l])
    BY <1>10, <2>2, LeafAt
  <2> QED BY <1>1, <1>2, <1>12, <2>2, <2>3 DEF PathRead, Exists
<1>13. CASE l \notin DOMAIN lane
  <2>1. l \notin DOMAIN patch
    <3>1. ASSUME NEW m \in DOMAIN lane, IsPrefix(l, m) PROVE FALSE
      BY <1>3, <1>13, <3>1 DEF Separate
    <3> QED BY <1>4, <1>11, <3>1
  <2>2. l \notin DOMAIN v
    BY <1>6, <1>8, <2>1
  <2> QED BY <1>1, <1>2, <1>13, <2>2 DEF PathRead, Exists
<1> QED BY <1>12, <1>13

\* Where the residual hits no lane there is nothing at its path or above it.
LEMMA NotHit ==
  ASSUME NEW residual, IsDocument(residual), IsObject(residual), NEW l \in Path, l # << >>,
         ~ResidualHitsShred(residual, l)
  PROVE  l \notin DOMAIN residual /\ ~Blocked(residual, l)
<1>1. CASE Len(l) = 1
  <2>1. l \notin DOMAIN residual
    BY <1>1 DEF ResidualHitsShred, Exists
  <2>2. ASSUME NEW q \in DOMAIN residual, residual[q] # Branch, IsPrefix(q, l), q # l
        PROVE  FALSE
    <3>1. q \in Path
      BY DocumentPaths
    <3>2. Len(q) <= 1 /\ Len(q) \in Nat
      BY <1>1, <2>2, <3>1, PrefixByItems DEF Path
    <3>3. CASE Len(q) = 0
      <4>1. q = << >>
        BY <3>1, <3>3 DEF Path
      <4> QED BY <2>2, <4>1 DEF IsObject
    <3>4. CASE Len(q) = 1
      <4>1. q[1] = l[1]
        BY <2>2, <3>1, <3>4, PrefixByItems
      <4>2. q = l
        BY <1>1, <3>1, <3>4, <4>1 DEF Path
      <4> QED BY <2>2, <4>2
    <3>5. Len(q) = 0 \/ Len(q) = 1
      BY <3>2
    <3> QED BY <3>3, <3>4, <3>5
  <2> QED BY <2>1, <2>2 DEF Blocked
<1>2. CASE Len(l) # 1
  <2>1. ClassifyResidualPath(residual, l).outcome = "Absent"
    BY <1>2 DEF ResidualHitsShred
  <2>2. ClassifyResidualPath(residual, l).outcome # "Present"
        /\ ClassifyResidualPath(residual, l).outcome # "NonObjectPrefix"
    BY <2>1
  <2>3. l \notin DOMAIN residual
    BY <2>2, Present
  <2>4. ~Blocked(residual, l)
    BY <2>2, BlockedIsNonObjectPrefix
  <2> QED BY <2>3, <2>4
<1> QED BY <1>1, <1>2

\* The lanes that are copied.
Copied ==
  [l \in {m \in ResultLanes : Candidates(m) # {}} |-> inputs[Max(Candidates(l))].lane[l]]

LEMMA CopiedValues ==
  ASSUME RowsRead, AllRead, NEW l \in DOMAIN Copied
  PROVE  /\ l \in ResultLanes
         /\ Copied[l] # Null
         /\ \E i \in DOMAIN inputs : inputs[i] # SqlNull /\ l \in DOMAIN inputs[i].lane
<1>1. Typed
  BY DEF RowsRead
<1>2. Len(arguments) \in Nat /\ DOMAIN arguments = 1 .. Len(arguments)
  BY <1>1, ArgumentTypes
<1>3. DOMAIN inputs = DOMAIN arguments
  BY <1>2 DEF AllRead, RowsRead
<1> DEFINE k == Max(Candidates(l))
<1>4. l \in ResultLanes /\ Candidates(l) # {} /\ Copied[l] = inputs[k].lane[l]
  BY DEF Copied
<1>5. k \in Candidates(l)
  <2>1. Candidates(l) \subseteq 0 .. Len(arguments)
    BY <1>2 DEF Candidates
  <2> QED BY <1>2, <1>4, <2>1, Greatest
<1> HIDE DEF k
<1>6. k \in DOMAIN arguments /\ k \in DOMAIN inputs /\ inputs[k] # SqlNull /\ l \in DOMAIN inputs[k].lane
  BY <1>3, <1>5 DEF Candidates, HoldsLane
<1>7. PICK doc : doc # SqlNull /\ Whole(doc) /\ inputs[k] = Shred(arguments[k].lanes, doc)
  BY <1>6 DEF RowsRead
<1>8. RowType(arguments[k].lanes)
  BY <1>1, <1>6, ArgumentTypes
<1>9. inputs[k].lane[l] # Null
  BY <1>6, <1>7, <1>8, WrittenRow
<1> QED BY <1>4, <1>6, <1>9

LEMMA CopiedRowsReadTrue ==
  ASSUME RowsRead, CopyLanes
  PROVE  CopiedLanesReadTrue'
<1>1. /\ AllRead /\ FastViable /\ ~RowConflict
      /\ arguments' = arguments /\ inputs' = inputs /\ folded' = folded
      /\ result' = IF folded = SqlNull THEN SqlNull
                   ELSE [residual |-> folded, lane |-> Copied, spilled |-> {}]
  BY DEF CopyLanes, CanCopyLanes, Copied
<1>2. Typed /\ (folded = SqlNull \/ Whole(folded))
  BY DEF RowsRead
<1>3. ResultLanes \subseteq Path \ {<< >>} /\ Separate(ResultLanes)
  BY <1>1, <1>2, ResultIsARowType DEF FastViable, Separate
<1>4. \A l \in DOMAIN Copied : l \in ResultLanes /\ Copied[l] # Null
  BY <1>1, CopiedValues
<1>5. ASSUME folded # SqlNull, NEW l \in ResultLanes
      PROVE  BareRead(result', l) = PathRead(Reconstruct(result'), l)
  <2>1. result'.residual = folded /\ result'.lane = Copied
    BY <1>1, <1>5
  <2>2. ~ResidualHitsShred(folded, l) /\ (PlainInputs # {} => IsObject(folded))
        /\ \A m \in ResultLanes : ~ResidualHitsShred(folded, m)
    BY <1>1, <1>5 DEF RowConflict
  <2>3. IsDocument(folded)
    BY <1>2, <1>5 DEF Whole
  <2> DEFINE row == result'
  <2>4. CASE IsObject(folded)
    <3>1. \A m \in ResultLanes : m \notin DOMAIN folded /\ ~Blocked(folded, m)
      BY <1>3, <2>2, <2>3, <2>4, NotHit
    <3>2. IsDocument(row.residual) /\ IsObject(row.residual)
          /\ DOMAIN row.lane \subseteq ResultLanes
      BY <1>4, <2>1, <2>3, <2>4
    <3>3. \A m \in DOMAIN row.lane : row.lane[m] # Null
      BY <1>4, <2>1
    <3>4. \A m \in ResultLanes : m \notin DOMAIN row.residual /\ ~Blocked(row.residual, m)
      BY <2>1, <3>1
    <3> HIDE DEF row
    <3>5. BareRead(row, l) = PathRead(Reconstruct(row), l)
      BY <1>3, <3>2, <3>3, <3>4, CopiedRowReadsTrue
    <3> QED BY <3>5 DEF row
  <2>5. CASE ~IsObject(folded)
    <3>1. Len(inputs) = 1 /\ DOMAIN inputs[1].lane = {}
      BY <1>5, <2>2, <2>5 DEF RowsRead
    <3>2. DOMAIN inputs = {1}
      BY <3>1 DEF RowsRead
    <3>3. l \notin DOMAIN Copied
      BY <1>1, <3>1, <3>2, CopiedValues
    <3>4. Reconstruct(row) = folded
      BY <2>1, <2>5 DEF Reconstruct
    <3>5. l \notin DOMAIN folded
      BY <1>3, <2>3, <2>5, DocumentPaths, RootIsPrefix, NothingBelowALeaf DEF IsObject
    <3> QED BY <2>1, <3>3, <3>4, <3>5 DEF BareRead, PathRead, Exists
  <2> QED BY <2>4, <2>5
<1>6. ResultLanes' = ResultLanes
  BY <1>1 DEF ResultLanes, ResultType, Declaring, Lanes, ShreddedType
<1>7. SUFFICES ASSUME result' # Pending, result' # SqlNull, NEW l \in ResultLanes
               PROVE  BareRead(result', l) = PathRead(Reconstruct(result'), l)
  BY <1>6 DEF CopiedLanesReadTrue, ClearBitsAreTrue, BareRead, PathRead, Reconstruct
<1>8. folded # SqlNull
  BY <1>1, <1>7
<1> QED BY <1>5, <1>8

LEMMA CopyLanesOK ==
  ASSUME MergeOK, CopyLanes
  PROVE  MergeOK'
<1>1. arguments' = arguments /\ inputs' = inputs /\ folded' = folded
  BY DEF CopyLanes
<1>2. CopiedLanesReadTrue'
  BY RowsAreRead, CopiedRowsReadTrue
<1> QED BY <1>1, <1>2 DEF MergeOK, InputRows, PlainInputs, Whole, IsDocument, IsObject

LEMMA ReshreddedRowsReadTrue ==
  ASSUME RowsRead, Reshred
  PROVE  CopiedLanesReadTrue'
<1> DEFINE values == [i \in DOMAIN inputs |-> DocumentOf(inputs[i])]
           n == Len(inputs)
           merged == RunResidualFold(values)
<1>1. /\ AllRead
      /\ arguments' = arguments /\ inputs' = inputs /\ folded' = folded
      /\ result' = RowOf(ResultType.lanes, merged)
  BY DEF Reshred
<1>2. Typed
  BY DEF RowsRead
<1>3. /\ n = Len(arguments) /\ n \in Nat \ {0}
      /\ DOMAIN inputs = 1 .. n /\ DOMAIN arguments = 1 .. n
  BY <1>1, <1>2, ArgumentTypes DEF AllRead, RowsRead
<1>4. ASSUME NEW i \in 1 .. n
      PROVE  values[i] = SqlNull \/ Whole(values[i])
  <2>1. values[i] = DocumentOf(inputs[i])
    BY <1>3
  <2>2. CASE inputs[i] = SqlNull
    BY <2>1, <2>2 DEF DocumentOf
  <2>3. CASE inputs[i] # SqlNull
    <3>1. PICK doc : doc # SqlNull /\ Whole(doc) /\ inputs[i] = Shred(arguments[i].lanes, doc)
      BY <1>3, <2>3 DEF RowsRead
    <3>2. RowType(arguments[i].lanes)
      BY <1>2, <1>3, ArgumentTypes
    <3>3. Reconstruct(inputs[i]) = doc
      BY <3>1, <3>2, WrittenRow
    <3> QED BY <2>1, <2>3, <3>1, <3>3 DEF DocumentOf
  <2> QED BY <2>2, <2>3
<1>5. DOMAIN values = 1 .. n /\ Len(values) = n
  BY <1>3
<1>6. merged = SqlNull \/ Whole(merged)
  <2> HIDE DEF values
  <2> QED BY <1>3, <1>4, <1>5, ResidualFoldIsWhole
<1> HIDE DEF merged
<1>7. RowType(ResultType.lanes) /\ DOMAIN ResultType.lanes = ResultLanes
  BY <1>2, ResultIsARowType
<1>8. merged # SqlNull => ClearBitsAreTrue(ResultLanes, Shred(ResultType.lanes, merged))
  <2>1. SUFFICES ASSUME merged # SqlNull
                 PROVE  ClearBitsAreTrue(ResultLanes, Shred(ResultType.lanes, merged))
    OBVIOUS
  <2>2. IsDocument(merged) /\ merged = [p \in DOMAIN merged |-> merged[p]]
    BY <1>6, <2>1 DEF Whole
  <2> QED BY <1>7, <2>2, ShreddedReadsTrue
<1>9. ResultLanes' = ResultLanes
  BY <1>1 DEF ResultLanes, ResultType, Declaring, Lanes, ShreddedType
<1>10. SUFFICES ASSUME result' # Pending, result' # SqlNull
                PROVE  ClearBitsAreTrue(ResultLanes, result')
  BY <1>9 DEF CopiedLanesReadTrue, ClearBitsAreTrue, BareRead, PathRead, Reconstruct
<1>11. merged # SqlNull /\ result' = Shred(ResultType.lanes, merged)
  BY <1>1, <1>10 DEF RowOf
<1> QED BY <1>8, <1>11

LEMMA ReshredOK ==
  ASSUME MergeOK, Reshred
  PROVE  MergeOK'
<1>1. arguments' = arguments /\ inputs' = inputs /\ folded' = folded
  BY DEF Reshred
<1>2. CopiedLanesReadTrue'
  BY RowsAreRead, ReshreddedRowsReadTrue
<1> QED BY <1>1, <1>2 DEF MergeOK, InputRows, PlainInputs, Whole, IsDocument, IsObject

LEMMA MergeNextOK ==
  ASSUME ShreddedPatchesAreObjects, MergeOK, [MergeNext]_mergeVars
  PROVE  MergeOK'
<1>1. CASE \E i \in DOMAIN arguments : \E doc \in Arguments(arguments, i) : Read(i, doc)
  <2>1. PICK i \in DOMAIN arguments : \E doc \in Arguments(arguments, i) : Read(i, doc)
    BY <1>1
  <2>2. PICK doc \in Arguments(arguments, i) : Read(i, doc)
    BY <2>1
  <2> QED BY <2>2, ReadOK
<1>2. CASE CopyLanes
  BY <1>2, CopyLanesOK
<1>3. CASE Reshred
  BY <1>3, ReshredOK
<1>4. CASE UNCHANGED mergeVars
  <2>1. arguments' = arguments /\ inputs' = inputs /\ folded' = folded /\ result' = result
    BY <1>4 DEF mergeVars
  <2>2. CopiedLanesReadTrue'
    BY <2>1 DEF MergeOK, CopiedLanesReadTrue, ClearBitsAreTrue, ResultLanes, ResultType, Declaring, Lanes,
                ShreddedType, BareRead, PathRead, Reconstruct
  <2> QED BY <2>1, <2>2 DEF MergeOK, InputRows, PlainInputs, Whole, IsDocument, IsObject
<1> QED BY <1>1, <1>2, <1>3, <1>4 DEF MergeNext

\* A lane of the result of jsono_merge_patch whose spill bit is clear can be
\* read without the residual, whether the lanes were copied or the row was
\* reshredded, for any row types, documents and number of arguments, as long as
\* the patches that come shredded are objects.
THEOREM CopiedLanes ==
  ASSUME ShreddedPatchesAreObjects
  PROVE  MergeSpec => []CopiedLanesReadTrue
<1>1. MergeInit => MergeOK
  BY MergeInitOK
<1>2. MergeOK /\ [MergeNext]_mergeVars => MergeOK'
  BY MergeNextOK
<1>3. MergeOK => CopiedLanesReadTrue
  BY DEF MergeOK
<1> QED BY <1>1, <1>2, <1>3, PTL DEF MergeSpec

-----------------------------------------------------------------------------
(* The residual fold is the patch of RFC 7396. *)

LEMMA MergeIsPatch ==
  ASSUME NEW a, NEW b, Objects2(a, b)
  PROVE  MergeTwoObjects(a, b, "Patch") = MergePatch(a, b)
<1> DEFINE m == MergeTwoObjects(a, b, "Patch")
           put == {p \in DOMAIN b : b[p] # Scalar(Null)}
           left == {p \in DOMAIN a : \A q \in Prefixes(p) \cap DOMAIN b : b[q] = Branch}
           w == [p \in left \cup put |-> IF p \in put THEN b[p] ELSE a[p]]
<1>1. MergePatch(a, b) = w
  BY DEF MergePatch, Objects2
<1>2. /\ IsDocument(a) /\ IsObject(a) /\ IsDocument(b) /\ IsObject(b)
      /\ DOMAIN a \subseteq Path /\ DOMAIN b \subseteq Path
  BY DocumentPaths DEF Objects2
<1>3. /\ DOMAIN m = (Nested(a, b) \cup First(a, b, "Patch")) \cup Second(a, b, "Patch")
      /\ \A p \in DOMAIN m : m[p] = IF p \in Second(a, b, "Patch") THEN b[p] ELSE a[p]
  <2>1. DOMAIN m = (Nested(a, b) \cup First(a, b, "Patch")) \cup Second(a, b, "Patch")
    BY MergeDomain
  <2>2. ASSUME NEW p \in DOMAIN m PROVE m[p] = IF p \in Second(a, b, "Patch") THEN b[p] ELSE a[p]
    BY MergeNode
  <2> QED BY <2>1, <2>2
<1>4. m = [p \in DOMAIN m |-> m[p]]
  BY DEF MergeTwoObjects
<1>5. /\ \A p : p \in put <=> p \in DOMAIN b /\ b[p] # Scalar(Null)
      /\ \A p : p \in left <=> p \in DOMAIN a /\ \A q \in DOMAIN b : IsPrefix(q, p) => b[q] = Branch
  <2>1. ASSUME NEW p \in DOMAIN a
        PROVE  (\A q \in Prefixes(p) \cap DOMAIN b : b[q] = Branch)
                 <=> (\A q \in DOMAIN b : IsPrefix(q, p) => b[q] = Branch)
    BY <1>2, PrefixesArePrefixes
  <2> QED BY <2>1
<1>6. /\ DOMAIN w = left \cup put
      /\ \A p \in left \cup put : w[p] = IF p \in put THEN b[p] ELSE a[p]
      /\ w = [p \in DOMAIN w |-> w[p]]
  OBVIOUS
<1> HIDE DEF m, put, left, w
<1>7. \A p : p \in Second(a, b, "Patch") <=>
             p \in DOMAIN b /\ b[p] # Scalar(Null) /\ \E q \in Met(a, b) \cap DOMAIN b :
               IsPrefix(q, p) /\ b[q] # Scalar(Null)
  BY DEF Second, Put, MemberSurvives
<1>8. \A p : p \in First(a, b, "Patch") <=>
             p \in DOMAIN a /\ \E q \in Met(a, b) \cap DOMAIN a : IsPrefix(q, p) /\ q \notin DOMAIN b
  BY DEF First, Kept
<1>9. \A p \in Nested(a, b) : p \in DOMAIN a /\ p \in DOMAIN b /\ a[p] = Branch /\ b[p] = Branch /\ p \in put
  BY <1>5, NodesDiffer DEF Nested
<1>10. ASSUME NEW p \in put
       PROVE  p \in Nested(a, b) \/ p \in Second(a, b, "Patch")
  <2>1. SUFFICES ASSUME p \notin Nested(a, b)
                 PROVE  p \in Second(a, b, "Patch")
    OBVIOUS
  <2>2. p \in DOMAIN b /\ b[p] # Scalar(Null) /\ p \in Path
    BY <1>2, <1>5
  <2>3. PICK q \in Met(a, b) : IsPrefix(q, p) /\ q \in DOMAIN b
    BY <2>1, <2>2, MetAbove
  <2>4. b[q] # Scalar(Null)
    <3>1. CASE q = p
      BY <2>2, <3>1
    <3>2. CASE q # p
      BY <1>2, <2>2, <2>3, <3>2, AboveIsBranch, NodesDiffer
    <3> QED BY <3>1, <3>2
  <2> QED BY <1>7, <2>2, <2>3, <2>4
<1>11. ASSUME NEW p \in left
       PROVE  p \in DOMAIN m
  <2>1. p \in DOMAIN a /\ p \in Path /\ \A q \in DOMAIN b : IsPrefix(q, p) => b[q] = Branch
    BY <1>2, <1>5
  <2>2. CASE p \in Nested(a, b)
    BY <1>3, <2>2
  <2>3. CASE p \notin Nested(a, b)
    <3>1. PICK q \in Met(a, b) : IsPrefix(q, p) /\ q \in DOMAIN a
      BY <2>1, <2>3, MetAbove
    <3>2. CASE q \notin DOMAIN b
      BY <1>3, <1>8, <2>1, <3>1, <3>2
    <3>3. CASE q \in DOMAIN b
      <4>1. b[q] = Branch
        BY <2>1, <3>1, <3>3
      <4>2. q \notin Nested(a, b)
        BY MetPaths
      <4>3. a[q] # Branch
        BY <3>1, <3>3, <4>1, <4>2 DEF Nested
      <4>4. q = p
        BY <1>2, <2>1, <3>1, <4>3, NothingBelowALeaf
      <4>5. p \in put
        BY <1>5, <3>3, <4>1, <4>4, NodesDiffer
      <4> QED BY <1>3, <1>10, <4>5
    <3> QED BY <3>2, <3>3
  <2> QED BY <2>2, <2>3
<1>12. ASSUME NEW p \in First(a, b, "Patch")
       PROVE  p \in left
  <2>1. PICK q \in Met(a, b) \cap DOMAIN a : IsPrefix(q, p) /\ q \notin DOMAIN b
    BY <1>8
  <2>2. p \in DOMAIN a /\ p \in Path /\ q \in Path
    BY <1>2, <1>8
  <2>3. ASSUME NEW r \in DOMAIN b, IsPrefix(r, p) PROVE b[r] = Branch
    <3>1. r \in Path
      BY <1>2
    <3>2. ~IsPrefix(q, r)
      <4>1. SUFFICES ASSUME IsPrefix(q, r) PROVE FALSE
        OBVIOUS
      <4>2. q # r
        BY <2>1
      <4> QED BY <1>2, <2>1, <2>2, <4>1, <4>2, AboveIsBranch
    <3>3. IsPrefix(r, q) /\ r # q
      BY <2>1, <2>2, <2>3, <3>1, <3>2, PrefixLinear, PrefixReflexive
    <3>4. r \in Nested(a, b)
      BY <3>1, <3>3, AboveMetIsNested
    <3> QED BY <1>9, <3>4
  <2> QED BY <1>5, <2>2, <2>3
<1>13. ASSUME NEW p \in Second(a, b, "Patch") PROVE p \in put
  BY <1>5, <1>7
<1>14. DOMAIN m = DOMAIN w
  BY <1>3, <1>6, <1>9, <1>10, <1>11, <1>12, <1>13
<1>15. ASSUME NEW p \in DOMAIN w PROVE m[p] = w[p]
  <2>1. CASE p \in Second(a, b, "Patch")
    BY <1>3, <1>6, <1>13, <1>14, <2>1
  <2>2. CASE p \notin Second(a, b, "Patch") /\ p \in put
    <3>1. p \in Nested(a, b)
      BY <1>10, <2>2
    <3> QED BY <1>3, <1>6, <1>9, <1>14, <2>2, <3>1
  <2>3. CASE p \notin Second(a, b, "Patch") /\ p \notin put
    BY <1>3, <1>6, <1>14, <2>3
  <2> QED BY <2>1, <2>2, <2>3
<1>16. m = w
  BY <1>4, <1>6, <1>14, <1>15
<1> QED BY <1>1, <1>16 DEF m

\* A patch of anything but an object starts over.
LEMMA StripIsPatch ==
  ASSUME NEW patch, IsDocument(patch), IsObject(patch),
         NEW target, DOMAIN target = {<< >>}
  PROVE  Strip(patch, "Patch") = MergePatch(target, patch)
<1> DEFINE put == {p \in DOMAIN patch : patch[p] # Scalar(Null)}
           left == {p \in DOMAIN target : \A q \in Prefixes(p) \cap DOMAIN patch : patch[q] = Branch}
           kept == {p \in DOMAIN patch : p = << >> \/ MemberSurvives(patch, p, "Patch")}
<1>1. MergePatch(target, patch) = [p \in left \cup put |-> IF p \in put THEN patch[p] ELSE target[p]]
  BY DEF MergePatch
<1>2. Strip(patch, "Patch") = [p \in kept |-> patch[p]]
  BY DEF Strip, Restrict
<1>3. << >> \in put
  BY DocumentPaths, NodesDiffer DEF IsObject
<1>4. left \subseteq put
  BY <1>3
<1>5. kept = put
  BY <1>3 DEF MemberSurvives
<1> HIDE DEF put, left, kept
<1>6. left \cup put = put
  BY <1>4
<1> QED BY <1>1, <1>2, <1>5, <1>6

LEMMA FoldStepIsPatch ==
  ASSUME NEW acc, acc = SqlNull \/ Whole(acc), NEW patch, patch = SqlNull \/ Whole(patch)
  PROVE  MergeFoldStep(acc, patch) = ApplyPatch(acc, patch)
<1> DEFINE target == IF acc = SqlNull THEN EmptyObject ELSE acc
<1>1. CASE patch = SqlNull
  BY <1>1 DEF MergeFoldStep, ApplyPatch
<1>2. CASE patch # SqlNull /\ ~IsObject(patch)
  BY <1>2 DEF MergeFoldStep, ApplyPatch, MergePatch
<1>3. CASE patch # SqlNull /\ IsObject(patch) /\ acc # SqlNull /\ IsObject(acc)
  <2>1. Objects2(acc, patch)
    BY <1>3 DEF Objects2, Whole
  <2>2. MergeTwoObjects(acc, patch, "Patch") = MergePatch(acc, patch)
    BY <2>1, MergeIsPatch
  <2> QED BY <1>3, <2>2 DEF MergeFoldStep, ApplyPatch
<1>4. CASE patch # SqlNull /\ IsObject(patch) /\ ~(acc # SqlNull /\ IsObject(acc))
  <2>1. MergeFoldStep(acc, patch) = Strip(patch, "Patch") /\ ApplyPatch(acc, patch) = MergePatch(target, patch)
    BY <1>4 DEF MergeFoldStep, ApplyPatch
  <2>2. DOMAIN target = {<< >>}
    <3>1. CASE acc = SqlNull
      BY <3>1 DEF EmptyObject
    <3>2. CASE acc # SqlNull
      <4>1. IsDocument(acc) /\ acc[<< >>] # Branch
        BY <1>4, <3>2 DEF Whole, IsObject
      <4>2. DOMAIN acc = {<< >>}
        BY <4>1, DocumentPaths, RootIsPrefix, NothingBelowALeaf
      <4> QED BY <3>2, <4>2
    <3> QED BY <3>1, <3>2
  <2>3. IsDocument(patch)
    BY <1>4 DEF Whole
  <2> HIDE DEF target
  <2>4. Strip(patch, "Patch") = MergePatch(target, patch)
    BY <1>4, <2>2, <2>3, StripIsPatch
  <2> QED BY <2>1, <2>4
<1> QED BY <1>1, <1>2, <1>3, <1>4

-----------------------------------------------------------------------------
(* A document whose lanes are laid over a residual that hits none of them. *)

\* The paths that lead to the values of lanes.
Ways(lane) == {p \in Path : \E l \in DOMAIN lane : IsPrefix(p, l)}

Free(r, paths) == \A l \in paths : l \notin DOMAIN r /\ ~Blocked(r, l)

Laid(v, r, lane) ==
  /\ IsDocument(v) /\ v = [p \in DOMAIN v |-> v[p]] /\ IsDocument(r) /\ IsObject(r)
  /\ DOMAIN v = DOMAIN r \cup Ways(lane)
  /\ \A p \in DOMAIN r : v[p] = r[p]
  /\ \A p \in Ways(lane) \ DOMAIN r : v[p] = IF p \in DOMAIN lane THEN Scalar(lane[p]) ELSE Branch

LEMMA LaidIsUnique ==
  ASSUME NEW v, NEW w, NEW r, NEW lane, Laid(v, r, lane), Laid(w, r, lane)
  PROVE  v = w
<1>1. DOMAIN v = DOMAIN w /\ v = [p \in DOMAIN v |-> v[p]] /\ w = [p \in DOMAIN w |-> w[p]]
  BY DEF Laid
<1>2. ASSUME NEW p \in DOMAIN v PROVE v[p] = w[p]
  <2>1. CASE p \in DOMAIN r
    BY <2>1 DEF Laid
  <2>2. CASE p \notin DOMAIN r
    BY <1>2, <2>2 DEF Laid
  <2> QED BY <2>1, <2>2
<1> QED BY <1>1, <1>2

LEMMA LaidRow ==
  ASSUME NEW row, IsDocument(row.residual), IsObject(row.residual),
         NEW all, all \subseteq Path \ {<< >>}, Separate(all),
         DOMAIN row.lane \subseteq all,
         \A l \in DOMAIN row.lane : row.lane[l] # Null,
         Free(row.residual, all)
  PROVE  Laid(Reconstruct(row), row.residual, row.lane)
<1> DEFINE r == row.residual
           lane == row.lane
           patch == EmitShredPatchObject(lane)
           v == MergeTwoObjects(r, patch, "Overlay")
<1>1. Reconstruct(row) = v
  BY DEF Reconstruct
<1>2. v = [p \in DOMAIN v |-> v[p]]
  BY DEF MergeTwoObjects
<1> HIDE DEF r, lane
<1>3. /\ DOMAIN lane \subseteq Path \ {<< >>}
      /\ Separate(DOMAIN lane)
      /\ \A m \in DOMAIN lane : m \in all /\ lane[m] # Null
  BY DEF Separate, lane
<1>4. /\ \A p : p \in DOMAIN patch <=> p = << >> \/ (p \in Path /\ \E m \in DOMAIN lane : IsPrefix(p, m))
      /\ \A p \in DOMAIN patch : patch[p] = IF p \in DOMAIN lane THEN Scalar(lane[p]) ELSE Branch
      /\ IsDocument(patch)
      /\ IsObject(patch)
  BY <1>3, EmittedLanes
<1>5. Full(patch)
  BY <1>3, EmittedIsFull
<1>6. IsDocument(r) /\ IsObject(r) /\ Free(r, all) /\ DOMAIN r \subseteq Path /\ << >> \in DOMAIN r
  BY DocumentPaths DEF r
<1>7. Objects2(r, patch)
  BY <1>4, <1>6 DEF Objects2
<1> HIDE DEF patch, v
<1>8. DOMAIN v = DOMAIN r \cup {p \in DOMAIN patch : p \notin DOMAIN r /\ ~Blocked(r, p)}
  BY <1>5, <1>7, OverlayDomain DEF v
<1>9. ASSUME NEW p \in DOMAIN v PROVE v[p] = IF p \in DOMAIN r THEN r[p] ELSE patch[p]
  BY <1>7, <1>9, OverlayNode DEF v
<1>10. IsDocument(v)
  BY <1>7, MergeIsDocument DEF v
<1>11. ASSUME NEW p \in Ways(lane), p \notin DOMAIN r PROVE ~Blocked(r, p)
  <2>1. PICK m \in DOMAIN lane : IsPrefix(p, m) /\ p \in Path /\ m \in Path
    BY <1>3 DEF Ways
  <2>2. SUFFICES ASSUME NEW q \in DOMAIN r, r[q] # Branch, IsPrefix(q, p), q # p PROVE FALSE
    BY DEF Blocked
  <2>3. q \in Path /\ IsPrefix(q, m)
    BY <1>6, <2>1, <2>2, PrefixTransitive
  <2>4. q # m
    BY <2>1, <2>2, PrefixAntisymmetric
  <2>5. m \in all
    BY <1>3, <2>1
  <2> QED BY <1>6, <2>2, <2>3, <2>4, <2>5 DEF Free, Blocked
<1>12. \A p : p \in Ways(lane) => p \in DOMAIN patch
  BY <1>4 DEF Ways
<1>13. \A p \in DOMAIN patch : p \in Ways(lane) \/ p \in DOMAIN r
  BY <1>4, <1>6 DEF Ways
<1>14. DOMAIN v = DOMAIN r \cup Ways(lane)
  BY <1>8, <1>11, <1>12, <1>13
<1>15. \A p \in DOMAIN r : v[p] = r[p]
  BY <1>9, <1>14
<1>16. \A p \in Ways(lane) \ DOMAIN r : v[p] = IF p \in DOMAIN lane THEN Scalar(lane[p]) ELSE Branch
  BY <1>4, <1>9, <1>12, <1>14
<1>17. Laid(v, r, lane)
  BY <1>2, <1>6, <1>10, <1>14, <1>15, <1>16 DEF Laid
<1> QED BY <1>1, <1>17 DEF r, lane

Joined(lane, more) ==
  [l \in DOMAIN lane \cup DOMAIN more |-> IF l \in DOMAIN more THEN more[l] ELSE lane[l]]

\* What RFC 7396 does to the nodes.
LEMMA PatchNodes ==
  ASSUME NEW a, NEW b, IsDocument(a), IsDocument(b), IsObject(a), IsObject(b)
  PROVE  /\ \A p : p \in DOMAIN MergePatch(a, b) <=>
              \/ p \in DOMAIN b /\ b[p] # Scalar(Null)
              \/ p \in DOMAIN a /\ \A q \in DOMAIN b : IsPrefix(q, p) => b[q] = Branch
         /\ \A p \in DOMAIN MergePatch(a, b) :
              MergePatch(a, b)[p] = IF p \in DOMAIN b /\ b[p] # Scalar(Null) THEN b[p] ELSE a[p]
         /\ MergePatch(a, b) = [p \in DOMAIN MergePatch(a, b) |-> MergePatch(a, b)[p]]
         /\ IsDocument(MergePatch(a, b)) /\ IsObject(MergePatch(a, b))
<1> DEFINE put == {p \in DOMAIN b : b[p] # Scalar(Null)}
           left == {p \in DOMAIN a : \A q \in Prefixes(p) \cap DOMAIN b : b[q] = Branch}
           w == [p \in left \cup put |-> IF p \in put THEN b[p] ELSE a[p]]
<1>1. MergePatch(a, b) = w
  BY DEF MergePatch
<1>2. DOMAIN a \subseteq Path /\ DOMAIN b \subseteq Path
  BY DocumentPaths
<1>3. /\ \A p : p \in put <=> p \in DOMAIN b /\ b[p] # Scalar(Null)
      /\ \A p : p \in left <=> p \in DOMAIN a /\ \A q \in DOMAIN b : IsPrefix(q, p) => b[q] = Branch
  <2>1. ASSUME NEW p \in DOMAIN a
        PROVE  (\A q \in Prefixes(p) \cap DOMAIN b : b[q] = Branch)
                 <=> (\A q \in DOMAIN b : IsPrefix(q, p) => b[q] = Branch)
    BY <1>2, PrefixesArePrefixes
  <2> QED BY <2>1
<1>4. /\ DOMAIN w = left \cup put
      /\ \A p \in left \cup put : w[p] = IF p \in put THEN b[p] ELSE a[p]
      /\ w = [p \in DOMAIN w |-> w[p]]
  OBVIOUS
<1> HIDE DEF put, left, w
<1>5. IsDocument(w) /\ IsObject(w)
  <2>1. Objects2(a, b)
    BY DEF Objects2
  <2>2. MergeTwoObjects(a, b, "Patch") = w
    BY <1>1, <2>1, MergeIsPatch
  <2> QED BY <2>1, <2>2, MergeIsDocument
<1>6. \A p : p \in DOMAIN w <=> \/ p \in DOMAIN b /\ b[p] # Scalar(Null)
                                \/ p \in DOMAIN a /\ \A q \in DOMAIN b : IsPrefix(q, p) => b[q] = Branch
  BY <1>3, <1>4
<1>7. \A p \in DOMAIN w : w[p] = IF p \in DOMAIN b /\ b[p] # Scalar(Null) THEN b[p] ELSE a[p]
  BY <1>3, <1>4
<1> QED BY <1>1, <1>4, <1>5, <1>6, <1>7

LEMMA PatchIsFree ==
  ASSUME NEW r, NEW s, IsDocument(r), IsObject(r), IsDocument(s), IsObject(s),
         NEW all, Free(r, all), Free(s, all)
  PROVE  Free(MergePatch(r, s), all)
<1> DEFINE t == MergePatch(r, s)
<1>1. /\ \A p : p \in DOMAIN t => p \in DOMAIN r \/ p \in DOMAIN s
      /\ \A p \in DOMAIN t : t[p] = IF p \in DOMAIN s /\ s[p] # Scalar(Null) THEN s[p] ELSE r[p]
      /\ \A p \in DOMAIN t : (p \in DOMAIN s /\ s[p] # Scalar(Null)) \/ p \in DOMAIN r
  BY PatchNodes
<1> HIDE DEF t
<1>2. ASSUME NEW l \in all, NEW q \in DOMAIN t, t[q] # Branch, IsPrefix(q, l), q # l PROVE FALSE
  BY <1>1, <1>2 DEF Free, Blocked
<1>3. \A l \in all : l \notin DOMAIN t
  BY <1>1 DEF Free
<1>4. \A l \in all : ~Blocked(t, l)
  BY <1>2 DEF Blocked
<1>5. Free(t, all)
  BY <1>3, <1>4 DEF Free
<1> QED BY <1>5 DEF t

\* Patching what is laid over residuals is patching the residuals and taking
\* the later lanes.
LEMMA PatchLaid ==
  ASSUME NEW all, all \subseteq Path \ {<< >>}, Separate(all),
         NEW v, NEW r, NEW lane, Laid(v, r, lane), Free(r, all), DOMAIN lane \subseteq all,
         NEW w, NEW s, NEW more, Laid(w, s, more), Free(s, all), DOMAIN more \subseteq all,
         \A l \in DOMAIN more : more[l] # Null
  PROVE  Laid(MergePatch(v, w), MergePatch(r, s), Joined(lane, more))
<1> DEFINE joined == Joined(lane, more)
           m == MergePatch(v, w)
           t == MergePatch(r, s)
<1>1. /\ IsDocument(v) /\ IsDocument(r) /\ IsObject(r)
      /\ \A p : p \in DOMAIN v <=> p \in DOMAIN r \/ p \in Ways(lane)
      /\ \A p \in DOMAIN r : v[p] = r[p]
      /\ \A p \in Ways(lane) : p \notin DOMAIN r => v[p] = IF p \in DOMAIN lane THEN Scalar(lane[p]) ELSE Branch
  BY DEF Laid
<1>2. /\ IsDocument(w) /\ IsDocument(s) /\ IsObject(s)
      /\ \A p : p \in DOMAIN w <=> p \in DOMAIN s \/ p \in Ways(more)
      /\ \A p \in DOMAIN s : w[p] = s[p]
      /\ \A p \in Ways(more) : p \notin DOMAIN s => w[p] = IF p \in DOMAIN more THEN Scalar(more[p]) ELSE Branch
  BY DEF Laid
<1>3. /\ << >> \in DOMAIN r /\ << >> \in DOMAIN s /\ IsObject(v) /\ IsObject(w)
      /\ DOMAIN v \subseteq Path /\ DOMAIN w \subseteq Path
  BY <1>1, <1>2, DocumentPaths DEF IsObject
<1>4. /\ \A p : p \in DOMAIN m <=>
           \/ p \in DOMAIN w /\ w[p] # Scalar(Null)
           \/ p \in DOMAIN v /\ \A q \in DOMAIN w : IsPrefix(q, p) => w[q] = Branch
      /\ \A p \in DOMAIN m : m[p] = IF p \in DOMAIN w /\ w[p] # Scalar(Null) THEN w[p] ELSE v[p]
      /\ m = [p \in DOMAIN m |-> m[p]]
      /\ IsDocument(m) /\ IsObject(m)
  BY <1>1, <1>2, <1>3, PatchNodes
<1>5. /\ \A p : p \in DOMAIN t <=>
           \/ p \in DOMAIN s /\ s[p] # Scalar(Null)
           \/ p \in DOMAIN r /\ \A q \in DOMAIN s : IsPrefix(q, p) => s[q] = Branch
      /\ \A p \in DOMAIN t : t[p] = IF p \in DOMAIN s /\ s[p] # Scalar(Null) THEN s[p] ELSE r[p]
      /\ IsDocument(t) /\ IsObject(t)
  BY <1>1, <1>2, PatchNodes
<1>6. /\ DOMAIN joined = DOMAIN lane \cup DOMAIN more
      /\ \A l \in DOMAIN joined : joined[l] = IF l \in DOMAIN more THEN more[l] ELSE lane[l]
  BY DEF Joined
<1>7. \A p : p \in Ways(joined) <=> p \in Ways(lane) \/ p \in Ways(more)
  BY <1>6 DEF Ways
<1> HIDE DEF m, t, joined
\* On the way to a lane neither residual has a leaf.
<1>8. ASSUME NEW p \in Path, NEW l \in all, IsPrefix(p, l)
      PROVE  /\ p \in DOMAIN s => s[p] = Branch /\ p # l
             /\ p \in DOMAIN r => r[p] = Branch /\ p # l
  BY <1>8 DEF Free, Blocked
<1>9. ASSUME NEW p \in Ways(more)
      PROVE  /\ p \in Path /\ p \in DOMAIN w /\ w[p] # Scalar(Null)
             /\ p \in DOMAIN more => p \notin DOMAIN s /\ p \notin DOMAIN r /\ w[p] = Scalar(more[p])
             /\ p \notin DOMAIN more => w[p] = Branch
  <2>1. PICK l \in DOMAIN more : p \in Path /\ IsPrefix(p, l)
    BY DEF Ways
  <2>2. CASE p \in DOMAIN more
    <3>1. p \notin DOMAIN s /\ p \notin DOMAIN r
      BY <2>2 DEF Free
    <3>2. w[p] = Scalar(more[p])
      BY <1>2, <2>2, <3>1
    <3>3. Scalar(more[p]) # Scalar(Null)
      BY <2>2, ScalarsDiffer
    <3> QED BY <1>2, <2>1, <2>2, <3>1, <3>2, <3>3
  <2>3. CASE p \notin DOMAIN more
    <3>1. w[p] = Branch
      <4>1. CASE p \in DOMAIN s
        BY <1>2, <1>8, <2>1, <4>1
      <4>2. CASE p \notin DOMAIN s
        BY <1>2, <2>3, <4>2
      <4> QED BY <4>1, <4>2
    <3> QED BY <1>2, <2>1, <2>3, <3>1, NodesDiffer
  <2> QED BY <2>2, <2>3
<1>10. ASSUME NEW p \in DOMAIN m
       PROVE  p \in DOMAIN t \/ p \in Ways(joined)
  <2>1. CASE p \in DOMAIN w /\ w[p] # Scalar(Null)
    BY <1>2, <1>5, <1>7, <2>1
  <2>2. CASE p \in DOMAIN v /\ \A q \in DOMAIN w : IsPrefix(q, p) => w[q] = Branch
    <3>1. CASE p \in DOMAIN r
      <4>1. \A q \in DOMAIN s : IsPrefix(q, p) => s[q] = Branch
        BY <1>2, <2>2
      <4> QED BY <1>5, <3>1, <4>1
    <3>2. CASE p \in Ways(lane)
      BY <1>7, <3>2
    <3> QED BY <1>1, <2>2, <3>1, <3>2
  <2> QED BY <1>4, <2>1, <2>2
<1>11. ASSUME NEW p \in DOMAIN t
       PROVE  p \in DOMAIN m
  <2>1. CASE p \in DOMAIN s /\ s[p] # Scalar(Null)
    BY <1>2, <1>4, <2>1
  <2>2. CASE p \in DOMAIN r /\ \A q \in DOMAIN s : IsPrefix(q, p) => s[q] = Branch
    <3>1. ASSUME NEW q \in DOMAIN w, IsPrefix(q, p) PROVE w[q] = Branch
      <4>1. CASE q \in DOMAIN s
        BY <1>2, <2>2, <3>1, <4>1
      <4>2. CASE q \notin DOMAIN s
        <5>1. q \in Ways(more) /\ q \in Path
          BY <1>2, <1>3, <4>2
        <5>2. q \in DOMAIN r
          <6>1. CASE q = p
            BY <2>2, <6>1
          <6>2. CASE q # p
            BY <1>1, <2>2, <3>1, <5>1, <6>2, AboveIsBranch
          <6> QED BY <6>1, <6>2
        <5> QED BY <1>9, <5>1, <5>2
      <4> QED BY <4>1, <4>2
    <3> QED BY <1>1, <1>4, <2>2, <3>1
  <2> QED BY <1>5, <2>1, <2>2
<1>12. ASSUME NEW p \in Ways(joined)
       PROVE  p \in DOMAIN m
  <2>1. CASE p \in Ways(more)
    BY <1>4, <1>9, <2>1
  <2>2. CASE p \in Ways(lane)
    <3>1. PICK l \in DOMAIN lane : p \in Path /\ IsPrefix(p, l) /\ l \in all /\ l \in Path
      BY <2>2 DEF Ways
    <3>2. p \in DOMAIN v
      BY <1>1, <2>2
    <3>3. ASSUME NEW q \in DOMAIN w, IsPrefix(q, p), w[q] # Branch
          PROVE  p \in DOMAIN w /\ w[p] # Scalar(Null)
      <4>1. q \in Path /\ IsPrefix(q, l)
        BY <1>3, <3>1, <3>3, PrefixTransitive
      <4>2. q \notin DOMAIN s
        BY <1>2, <1>8, <3>1, <3>3, <4>1
      <4>3. q \in Ways(more)
        BY <1>2, <4>2
      <4>4. q \in DOMAIN more
        BY <1>9, <3>3, <4>3
      <4>5. q = l
        BY <3>1, <4>1, <4>4 DEF Separate
      <4>6. p = q
        BY <3>1, <3>3, <4>1, <4>5, PrefixAntisymmetric
      <4> QED BY <1>9, <4>3, <4>6
    <3> QED BY <1>4, <3>2, <3>3
  <2> QED BY <1>7, <2>1, <2>2
<1>13. ASSUME NEW p \in DOMAIN t
       PROVE  m[p] = t[p]
  <2>1. CASE p \in DOMAIN s /\ s[p] # Scalar(Null)
    BY <1>2, <1>4, <1>5, <1>11, <2>1
  <2>2. CASE ~(p \in DOMAIN s /\ s[p] # Scalar(Null))
    <3>1. /\ p \in DOMAIN r /\ p \in Path
          /\ \A q \in DOMAIN s : IsPrefix(q, p) => s[q] = Branch
          /\ t[p] = r[p] /\ v[p] = r[p]
      BY <1>1, <1>3, <1>5, <2>2
    <3>2. p \notin DOMAIN s
      BY <2>2, <3>1, PrefixReflexive, NodesDiffer
    <3>3. CASE p \in Ways(more)
      <4>1. w[p] = Branch /\ p \in DOMAIN w /\ w[p] # Scalar(Null)
        BY <1>9, <3>1, <3>3
      <4>2. PICK l \in DOMAIN more : IsPrefix(p, l)
        BY <3>3 DEF Ways
      <4>3. r[p] = Branch
        BY <1>8, <3>1, <4>2
      <4> QED BY <1>4, <1>11, <3>1, <4>1, <4>3
    <3>4. CASE p \notin Ways(more)
      BY <1>2, <1>4, <1>11, <3>1, <3>2, <3>4
    <3> QED BY <3>3, <3>4
  <2> QED BY <2>1, <2>2
<1>14. ASSUME NEW p \in Ways(joined), p \notin DOMAIN t
       PROVE  m[p] = IF p \in DOMAIN joined THEN Scalar(joined[p]) ELSE Branch
  <2>0. p \in DOMAIN m
    BY <1>12
  <2>1. CASE p \in Ways(more) /\ p \in DOMAIN more
    BY <1>4, <1>6, <1>9, <2>0, <2>1
  <2>2. CASE p \in Ways(more) /\ p \notin DOMAIN more
    <3>1. p \notin DOMAIN lane
      <4>1. PICK l \in DOMAIN more : IsPrefix(p, l)
        BY <2>2 DEF Ways
      <4> QED BY <2>2, <4>1 DEF Separate
    <3> QED BY <1>4, <1>6, <1>9, <2>0, <2>2, <3>1
  <2>3. CASE p \notin Ways(more)
    <3>1. p \in Ways(lane) /\ p \in Path
      BY <1>7, <2>3 DEF Ways
    <3>2. PICK l \in DOMAIN lane : IsPrefix(p, l) /\ l \in all /\ l \in Path
      BY <3>1 DEF Ways
    <3>3. p \notin DOMAIN s
      BY <1>5, <1>8, <1>14, <3>1, <3>2, NodesDiffer
    <3>4. p \notin DOMAIN w
      BY <1>2, <2>3, <3>3
    <3>5. p \notin DOMAIN r
      <4>1. SUFFICES ASSUME p \in DOMAIN r PROVE FALSE
        OBVIOUS
      <4>2. PICK q \in DOMAIN s : IsPrefix(q, p) /\ s[q] # Branch
        BY <1>5, <1>14, <4>1
      <4>3. q \in Path /\ IsPrefix(q, l)
        BY <1>2, <1>3, <3>1, <3>2, <4>2, PrefixTransitive
      <4> QED BY <1>8, <3>2, <4>2, <4>3
    <3>6. p \notin DOMAIN more
      BY <2>3, <3>1, PrefixReflexive DEF Ways
    <3> QED BY <1>1, <1>4, <1>6, <2>0, <3>1, <3>4, <3>5, <3>6
  <2> QED BY <2>1, <2>2, <2>3
<1>15. Laid(m, t, joined)
  BY <1>4, <1>5, <1>10, <1>11, <1>12, <1>13, <1>14 DEF Laid
<1> QED BY <1>15 DEF m, t, joined

\* No row of documents and lanes is SQL NULL.
NoRowIsNull ==
  \A residual, lane, spilled : [residual |-> residual, lane |-> lane, spilled |-> spilled] # SqlNull

\* What the copied lanes can follow: SQL NULL comes first or last, a shredded
\* patch is an object, and a shredded document has nothing at or above a lane
\* that only another argument has.
LanesFollow ==
  \A list \in ArgumentLists : \A i \in DOMAIN list : \A doc \in Arguments(list, i) :
    /\ doc = SqlNull => i \in {1, Len(list)}
    /\ doc # SqlNull /\ list[i] # PlainType =>
         /\ i # 1 => IsObject(doc)
         /\ IsObject(doc) => \A k \in DOMAIN list : Free(doc, Lanes(list[k]) \ Lanes(list[i]))

LEMMA FollowingPatchesAreObjects ==
  ASSUME LanesFollow
  PROVE  ShreddedPatchesAreObjects
<1> SUFFICES ASSUME NEW list \in ArgumentLists, NEW i \in DOMAIN list \ {1}, list[i] # PlainType,
                    NEW doc \in Arguments(list, i) \ {SqlNull}
             PROVE  IsObject(doc)
  BY DEF ShreddedPatchesAreObjects
<1> QED BY DEF LanesFollow

\* The same of the rows of a call that are read.
RowsFollow ==
  \A i \in DOMAIN inputs :
    /\ inputs[i] = SqlNull => i \in {1, Len(arguments)}
    /\ inputs[i] # SqlNull /\ arguments[i] # PlainType =>
         LET doc == Reconstruct(inputs[i])
         IN /\ i # 1 => IsObject(doc)
            /\ IsObject(doc) => \A k \in DOMAIN arguments : Free(doc, Lanes(arguments[k]) \ Lanes(arguments[i]))

LEMMA RowsOfListsFollow ==
  ASSUME LanesFollow, NoRowIsNull, MergeOK
  PROVE  RowsFollow
<1>1. SUFFICES ASSUME NEW i \in DOMAIN inputs
               PROVE  /\ inputs[i] = SqlNull => i \in {1, Len(arguments)}
                      /\ inputs[i] # SqlNull /\ arguments[i] # PlainType =>
                           LET doc == Reconstruct(inputs[i])
                           IN /\ i # 1 => IsObject(doc)
                              /\ IsObject(doc) =>
                                   \A k \in DOMAIN arguments :
                                     Free(doc, Lanes(arguments[k]) \ Lanes(arguments[i]))
  BY DEF RowsFollow
<1>2. arguments \in ArgumentLists /\ Typed
  BY ListsAreTyped DEF MergeOK
<1>3. i \in DOMAIN arguments
  BY <1>2, RowsAreRead, ArgumentTypes DEF RowsRead
<1>4. PICK given \in Arguments(arguments, i) : inputs[i] = RowOf(arguments[i].lanes, given)
  BY DEF MergeOK, InputRows
<1>5. CASE given = SqlNull
  BY <1>2, <1>3, <1>4, <1>5 DEF RowOf, LanesFollow
<1>6. CASE given # SqlNull
  <2> DEFINE type == arguments[i].lanes
  <2>1. inputs[i] = Shred(type, given)
    BY <1>4, <1>6 DEF RowOf
  <2>2. Whole(given) /\ RowType(type)
    BY <1>2, <1>3, <1>6, ArgumentAssumption, ArgumentTypes DEF Whole
  <2> HIDE DEF type
  <2>3. Reconstruct(Shred(type, given)) = given
    BY <2>2, WrittenRow
  <2>4. inputs[i] # SqlNull
    BY <2>1 DEF Shred, NoRowIsNull
  <2> QED BY <1>2, <1>3, <1>6, <2>1, <2>3, <2>4 DEF LanesFollow
<1> QED BY <1>5, <1>6

LEMMA FoldsAgree ==
  ASSUME NEW n \in Nat, NEW m \in Nat, n <= m, NEW v, NEW w, \A i \in 1 .. n : v[i] = w[i],
         NEW f, IsResidualFold(f, v, n), NEW g, IsResidualFold(g, w, m)
  PROVE  \A i \in 1 .. n : f[i] = g[i]
<1>1. \A i \in 1 .. n : f[i] = IF i = 1 THEN v[1] ELSE MergeFoldStep(f[i - 1], v[i])
  BY DEF IsResidualFold
<1>2. \A i \in 1 .. m : g[i] = IF i = 1 THEN w[1] ELSE MergeFoldStep(g[i - 1], w[i])
  BY DEF IsResidualFold
<1> DEFINE B == {i \in 1 .. n : f[i] # g[i]}
<1>3. SUFFICES ASSUME B # {} PROVE FALSE
  OBVIOUS
<1>4. PICK k \in B : \A i \in B : k <= i
  <2> HIDE DEF B
  <2> B \subseteq 0 .. n
    BY DEF B
  <2> QED BY <1>3, Least
<1>5. k \in 1 .. n /\ k \in 1 .. m /\ f[k] # g[k]
  BY <1>4
<1>6. k # 1
  BY <1>1, <1>2, <1>5
<1>7. k - 1 \in 1 .. n /\ f[k - 1] = g[k - 1]
  <2>1. k - 1 \in 1 .. n /\ ~(k <= k - 1)
    BY <1>5, <1>6
  <2> QED BY <1>4, <2>1
<1> QED BY <1>1, <1>2, <1>5, <1>6, <1>7

LEMMA RunFoldIs ==
  ASSUME NEW n \in Nat \ {0}, NEW values, DOMAIN values = 1 .. n, Len(values) = n,
         NEW g, IsResidualFold(g, values, n)
  PROVE  RunResidualFold(values) = g[n]
<1> DEFINE f == CHOOSE h : IsResidualFold(h, values, n)
<1>1. RunResidualFold(values) = f[n]
  BY DEF RunResidualFold, IsResidualFold
<1>2. IsResidualFold(f, values, n)
  BY ResidualFoldExists
<1> HIDE DEF f
<1>3. \A i \in 1 .. n : f[i] = g[i]
  BY <1>2, FoldsAgree
<1> QED BY <1>1, <1>3

LEMMA FoldIsWhole ==
  ASSUME NEW n \in Nat, NEW values, \A i \in 1 .. n : values[i] = SqlNull \/ Whole(values[i]),
         NEW f, IsResidualFold(f, values, n)
  PROVE  \A i \in 1 .. n : f[i] = SqlNull \/ Whole(f[i])
<1>3. \A i \in 1 .. n : f[i] = IF i = 1 THEN values[1] ELSE MergeFoldStep(f[i - 1], values[i])
  BY DEF IsResidualFold
<1> DEFINE B == {i \in 1 .. n : ~(f[i] = SqlNull \/ Whole(f[i]))}
<1>4. SUFFICES ASSUME B # {} PROVE FALSE
  OBVIOUS
<1>5. PICK m \in B : \A i \in B : m <= i
  <2> HIDE DEF B
  <2> B \subseteq 0 .. n
    BY DEF B
  <2> QED BY <1>4, Least
<1>6. m \in 1 .. n /\ m # 1
  BY <1>3, <1>5
<1>7. m - 1 \in 1 .. n /\ (f[m - 1] = SqlNull \/ Whole(f[m - 1]))
  <2>1. m - 1 \in 1 .. n /\ ~(m <= m - 1)
    BY <1>6
  <2> QED BY <1>5, <2>1
<1>8. f[m] = MergeFoldStep(f[m - 1], values[m]) /\ (values[m] = SqlNull \/ Whole(values[m]))
  BY <1>3, <1>6
<1> HIDE DEF B
<1>9. f[m] = SqlNull \/ Whole(f[m])
  BY <1>7, <1>8, FoldStepIsWhole
<1> QED BY <1>5, <1>9 DEF B

IsPatchFold(f, values, n) ==
  f = [i \in 1 .. n |-> IF i = 1 THEN values[1] ELSE ApplyPatch(f[i - 1], values[i])]

\* The fold of the documents is what jsono_merge_patch promises.
LEMMA PatchedIs ==
  ASSUME NEW n \in Nat \ {0}, DOMAIN inputs = 1 .. n, Len(inputs) = n,
         \A i \in 1 .. n : Documents[i] = SqlNull \/ Whole(Documents[i]),
         NEW d, IsResidualFold(d, Documents, n)
  PROVE  PatchedDocument = d[n]
<1> DEFINE f == CHOOSE h : IsPatchFold(h, Documents, n)
<1>1. DOMAIN Documents = 1 .. n /\ Len(Documents) = n
  BY DEF Documents
<1>2. PatchedDocument = f[n]
  BY <1>1 DEF PatchedDocument, IsPatchFold
<1>3. \A i \in 1 .. n : d[i] = SqlNull \/ Whole(d[i])
  BY FoldIsWhole
<1>4. ASSUME NEW i \in 1 .. n
      PROVE  d[i] = IF i = 1 THEN Documents[1] ELSE ApplyPatch(d[i - 1], Documents[i])
  <2>1. d[i] = IF i = 1 THEN Documents[1] ELSE MergeFoldStep(d[i - 1], Documents[i])
    BY DEF IsResidualFold
  <2>2. CASE i = 1
    BY <2>1, <2>2
  <2>3. CASE i # 1
    <3>1. i - 1 \in 1 .. n
      BY <2>3
    <3>2. d[i - 1] = SqlNull \/ Whole(d[i - 1])
      BY <1>3, <3>1
    <3>3. Documents[i] = SqlNull \/ Whole(Documents[i])
      OBVIOUS
    <3>4. MergeFoldStep(d[i - 1], Documents[i]) = ApplyPatch(d[i - 1], Documents[i])
      BY <3>2, <3>3, FoldStepIsPatch
    <3> QED BY <2>1, <2>3, <3>4
  <2> QED BY <2>2, <2>3
<1>5. IsPatchFold(d, Documents, n)
  <2>1. d = [i \in 1 .. n |-> d[i]]
    BY DEF IsResidualFold
  <2>2. [i \in 1 .. n |-> d[i]]
          = [i \in 1 .. n |-> IF i = 1 THEN Documents[1] ELSE ApplyPatch(d[i - 1], Documents[i])]
    BY <1>4
  <2> QED BY <2>1, <2>2 DEF IsPatchFold
<1>6. IsPatchFold(f, Documents, n)
  BY <1>5
<1> HIDE DEF f
<1>7. \A i \in 1 .. n : f[i] = IF i = 1 THEN Documents[1] ELSE ApplyPatch(f[i - 1], Documents[i])
  BY <1>6 DEF IsPatchFold
<1> DEFINE B == {i \in 1 .. n : f[i] # d[i]}
<1>8. B = {}
  <2>1. SUFFICES ASSUME B # {} PROVE FALSE
    OBVIOUS
  <2>2. PICK k \in B : \A i \in B : k <= i
    <3> HIDE DEF B
    <3> B \subseteq 0 .. n
      BY DEF B
    <3> QED BY <2>1, Least
  <2>3. k \in 1 .. n /\ f[k] # d[k]
    BY <2>2
  <2>4. k # 1
    BY <1>4, <1>7, <2>3
  <2>5. k - 1 \in 1 .. n /\ f[k - 1] = d[k - 1]
    <3>1. k - 1 \in 1 .. n /\ ~(k <= k - 1)
      BY <2>3, <2>4
    <3> QED BY <2>2, <3>1
  <2> QED BY <1>4, <1>7, <2>3, <2>4, <2>5
<1>9. f[n] = d[n]
  BY <1>8
<1> QED BY <1>2, <1>9

-----------------------------------------------------------------------------
(* The fold of the documents, laid over the fold of their residuals. *)

LEMMA PatchedIsNotNull ==
  ASSUME NoDocumentIsNull, NEW acc, acc = SqlNull \/ Whole(acc), NEW patch, Whole(patch)
  PROVE  MergeFoldStep(acc, patch) # SqlNull
<1>1. patch # SqlNull
  BY DEF NoDocumentIsNull, Whole
<1>2. CASE ~IsObject(patch)
  BY <1>1, <1>2 DEF MergeFoldStep
<1>3. CASE IsObject(patch) /\ acc # SqlNull /\ IsObject(acc)
  <2>1. Objects2(acc, patch)
    BY <1>3 DEF Objects2, Whole
  <2>2. IsDocument(MergeTwoObjects(acc, patch, "Patch"))
    BY <2>1, MergeIsDocument
  <2> QED BY <1>1, <1>3, <2>2 DEF MergeFoldStep, NoDocumentIsNull
<1>4. CASE IsObject(patch) /\ ~(acc # SqlNull /\ IsObject(acc))
  <2>1. IsDocument(Strip(patch, "Patch"))
    BY <1>4, StripIsWhole DEF Whole
  <2> QED BY <1>1, <1>4, <2>1 DEF MergeFoldStep, NoDocumentIsNull
<1> QED BY <1>2, <1>3, <1>4

\* A document and a residual with lanes over it, or the same value without.
Standing(v, r, lane, all) ==
  \/ v = r /\ (r = SqlNull \/ (Whole(r) /\ ~IsObject(r))) /\ DOMAIN lane = {}
  \/ v # SqlNull /\ r # SqlNull /\ Laid(v, r, lane) /\ Free(r, all)

LEMMA EmptyIsLaid ==
  ASSUME NEW all, all \subseteq Path \ {<< >>}
  PROVE  Laid(EmptyObject, EmptyObject, << >>) /\ Free(EmptyObject, all)
<1>1. DOMAIN EmptyObject = {<< >>} /\ EmptyObject[<< >>] = Branch
      /\ EmptyObject = [p \in DOMAIN EmptyObject |-> EmptyObject[p]]
  BY DEF EmptyObject
<1> HIDE DEF EmptyObject
<1>2. IsDocument(EmptyObject)
  <2>1. << >> \in Path
    BY DEF Path
  <2>2. \A q \in Path : IsPrefix(q, << >>) => q = << >>
    BY NothingAboveTheRoot
  <2> QED BY <1>1, <2>1, <2>2, DocumentByPaths
<1>3. Ways(<< >>) = {}
  BY DEF Ways
<1>4. Laid(EmptyObject, EmptyObject, << >>)
  BY <1>1, <1>2, <1>3 DEF Laid, IsObject
<1> QED BY <1>1, <1>4 DEF Free, Blocked

LEMMA StepStands ==
  ASSUME NoDocumentIsNull,
         NEW all, all \subseteq Path \ {<< >>}, Separate(all),
         NEW v, NEW r, NEW lane, Standing(v, r, lane, all), DOMAIN lane \subseteq all,
         NEW w, NEW s, NEW more, Laid(w, s, more), Free(s, all), DOMAIN more \subseteq all,
         \A l \in DOMAIN more : more[l] # Null
  PROVE  Standing(MergeFoldStep(v, w), MergeFoldStep(r, s), Joined(lane, more), all)
<1>1. /\ IsDocument(w) /\ IsObject(w) /\ w # SqlNull /\ Whole(w)
      /\ IsDocument(s) /\ IsObject(s) /\ s # SqlNull
  BY DocumentPaths DEF Laid, IsObject, NoDocumentIsNull, Whole
<1>2. CASE v = r /\ (r = SqlNull \/ (Whole(r) /\ ~IsObject(r))) /\ DOMAIN lane = {}
  <2> DEFINE empty == EmptyObject
             joined == Joined(<< >>, more)
  <2>1. MergeFoldStep(v, w) = Strip(w, "Patch") /\ MergeFoldStep(r, s) = Strip(s, "Patch")
    BY <1>1, <1>2 DEF MergeFoldStep
  <2>2. DOMAIN empty = {<< >>}
    BY DEF EmptyObject
  <2> HIDE DEF empty
  <2>3. Strip(w, "Patch") = MergePatch(empty, w) /\ Strip(s, "Patch") = MergePatch(empty, s)
    BY <1>1, <2>2, StripIsPatch
  <2>4. Laid(empty, empty, << >>) /\ Free(empty, all)
    BY EmptyIsLaid DEF empty
  <2>5. DOMAIN << >> \subseteq all
    OBVIOUS
  <2>6. Laid(MergePatch(empty, w), MergePatch(empty, s), joined)
    BY <2>4, <2>5, PatchLaid
  <2>7. IsDocument(empty) /\ IsObject(empty)
    BY <2>4 DEF Laid
  <2>8. Free(MergePatch(empty, s), all)
    BY <1>1, <2>4, <2>7, PatchIsFree
  <2>9. joined = Joined(lane, more)
    BY <1>2 DEF Joined
  <2>10. MergePatch(empty, w) # SqlNull /\ MergePatch(empty, s) # SqlNull
    BY <2>6 DEF Laid, NoDocumentIsNull
  <2> QED BY <2>1, <2>3, <2>6, <2>8, <2>9, <2>10 DEF Standing
<1>3. CASE v # SqlNull /\ r # SqlNull /\ Laid(v, r, lane) /\ Free(r, all)
  <2>1. IsDocument(v) /\ IsObject(v) /\ IsDocument(r) /\ IsObject(r)
    BY <1>3, DocumentPaths DEF Laid, IsObject
  <2>2. MergeFoldStep(v, w) = MergeTwoObjects(v, w, "Patch") /\ MergeFoldStep(r, s) = MergeTwoObjects(r, s, "Patch")
    BY <1>1, <1>3, <2>1 DEF MergeFoldStep
  <2>3. Objects2(v, w) /\ Objects2(r, s)
    BY <1>1, <2>1 DEF Objects2
  <2>4. MergeTwoObjects(v, w, "Patch") = MergePatch(v, w)
    BY <2>3, MergeIsPatch
  <2>5. MergeTwoObjects(r, s, "Patch") = MergePatch(r, s)
    BY <2>3, MergeIsPatch
  <2>6. Laid(MergePatch(v, w), MergePatch(r, s), Joined(lane, more))
    BY <1>3, PatchLaid
  <2>7. Free(MergePatch(r, s), all)
    BY <1>1, <1>3, <2>1, PatchIsFree
  <2>8. MergePatch(v, w) # SqlNull /\ MergePatch(r, s) # SqlNull
    BY <2>6 DEF Laid, NoDocumentIsNull
  <2> QED BY <2>2, <2>4, <2>5, <2>6, <2>7, <2>8 DEF Standing
<1> QED BY <1>2, <1>3 DEF Standing

LEMMA LaneHitsNothing ==
  ASSUME NEW type, RowType(type), NEW doc, Whole(doc), IsObject(doc),
         NEW l \in DOMAIN Shred(type, doc).lane
  PROVE  l \notin DOMAIN Shred(type, doc).residual /\ ~Blocked(Shred(type, doc).residual, l)
<1> DEFINE row == Shred(type, doc)
           taken == Stripped(type, doc)
<1>1. IsDocument(doc)
  BY DEF Whole
<1>2. /\ IsDocument(row.residual)
      /\ IsObject(row.residual) <=> IsObject(doc)
      /\ ~IsObject(doc) => row.residual = doc
      /\ IsObject(doc) =>
           /\ DOMAIN row.residual = DOMAIN doc \ taken
           /\ \A p \in DOMAIN row.residual : row.residual[p] = doc[p]
      /\ row.lane = [m \in taken |-> doc[m].value]
      /\ DOMAIN row.lane = taken
  BY <1>1, ShredParts
<1>3. l \in taken /\ l \in DOMAIN doc /\ l \in Path
  BY <1>1, <1>2, StrippedAreLeaves DEF LeafPaths
<1> HIDE DEF row, taken
<1>4. ASSUME NEW q \in DOMAIN row.residual, row.residual[q] # Branch, IsPrefix(q, l), q # l
      PROVE  FALSE
  <2>1. q \in Path /\ doc[q] # Branch
    BY <1>1, <1>2, <1>4, DocumentPaths
  <2> QED BY <1>1, <1>3, <1>4, <2>1, AboveIsBranch
<1>5. l \notin DOMAIN row.residual /\ ~Blocked(row.residual, l)
  BY <1>2, <1>3, <1>4 DEF Blocked
<1> QED BY <1>5 DEF row

LEMMA OtherLaneIsFree ==
  ASSUME NEW type, RowType(type), NEW doc, Whole(doc), IsObject(doc),
         NEW l, l \notin DOMAIN doc, ~Blocked(doc, l)
  PROVE  l \notin DOMAIN Shred(type, doc).residual /\ ~Blocked(Shred(type, doc).residual, l)
<1> DEFINE row == Shred(type, doc)
           taken == Stripped(type, doc)
<1>1. IsDocument(doc)
  BY DEF Whole
<1>2. /\ IsDocument(row.residual)
      /\ IsObject(row.residual) <=> IsObject(doc)
      /\ ~IsObject(doc) => row.residual = doc
      /\ IsObject(doc) =>
           /\ DOMAIN row.residual = DOMAIN doc \ taken
           /\ \A p \in DOMAIN row.residual : row.residual[p] = doc[p]
      /\ row.lane = [m \in taken |-> doc[m].value]
      /\ DOMAIN row.lane = taken
  BY <1>1, ShredParts
<1> HIDE DEF row, taken
<1>3. l \notin DOMAIN row.residual /\ ~Blocked(row.residual, l)
  BY <1>2 DEF Blocked
<1> QED BY <1>3 DEF row

\* A row of a call whose lanes are copied.
RowStands(row) ==
  /\ Whole(row.residual) /\ Whole(Reconstruct(row))
  /\ ~IsObject(row.residual) => DOMAIN row.lane = {} /\ Reconstruct(row) = row.residual
  /\ IsObject(row.residual) =>
       /\ Laid(Reconstruct(row), row.residual, row.lane)
       /\ Free(row.residual, ResultLanes)
       /\ DOMAIN row.lane \subseteq ResultLanes
       /\ \A l \in DOMAIN row.lane : row.lane[l] # Null

LEMMA ReadRows ==
  ASSUME NoRowIsNull, RowsRead, RowsFollow, AllRead, CanCopyLanes, folded # SqlNull,
         NEW i \in DOMAIN inputs
  PROVE  /\ inputs[i] = SqlNull => i \in {1, Len(inputs)}
         /\ inputs[i] # SqlNull => (i # 1 => IsObject(inputs[i].residual)) /\ RowStands(inputs[i])
<1> DEFINE type == arguments[i].lanes
           row == inputs[i]
<1>1. Typed
  BY DEF RowsRead
<1>2. Len(arguments) \in Nat \ {0} /\ DOMAIN arguments = 1 .. Len(arguments)
  BY <1>1, ArgumentTypes
<1>3. DOMAIN inputs = DOMAIN arguments /\ Len(inputs) = Len(arguments)
  BY <1>1, <1>2 DEF AllRead, RowsRead
<1>4. i \in DOMAIN arguments
  BY <1>3
<1>5. CASE row = SqlNull
  BY <1>3, <1>5 DEF RowsFollow
<1>6. CASE row # SqlNull
  <2>1. PICK doc : doc # SqlNull /\ Whole(doc) /\ row = Shred(type, doc)
    BY <1>6 DEF RowsRead
  <2>2. row # SqlNull
    BY <1>6
  <2>3. Whole(doc)
    BY <2>1
  <2>4. RowType(type) /\ Lanes(arguments[i]) = DOMAIN type
        /\ (arguments[i] = PlainType \/ arguments[i] = ShreddedType(type))
    BY <1>1, <1>4, ArgumentTypes DEF Lanes
  <2>5. ResultLanes \subseteq Path \ {<< >>} /\ DOMAIN type \subseteq ResultLanes /\ Separate(ResultLanes)
    BY <1>1, <1>4, <2>4, ResultIsARowType DEF CanCopyLanes, FastViable, Separate
  <2> HIDE DEF type
  <2>6. /\ Whole(row.residual)
        /\ IsObject(row.residual) <=> IsObject(doc)
        /\ ~IsObject(doc) => DOMAIN row.lane = {}
        /\ DOMAIN row.lane \subseteq DOMAIN type
        /\ \A l \in DOMAIN row.lane : row.lane[l] # Null
        /\ Reconstruct(row) = doc
    BY <2>1, <2>3, <2>4, WrittenRow
  <2>7. ASSUME arguments[i] = PlainType
        PROVE  IsObject(row.residual) /\ \A l \in ResultLanes : ~ResidualHitsShred(row.residual, l)
    <3>1. i \in PlainInputs
      BY <1>4, <2>7 DEF PlainInputs
    <3>2. ~PlainInputTouchesLane(i)
      BY <3>1 DEF CanCopyLanes, RowConflict
    <3> QED BY <2>2, <3>2 DEF PlainInputTouchesLane
  <2>8. i # 1 => IsObject(row.residual)
    <3>1. CASE arguments[i] = PlainType
      BY <2>7, <3>1
    <3>2. CASE arguments[i] # PlainType
      <4>1. i # 1 => IsObject(doc)
        BY <1>6, <2>6, <3>2 DEF RowsFollow
      <4> QED BY <2>6, <4>1
    <3> QED BY <3>1, <3>2
  <2>9. ~IsObject(row.residual) => Reconstruct(row) = row.residual
    BY DEF Reconstruct
  <2>10. ASSUME IsObject(row.residual)
         PROVE  Free(row.residual, ResultLanes)
    <3>1. IsDocument(row.residual) /\ IsObject(doc)
      BY <2>6, <2>10 DEF Whole
    <3>2. SUFFICES ASSUME NEW l \in ResultLanes
                   PROVE  l \notin DOMAIN row.residual /\ ~Blocked(row.residual, l)
      BY DEF Free
    <3>3. l \in Path /\ l # << >>
      BY <2>5
    <3> DEFINE r == row.residual
    <3>4. ASSUME ~ResidualHitsShred(r, l)
          PROVE  l \notin DOMAIN r /\ ~Blocked(r, l)
      <4>1. IsDocument(r) /\ IsObject(r)
        BY <2>10, <3>1
      <4> HIDE DEF r
      <4> QED BY <3>3, <3>4, <4>1, NotHit
    <3>5. CASE arguments[i] = PlainType
      BY <2>7, <3>4, <3>5
    <3>6. CASE arguments[i] # PlainType /\ l \in DOMAIN row.lane
      BY <2>1, <2>3, <2>4, <3>1, <3>6, LaneHitsNothing
    <3>7. CASE arguments[i] # PlainType /\ l \in DOMAIN type /\ l \notin DOMAIN row.lane
      <4>1. ~ShreddedInputHidesLane(i)
        BY <1>4, <3>7 DEF CanCopyLanes, RowConflict, PlainInputs
      <4>2. ~ResidualHitsShred(row.residual, l)
        BY <2>2, <2>4, <3>7, <4>1 DEF ShreddedInputHidesLane
      <4> QED BY <3>4, <4>2
    <3>8. CASE arguments[i] # PlainType /\ l \notin DOMAIN type
      <4>1. PICK k \in DOMAIN arguments : l \in Lanes(arguments[k])
        BY DEF ResultLanes, ResultType, ShreddedType, Lanes
      <4>2. Free(doc, Lanes(arguments[k]) \ Lanes(arguments[i]))
        BY <1>6, <2>6, <3>1, <3>8, <4>1 DEF RowsFollow
      <4>3. l \notin DOMAIN doc /\ ~Blocked(doc, l)
        BY <2>4, <3>8, <4>1, <4>2 DEF Free
      <4> QED BY <2>1, <2>3, <2>4, <3>1, <4>3, OtherLaneIsFree
    <3> QED BY <2>6, <3>5, <3>6, <3>7, <3>8
  <2>11. DOMAIN row.lane \subseteq ResultLanes
    BY <2>5, <2>6
  <2>12. ASSUME IsObject(row.residual)
         PROVE  Laid(Reconstruct(row), row.residual, row.lane)
    <3>1. IsDocument(row.residual)
      BY <2>6 DEF Whole
    <3>2. Free(row.residual, ResultLanes)
      BY <2>10, <2>12
    <3>3. \A l \in DOMAIN row.lane : row.lane[l] # Null
      BY <2>6
    <3> HIDE DEF row
    <3> QED BY <2>5, <2>11, <2>12, <3>1, <3>2, <3>3, LaidRow
  <2>13. RowStands(row)
    BY <2>3, <2>6, <2>9, <2>10, <2>11, <2>12 DEF RowStands
  <2> QED BY <2>2, <2>8, <2>13
<1> QED BY <1>5, <1>6

\* The lanes of the rows up to one of them.
Holding(i, l) == {k \in 1 .. i : HoldsLane(k, l)}
CopiedTo(i) ==
  [l \in {m \in ResultLanes : Holding(i, m) # {}} |-> inputs[Max(Holding(i, l))].lane[l]]

LEMMA CopiedToOne ==
  ASSUME inputs[1] # SqlNull, DOMAIN inputs[1].lane \subseteq ResultLanes
  PROVE  /\ DOMAIN CopiedTo(1) = DOMAIN inputs[1].lane
         /\ \A l \in DOMAIN CopiedTo(1) : CopiedTo(1)[l] = inputs[1].lane[l]
<1>1. \A l : Holding(1, l) = IF l \in DOMAIN inputs[1].lane THEN {1} ELSE {}
  BY DEF Holding, HoldsLane
<1>2. DOMAIN CopiedTo(1) = DOMAIN inputs[1].lane
  BY <1>1 DEF CopiedTo
<1>3. ASSUME NEW l \in DOMAIN CopiedTo(1) PROVE CopiedTo(1)[l] = inputs[1].lane[l]
  <2>1. Holding(1, l) = {1} /\ CopiedTo(1)[l] = inputs[Max(Holding(1, l))].lane[l]
    BY <1>1, <1>2, <1>3 DEF CopiedTo
  <2>2. Max({1}) = 1
    <3>1. Max({1}) \in {1}
      BY Greatest
    <3> QED BY <3>1
  <2> QED BY <2>1, <2>2
<1> QED BY <1>2, <1>3

LEMMA NothingCopied ==
  ASSUME inputs[1] = SqlNull \/ DOMAIN inputs[1].lane = {}
  PROVE  DOMAIN CopiedTo(1) = {}
<1>1. \A l : Holding(1, l) = {}
  BY DEF Holding, HoldsLane
<1> QED BY <1>1 DEF CopiedTo

LEMMA CopiedToNext ==
  ASSUME NEW i \in Nat \ {0, 1}, inputs[i] # SqlNull, DOMAIN inputs[i].lane \subseteq ResultLanes
  PROVE  CopiedTo(i) = Joined(CopiedTo(i - 1), inputs[i].lane)
<1> DEFINE more == inputs[i].lane
           before == CopiedTo(i - 1)
<1>1. ASSUME NEW l
      PROVE  Holding(i, l) = IF l \in DOMAIN more THEN Holding(i - 1, l) \cup {i} ELSE Holding(i - 1, l)
  BY DEF Holding, HoldsLane
<1>2. DOMAIN before = {m \in ResultLanes : Holding(i - 1, m) # {}}
  BY DEF CopiedTo
<1>3. DOMAIN CopiedTo(i) = {m \in ResultLanes : Holding(i, m) # {}}
  BY DEF CopiedTo
<1> HIDE DEF more
<1>4. DOMAIN CopiedTo(i) = DOMAIN before \cup DOMAIN more
  <2> HIDE DEF before
  <2>1. ASSUME NEW l PROVE l \in DOMAIN CopiedTo(i) <=> l \in DOMAIN before \/ l \in DOMAIN more
    BY <1>1, <1>2, <1>3 DEF more
  <2> QED BY <2>1
<1>5. ASSUME NEW l \in DOMAIN CopiedTo(i)
      PROVE  CopiedTo(i)[l] = IF l \in DOMAIN more THEN more[l] ELSE before[l]
  <2>1. CopiedTo(i)[l] = inputs[Max(Holding(i, l))].lane[l]
    BY <1>3, <1>5 DEF CopiedTo
  <2>2. CASE l \in DOMAIN more
    <3>1. Holding(i, l) \subseteq 0 .. i /\ i \in Holding(i, l)
      BY <1>1, <2>2 DEF Holding
    <3>2. Max(Holding(i, l)) \in Holding(i, l) /\ i <= Max(Holding(i, l))
      BY <3>1, Greatest
    <3>3. Max(Holding(i, l)) = i
      BY <3>1, <3>2
    <3> QED BY <2>1, <2>2, <3>3 DEF more
  <2>3. CASE l \notin DOMAIN more
    <3>1. Holding(i, l) = Holding(i - 1, l)
      BY <1>1, <2>3
    <3>2. l \in DOMAIN before
      BY <1>4, <1>5, <2>3
    <3>3. before[l] = inputs[Max(Holding(i - 1, l))].lane[l]
      BY <1>2, <3>2 DEF CopiedTo
    <3> QED BY <2>1, <2>3, <3>1, <3>3
  <2> QED BY <2>2, <2>3
<1>6. CopiedTo(i) = [l \in DOMAIN CopiedTo(i) |-> CopiedTo(i)[l]]
  BY DEF CopiedTo
<1>7. CopiedTo(i) = [l \in DOMAIN before \cup DOMAIN more |-> IF l \in DOMAIN more THEN more[l] ELSE before[l]]
  <2> HIDE DEF before
  <2> QED BY <1>4, <1>5, <1>6
<1> QED BY <1>7 DEF Joined, more

LEMMA LaidBySameLanes ==
  ASSUME NEW v, NEW r, NEW lane, Laid(v, r, lane),
         NEW same, DOMAIN same = DOMAIN lane, \A l \in DOMAIN lane : same[l] = lane[l]
  PROVE  Laid(v, r, same)
<1>1. Ways(same) = Ways(lane)
  BY DEF Ways
<1> QED BY <1>1 DEF Laid

Residuals == [i \in DOMAIN inputs |-> IF inputs[i] = SqlNull THEN SqlNull ELSE inputs[i].residual]

\* The documents and the residuals of the rows read.
LEMMA ReadDocuments ==
  ASSUME RowsRead
  PROVE  /\ Len(inputs) \in Nat /\ DOMAIN inputs = 1 .. Len(inputs)
         /\ \A i \in DOMAIN inputs :
              /\ Documents[i] = IF inputs[i] = SqlNull THEN SqlNull ELSE Reconstruct(inputs[i])
              /\ Residuals[i] = IF inputs[i] = SqlNull THEN SqlNull ELSE inputs[i].residual
              /\ inputs[i] # SqlNull => Whole(Documents[i]) /\ Whole(Residuals[i])
<1>1. Typed /\ Len(inputs) <= Len(arguments)
  BY DEF RowsRead
<1>2. Len(arguments) \in Nat \ {0} /\ DOMAIN arguments = 1 .. Len(arguments)
  BY <1>1, ArgumentTypes
<1>3. Len(inputs) \in Nat /\ DOMAIN inputs = 1 .. Len(inputs)
  BY DEF RowsRead
<1>4. ASSUME NEW i \in DOMAIN inputs
      PROVE  /\ Documents[i] = IF inputs[i] = SqlNull THEN SqlNull ELSE Reconstruct(inputs[i])
             /\ Residuals[i] = IF inputs[i] = SqlNull THEN SqlNull ELSE inputs[i].residual
             /\ inputs[i] # SqlNull => Whole(Documents[i]) /\ Whole(Residuals[i])
  <2>1. Documents[i] = IF inputs[i] = SqlNull THEN SqlNull ELSE Reconstruct(inputs[i])
    BY DEF Documents, DocumentOf
  <2>2. Residuals[i] = IF inputs[i] = SqlNull THEN SqlNull ELSE inputs[i].residual
    BY DEF Residuals
  <2>3. ASSUME inputs[i] # SqlNull
        PROVE  Whole(Documents[i]) /\ Whole(Residuals[i])
    <3> DEFINE row == inputs[i]
               type == arguments[i].lanes
    <3>1. i \in DOMAIN arguments
      BY <1>1, <1>2, <1>3
    <3>2. PICK doc : Whole(doc) /\ row = Shred(type, doc)
      BY <2>3 DEF RowsRead
    <3>3. RowType(type)
      BY <1>1, <3>1, ArgumentTypes
    <3> HIDE DEF type
    <3>4. Whole(row.residual) /\ Reconstruct(row) = doc
      BY <3>2, <3>3, WrittenRow
    <3> QED BY <2>1, <2>2, <2>3, <3>2, <3>4
  <2> QED BY <2>1, <2>2, <2>3
<1> QED BY <1>3, <1>4

\* The fold of the documents is the fold of the residuals with the lanes copied
\* so far laid over it, after every row.
LEMMA FoldsStand ==
  ASSUME NoDocumentIsNull, NoRowIsNull, RowsRead, RowsFollow, AllRead, CanCopyLanes, folded # SqlNull,
         NEW n, n = Len(inputs),
         NEW d, IsResidualFold(d, Documents, n), NEW g, IsResidualFold(g, Residuals, n), g[n] = folded,
         NEW j \in 1 .. n
  PROVE  Standing(d[j], g[j], CopiedTo(j), ResultLanes)
<1>1. /\ n \in Nat /\ DOMAIN inputs = 1 .. n
      /\ \A i \in DOMAIN inputs :
           /\ Documents[i] = IF inputs[i] = SqlNull THEN SqlNull ELSE Reconstruct(inputs[i])
           /\ Residuals[i] = IF inputs[i] = SqlNull THEN SqlNull ELSE inputs[i].residual
  BY ReadDocuments
<1>2. \A i \in 1 .. n : d[i] = IF i = 1 THEN Documents[1] ELSE MergeFoldStep(d[i - 1], Documents[i])
  BY DEF IsResidualFold
<1>3. \A i \in 1 .. n : g[i] = IF i = 1 THEN Residuals[1] ELSE MergeFoldStep(g[i - 1], Residuals[i])
  BY DEF IsResidualFold
<1>4. ResultLanes \subseteq Path \ {<< >>} /\ Separate(ResultLanes)
  <2>1. Typed
    BY DEF RowsRead
  <2> QED BY <2>1, ResultIsARowType DEF CanCopyLanes, FastViable, Separate
<1>5. \A i : DOMAIN CopiedTo(i) \subseteq ResultLanes
  BY DEF CopiedTo
<1>6. ASSUME NEW i \in 1 .. n, inputs[i] # SqlNull
      PROVE  /\ Whole(inputs[i].residual) /\ Whole(Reconstruct(inputs[i]))
             /\ inputs[i].residual # SqlNull /\ Reconstruct(inputs[i]) # SqlNull
             /\ i # 1 => IsObject(inputs[i].residual)
             /\ ~IsObject(inputs[i].residual) =>
                  DOMAIN inputs[i].lane = {} /\ Reconstruct(inputs[i]) = inputs[i].residual
             /\ IsObject(inputs[i].residual) =>
                  /\ Laid(Reconstruct(inputs[i]), inputs[i].residual, inputs[i].lane)
                  /\ Free(inputs[i].residual, ResultLanes)
                  /\ DOMAIN inputs[i].lane \subseteq ResultLanes
                  /\ \A l \in DOMAIN inputs[i].lane : inputs[i].lane[l] # Null
  <2>1. (i # 1 => IsObject(inputs[i].residual)) /\ RowStands(inputs[i])
    BY <1>1, <1>6, ReadRows
  <2> QED BY <2>1 DEF RowStands, NoDocumentIsNull, Whole
<1>7. ASSUME NEW i \in 2 .. n
      PROVE  inputs[i] # SqlNull
  <2>1. SUFFICES ASSUME inputs[i] = SqlNull PROVE FALSE
    OBVIOUS
  <2>2. i \in DOMAIN inputs /\ i # 1
    BY <1>1
  <2>3. i = n
    BY <2>1, <2>2, ReadRows
  <2>4. g[n] = SqlNull
    BY <1>1, <1>3, <2>1, <2>2, <2>3 DEF MergeFoldStep
  <2> QED BY <2>4
<1> DEFINE B == {i \in 1 .. n : ~Standing(d[i], g[i], CopiedTo(i), ResultLanes)}
<1>8. B = {}
  <2>1. SUFFICES ASSUME B # {} PROVE FALSE
    OBVIOUS
  <2>2. PICK k \in B : \A i \in B : k <= i
    <3> HIDE DEF B
    <3> B \subseteq 0 .. n
      BY DEF B
    <3> QED BY <1>1, <2>1, Least
  <2>3. k \in 1 .. n /\ ~Standing(d[k], g[k], CopiedTo(k), ResultLanes)
    BY <2>2
  <2>4. CASE k = 1
    <3>1. 1 \in 1 .. n /\ d[1] = Documents[1] /\ g[1] = Residuals[1]
      BY <1>2, <1>3, <2>3, <2>4
    <3>2. CASE inputs[1] = SqlNull
      <4>1. d[1] = SqlNull /\ g[1] = SqlNull
        BY <1>1, <3>1, <3>2
      <4>2. DOMAIN CopiedTo(1) = {}
        BY <3>2, NothingCopied
      <4> QED BY <2>3, <2>4, <4>1, <4>2 DEF Standing
    <3>3. CASE inputs[1] # SqlNull
      <4>1. d[1] = Reconstruct(inputs[1]) /\ g[1] = inputs[1].residual
        BY <1>1, <3>1, <3>3
      <4>2. CASE ~IsObject(inputs[1].residual)
        <5>1. DOMAIN CopiedTo(1) = {}
          BY <1>6, <3>1, <3>3, <4>2, NothingCopied
        <5>2. d[1] = g[1] /\ Whole(g[1]) /\ ~IsObject(g[1])
          BY <1>6, <3>1, <3>3, <4>1, <4>2
        <5> QED BY <2>3, <2>4, <5>1, <5>2 DEF Standing
      <4>3. CASE IsObject(inputs[1].residual)
        <5>1. /\ Laid(d[1], g[1], inputs[1].lane) /\ Free(g[1], ResultLanes)
              /\ DOMAIN inputs[1].lane \subseteq ResultLanes
              /\ d[1] # SqlNull /\ g[1] # SqlNull
          BY <1>6, <3>1, <3>3, <4>1, <4>3
        <5>2. /\ DOMAIN CopiedTo(1) = DOMAIN inputs[1].lane
              /\ \A l \in DOMAIN CopiedTo(1) : CopiedTo(1)[l] = inputs[1].lane[l]
          BY <3>3, <5>1, CopiedToOne
        <5>3. Laid(d[1], g[1], CopiedTo(1))
          BY <5>1, <5>2, LaidBySameLanes
        <5> QED BY <2>3, <2>4, <5>1, <5>3 DEF Standing
      <4> QED BY <4>2, <4>3
    <3> QED BY <3>2, <3>3
  <2>5. CASE k # 1
    <3>1. k \in 2 .. n /\ k - 1 \in 1 .. n /\ ~(k <= k - 1) /\ k \in Nat \ {0, 1} /\ k \in 1 .. n
      BY <1>1, <2>3, <2>5
    <3>2. Standing(d[k - 1], g[k - 1], CopiedTo(k - 1), ResultLanes)
      BY <2>2, <3>1
    <3>3. inputs[k] # SqlNull
      BY <1>7, <3>1
    <3> DEFINE w == Reconstruct(inputs[k])
               s == inputs[k].residual
               more == inputs[k].lane
               before == CopiedTo(k - 1)
    <3>4. d[k] = MergeFoldStep(d[k - 1], w) /\ g[k] = MergeFoldStep(g[k - 1], s)
      BY <1>1, <1>2, <1>3, <2>5, <3>1, <3>3
    <3>5. /\ Laid(w, s, more) /\ Free(s, ResultLanes) /\ DOMAIN more \subseteq ResultLanes
          /\ \A l \in DOMAIN more : more[l] # Null
      BY <1>6, <2>5, <3>1, <3>3
    <3>6. CopiedTo(k) = Joined(before, more)
      BY <3>1, <3>3, <3>5, CopiedToNext
    <3>7. DOMAIN before \subseteq ResultLanes
      BY <1>5
    <3>8. Standing(d[k - 1], g[k - 1], before, ResultLanes)
      BY <3>2
    <3> HIDE DEF w, s, more, before
    <3>9. Standing(MergeFoldStep(d[k - 1], w), MergeFoldStep(g[k - 1], s), Joined(before, more), ResultLanes)
      BY <1>4, <3>5, <3>7, <3>8, StepStands
    <3> QED BY <2>3, <3>4, <3>6, <3>9
  <2> QED BY <2>4, <2>5
<1> QED BY <1>8

LEMMA DocumentsAreWhole ==
  ASSUME RowsRead
  PROVE  \A i \in 1 .. Len(inputs) :
           (Documents[i] = SqlNull \/ Whole(Documents[i])) /\ (Residuals[i] = SqlNull \/ Whole(Residuals[i]))
BY ReadDocuments

\* The fold of the residuals is SQL NULL only where the last document is.
LEMMA NullFolds ==
  ASSUME NoDocumentIsNull, RowsRead,
         NEW n \in Nat \ {0}, n = Len(inputs),
         NEW d, IsResidualFold(d, Documents, n),
         NEW g, IsResidualFold(g, Residuals, n), g[n] = SqlNull
  PROVE  d[n] = SqlNull
<1>1. /\ DOMAIN inputs = 1 .. n
      /\ \A i \in 1 .. n :
           /\ Documents[i] = IF inputs[i] = SqlNull THEN SqlNull ELSE Reconstruct(inputs[i])
           /\ Residuals[i] = IF inputs[i] = SqlNull THEN SqlNull ELSE inputs[i].residual
           /\ inputs[i] # SqlNull => Whole(Documents[i]) /\ Whole(Residuals[i])
  BY ReadDocuments
<1>2. \A i \in 1 .. n : g[i] = SqlNull \/ Whole(g[i])
  <2> DEFINE values == Residuals
  <2>1. n \in Nat /\ \A i \in 1 .. n : values[i] = SqlNull \/ Whole(values[i])
    BY DocumentsAreWhole
  <2>2. IsResidualFold(g, values, n)
    OBVIOUS
  <2> HIDE DEF values
  <2> QED BY <2>1, <2>2, FoldIsWhole
<1>3. g[n] = IF n = 1 THEN Residuals[1] ELSE MergeFoldStep(g[n - 1], Residuals[n])
  <2>1. \A i \in 1 .. n : g[i] = IF i = 1 THEN Residuals[1] ELSE MergeFoldStep(g[i - 1], Residuals[i])
    BY DEF IsResidualFold
  <2>2. n \in 1 .. n
    OBVIOUS
  <2> QED BY <2>1, <2>2
<1>4. d[n] = IF n = 1 THEN Documents[1] ELSE MergeFoldStep(d[n - 1], Documents[n])
  <2>1. \A i \in 1 .. n : d[i] = IF i = 1 THEN Documents[1] ELSE MergeFoldStep(d[i - 1], Documents[i])
    BY DEF IsResidualFold
  <2>2. n \in 1 .. n
    OBVIOUS
  <2> QED BY <2>1, <2>2
<1>5. inputs[n] = SqlNull
  <2>1. SUFFICES ASSUME inputs[n] # SqlNull PROVE FALSE
    OBVIOUS
  <2>2. Whole(Residuals[n]) /\ Residuals[n] # SqlNull
    <3>1. n \in 1 .. n
      OBVIOUS
    <3>2. Whole(Residuals[n])
      BY <1>1, <2>1, <3>1
    <3> QED BY <3>2 DEF NoDocumentIsNull, Whole
  <2>3. CASE n = 1
    BY <1>3, <2>2, <2>3
  <2>4. CASE n # 1
    <3>1. n - 1 \in 1 .. n
      BY <2>4
    <3>2. g[n - 1] = SqlNull \/ Whole(g[n - 1])
      BY <1>2, <3>1
    <3>3. MergeFoldStep(g[n - 1], Residuals[n]) # SqlNull
      BY <2>2, <3>2, PatchedIsNotNull
    <3> QED BY <1>3, <2>4, <3>3
  <2> QED BY <2>3, <2>4
<1>6. Documents[n] = SqlNull
  BY <1>1, <1>5
<1> QED BY <1>4, <1>6 DEF MergeFoldStep

\* The residuals folded so far, and the promise; a result comes after the rows.
MergeTrue ==
  /\ MergeOK
  /\ Len(inputs) # 0 => folded = RunResidualFold(Residuals)
  /\ result # Pending => Len(inputs) = Len(arguments)
  /\ MergedRowIsThePatchedDocument

LEMMA MergeInitTrue ==
  ASSUME MergeInit
  PROVE  MergeTrue
<1>1. MergeOK
  BY MergeInitOK
<1>2. Len(inputs) = 0 /\ result = Pending
  BY DEF MergeInit
<1> QED BY <1>1, <1>2 DEF MergeTrue, MergedRowIsThePatchedDocument

LEMMA ReadTrue ==
  ASSUME LanesFollow, MergeTrue,
         NEW i \in DOMAIN arguments, NEW doc \in Arguments(arguments, i), Read(i, doc)
  PROVE  MergeTrue'
<1> DEFINE row == RowOf(arguments[i].lanes, doc)
           residual == IF row = SqlNull THEN SqlNull ELSE row.residual
           n == Len(inputs)
           more == Residuals'
<1>1. /\ i = n + 1
      /\ inputs' = Append(inputs, row)
      /\ folded' = IF i = 1 THEN residual ELSE MergeFoldStep(folded, residual)
      /\ arguments' = arguments /\ result' = result
  BY DEF Read
<1>2. MergeOK
  BY DEF MergeTrue
<1>3. MergeOK'
  BY <1>2, FollowingPatchesAreObjects, ReadOK
<1>4. /\ arguments \in ArgumentLists
      /\ inputs \in Seq(UNION {InputRows(k) : k \in DOMAIN arguments})
  BY <1>2 DEF MergeOK
<1>5. /\ n \in Nat /\ DOMAIN inputs = 1 .. n /\ Len(inputs') = n + 1 /\ DOMAIN inputs' = 1 .. n + 1
      /\ inputs'[n + 1] = row /\ \A k \in 1 .. n : inputs'[k] = inputs[k]
  <2> HIDE DEF row
  <2> DEFINE InputSet == UNION {InputRows(k) : k \in DOMAIN arguments}
  <2>1. row \in InputSet
    BY <1>1 DEF InputRows, row
  <2>2. inputs \in Seq(InputSet)
    BY <1>4
  <2> HIDE DEF InputSet
  <2> QED BY <1>1, <2>1, <2>2
<1>6. result' = Pending
  <2>1. DOMAIN arguments = 1 .. Len(arguments) /\ Len(arguments) \in Nat
    BY <1>4, ListsAreTyped, ArgumentTypes
  <2>2. n + 1 \in 1 .. Len(arguments)
    BY <1>1, <2>1
  <2> DEFINE total == Len(arguments)
  <2>3. n \in Nat /\ total \in Nat /\ n + 1 \in 1 .. total
    BY <1>5, <2>1, <2>2
  <2> HIDE DEF n, total
  <2>4. n # total
    BY <2>3
  <2>5. n # Len(arguments)
    BY <2>4 DEF total
  <2> QED BY <1>1, <2>5 DEF MergeTrue, n
<1>7. /\ DOMAIN more = 1 .. n + 1 /\ Len(more) = n + 1 /\ more[n + 1] = residual
      /\ \A k \in 1 .. n : more[k] = Residuals[k]
  <2>1. more = [k \in 1 .. n + 1 |-> IF inputs'[k] = SqlNull THEN SqlNull ELSE inputs'[k].residual]
    BY <1>5 DEF Residuals
  <2>2. Residuals = [k \in 1 .. n |-> IF inputs[k] = SqlNull THEN SqlNull ELSE inputs[k].residual]
    BY <1>5 DEF Residuals
  <2> HIDE DEF more, row
  <2> QED BY <1>5, <2>1, <2>2
<1>8. DOMAIN Residuals = 1 .. n /\ Len(Residuals) = n
  BY <1>5 DEF Residuals
<1> HIDE DEF more, residual
<1>9. PICK h : IsResidualFold(h, more, n + 1)
  <2> DEFINE m == n + 1
  <2>1. m \in Nat
    BY <1>5
  <2> HIDE DEF m
  <2>2. \E h : IsResidualFold(h, more, m)
    BY <2>1, ResidualFoldExists
  <2> QED BY <2>2 DEF m
<1>10. RunResidualFold(more) = h[n + 1]
  BY <1>5, <1>7, <1>9, RunFoldIs
<1>11. h[n + 1] = IF n + 1 = 1 THEN more[1] ELSE MergeFoldStep(h[n], more[n + 1])
  BY <1>5, <1>9 DEF IsResidualFold
<1>12. folded' = RunResidualFold(more)
  <2>1. CASE n = 0
    BY <1>1, <1>7, <1>10, <1>11, <2>1
  <2>2. CASE n # 0
    <3>1. PICK g : IsResidualFold(g, Residuals, n)
      BY <1>5, ResidualFoldExists
    <3>2. RunResidualFold(Residuals) = g[n]
      BY <1>5, <1>8, <2>2, <3>1, RunFoldIs
    <3>7. folded = RunResidualFold(Residuals)
      BY <2>2 DEF MergeTrue
    <3> DEFINE m == n + 1
               before == Residuals
    <3>0. n \in Nat
      BY <1>5
    <3>3. n \in 1 .. n /\ m \in Nat /\ n <= m /\ \A k \in 1 .. n : before[k] = more[k]
      BY <1>5, <1>7, <2>2
    <3>4. IsResidualFold(g, before, n) /\ IsResidualFold(h, more, m)
      BY <1>9, <3>1
    <3> HIDE DEF m, before, n
    <3>5. \A k \in 1 .. n : g[k] = h[k]
      BY <3>0, <3>3, <3>4, FoldsAgree
    <3>6. h[n] = folded
      BY <3>7, <3>2, <3>3, <3>5
    <3> QED BY <1>1, <1>5, <1>7, <1>10, <1>11, <2>2, <3>6
  <2> QED BY <2>1, <2>2
<1> QED BY <1>3, <1>6, <1>12 DEF MergeTrue, MergedRowIsThePatchedDocument, more

LEMMA CopyLanesTrue ==
  ASSUME NoDocumentIsNull, NoRowIsNull, RowsRead, RowsFollow,
         Len(inputs) # 0 => folded = RunResidualFold(Residuals), CopyLanes
  PROVE  DocumentOf(result') = PatchedDocument
<1> DEFINE n == Len(inputs)
<1>1. /\ AllRead /\ CanCopyLanes
      /\ result' = IF folded = SqlNull THEN SqlNull
                   ELSE [residual |-> folded, lane |-> Copied, spilled |-> {}]
  BY DEF CopyLanes, Copied
<1>2. Typed
  BY DEF RowsRead
<1>3. n \in Nat \ {0} /\ DOMAIN inputs = 1 .. n /\ DOMAIN arguments = 1 .. n
  BY <1>1, <1>2, ArgumentTypes, ReadDocuments DEF AllRead
<1>4. \A i \in 1 .. n : Documents[i] = SqlNull \/ Whole(Documents[i])
  BY <1>2, DocumentsAreWhole
<1>5. PICK d : IsResidualFold(d, Documents, n)
  BY <1>3, ResidualFoldExists
<1>6. PatchedDocument = d[n]
  <2> HIDE DEF n
  <2>1. Len(inputs) = n
    BY DEF n
  <2> QED BY <1>3, <1>4, <1>5, <2>1, PatchedIs
<1>7. PICK g : IsResidualFold(g, Residuals, n)
  BY <1>3, ResidualFoldExists
<1>8. folded = g[n]
  <2>1. DOMAIN Residuals = 1 .. n /\ Len(Residuals) = n
    BY <1>3 DEF Residuals
  <2>2. folded = RunResidualFold(Residuals)
    BY <1>3
  <2> HIDE DEF n
  <2>3. RunResidualFold(Residuals) = g[n]
    BY <1>3, <1>7, <2>1, RunFoldIs
  <2> QED BY <2>2, <2>3
<1>9. CASE folded = SqlNull
  <2>1. d[n] = SqlNull
    BY <1>2, <1>3, <1>5, <1>7, <1>8, <1>9, NullFolds
  <2> QED BY <1>1, <1>6, <1>9, <2>1 DEF DocumentOf
<1>10. CASE folded # SqlNull
  <2> DEFINE row == [residual |-> folded, lane |-> Copied, spilled |-> {}]
  <2>1. result' = row /\ row.residual = folded /\ row.lane = Copied
    BY <1>1, <1>10
  <2>2. row # SqlNull
    BY DEF NoRowIsNull
  <2> HIDE DEF row
  <2>3. DocumentOf(result') = Reconstruct(row)
    BY <2>1, <2>2 DEF DocumentOf
  <2>4. CopiedTo(n) = Copied
    <3>1. \A l : Candidates(l) = Holding(n, l)
      BY <1>3 DEF Candidates, Holding
    <3> QED BY <3>1 DEF CopiedTo, Copied
  <2>5. Standing(d[n], folded, Copied, ResultLanes)
    <3>1. n \in 1 .. n /\ g[n] = folded
      BY <1>3, <1>8
    <3>2. n = Len(inputs)
      OBVIOUS
    <3> HIDE DEF n
    <3>3. Standing(d[n], g[n], CopiedTo(n), ResultLanes)
      BY <1>1, <1>2, <1>5, <1>7, <1>10, <3>1, <3>2, FoldsStand
    <3> QED BY <2>4, <3>1, <3>3
  <2>6. CASE ~IsObject(folded)
    <3>1. d[n] = folded
      BY <2>5, <2>6 DEF Standing, Laid
    <3>2. Reconstruct(row) = folded
      BY <2>1, <2>6 DEF Reconstruct
    <3> QED BY <1>6, <2>3, <3>1, <3>2
  <2>7. CASE IsObject(folded)
    <3>1. Laid(d[n], folded, Copied) /\ Free(folded, ResultLanes)
      BY <1>10, <2>5, <2>7 DEF Standing
    <3>2. ResultLanes \subseteq Path \ {<< >>} /\ Separate(ResultLanes)
      BY <1>1, <1>2, ResultIsARowType DEF CanCopyLanes, FastViable, Separate
    <3>3. DOMAIN Copied \subseteq ResultLanes
      BY DEF Copied
    <3>4. \A l \in DOMAIN Copied : Copied[l] # Null
      BY <1>1, <1>2, CopiedValues
    <3>5. IsDocument(folded)
      BY <3>1 DEF Laid
    <3>6. Laid(Reconstruct(row), row.residual, row.lane)
      BY <2>1, <2>7, <3>1, <3>2, <3>3, <3>4, <3>5, LaidRow
    <3>7. Reconstruct(row) = d[n]
      BY <2>1, <3>1, <3>6, LaidIsUnique
    <3> QED BY <1>6, <2>3, <3>7
  <2> QED BY <2>6, <2>7
<1> QED BY <1>9, <1>10

LEMMA ReshredTrue ==
  ASSUME NoRowIsNull, RowsRead, Reshred
  PROVE  DocumentOf(result') = PatchedDocument
<1> DEFINE n == Len(inputs)
           merged == RunResidualFold(Documents)
<1>1. AllRead /\ result' = RowOf(ResultType.lanes, merged)
  BY DEF Reshred, Documents
<1>2. Typed
  BY DEF RowsRead
<1>3. n \in Nat \ {0} /\ DOMAIN inputs = 1 .. n
  BY <1>1, <1>2, ArgumentTypes, ReadDocuments DEF AllRead
<1>4. \A i \in 1 .. n : Documents[i] = SqlNull \/ Whole(Documents[i])
  BY <1>2, DocumentsAreWhole
<1>5. DOMAIN Documents = 1 .. n /\ Len(Documents) = n
  BY <1>3 DEF Documents
<1>6. PICK d : IsResidualFold(d, Documents, n)
  BY <1>3, ResidualFoldExists
<1>7. Len(inputs) = n
  OBVIOUS
<1> HIDE DEF n
<1>8. PatchedDocument = d[n]
  BY <1>3, <1>4, <1>6, <1>7, PatchedIs
<1>9. merged = d[n]
  BY <1>3, <1>5, <1>6, RunFoldIs
<1>10. d[n] = SqlNull \/ Whole(d[n])
  BY <1>3, <1>4, <1>6, FoldIsWhole
<1>11. RowType(ResultType.lanes)
  BY <1>2, ResultIsARowType
<1> HIDE DEF merged
<1>12. DocumentOf(RowOf(ResultType.lanes, merged)) = merged
  <2> DEFINE type == ResultType.lanes
  <2>1. CASE merged = SqlNull
    BY <2>1 DEF RowOf, DocumentOf
  <2>2. CASE merged # SqlNull
    <3>1. Whole(merged) /\ RowType(type)
      BY <1>9, <1>10, <1>11, <2>2
    <3> HIDE DEF type
    <3>2. Reconstruct(Shred(type, merged)) = merged
      BY <3>1, WrittenRow
    <3>3. Shred(type, merged) # SqlNull
      BY DEF Shred, NoRowIsNull
    <3> QED BY <2>2, <3>2, <3>3 DEF RowOf, DocumentOf, type
  <2> QED BY <2>1, <2>2
<1> QED BY <1>1, <1>8, <1>9, <1>12

LEMMA MergeNextTrue ==
  ASSUME LanesFollow, NoDocumentIsNull, NoRowIsNull, MergeTrue, [MergeNext]_mergeVars
  PROVE  MergeTrue'
<1>1. MergeOK'
  BY FollowingPatchesAreObjects, MergeNextOK DEF MergeTrue
<1>2. CASE \E i \in DOMAIN arguments : \E doc \in Arguments(arguments, i) : Read(i, doc)
  <2>1. PICK i \in DOMAIN arguments : \E doc \in Arguments(arguments, i) : Read(i, doc)
    BY <1>2
  <2>2. PICK doc \in Arguments(arguments, i) : Read(i, doc)
    BY <2>1
  <2> QED BY <2>2, ReadTrue
<1>3. ASSUME arguments' = arguments, inputs' = inputs
      PROVE  PatchedDocument' = PatchedDocument /\ Residuals' = Residuals
  BY <1>3 DEF PatchedDocument, Documents, Residuals
<1>4. CASE CopyLanes \/ Reshred
  <2>1. arguments' = arguments /\ inputs' = inputs /\ folded' = folded /\ AllRead
    BY <1>4 DEF CopyLanes, Reshred
  <2>2. DocumentOf(result') = PatchedDocument
    <3>1. RowsRead /\ RowsFollow
      BY RowsAreRead, RowsOfListsFollow DEF MergeTrue
    <3>2. Len(inputs) # 0 => folded = RunResidualFold(Residuals)
      BY DEF MergeTrue
    <3> QED BY <1>4, <3>1, <3>2, CopyLanesTrue, ReshredTrue
  <2>3. MergedRowIsThePatchedDocument'
    BY <1>3, <2>1, <2>2 DEF MergedRowIsThePatchedDocument
  <2>4. Len(inputs') # 0 => folded' = RunResidualFold(Residuals')
    BY <1>3, <2>1 DEF MergeTrue
  <2>5. Len(inputs') = Len(arguments')
    BY <2>1 DEF AllRead
  <2> QED BY <1>1, <2>3, <2>4, <2>5 DEF MergeTrue
<1>5. CASE UNCHANGED mergeVars
  <2>1. arguments' = arguments /\ inputs' = inputs /\ folded' = folded /\ result' = result
    BY <1>5 DEF mergeVars
  <2>2. MergedRowIsThePatchedDocument'
    BY <1>3, <2>1 DEF MergeTrue, MergedRowIsThePatchedDocument
  <2> QED BY <1>1, <1>3, <2>1, <2>2 DEF MergeTrue
<1> QED BY <1>2, <1>4, <1>5 DEF MergeNext

\* The result of jsono_merge_patch stands for the first document with the others
\* applied to it one after the other as RFC 7396 patches, whether the lanes were
\* copied or the row was reshredded, for any row types, documents and number of
\* arguments that the copied lanes can follow.
THEOREM MergedRow ==
  ASSUME LanesFollow, NoDocumentIsNull, NoRowIsNull
  PROVE  MergeSpec => []MergedRowIsThePatchedDocument
<1>1. MergeInit => MergeTrue
  BY MergeInitTrue
<1>2. MergeTrue /\ [MergeNext]_mergeVars => MergeTrue'
  BY MergeNextTrue
<1>3. MergeTrue => MergedRowIsThePatchedDocument
  BY DEF MergeTrue
<1> QED BY <1>1, <1>2, <1>3, PTL DEF MergeSpec

-----------------------------------------------------------------------------
(* The difference of two rows with values in the same lanes. *)

\* No document is taken for the missing baseline.
NoDocumentIsAbsent == \A doc : IsDocument(doc) => doc # Absent

LEMMA KindsOfNodes ==
  ASSUME NEW v
  PROVE  ~IsArray(Branch) /\ ~IsArray(Scalar(v))
BY DEF IsArray, Branch, Scalar

\* Two documents of objects, with leaves at the same paths taken from both.
Paired(p, c, taken, pr, cr) ==
  /\ IsDocument(p) /\ IsDocument(c)
  /\ IsObject(p) /\ IsObject(c)
  /\ taken \subseteq LeafPaths(p) /\ taken \subseteq LeafPaths(c)
  /\ taken \subseteq Path \ {<< >>}
  /\ Separate(taken)
  /\ \A l \in taken : p[l] = Scalar(p[l].value) /\ c[l] = Scalar(c[l].value)
  /\ IsDocument(pr) /\ DOMAIN pr = DOMAIN p \ taken /\ \A q \in DOMAIN pr : pr[q] = p[q]
  /\ IsDocument(cr) /\ DOMAIN cr = DOMAIN c \ taken /\ \A q \in DOMAIN cr : cr[q] = c[q]

LEMMA PairedRemoved ==
  ASSUME NoDocumentIsAbsent, NEW p, NEW c, NEW taken, NEW pr, NEW cr, Paired(p, c, taken, pr, cr)
  PROVE  Removed(pr, cr) = Removed(p, c)
<1>1. p # Absent /\ pr # Absent
  BY DEF Paired, NoDocumentIsAbsent
<1>2. /\ taken \subseteq DOMAIN p /\ taken \subseteq DOMAIN c
      /\ \A l \in taken : c[l] # Branch
  BY DEF Paired, LeafPaths
<1>3. /\ DOMAIN pr = DOMAIN p \ taken /\ \A q \in DOMAIN pr : pr[q] = p[q]
      /\ DOMAIN cr = DOMAIN c \ taken /\ \A q \in DOMAIN cr : cr[q] = c[q]
  BY DEF Paired
<1>4. \A x : x \in Removed(p, c) <=>
        x \in DOMAIN p /\ x \notin DOMAIN c /\ x # << >> /\ Front(x) \in DOMAIN c /\ c[Front(x)] = Branch
  BY <1>1 DEF Removed, Exists
<1>5. \A x : x \in Removed(pr, cr) <=>
        x \in DOMAIN pr /\ x \notin DOMAIN cr /\ x # << >> /\ Front(x) \in DOMAIN cr /\ cr[Front(x)] = Branch
  BY <1>1 DEF Removed, Exists
<1>6. ASSUME NEW x PROVE x \in Removed(pr, cr) <=> x \in Removed(p, c)
  BY <1>2, <1>3, <1>4, <1>5
<1> QED BY <1>6

\* Below the root, a path of what is left differs exactly where the documents do.
LEMMA PairedDiffers ==
  ASSUME NoDocumentIsAbsent, NEW p, NEW c, NEW taken, NEW pr, NEW cr, Paired(p, c, taken, pr, cr),
         NEW how, NEW q \in DOMAIN cr
  PROVE  /\ NodeAt(pr, q) = NodeAt(p, q)
         /\ cr[q] = c[q] /\ q \in DOMAIN c
         /\ DiffersAt(pr, cr, q, how) <=> DiffersAt(p, c, q, how)
<1>1. p # Absent /\ pr # Absent
  BY DEF Paired, NoDocumentIsAbsent
<1>2. /\ DOMAIN pr = DOMAIN p \ taken /\ \A x \in DOMAIN pr : pr[x] = p[x]
      /\ DOMAIN cr = DOMAIN c \ taken /\ \A x \in DOMAIN cr : cr[x] = c[x]
  BY DEF Paired
<1>3. NodeAt(pr, q) = NodeAt(p, q)
  BY <1>1, <1>2 DEF NodeAt, Exists
<1>4. cr[q] = c[q] /\ q \in DOMAIN c
  BY <1>2
<1>5. Removed(pr, cr) = Removed(p, c)
  BY PairedRemoved
<1> QED BY <1>3, <1>4, <1>5 DEF DiffersAt

\* A leaf taken from both differs exactly when the values do.
LEMMA TakenDiffers ==
  ASSUME NoDocumentIsAbsent, NEW p, NEW c, NEW taken, NEW pr, NEW cr, Paired(p, c, taken, pr, cr),
         NEW how, NEW l \in taken
  PROVE  DiffersAt(p, c, l, how) <=> p[l].value # c[l].value
<1>1. p # Absent /\ l \in DOMAIN p
  BY DEF Paired, NoDocumentIsAbsent, LeafPaths
<1>2. p[l] = Scalar(p[l].value) /\ c[l] = Scalar(c[l].value)
  BY DEF Paired
<1>3. NodeAt(p, l) = p[l]
  BY <1>1 DEF NodeAt, Exists
<1>4. ~IsArray(c[l])
  BY <1>2, KindsOfNodes
<1>5. ~\E x \in Removed(p, c) : Front(x) = l
  <2>1. SUFFICES ASSUME NEW x \in Removed(p, c), Front(x) = l PROVE FALSE
    OBVIOUS
  <2>2. c[l] = Branch
    BY <2>1 DEF Removed
  <2> QED BY <1>2, <2>2, NodesDiffer
<1>6. DiffersAt(p, c, l, how) <=> p[l] # c[l]
  BY <1>3, <1>4, <1>5 DEF DiffersAt
<1>7. p[l] = c[l] <=> p[l].value = c[l].value
  BY <1>2
<1> QED BY <1>6, <1>7

Changed(was, now, how) == {q \in DOMAIN now : DiffChanged(was, now, q, how)}
LanesChanged(p, c, taken) == {l \in taken : p[l].value # c[l].value}

\* What has changed is what has changed of the rest, and the way to every lane
\* that has.
LEMMA PairedChanged ==
  ASSUME NoDocumentIsAbsent, NEW p, NEW c, NEW taken, NEW pr, NEW cr, Paired(p, c, taken, pr, cr),
         NEW how
  PROVE  \A x : x \in Changed(p, c, how) <=>
           \/ x \in Changed(pr, cr, how)
           \/ x \in Path /\ \E l \in LanesChanged(p, c, taken) : IsPrefix(x, l)
<1>1. /\ IsDocument(c) /\ DOMAIN cr = DOMAIN c \ taken /\ taken \subseteq DOMAIN c
      /\ \A l \in taken : l \in Path /\ c[l] # Branch
  BY DEF Paired, LeafPaths
<1>2. \A r \in DOMAIN cr : DiffersAt(pr, cr, r, how) <=> DiffersAt(p, c, r, how)
  BY PairedDiffers
<1>3. \A l \in taken : DiffersAt(p, c, l, how) <=> l \in LanesChanged(p, c, taken)
  <2>1. SUFFICES ASSUME NEW l \in taken
                 PROVE  DiffersAt(p, c, l, how) <=> l \in LanesChanged(p, c, taken)
    OBVIOUS
  <2>2. DiffersAt(p, c, l, how) <=> p[l].value # c[l].value
    BY TakenDiffers
  <2> QED BY <2>2 DEF LanesChanged
<1>4. LanesChanged(p, c, taken) \subseteq taken
  BY DEF LanesChanged
<1>5. \A x : x \in Changed(p, c, how) <=>
        x \in DOMAIN c /\ \E r \in DOMAIN c : IsPrefix(x, r) /\ DiffersAt(p, c, r, how)
  BY DEF Changed, DiffChanged
<1>6. \A x : x \in Changed(pr, cr, how) <=>
        x \in DOMAIN cr /\ \E r \in DOMAIN cr : IsPrefix(x, r) /\ DiffersAt(pr, cr, r, how)
  BY DEF Changed, DiffChanged
<1>7. DOMAIN c \subseteq Path
  BY <1>1, DocumentPaths
<1>8. SUFFICES ASSUME NEW x
               PROVE  x \in Changed(p, c, how) <=>
                        \/ x \in Changed(pr, cr, how)
                        \/ x \in Path /\ \E l \in LanesChanged(p, c, taken) : IsPrefix(x, l)
  OBVIOUS
<1>9. ASSUME x \in Changed(p, c, how)
      PROVE  \/ x \in Changed(pr, cr, how)
             \/ x \in Path /\ \E l \in LanesChanged(p, c, taken) : IsPrefix(x, l)
  <2>1. x \in DOMAIN c
    BY <1>5, <1>9
  <2>2. PICK r \in DOMAIN c : IsPrefix(x, r) /\ DiffersAt(p, c, r, how)
    BY <1>5, <1>9
  <2>3. CASE r \in taken
    BY <1>3, <1>7, <2>1, <2>2, <2>3
  <2>4. CASE r \notin taken
    <3>1. x \notin taken
      <4>1. SUFFICES ASSUME x \in taken PROVE FALSE
        OBVIOUS
      <4>2. x = r
        BY <1>1, <2>1, <2>2, <4>1, NothingBelowALeaf
      <4> QED BY <2>4, <4>1, <4>2
    <3>2. x \in DOMAIN cr /\ r \in DOMAIN cr
      BY <1>1, <2>1, <2>2, <2>4, <3>1
    <3> QED BY <1>2, <1>6, <2>2, <3>2
  <2> QED BY <2>3, <2>4
<1>10. ASSUME x \in Changed(pr, cr, how)
       PROVE  x \in Changed(p, c, how)
  BY <1>1, <1>2, <1>5, <1>6, <1>10
<1>11. ASSUME x \in Path, NEW l \in LanesChanged(p, c, taken), IsPrefix(x, l)
       PROVE  x \in Changed(p, c, how)
  <2>1. l \in taken /\ l \in DOMAIN c /\ DiffersAt(p, c, l, how)
    BY <1>1, <1>3, <1>4
  <2>2. x \in DOMAIN c
    BY <1>1, <1>11, <2>1, AboveIsBranch
  <2> QED BY <1>5, <1>11, <2>1, <2>2
<1> QED BY <1>9, <1>10, <1>11

ChangedArrays(was, now, how) == {q \in Changed(was, now, how) : IsArray(now[q])}
ReportAt(was, now, how, q) == EmitDiffArray(NodeAt(was, q), now[q], how)
ReportPaths(was, now, how) ==
  UNION {{p \o q : q \in DOMAIN ReportAt(was, now, how, p)} : p \in ChangedArrays(was, now, how)}
DiffNode(was, now, how, x) ==
  IF x \in Removed(was, now) THEN Scalar(Null)
  ELSE IF x \in ChangedArrays(was, now, how) THEN ReportAt(was, now, how, x)[<<>>]
  ELSE IF x \in Changed(was, now, how) THEN now[x]
  ELSE IF x \in ReportPaths(was, now, how)
  THEN ReportAt(was, now, how, Front(x))[<<Last(x)>>]
  ELSE Branch
DiffPaths(was, now, how) ==
  ({<<>>} \cup Changed(was, now, how)) \cup (Removed(was, now) \cup ReportPaths(was, now, how))

LEMMA DiffDocumentsIs ==
  ASSUME NEW was, NEW now, NEW how
  PROVE  DiffDocuments(was, now, how) = [x \in DiffPaths(was, now, how) |-> DiffNode(was, now, how, x)]
BY DEF DiffDocuments, DiffPaths, DiffNode, ReportPaths, ReportAt, ChangedArrays, Changed

Modes == {"atomic", "counts", "elements"}

LEMMA ReportDomain ==
  ASSUME NEW was, NEW node, NEW how \in Modes
  PROVE  DOMAIN EmitDiffArray(was, node, how) \subseteq {<< >>, <<"added">>, <<"removed">>}
<1>1. CASE how = "atomic"
  BY <1>1 DEF EmitDiffArray
<1>2. CASE how = "counts"
  BY <1>2 DEF EmitDiffArray
<1>3. CASE how = "elements"
  BY <1>3 DEF EmitDiffArray
<1> QED BY <1>1, <1>2, <1>3 DEF Modes

LEMMA BelowPath ==
  ASSUME NEW q \in Path, NEW r \in {<< >>, <<"added">>, <<"removed">>}
  PROVE  /\ IsPrefix(q, q \o r)
         /\ r = << >> => q \o r = q
         /\ r # << >> => Front(q \o r) = q
<1> DEFINE S == STRING \cup {"added", "removed"}
<1>0. STRING \subseteq S /\ "added" \in S /\ "removed" \in S
  OBVIOUS
<1> HIDE DEF S
<1>1. q \in Seq(S) /\ r \in Seq(S)
  <2>1. q \in Seq(S)
    BY <1>0, SeqMonotonic DEF Path
  <2>2. ASSUME NEW k \in S PROVE <<k>> \in Seq(S)
    BY <2>2
  <2>3. << >> \in Seq(S)
    OBVIOUS
  <2> QED BY <1>0, <2>1, <2>2, <2>3
<1>2. q \o r \in Seq(S) /\ Len(q \o r) = Len(q) + Len(r) /\ Len(q) \in Nat /\ Len(r) \in Nat
  BY <1>1
<1>3. SubSeq(q, 1, Len(q)) = q
  BY <1>1
<1>4. SubSeq(q \o r, 1, Len(q)) = q
  <2>1. SubSeq(q \o r, 1, Len(q)) \in Seq(S) /\ Len(SubSeq(q \o r, 1, Len(q))) = Len(q)
    BY <1>2
  <2>2. \A i \in 1 .. Len(q) : SubSeq(q \o r, 1, Len(q))[i] = q[i]
    BY <1>1, <1>2
  <2> QED BY <1>1, <2>1, <2>2
<1>5. IsPrefix(q, q \o r)
  BY <1>2, <1>3, <1>4 DEF IsPrefix
<1>6. r = << >> => q \o r = q
  BY <1>1
<1>7. ASSUME r # << >> PROVE Front(q \o r) = q
  <2>1. Len(r) = 1
    BY <1>7
  <2>2. Len(q \o r) - 1 = Len(q)
    BY <1>2, <2>1
  <2> QED BY <1>4, <2>2 DEF Front
<1> QED BY <1>5, <1>6, <1>7

\* A path reported for an array is the array's or one just below it.
LEMMA ReportedPaths ==
  ASSUME NEW was, NEW now, IsDocument(now), NEW how \in Modes, NEW x \in ReportPaths(was, now, how)
  PROVE  \E q \in ChangedArrays(was, now, how) :
           /\ q \in DOMAIN now /\ IsArray(now[q]) /\ q \in Path
           /\ IsPrefix(q, x)
           /\ x = q \/ Front(x) = q
<1>1. PICK q \in ChangedArrays(was, now, how) : \E r \in DOMAIN ReportAt(was, now, how, q) : x = q \o r
  BY DEF ReportPaths
<1>1a. PICK r \in DOMAIN ReportAt(was, now, how, q) : x = q \o r
  BY <1>1
<1>2. q \in DOMAIN now /\ IsArray(now[q])
  BY DEF ChangedArrays, Changed
<1>3. q \in Path
  BY <1>2, DocumentPaths
<1>4. r \in {<< >>, <<"added">>, <<"removed">>}
  BY ReportDomain DEF ReportAt
<1>5. /\ IsPrefix(q, q \o r)
      /\ r = << >> => q \o r = q
      /\ r # << >> => Front(q \o r) = q
  BY <1>3, <1>4, BelowPath
<1> QED BY <1>1a, <1>2, <1>3, <1>5

LEMMA PairedReports ==
  ASSUME NoDocumentIsAbsent, NEW p, NEW c, NEW taken, NEW pr, NEW cr, Paired(p, c, taken, pr, cr),
         NEW how
  PROVE  /\ ChangedArrays(pr, cr, how) = ChangedArrays(p, c, how)
         /\ \A q \in ChangedArrays(p, c, how) : ReportAt(pr, cr, how, q) = ReportAt(p, c, how, q)
         /\ ReportPaths(pr, cr, how) = ReportPaths(p, c, how)
<1>1. \A x : x \in Changed(p, c, how) <=>
           \/ x \in Changed(pr, cr, how)
           \/ x \in Path /\ \E l \in LanesChanged(p, c, taken) : IsPrefix(x, l)
  BY PairedChanged
<1>2. \A q \in DOMAIN cr : NodeAt(pr, q) = NodeAt(p, q) /\ cr[q] = c[q]
  BY PairedDiffers
<1>3. ASSUME NEW x \in Path, NEW l \in LanesChanged(p, c, taken), IsPrefix(x, l)
      PROVE  ~IsArray(c[x])
  <2>1. IsDocument(c) /\ l \in DOMAIN c /\ c[l] = Scalar(c[l].value)
    BY DEF LanesChanged, Paired, LeafPaths
  <2>2. CASE x = l
    BY <2>1, <2>2, KindsOfNodes
  <2>3. CASE x # l
    <3>1. c[x] = Branch
      BY <1>3, <2>1, <2>3, AboveIsBranch
    <3> QED BY <3>1, KindsOfNodes
  <2> QED BY <2>2, <2>3
<1>4. \A q \in Changed(pr, cr, how) : q \in DOMAIN cr
  BY DEF Changed
<1>5. ASSUME NEW x PROVE x \in ChangedArrays(pr, cr, how) <=> x \in ChangedArrays(p, c, how)
  BY <1>1, <1>2, <1>3, <1>4 DEF ChangedArrays
<1>6. ChangedArrays(pr, cr, how) = ChangedArrays(p, c, how)
  BY <1>5
<1>7. ASSUME NEW q \in ChangedArrays(p, c, how) PROVE ReportAt(pr, cr, how, q) = ReportAt(p, c, how, q)
  <2>1. q \in DOMAIN cr
    BY <1>4, <1>6 DEF ChangedArrays
  <2> QED BY <1>2, <2>1 DEF ReportAt
<1>8. ReportPaths(pr, cr, how) = ReportPaths(p, c, how)
  BY <1>6, <1>7 DEF ReportPaths
<1> QED BY <1>6, <1>7, <1>8

\* What is on the way to a lane that both rows hold is in neither difference but
\* as an object, and the lane itself is not in that of the rest.
LEMMA WayToALane ==
  ASSUME NoDocumentIsAbsent, NEW p, NEW c, NEW taken, NEW pr, NEW cr, Paired(p, c, taken, pr, cr),
         NEW how \in Modes, NEW l \in taken, NEW x \in Path, IsPrefix(x, l)
  PROVE  /\ x \in DOMAIN c
         /\ x \notin Removed(p, c)
         /\ x \notin ChangedArrays(p, c, how)
         /\ x \notin ReportPaths(p, c, how)
         /\ x = l => c[x] = Scalar(c[l].value) /\ x \notin DiffPaths(pr, cr, how)
         /\ x # l => c[x] = Branch
<1>1. /\ IsDocument(c) /\ l \in DOMAIN c /\ c[l] = Scalar(c[l].value) /\ l # << >>
      /\ l \notin DOMAIN cr
  BY DEF Paired, LeafPaths
<1>2. x # l => x \in DOMAIN c /\ c[x] = Branch
  BY <1>1, AboveIsBranch
<1>3. x \in DOMAIN c
  BY <1>1, <1>2
<1>4. x \notin Removed(p, c)
  BY <1>3 DEF Removed
<1>5. ~IsArray(c[x])
  <2>1. CASE x = l
    BY <1>1, <2>1, KindsOfNodes
  <2>2. CASE x # l
    BY <1>2, <2>2, KindsOfNodes
  <2> QED BY <2>1, <2>2
<1>6. x \notin ChangedArrays(p, c, how)
  BY <1>5 DEF ChangedArrays
<1>7. x \notin ReportPaths(p, c, how)
  <2>1. SUFFICES ASSUME x \in ReportPaths(p, c, how) PROVE FALSE
    OBVIOUS
  <2>2. PICK q \in ChangedArrays(p, c, how) : q \in DOMAIN c /\ IsArray(c[q]) /\ IsPrefix(q, x)
    BY <1>1, <2>1, ReportedPaths
  <2>3. c[q] # Branch
    BY <2>2, KindsOfNodes
  <2>4. q = x
    BY <1>1, <1>3, <2>2, <2>3, NothingBelowALeaf
  <2> QED BY <1>6, <2>2, <2>4
<1>8. ASSUME x = l PROVE x \notin DiffPaths(pr, cr, how)
  <2>1. Removed(pr, cr) = Removed(p, c)
    BY PairedRemoved
  <2>2. ReportPaths(pr, cr, how) = ReportPaths(p, c, how)
    BY PairedReports
  <2>3. x \notin Changed(pr, cr, how)
    BY <1>1, <1>8 DEF Changed
  <2> QED BY <1>1, <1>4, <1>7, <1>8, <2>1, <2>2, <2>3 DEF DiffPaths
<1> QED BY <1>1, <1>2, <1>3, <1>4, <1>6, <1>7, <1>8

\* The difference of the rest and the document of the changed lanes have nothing
\* in common but objects, and together are the difference of the documents.
LEMMA PairedDifference ==
  ASSUME NoDocumentIsAbsent, NEW p, NEW c, NEW taken, NEW pr, NEW cr, Paired(p, c, taken, pr, cr),
         NEW how \in Modes,
         NEW lane, lane = [l \in LanesChanged(p, c, taken) |-> c[l].value]
  PROVE  UnionDiffObjects(DiffDocuments(pr, cr, how), EmitShredPatchObject(lane))
           = DiffDocuments(p, c, how)
<1> DEFINE gone == LanesChanged(p, c, taken)
           a == DiffDocuments(pr, cr, how)
           e == EmitShredPatchObject(lane)
           d == DiffDocuments(p, c, how)
<1>1. /\ gone \subseteq taken /\ gone \subseteq Path \ {<< >>} /\ Separate(gone) /\ DOMAIN lane = gone
      /\ IsDocument(c) /\ c[<< >>] = Branch
      /\ \A l \in gone : lane[l] = c[l].value
  BY DEF LanesChanged, Paired, Separate, IsObject
<1>2. /\ \A x : x \in DOMAIN e <=> x = << >> \/ (x \in Path /\ \E l \in gone : IsPrefix(x, l))
      /\ \A x \in DOMAIN e : e[x] = IF x \in gone THEN Scalar(lane[x]) ELSE Branch
  BY <1>1, EmittedLanes
<1>3. /\ a = [x \in DiffPaths(pr, cr, how) |-> DiffNode(pr, cr, how, x)]
      /\ d = [x \in DiffPaths(p, c, how) |-> DiffNode(p, c, how, x)]
  BY DiffDocumentsIs
<1>4. /\ DOMAIN a = DiffPaths(pr, cr, how) /\ \A x \in DOMAIN a : a[x] = DiffNode(pr, cr, how, x)
      /\ DOMAIN d = DiffPaths(p, c, how) /\ \A x \in DOMAIN d : d[x] = DiffNode(p, c, how, x)
      /\ d = [x \in DOMAIN d |-> d[x]]
  BY <1>3
<1>5. \A x : x \in Changed(p, c, how) <=>
           \/ x \in Changed(pr, cr, how)
           \/ x \in Path /\ \E l \in gone : IsPrefix(x, l)
  BY PairedChanged
<1>6. Removed(pr, cr) = Removed(p, c)
  BY PairedRemoved
<1>7. /\ ChangedArrays(pr, cr, how) = ChangedArrays(p, c, how)
      /\ \A q \in ChangedArrays(p, c, how) : ReportAt(pr, cr, how, q) = ReportAt(p, c, how, q)
      /\ ReportPaths(pr, cr, how) = ReportPaths(p, c, how)
  BY PairedReports
<1>8. ASSUME NEW l \in gone, NEW x \in Path, IsPrefix(x, l)
      PROVE  /\ x \notin Removed(p, c)
             /\ x \notin ChangedArrays(p, c, how)
             /\ x \notin ReportPaths(p, c, how)
             /\ x = l => c[x] = Scalar(c[l].value) /\ x \notin DiffPaths(pr, cr, how)
             /\ x # l => c[x] = Branch
  BY <1>1, <1>8, WayToALane
<1>9. \A x \in Changed(pr, cr, how) : x \in DOMAIN cr /\ cr[x] = c[x]
  BY DEF Changed, Paired
<1>10. /\ << >> \notin Removed(p, c)
       /\ << >> \notin ChangedArrays(p, c, how)
       /\ << >> \notin ReportPaths(p, c, how)
  <2>1. << >> \notin Removed(p, c)
    BY DEF Removed
  <2>2. << >> \notin ChangedArrays(p, c, how)
    BY <1>1, KindsOfNodes DEF ChangedArrays
  <2>3. ASSUME << >> \in ReportPaths(p, c, how) PROVE FALSE
    <3>1. PICK q \in ChangedArrays(p, c, how) : q \in Path /\ IsPrefix(q, << >>)
      BY <1>1, <2>3, ReportedPaths
    <3> QED BY <2>2, <3>1, NothingAboveTheRoot
  <2> QED BY <2>1, <2>2, <2>3
<1> HIDE DEF gone, a, e, d
<1>11. DOMAIN d = DOMAIN a \cup DOMAIN e
  BY <1>2, <1>4, <1>5, <1>6, <1>7 DEF DiffPaths
\* An object on the way to a lane.
<1>12. ASSUME NEW x \in DOMAIN a \cap DOMAIN e
       PROVE  a[x] = Branch /\ e[x] = Branch /\ d[x] = Branch
  <2>1. x = << >> \/ (x \in Path /\ \E l \in gone : IsPrefix(x, l))
    BY <1>2
  <2>2. /\ x \notin Removed(p, c)
        /\ x \notin ChangedArrays(p, c, how)
        /\ x \notin ReportPaths(p, c, how)
        /\ c[x] = Branch
        /\ x \notin gone
    <3>1. CASE x = << >>
      BY <1>1, <1>10, <3>1
    <3>2. CASE x # << >>
      <4>1. PICK l \in gone : x \in Path /\ IsPrefix(x, l)
        BY <2>1, <3>2
      <4>2. x # l /\ x \notin gone
        BY <1>4, <1>8, <4>1, PrefixReflexive
      <4> QED BY <1>8, <4>1, <4>2
    <3> QED BY <3>1, <3>2
  <2>3. DiffNode(pr, cr, how, x) = Branch
    BY <1>6, <1>7, <1>9, <2>2 DEF DiffNode
  <2>4. DiffNode(p, c, how, x) = Branch
    BY <2>2 DEF DiffNode
  <2>5. x \in DOMAIN d
    BY <1>11
  <2> QED BY <1>2, <1>4, <2>2, <2>3, <2>4, <2>5
<1>13. ASSUME NEW x \in DOMAIN a, x \notin DOMAIN e
       PROVE  a[x] = d[x]
  <2>1. x \in Changed(p, c, how) <=> x \in Changed(pr, cr, how)
    BY <1>2, <1>5, <1>13
  <2>2. x \in ReportPaths(p, c, how) /\ x \notin ChangedArrays(p, c, how)
          => ReportAt(pr, cr, how, Front(x)) = ReportAt(p, c, how, Front(x))
    <3>1. SUFFICES ASSUME x \in ReportPaths(p, c, how), x \notin ChangedArrays(p, c, how)
                   PROVE  ReportAt(pr, cr, how, Front(x)) = ReportAt(p, c, how, Front(x))
      OBVIOUS
    <3>2. PICK q \in ChangedArrays(p, c, how) : x = q \/ Front(x) = q
      BY <1>1, <3>1, ReportedPaths
    <3> QED BY <1>7, <3>1, <3>2
  <2>3. DiffNode(pr, cr, how, x) = DiffNode(p, c, how, x)
    <3>1. CASE x \in Removed(p, c)
      BY <1>6, <3>1 DEF DiffNode
    <3>2. CASE x \notin Removed(p, c) /\ x \in ChangedArrays(p, c, how)
      BY <1>6, <1>7, <3>2 DEF DiffNode
    <3>3. CASE /\ x \notin Removed(p, c) /\ x \notin ChangedArrays(p, c, how)
               /\ x \in Changed(p, c, how)
      BY <1>6, <1>7, <1>9, <2>1, <3>3 DEF DiffNode
    <3>4. CASE /\ x \notin Removed(p, c) /\ x \notin ChangedArrays(p, c, how)
               /\ x \notin Changed(p, c, how) /\ x \in ReportPaths(p, c, how)
      BY <1>6, <1>7, <2>1, <2>2, <3>4 DEF DiffNode
    <3>5. CASE /\ x \notin Removed(p, c) /\ x \notin ChangedArrays(p, c, how)
               /\ x \notin Changed(p, c, how) /\ x \notin ReportPaths(p, c, how)
      BY <1>6, <1>7, <2>1, <3>5 DEF DiffNode
    <3> QED BY <3>1, <3>2, <3>3, <3>4, <3>5
  <2> QED BY <1>4, <1>11, <2>3
<1>14. ASSUME NEW x \in DOMAIN e, x \notin DOMAIN a
       PROVE  e[x] = d[x]
  <2>1. x # << >>
    BY <1>4, <1>14 DEF DiffPaths
  <2>2. PICK l \in gone : x \in Path /\ IsPrefix(x, l)
    BY <1>2, <2>1
  <2>3. /\ x \notin Removed(p, c)
        /\ x \notin ChangedArrays(p, c, how)
        /\ x \in Changed(p, c, how)
    BY <1>5, <1>8, <2>2
  <2>4. DiffNode(p, c, how, x) = c[x]
    BY <2>3 DEF DiffNode
  <2>5. e[x] = c[x]
    <3>1. CASE x = l
      BY <1>1, <1>2, <1>8, <2>2, <3>1
    <3>2. CASE x # l
      <4>1. x \notin gone
        BY <1>1, <2>2, <3>2 DEF Separate
      <4> QED BY <1>2, <1>8, <2>2, <3>2, <4>1
    <3> QED BY <3>1, <3>2
  <2> QED BY <1>4, <1>11, <2>4, <2>5
<1>15. UnionDiffObjects(a, e) = [x \in DOMAIN a \cup DOMAIN e |-> IF x \in DOMAIN a THEN a[x] ELSE e[x]]
  BY <1>12 DEF UnionDiffObjects
<1>16. UnionDiffObjects(a, e) = d
  <2>1. \A x \in DOMAIN a \cup DOMAIN e : d[x] = IF x \in DOMAIN a THEN a[x] ELSE e[x]
    BY <1>12, <1>13, <1>14
  <2> QED BY <1>4, <1>11, <1>15, <2>1
<1> QED BY <1>16 DEF a, e, d

LEMMA PairedWithoutChange ==
  ASSUME NoDocumentIsAbsent, NEW p, NEW c, NEW taken, NEW pr, NEW cr, Paired(p, c, taken, pr, cr),
         NEW how \in Modes, LanesChanged(p, c, taken) = {}
  PROVE  DiffDocuments(pr, cr, how) = DiffDocuments(p, c, how)
<1>1. Changed(pr, cr, how) = Changed(p, c, how)
  <2>1. \A x : x \in Changed(p, c, how) <=>
           \/ x \in Changed(pr, cr, how)
           \/ x \in Path /\ \E l \in LanesChanged(p, c, taken) : IsPrefix(x, l)
    BY PairedChanged
  <2> QED BY <2>1
<1>2. Removed(pr, cr) = Removed(p, c)
  BY PairedRemoved
<1>3. /\ ChangedArrays(pr, cr, how) = ChangedArrays(p, c, how)
      /\ \A q \in ChangedArrays(p, c, how) : ReportAt(pr, cr, how, q) = ReportAt(p, c, how, q)
      /\ ReportPaths(pr, cr, how) = ReportPaths(p, c, how)
  BY PairedReports
<1>4. \A x \in Changed(pr, cr, how) : cr[x] = c[x]
  BY DEF Changed, Paired
<1>5. DiffPaths(pr, cr, how) = DiffPaths(p, c, how)
  BY <1>1, <1>2, <1>3 DEF DiffPaths
<1>6. IsDocument(c)
  BY DEF Paired
<1>7. ASSUME NEW x \in DiffPaths(p, c, how)
      PROVE  DiffNode(pr, cr, how, x) = DiffNode(p, c, how, x)
  <2>1. x \in ReportPaths(p, c, how) /\ x \notin ChangedArrays(p, c, how)
          => ReportAt(pr, cr, how, Front(x)) = ReportAt(p, c, how, Front(x))
    <3>1. SUFFICES ASSUME x \in ReportPaths(p, c, how), x \notin ChangedArrays(p, c, how)
                   PROVE  ReportAt(pr, cr, how, Front(x)) = ReportAt(p, c, how, Front(x))
      OBVIOUS
    <3>2. PICK q \in ChangedArrays(p, c, how) : x = q \/ Front(x) = q
      BY <1>6, <3>1, ReportedPaths
    <3> QED BY <1>3, <3>1, <3>2
  <2>2. CASE x \in Removed(p, c)
    BY <1>2, <2>2 DEF DiffNode
  <2>3. CASE x \notin Removed(p, c) /\ x \in ChangedArrays(p, c, how)
    BY <1>2, <1>3, <2>3 DEF DiffNode
  <2>4. CASE x \notin Removed(p, c) /\ x \notin ChangedArrays(p, c, how)
    BY <1>1, <1>2, <1>3, <1>4, <2>1, <2>4 DEF DiffNode
  <2> QED BY <2>2, <2>3, <2>4
<1>8. /\ DiffDocuments(pr, cr, how) = [x \in DiffPaths(pr, cr, how) |-> DiffNode(pr, cr, how, x)]
      /\ DiffDocuments(p, c, how) = [x \in DiffPaths(p, c, how) |-> DiffNode(p, c, how, x)]
  BY DiffDocumentsIs
<1> QED BY <1>5, <1>7, <1>8

\* A row whose lanes are all empty is its document.
LEMMA NothingTaken ==
  ASSUME NEW type, RowType(type), NEW doc, IsDocument(doc), doc = [x \in DOMAIN doc |-> doc[x]],
         Stripped(type, doc) = {}
  PROVE  Shred(type, doc).residual = doc
<1> DEFINE row == Shred(type, doc)
           taken == Stripped(type, doc)
<1>1. /\ IsDocument(row.residual)
      /\ IsObject(row.residual) <=> IsObject(doc)
      /\ ~IsObject(doc) => row.residual = doc
      /\ IsObject(doc) =>
           /\ DOMAIN row.residual = DOMAIN doc \ taken
           /\ \A p \in DOMAIN row.residual : row.residual[p] = doc[p]
      /\ row.lane = [l \in taken |-> doc[l].value]
      /\ DOMAIN row.lane = taken
  BY ShredParts
<1>2. IsObject(doc) => row.residual = [p \in DOMAIN row.residual |-> row.residual[p]]
  BY DEF Shred, Without, Restrict
<1>3. taken = {}
  OBVIOUS
<1> HIDE DEF row, taken
<1>4. row.residual = doc
  BY <1>1, <1>2, <1>3
<1> QED BY <1>4 DEF row

\* A document that is compared, and the row it is read as.
ComparedRow(row) == row = SqlNull \/ \E doc \in Compared : row = Shred(lanes, doc)

LEMMA DirectIsPlain ==
  ASSUME NoDocumentIsAbsent, RowType(lanes), mode \in Modes,
         ComparedRow(prev), ComparedRow(cur), LanesPairUp
  PROVE  DiffDocuments(PrevDocument, CurDocument, mode) =
           LET residual == DiffDocuments(prev.residual, cur.residual, mode)
           IN IF ChangedLanes = {} THEN residual ELSE UnionDiffObjects(residual, EmitLanePatch)
<1>1. prev # SqlNull /\ cur # SqlNull /\ DOMAIN prev.lane = DOMAIN cur.lane
  BY DEF LanesPairUp
<1>2. PICK p \in Compared : prev = Shred(lanes, p)
  BY <1>1 DEF ComparedRow
<1>3. PICK c \in Compared : cur = Shred(lanes, c)
  BY <1>1 DEF ComparedRow
<1>4. /\ IsDocument(p) /\ p = [x \in DOMAIN p |-> p[x]]
      /\ IsDocument(c) /\ c = [x \in DOMAIN c |-> c[x]]
  BY CompareAssumption
<1>5. Reconstruct(prev) = p /\ Reconstruct(cur) = c
  BY <1>2, <1>3, <1>4, ShredReconstructs
<1>6. PrevDocument = p /\ CurDocument = c
  BY <1>1, <1>5 DEF PrevDocument, CurDocument
<1> DEFINE taken == Stripped(lanes, p)
<1>7. /\ IsDocument(prev.residual)
      /\ IsObject(p) =>
           /\ DOMAIN prev.residual = DOMAIN p \ taken
           /\ \A q \in DOMAIN prev.residual : prev.residual[q] = p[q]
      /\ prev.lane = [l \in taken |-> p[l].value] /\ DOMAIN prev.lane = taken
  BY <1>2, <1>4, ShredParts
<1>8. /\ IsDocument(cur.residual)
      /\ IsObject(c) =>
           /\ DOMAIN cur.residual = DOMAIN c \ Stripped(lanes, c)
           /\ \A q \in DOMAIN cur.residual : cur.residual[q] = c[q]
      /\ cur.lane = [l \in Stripped(lanes, c) |-> c[l].value] /\ DOMAIN cur.lane = Stripped(lanes, c)
  BY <1>3, <1>4, ShredParts
<1>9. Stripped(lanes, c) = taken
  BY <1>1, <1>7, <1>8
<1>10. /\ taken \subseteq LeafPaths(p)
       /\ taken \subseteq Path \ {<< >>}
       /\ Separate(taken)
       /\ \A l \in taken : p[l] = Scalar(p[l].value)
       /\ ~IsObject(p) => taken = {}
  BY <1>4, StrippedAreLeaves
<1>11. /\ taken \subseteq LeafPaths(c)
       /\ \A l \in taken : c[l] = Scalar(c[l].value)
       /\ ~IsObject(c) => taken = {}
  BY <1>4, <1>9, StrippedAreLeaves
<1>12. CASE taken = {}
  <2>1. prev.residual = p /\ cur.residual = c
    BY <1>2, <1>3, <1>4, <1>9, <1>12, NothingTaken
  <2>2. ChangedLanes = {}
    BY <1>8, <1>9, <1>12 DEF ChangedLanes
  <2> QED BY <1>6, <2>1, <2>2
<1>13. CASE taken # {}
  <2> HIDE DEF taken
  <2>1. Paired(p, c, taken, prev.residual, cur.residual)
    BY <1>4, <1>7, <1>8, <1>9, <1>10, <1>11, <1>13 DEF Paired
  <2>2. ChangedLanes = LanesChanged(p, c, taken)
    BY <1>7, <1>8, <1>9 DEF ChangedLanes, LanesChanged
  <2>3. CASE ChangedLanes = {}
    <3>0. LanesChanged(p, c, taken) = {}
      BY <2>2, <2>3
    <3>1. DiffDocuments(prev.residual, cur.residual, mode) = DiffDocuments(p, c, mode)
      BY <2>1, <3>0, PairedWithoutChange
    <3> QED BY <1>6, <2>3, <3>1
  <2>4. CASE ChangedLanes # {}
    <3> DEFINE lane == [l \in ChangedLanes |-> cur.lane[l]]
    <3>1. lane = [l \in LanesChanged(p, c, taken) |-> c[l].value]
      BY <1>8, <1>9, <2>2 DEF LanesChanged
    <3>2. EmitLanePatch = EmitShredPatchObject(lane)
      BY DEF EmitLanePatch
    <3> HIDE DEF lane
    <3>3. UnionDiffObjects(DiffDocuments(prev.residual, cur.residual, mode), EmitShredPatchObject(lane))
            = DiffDocuments(p, c, mode)
      BY <2>1, <3>1, PairedDifference
    <3> QED BY <1>6, <2>4, <3>2, <3>3
  <2> QED BY <2>3, <2>4
<1> QED BY <1>12, <1>13

DiffOK ==
  /\ RowType(lanes)
  /\ mode \in Modes \cup {"none"}
  /\ mode = "none" => diff = Unset
  /\ ComparedRow(prev)
  /\ ComparedRow(cur)
  /\ DirectDiffIsThePlainDiff

LEMMA DiffInitOK == DiffInit => DiffOK
<1> SUFFICES ASSUME DiffInit PROVE DiffOK
  OBVIOUS
<1>1. RowType(<< >>)
  BY DEF RowType
<1> QED BY <1>1 DEF DiffInit, DiffOK, ComparedRow, DirectDiffIsThePlainDiff

LEMMA CallDiffOK ==
  ASSUME DiffOK, CallDiff
  PROVE  DiffOK'
<1>1. PICK how \in {"atomic", "counts", "elements"}, type \in LaneTypes,
           was \in Compared \cup {SqlNull}, now \in Compared \cup {SqlNull} :
        mode' = how /\ lanes' = type /\ prev' = RowOf(type, was) /\ cur' = RowOf(type, now)
  BY DEF CallDiff
<1>2. diff' = diff /\ diff = Unset
  BY DEF CallDiff, DiffOK
<1>3. RowType(lanes')
  BY <1>1, CompareAssumption
<1>4. ComparedRow(prev)'
  BY <1>1 DEF ComparedRow, RowOf
<1>5. ComparedRow(cur)'
  BY <1>1 DEF ComparedRow, RowOf
<1>6. RowType(lanes)'
  BY <1>3 DEF RowType
<1>7. (mode \in Modes \cup {"none"})'
  BY <1>1 DEF Modes
<1>8. (mode = "none" => diff = Unset)' /\ DirectDiffIsThePlainDiff'
  BY <1>2 DEF DirectDiffIsThePlainDiff
<1> QED BY <1>4, <1>5, <1>6, <1>7, <1>8 DEF DiffOK

LEMMA ComparedOK ==
  ASSUME DiffOK, Called, UNCHANGED <<mode, lanes, prev, cur>>,
         diff' = DiffDocuments(PrevDocument, CurDocument, mode)
  PROVE  DiffOK'
<1>1. RowType(lanes)'
  BY DEF DiffOK, RowType
<1>2. (mode \in Modes \cup {"none"})' /\ (mode = "none" => diff = Unset)'
  BY DEF DiffOK, Called
<1>3. ComparedRow(prev)' /\ ComparedRow(cur)'
  BY DEF DiffOK, ComparedRow
<1>4. DirectDiffIsThePlainDiff'
  BY DEF DirectDiffIsThePlainDiff, PrevDocument, CurDocument
<1> QED BY <1>1, <1>2, <1>3, <1>4 DEF DiffOK

LEMMA DiffNextOK ==
  ASSUME NoDocumentIsAbsent, DiffOK, [DiffNext]_diffVars
  PROVE  DiffOK'
<1>1. CASE CallDiff
  BY <1>1, CallDiffOK
<1>2. CASE DiffDirect
  <2>1. Called /\ LanesPairUp /\ UNCHANGED <<mode, lanes, prev, cur>> /\ mode \in Modes
    BY <1>2 DEF DiffDirect, DiffOK, Called
  <2>2. DiffDocuments(PrevDocument, CurDocument, mode) =
           LET residual == DiffDocuments(prev.residual, cur.residual, mode)
           IN IF ChangedLanes = {} THEN residual ELSE UnionDiffObjects(residual, EmitLanePatch)
    BY <2>1, DirectIsPlain DEF DiffOK
  <2>3. diff' = DiffDocuments(PrevDocument, CurDocument, mode)
    BY <1>2, <2>2 DEF DiffDirect
  <2> QED BY <2>1, <2>3, ComparedOK
<1>3. CASE DiffReconstructed
  BY <1>3, ComparedOK DEF DiffReconstructed
<1>4. CASE UNCHANGED diffVars
  BY <1>4 DEF diffVars, DiffOK, RowType, ComparedRow, DirectDiffIsThePlainDiff, PrevDocument, CurDocument
<1> QED BY <1>1, <1>2, <1>3, <1>4 DEF DiffNext

\* Two rows of one shredded type whose lanes pair up are compared lane by lane
\* and residual by residual; that is the difference of their documents, for any
\* documents, lanes, overlapping ones too, and rendering of arrays.
THEOREM DirectDifference ==
  ASSUME NoDocumentIsAbsent
  PROVE  DiffSpec => []DirectDiffIsThePlainDiff
<1>1. DiffInit => DiffOK
  BY DiffInitOK
<1>2. DiffOK /\ [DiffNext]_diffVars => DiffOK'
  BY DiffNextOK
<1>3. DiffOK => DirectDiffIsThePlainDiff
  BY DEF DiffOK
<1> QED BY <1>1, <1>2, <1>3, PTL DEF DiffSpec

-----------------------------------------------------------------------------
(* The atomic difference is the patch that leads to the second document. *)

\* An atomic report is the new array.
LEMMA AtomicReport ==
  ASSUME NEW was, NEW now, NEW q
  PROVE  ReportAt(was, now, "atomic", q) = [x \in {<< >>} |-> now[q]]
BY DEF ReportAt, EmitDiffArray

LEMMA AtomicDiff ==
  ASSUME NEW was, NEW now, IsDocument(now), was = Absent \/ IsDocument(was)
  PROVE  LET diffed == DiffDocuments(was, now, "atomic")
         IN /\ DOMAIN diffed = ({<< >>} \cup Changed(was, now, "atomic")) \cup Removed(was, now)
            /\ \A x \in DOMAIN diffed :
                 diffed[x] = IF x \in Removed(was, now) THEN Scalar(Null)
                             ELSE IF x \in Changed(was, now, "atomic") THEN now[x] ELSE Branch
            /\ Whole(diffed)
<1> DEFINE changed == Changed(was, now, "atomic")
           arrays == ChangedArrays(was, now, "atomic")
           removed == Removed(was, now)
           reported == ReportPaths(was, now, "atomic")
           diffed == DiffDocuments(was, now, "atomic")
<1>1. diffed = [x \in DiffPaths(was, now, "atomic") |-> DiffNode(was, now, "atomic", x)]
  BY DiffDocumentsIs
<1>2. /\ changed \subseteq DOMAIN now /\ arrays \subseteq changed /\ DOMAIN now \subseteq Path
      /\ << >> \in DOMAIN now
  BY DocumentPaths DEF Changed, ChangedArrays
<1>3. reported = arrays
  <2>1. \A p \in arrays : {p \o q : q \in DOMAIN ReportAt(was, now, "atomic", p)} = {p}
    <3>1. SUFFICES ASSUME NEW p \in arrays
                   PROVE  {p \o q : q \in DOMAIN ReportAt(was, now, "atomic", p)} = {p}
      OBVIOUS
    <3>2. DOMAIN ReportAt(was, now, "atomic", p) = {<< >>}
      BY AtomicReport
    <3>3. p \o << >> = p
      <4>1. p \in Path
        BY <1>2
      <4> QED BY <4>1 DEF Path
    <3> DEFINE shape == DOMAIN ReportAt(was, now, "atomic", p)
    <3>4. shape = {<< >>}
      BY <3>2
    <3> HIDE DEF shape
    <3>5. {p \o q : q \in shape} = {p}
      BY <3>3, <3>4
    <3> QED BY <3>5 DEF shape
  <2> QED BY <2>1 DEF ReportPaths
<1>4. DOMAIN diffed = ({<< >>} \cup changed) \cup removed
  BY <1>1, <1>2, <1>3 DEF DiffPaths
<1>5. ASSUME NEW x \in DOMAIN diffed
      PROVE  diffed[x] = IF x \in removed THEN Scalar(Null) ELSE IF x \in changed THEN now[x] ELSE Branch
  <2>1. diffed[x] = DiffNode(was, now, "atomic", x)
    BY <1>1
  <2>2. ReportAt(was, now, "atomic", x)[<< >>] = now[x]
    BY AtomicReport
  <2>3. x \in reported => x \in changed
    BY <1>2, <1>3
  <2>4. x \in arrays => x \in changed
    BY <1>2
  <2> QED BY <2>1, <2>2, <2>3, <2>4 DEF DiffNode
<1>6. \A x : x \in changed <=> x \in DOMAIN now /\ \E r \in DOMAIN now :
                                 IsPrefix(x, r) /\ DiffersAt(was, now, r, "atomic")
  BY DEF Changed, DiffChanged
<1>7. \A x \in removed : x \in Path /\ x \notin DOMAIN now /\ x # << >>
                         /\ Front(x) \in DOMAIN now /\ now[Front(x)] = Branch
  <2>1. SUFFICES ASSUME NEW x \in removed
                 PROVE  x \in Path /\ x \notin DOMAIN now /\ x # << >>
                        /\ Front(x) \in DOMAIN now /\ now[Front(x)] = Branch
    OBVIOUS
  <2>2. was # Absent /\ x \in DOMAIN was \ DOMAIN now /\ x # << >>
        /\ Front(x) \in DOMAIN now /\ now[Front(x)] = Branch
    BY <2>1 DEF Removed, Exists
  <2> QED BY <2>2, DocumentPaths
<1>8. ASSUME NEW x \in removed
      PROVE  Front(x) \in changed
  <2> DEFINE f == Front(x)
  <2>1. f \in DOMAIN now /\ now[f] = Branch
    BY <1>7
  <2>2. ~IsArray(now[f])
    BY <2>1, KindsOfNodes
  <2>3. \E p \in removed : Front(p) = f
    OBVIOUS
  <2>4. DiffersAt(was, now, f, "atomic")
    BY <2>2, <2>3 DEF DiffersAt
  <2>5. f \in Path
    BY <1>2, <2>1
  <2> HIDE DEF f
  <2>6. IsPrefix(f, f)
    BY <2>5, PrefixReflexive
  <2> QED BY <1>6, <2>1, <2>4, <2>6 DEF f
<1> HIDE DEF changed, removed, diffed, arrays, reported
\* What is above a change is one.
<1>9. ASSUME NEW p \in changed, NEW q \in Path, IsPrefix(q, p), q # p
      PROVE  q \in DOMAIN diffed /\ diffed[q] = Branch
  <2>1. p \in DOMAIN now /\ p \in Path
    BY <1>2
  <2>2. q \in DOMAIN now /\ now[q] = Branch
    BY <1>9, <2>1, AboveIsBranch
  <2>3. PICK r \in DOMAIN now : IsPrefix(p, r) /\ DiffersAt(was, now, r, "atomic")
    BY <1>6
  <2>4. IsPrefix(q, r)
    <3>1. r \in Path
      BY <1>2
    <3> QED BY <1>9, <2>1, <2>3, <3>1, PrefixTransitive
  <2>5. q \in changed
    BY <1>6, <2>2, <2>3, <2>4
  <2>6. q \in DOMAIN diffed /\ q \notin removed
    BY <1>4, <1>7, <2>2, <2>5
  <2> QED BY <1>5, <2>2, <2>5, <2>6
<1>10. IsDocument(diffed)
  <2>1. DOMAIN diffed \subseteq Path /\ << >> \in DOMAIN diffed
    BY <1>2, <1>4, <1>7
  <2>2. ASSUME NEW p \in DOMAIN diffed, NEW q \in Path, IsPrefix(q, p), q # p
        PROVE  q \in DOMAIN diffed /\ diffed[q] = Branch
    <3>1. CASE p \in changed
      BY <1>9, <2>2, <3>1
    <3>2. CASE p \in removed
      <4> DEFINE f == Front(p)
      <4>1. p \in Path /\ p # << >> /\ f \in changed /\ f \in Path /\ f \in DOMAIN now /\ now[f] = Branch
        BY <1>2, <1>7, <1>8, <3>2
      <4>2. IsPrefix(q, f)
        <5>1. IsStrictPrefix(q, p)
          BY <2>2 DEF IsStrictPrefix
        <5> QED BY <4>1, <5>1, AboveIsAboveFront
      <4> HIDE DEF f
      <4>3. CASE q = f
        <5>1. f \in DOMAIN diffed /\ f \notin removed
          BY <1>4, <1>7, <4>1
        <5>2. diffed[f] = Branch
          BY <1>5, <4>1, <5>1
        <5> QED BY <4>3, <5>1, <5>2
      <4>4. CASE q # f
        BY <1>9, <2>2, <4>1, <4>2, <4>4
      <4> QED BY <4>3, <4>4
    <3>3. CASE p = << >>
      BY <2>2, <3>3, NothingAboveTheRoot
    <3> QED BY <1>4, <3>1, <3>2, <3>3
  <2> QED BY <2>1, <2>2, DocumentByPaths
<1>11. diffed = [x \in DOMAIN diffed |-> diffed[x]]
  BY <1>1
<1> QED BY <1>4, <1>5, <1>10, <1>11 DEF Whole, changed, removed, diffed

\* No node of what is compared is taken for the missing baseline.
NoNodeIsAbsent == \A doc \in Compared \cup {EmptyObject} : \A p \in DOMAIN doc : doc[p] # Absent

\* Patching a document, or none, with its difference to a second one gives the
\* second one.
LEMMA DiffIsAPatch ==
  ASSUME NEW was, was = Absent \/ Whole(was), NEW now, Whole(now), IsObject(now), NullFree(now),
         \A p \in DOMAIN now : now[p] # Absent
  PROVE  MergePatch(IF was = Absent THEN EmptyObject ELSE was, DiffDocuments(was, now, "atomic")) = now
<1> DEFINE target == IF was = Absent THEN EmptyObject ELSE was
           patch == DiffDocuments(was, now, "atomic")
           changed == Changed(was, now, "atomic")
           removed == Removed(was, now)
           put == {p \in DOMAIN patch : patch[p] # Scalar(Null)}
           left == {p \in DOMAIN target : \A q \in Prefixes(p) \cap DOMAIN patch : patch[q] = Branch}
<1>1. IsDocument(now) /\ (was = Absent \/ IsDocument(was))
  BY DEF Whole
<1>2. /\ DOMAIN patch = ({<< >>} \cup changed) \cup removed
      /\ \A x \in DOMAIN patch :
           patch[x] = IF x \in removed THEN Scalar(Null) ELSE IF x \in changed THEN now[x] ELSE Branch
  BY <1>1, AtomicDiff
<1>3. DOMAIN now \subseteq Path /\ << >> \in DOMAIN now /\ now[<< >>] = Branch
  BY <1>1, DocumentPaths DEF IsObject
<1>4. \A p : p \in removed => p \notin DOMAIN now
  BY DEF Removed
<1>5. \A x : x \in changed <=> x \in DOMAIN now /\ \E r \in DOMAIN now :
                                 IsPrefix(x, r) /\ DiffersAt(was, now, r, "atomic")
  BY DEF Changed, DiffChanged
<1>6. ASSUME NEW p \in DOMAIN now, NodeAt(was, p) # now[p]
      PROVE  p \in changed
  <2>1. DiffersAt(was, now, p, "atomic")
    BY <1>6 DEF DiffersAt, ArrayDiffers
  <2>2. IsPrefix(p, p)
    BY <1>3, PrefixReflexive
  <2> QED BY <1>5, <2>1, <2>2
<1>7. \A p \in DOMAIN now : p \notin changed => was # Absent /\ p \in DOMAIN was /\ was[p] = now[p]
  <2>1. SUFFICES ASSUME NEW p \in DOMAIN now, p \notin changed
                 PROVE  was # Absent /\ p \in DOMAIN was /\ was[p] = now[p]
    OBVIOUS
  <2>2. NodeAt(was, p) = now[p] /\ now[p] # Absent
    BY <1>6, <2>1
  <2> QED BY <2>2 DEF NodeAt, Exists
<1>8. \A p \in Path : p \in DOMAIN target /\ p \notin DOMAIN now =>
        was # Absent /\ p \in DOMAIN was
  BY <1>3 DEF EmptyObject
<1>9. DOMAIN target \subseteq Path
  BY <1>1, <1>3, DocumentPaths DEF EmptyObject
<1>10. patch[<< >>] = Branch
  BY <1>2, <1>3, <1>4
<1>11. MergePatch(target, patch) = [p \in left \cup put |-> IF p \in put THEN patch[p] ELSE target[p]]
  BY <1>10 DEF MergePatch, IsObject
<1> HIDE DEF patch, changed, removed
\* What is put.
<1>12. \A p : p \in put <=> p = << >> \/ p \in changed
  <2>1. ASSUME NEW p \in put PROVE p = << >> \/ p \in changed
    BY <1>2
  <2>2. ASSUME NEW p, p = << >> \/ p \in changed PROVE p \in put
    <3>1. p \in DOMAIN now /\ p \in DOMAIN patch
      BY <1>2, <1>3, <1>5, <2>2
    <3>2. patch[p] = now[p]
      BY <1>2, <1>3, <1>4, <2>2, <3>1
    <3>3. now[p] # Scalar(Null)
      BY <3>1 DEF NullFree
    <3> QED BY <3>1, <3>2, <3>3
  <2> QED BY <2>1, <2>2
<1>13. \A p \in put : p \in DOMAIN now /\ patch[p] = now[p]
  <2>1. SUFFICES ASSUME NEW p \in put PROVE p \in DOMAIN now /\ patch[p] = now[p]
    OBVIOUS
  <2>2. p \in DOMAIN now
    BY <1>3, <1>5, <1>12
  <2> QED BY <1>2, <1>3, <1>4, <1>12, <2>2
\* What is left is unchanged.
<1>14. ASSUME NEW p \in left, p \notin put
       PROVE  p \in DOMAIN now /\ target[p] = now[p]
  <2>1. p \in DOMAIN target /\ p \in Path
    BY <1>9
  <2>2. p \in DOMAIN now
    <3>1. SUFFICES ASSUME p \notin DOMAIN now PROVE FALSE
      OBVIOUS
    <3>2. was # Absent /\ p \in DOMAIN was /\ IsDocument(was)
      BY <1>1, <1>8, <2>1, <3>1
    <3> DEFINE inside == DOMAIN now
    <3>3. << >> \in inside /\ p \notin inside
      BY <1>3, <3>1
    <3>4. PICK r \in Path : IsPrefix(r, p) /\ r # << >> /\ r \notin inside /\ Front(r) \in inside
      <4> HIDE DEF inside
      <4> QED BY <2>1, <3>3, FirstOutside
    <3> DEFINE f == Front(r)
    <3>5. f \in DOMAIN now /\ f \in Path /\ IsPrefix(f, r) /\ f # r
      BY <1>3, <3>4, FrontIsAbove DEF IsStrictPrefix
    <3>6. r \in DOMAIN was
      BY <2>1, <3>2, <3>4, AboveIsBranch
    <3>7. CASE now[f] = Branch
      <4>1. r \in removed
        BY <3>2, <3>4, <3>5, <3>6, <3>7 DEF removed, Removed, Exists
      <4>2. r \in DOMAIN patch /\ patch[r] = Scalar(Null)
        BY <1>2, <4>1
      <4>3. r \in Prefixes(p)
        BY <2>1, <3>4, PrefixesArePrefixes
      <4>4. patch[r] = Branch
        BY <4>2, <4>3
      <4> QED BY <4>2, <4>4, NodesDiffer
    <3>8. CASE now[f] # Branch
      <4>1. f \in DOMAIN was /\ was[f] = Branch
        BY <3>2, <3>5, <3>6, AboveIsBranch
      <4>2. NodeAt(was, f) = Branch
        BY <3>2, <4>1 DEF NodeAt, Exists
      <4>3. f \in changed
        BY <1>6, <3>5, <3>8, <4>2
      <4>4. f \in DOMAIN patch /\ patch[f] = now[f]
        BY <1>2, <1>4, <3>5, <4>3
      <4>5. IsPrefix(f, p)
        BY <2>1, <3>4, <3>5, PrefixTransitive
      <4>6. f \in Prefixes(p)
        <5> HIDE DEF f
        <5> QED BY <2>1, <3>5, <4>5, PrefixesArePrefixes
      <4>7. patch[f] = Branch
        BY <4>4, <4>6
      <4> QED BY <3>8, <4>4, <4>7
    <3> QED BY <3>7, <3>8
  <2>3. was # Absent /\ was[p] = now[p]
    BY <1>7, <1>12, <1>14, <2>2
  <2> QED BY <2>2, <2>3
\* Nothing is missing.
<1>15. ASSUME NEW p \in DOMAIN now, p \notin put
       PROVE  p \in left
  <2>1. p \notin changed /\ p # << >> /\ p \in Path
    BY <1>3, <1>12, <1>15
  <2>2. was # Absent /\ p \in DOMAIN target
    BY <1>7, <2>1
  <2>3. ASSUME NEW q \in Prefixes(p) \cap DOMAIN patch PROVE patch[q] = Branch
    <3>1. q \in Path /\ IsPrefix(q, p)
      BY <2>1, PrefixesArePrefixes
    <3>2. q # p
      <4>1. p \notin DOMAIN patch
        BY <1>2, <1>4, <2>1
      <4> QED BY <2>3, <4>1
    <3>3. q \in DOMAIN now /\ now[q] = Branch
      BY <1>1, <3>1, <3>2, AboveIsBranch
    <3> QED BY <1>2, <1>4, <2>3, <3>3
  <2> QED BY <2>2, <2>3
<1>16. DOMAIN now = left \cup put
  BY <1>13, <1>14, <1>15
<1>17. now = [p \in DOMAIN now |-> now[p]]
  BY DEF Whole
<1> HIDE DEF left, put, target
<1>18. [p \in left \cup put |-> IF p \in put THEN patch[p] ELSE target[p]] = [p \in DOMAIN now |-> now[p]]
  BY <1>13, <1>14, <1>16
<1> QED BY <1>11, <1>17, <1>18 DEF target, patch

-----------------------------------------------------------------------------
(* A difference applied to its first argument, through the lanes of both. *)

\* The call that PatchBack makes.
PatchCall ==
  /\ diff # Unset
  /\ mode = "atomic"
  /\ arguments = <<IF lanes = << >> THEN PlainType ELSE ShreddedType(lanes), PlainType>>
  /\ inputs = <<prev, RowOf(<< >>, diff)>>
  /\ folded = MergeFoldStep(IF prev = SqlNull THEN SqlNull ELSE prev.residual, diff)

LEMMA ComparedRowIs ==
  ASSUME NoDocumentIsNull, NoRowIsNull, RowType(lanes), NEW row, ComparedRow(row)
  PROVE  row # SqlNull =>
           \E doc \in Compared : /\ doc # SqlNull /\ Whole(doc) /\ row = Shred(lanes, doc)
                                 /\ Whole(row.residual) /\ Reconstruct(row) = doc
<1> SUFFICES ASSUME row # SqlNull
             PROVE  \E doc \in Compared : /\ doc # SqlNull /\ Whole(doc) /\ row = Shred(lanes, doc)
                                          /\ Whole(row.residual) /\ Reconstruct(row) = doc
  OBVIOUS
<1>1. PICK doc \in Compared : row = Shred(lanes, doc)
  BY DEF ComparedRow
<1>2. Whole(doc) /\ doc # SqlNull
  BY CompareAssumption DEF Whole, NoDocumentIsNull
<1>3. Whole(Shred(lanes, doc).residual) /\ Reconstruct(Shred(lanes, doc)) = doc
  BY <1>2, WrittenRow
<1> QED BY <1>1, <1>2, <1>3

\* What is known of the difference.
LEMMA DiffIsWhole ==
  ASSUME NoDocumentIsNull, NoRowIsNull, NoDocumentIsAbsent, NoNodeIsAbsent, DiffOK, diff # Unset, mode = "atomic"
  PROVE  /\ Whole(diff) /\ diff # SqlNull
         /\ DocumentOf(prev) = SqlNull \/ Whole(DocumentOf(prev))
         /\ IsObject(CurDocument) /\ NullFree(CurDocument) =>
              ApplyPatch(DocumentOf(prev), diff) = CurDocument
<1>1. diff = DiffDocuments(PrevDocument, CurDocument, "atomic") /\ RowType(lanes)
  BY DEF DiffOK, DirectDiffIsThePlainDiff
<1>2. prev # SqlNull => \E doc \in Compared : doc # SqlNull /\ Whole(doc) /\ Reconstruct(prev) = doc
  BY <1>1, ComparedRowIs DEF DiffOK
<1>3. cur # SqlNull => \E doc \in Compared : Whole(doc) /\ Reconstruct(cur) = doc
  BY <1>1, ComparedRowIs DEF DiffOK
<1>4. Whole(EmptyObject)
  <2>1. IsDocument(EmptyObject) /\ EmptyObject = [p \in DOMAIN EmptyObject |-> EmptyObject[p]]
    <3>1. Laid(EmptyObject, EmptyObject, << >>)
      BY EmptyIsLaid
    <3> QED BY <3>1 DEF Laid
  <2> QED BY <2>1 DEF Whole
<1>5. Whole(CurDocument) /\ \A p \in DOMAIN CurDocument : CurDocument[p] # Absent
  <2>1. CASE cur = SqlNull
    BY <1>4, <2>1 DEF CurDocument, NoNodeIsAbsent
  <2>2. CASE cur # SqlNull
    BY <1>3, <2>2 DEF CurDocument, NoNodeIsAbsent
  <2> QED BY <2>1, <2>2
<1>6. /\ PrevDocument = Absent \/ Whole(PrevDocument)
      /\ DocumentOf(prev) = SqlNull \/ Whole(DocumentOf(prev))
      /\ (IF DocumentOf(prev) = SqlNull THEN EmptyObject ELSE DocumentOf(prev))
           = (IF PrevDocument = Absent THEN EmptyObject ELSE PrevDocument)
  <2>1. CASE prev = SqlNull
    BY <2>1 DEF PrevDocument, DocumentOf
  <2>2. CASE prev # SqlNull
    <3>1. PrevDocument = Reconstruct(prev) /\ DocumentOf(prev) = Reconstruct(prev)
      BY <2>2 DEF PrevDocument, DocumentOf
    <3>2. Whole(Reconstruct(prev)) /\ Reconstruct(prev) # SqlNull
      BY <1>2, <2>2
    <3>3. Reconstruct(prev) # Absent
      BY <3>2 DEF NoDocumentIsAbsent, Whole
    <3> QED BY <3>1, <3>2, <3>3
  <2> QED BY <2>1, <2>2
<1> DEFINE was == PrevDocument
           now == CurDocument
<1>7. IsDocument(now) /\ (was = Absent \/ IsDocument(was))
  BY <1>5, <1>6 DEF Whole
<1>8. Whole(diff) /\ diff # SqlNull
  <2> HIDE DEF was, now
  <2>1. Whole(DiffDocuments(was, now, "atomic"))
    BY <1>7, AtomicDiff
  <2>2. Whole(diff)
    BY <1>1, <2>1 DEF was, now
  <2> QED BY <2>2 DEF Whole, NoDocumentIsNull
<1>9. ASSUME IsObject(now), NullFree(now)
      PROVE  ApplyPatch(DocumentOf(prev), diff) = now
  <2>1. (was = Absent \/ Whole(was)) /\ Whole(now) /\ \A p \in DOMAIN now : now[p] # Absent
    BY <1>5, <1>6
  <2>2. ApplyPatch(DocumentOf(prev), diff) = MergePatch(IF was = Absent THEN EmptyObject ELSE was, diff)
    BY <1>6, <1>8 DEF ApplyPatch
  <2> HIDE DEF was, now
  <2>3. MergePatch(IF was = Absent THEN EmptyObject ELSE was, DiffDocuments(was, now, "atomic")) = now
    BY <1>9, <2>1, DiffIsAPatch
  <2> QED BY <1>1, <2>2, <2>3 DEF was, now
<1> QED BY <1>6, <1>8, <1>9

\* A whole document in a row without lanes.
LEMMA PlainRow ==
  ASSUME NoRowIsNull, NEW doc, Whole(doc), doc # SqlNull
  PROVE  LET row == RowOf(<< >>, doc)
         IN row = Shred(<< >>, doc) /\ row # SqlNull /\ row.residual = doc /\ DocumentOf(row) = doc
<1> DEFINE type == << >>
           row == Shred(type, doc)
           r == row.residual
<1>1. RowOf(type, doc) = row /\ row # SqlNull
  BY DEF RowOf, Shred, NoRowIsNull
<1>2. RowType(type) /\ DOMAIN type = {} /\ Stripped(type, doc) = {}
  BY DEF RowType, Stripped
<1>3. IsDocument(doc) /\ doc = [p \in DOMAIN doc |-> doc[p]]
  BY DEF Whole
<1> HIDE DEF type
<1>4. /\ ~IsObject(doc) => r = doc
      /\ IsObject(doc) => DOMAIN r = DOMAIN doc \ Stripped(type, doc) /\ \A p \in DOMAIN r : r[p] = doc[p]
  <2> DEFINE taken == Stripped(type, doc)
  <2>1. RowType(type) /\ IsDocument(doc)
    BY <1>2, <1>3
  <2>2. /\ IsDocument(row.residual)
        /\ IsObject(row.residual) <=> IsObject(doc)
        /\ ~IsObject(doc) => row.residual = doc
        /\ IsObject(doc) =>
             /\ DOMAIN row.residual = DOMAIN doc \ taken
             /\ \A p \in DOMAIN row.residual : row.residual[p] = doc[p]
        /\ row.lane = [m \in taken |-> doc[m].value]
        /\ DOMAIN row.lane = taken
    BY <2>1, ShredParts
  <2> QED BY <2>2
<1>5. Whole(r) /\ Reconstruct(row) = doc
  BY <1>2, WrittenRow
<1>6. r = [p \in DOMAIN r |-> r[p]]
  BY <1>5 DEF Whole
<1> HIDE DEF row
<1>7. r = doc
  <2>1. CASE IsObject(doc)
    <3>1. DOMAIN r = DOMAIN doc /\ \A p \in DOMAIN doc : r[p] = doc[p]
      BY <1>2, <1>4, <2>1
    <3> HIDE DEF r
    <3> QED BY <1>3, <1>6, <3>1
  <2>2. CASE ~IsObject(doc)
    BY <1>4, <2>2
  <2> QED BY <2>1, <2>2
<1> QED BY <1>1, <1>5, <1>7 DEF DocumentOf, row, type

LEMMA PatchCallIsRead ==
  ASSUME NoDocumentIsNull, NoRowIsNull, NoDocumentIsAbsent, NoNodeIsAbsent, DiffOK, PatchCall
  PROVE  /\ RowsRead /\ RowsFollow
         /\ DOMAIN arguments = 1 .. 2
         /\ Len(inputs) = 2
         /\ folded = RunResidualFold(Residuals)
         /\ PatchedDocument = ApplyPatch(DocumentOf(prev), diff)
<1> DEFINE first == IF lanes = << >> THEN PlainType ELSE ShreddedType(lanes)
           second == RowOf(<< >>, diff)
<1>1. /\ arguments = <<first, PlainType>> /\ inputs = <<prev, second>>
      /\ folded = MergeFoldStep(IF prev = SqlNull THEN SqlNull ELSE prev.residual, diff)
      /\ diff # Unset /\ mode = "atomic"
  BY DEF PatchCall
<1>2. Whole(diff) /\ diff # SqlNull /\ (DocumentOf(prev) = SqlNull \/ Whole(DocumentOf(prev)))
  BY <1>1, DiffIsWhole
<1>3. second = Shred(<< >>, diff) /\ second # SqlNull /\ second.residual = diff /\ DocumentOf(second) = diff
  BY <1>2, PlainRow
<1>4. RowType(lanes) /\ RowType(<< >>)
  BY DEF DiffOK, RowType
<1>5. /\ first.lanes = lanes /\ PlainType.lanes = << >>
      /\ first = PlainType \/ first = ShreddedType(first.lanes)
  BY DEF PlainType, ShreddedType
<1>6. prev # SqlNull =>
        \E doc : /\ doc # SqlNull /\ Whole(doc) /\ prev = Shred(lanes, doc)
                 /\ Whole(prev.residual) /\ Reconstruct(prev) = doc
  BY <1>4, ComparedRowIs DEF DiffOK
<1> HIDE DEF first, second
<1>7. /\ Len(arguments) = 2 /\ DOMAIN arguments = 1 .. 2 /\ arguments[1] = first /\ arguments[2] = PlainType
      /\ Len(inputs) = 2 /\ DOMAIN inputs = 1 .. 2 /\ inputs[1] = prev /\ inputs[2] = second
  BY <1>1
<1>8. 1 .. 2 = {1, 2}
  OBVIOUS
<1>9. Typed
  BY <1>4, <1>5, <1>7, <1>8 DEF Typed
<1> DEFINE r1 == IF prev = SqlNull THEN SqlNull ELSE prev.residual
<1>10. r1 = SqlNull \/ Whole(r1)
  BY <1>6
<1>11. folded = SqlNull \/ Whole(folded)
  <2> HIDE DEF r1
  <2>1. MergeFoldStep(r1, diff) = SqlNull \/ Whole(MergeFoldStep(r1, diff))
    BY <1>2, <1>10, FoldStepIsWhole
  <2> QED BY <1>1, <2>1 DEF r1
<1>12. PlainInputs # {}
  BY <1>7, <1>8 DEF PlainInputs
<1>13. RowsRead
  <2>1. ASSUME NEW i \in DOMAIN inputs, inputs[i] # SqlNull
        PROVE  \E doc : doc # SqlNull /\ Whole(doc) /\ inputs[i] = Shred(arguments[i].lanes, doc)
    <3>1. CASE i = 1
      BY <1>5, <1>6, <1>7, <2>1, <3>1
    <3>2. CASE i = 2
      BY <1>2, <1>3, <1>5, <1>7, <3>2
    <3> QED BY <1>7, <1>8, <3>1, <3>2
  <2>2. Len(inputs) \in Nat /\ DOMAIN inputs = 1 .. Len(inputs) /\ Len(inputs) <= Len(arguments)
    BY <1>7
  <2> QED BY <1>9, <1>11, <1>12, <2>1, <2>2 DEF RowsRead
<1>14. RowsFollow
  <2>1. \A l \in Lanes(PlainType) : FALSE
    BY <1>5 DEF Lanes
  <2>2. ASSUME NEW k \in DOMAIN arguments, NEW doc
        PROVE  Free(doc, Lanes(arguments[k]) \ Lanes(first))
    <3>1. Lanes(arguments[k]) \ Lanes(first) = {}
      BY <1>7, <1>8, <2>1
    <3> QED BY <3>1 DEF Free
  <2>3. ASSUME NEW i \in DOMAIN inputs
        PROVE  /\ inputs[i] = SqlNull => i \in {1, Len(arguments)}
               /\ inputs[i] # SqlNull /\ arguments[i] # PlainType =>
                    LET doc == Reconstruct(inputs[i])
                    IN /\ i # 1 => IsObject(doc)
                       /\ IsObject(doc) =>
                            \A k \in DOMAIN arguments : Free(doc, Lanes(arguments[k]) \ Lanes(arguments[i]))
    <3>1. CASE i = 1
      BY <1>7, <2>2, <3>1
    <3>2. CASE i = 2
      BY <1>7, <3>2
    <3> QED BY <1>7, <1>8, <3>1, <3>2
  <2> QED BY <2>3 DEF RowsFollow
\* The two folds.
<1>15. /\ DOMAIN Residuals = 1 .. 2 /\ Len(Residuals) = 2
       /\ Residuals[1] = r1 /\ Residuals[2] = diff
  BY <1>3, <1>7 DEF Residuals
<1>16. /\ DOMAIN Documents = 1 .. 2 /\ Documents[1] = DocumentOf(prev) /\ Documents[2] = diff
  BY <1>3, <1>7 DEF Documents
<1> DEFINE Two(values) == [i \in 1 .. 2 |-> IF i = 1 THEN values[1] ELSE MergeFoldStep(values[1], values[2])]
<1>17. \A values : IsResidualFold(Two(values), values, 2) /\ Two(values)[2] = MergeFoldStep(values[1], values[2])
  <2>1. SUFFICES ASSUME NEW values
                 PROVE  IsResidualFold(Two(values), values, 2) /\ Two(values)[2] = MergeFoldStep(values[1], values[2])
    OBVIOUS
  <2> DEFINE f == Two(values)
  <2>2. f[1] = values[1] /\ f[2] = MergeFoldStep(values[1], values[2]) /\ f = [i \in 1 .. 2 |-> f[i]]
    OBVIOUS
  <2> HIDE DEF f
  <2>3. [i \in 1 .. 2 |-> f[i]] = [i \in 1 .. 2 |-> IF i = 1 THEN values[1] ELSE MergeFoldStep(f[i - 1], values[i])]
    <3>1. ASSUME NEW i \in 1 .. 2
          PROVE  f[i] = IF i = 1 THEN values[1] ELSE MergeFoldStep(f[i - 1], values[i])
      <4>1. CASE i = 1
        BY <2>2, <4>1
      <4>2. CASE i = 2
        <5>1. i - 1 = 1
          BY <4>2
        <5> QED BY <2>2, <4>2, <5>1
      <4> QED BY <1>8, <4>1, <4>2
    <3> QED BY <3>1
  <2>4. IsResidualFold(f, values, 2)
    BY <2>2, <2>3 DEF IsResidualFold
  <2> QED BY <2>2, <2>4 DEF f
<1>18. folded = RunResidualFold(Residuals)
  <2> DEFINE g == Two(Residuals)
  <2>1. IsResidualFold(g, Residuals, 2) /\ g[2] = MergeFoldStep(r1, diff)
    BY <1>15, <1>17
  <2> HIDE DEF g
  <2>2. IsResidualFold(g, Residuals, 2) /\ 2 \in Nat \ {0} /\ Len(Residuals) = 2 /\ DOMAIN Residuals = 1 .. 2
    BY <1>15, <2>1
  <2>3. RunResidualFold(Residuals) = g[2]
    BY <2>2, RunFoldIs
  <2> QED BY <1>1, <2>1, <2>3
<1>19. PatchedDocument = ApplyPatch(DocumentOf(prev), diff)
  <2> DEFINE d == Two(Documents)
  <2>1. IsResidualFold(d, Documents, 2) /\ d[2] = MergeFoldStep(DocumentOf(prev), diff)
    BY <1>16, <1>17
  <2>2. \A i \in 1 .. 2 : Documents[i] = SqlNull \/ Whole(Documents[i])
    BY <1>2, <1>8, <1>16
  <2> HIDE DEF d
  <2>3. PatchedDocument = d[2]
    BY <1>7, <2>1, <2>2, PatchedIs
  <2>4. MergeFoldStep(DocumentOf(prev), diff) = ApplyPatch(DocumentOf(prev), diff)
    BY <1>2, FoldStepIsPatch
  <2> QED BY <2>1, <2>3, <2>4
<1> QED BY <1>7, <1>13, <1>14, <1>18, <1>19

\* A merge, a difference, and one after the other.
FormsOK ==
  /\ DiffOK
  /\ stage \in {"merge", "diff", "patch"}
  /\ stage = "merge" => MergeTrue
  /\ stage = "diff" => result = Pending
  /\ stage = "patch" => PatchCall /\ MergedRowIsThePatchedDocument /\ CopiedLanesReadTrue

LEMMA FormsInitOK == FormsInit => FormsOK
<1> SUFFICES ASSUME FormsInit PROVE FormsOK
  OBVIOUS
<1>1. DiffOK
  BY DiffInitOK DEF FormsInit
<1>2. CASE stage = "merge" /\ MergeInit
  BY <1>1, <1>2, MergeInitTrue DEF FormsOK
<1>3. CASE stage = "diff" /\ result = Pending
  BY <1>1, <1>3 DEF FormsOK
<1> QED BY <1>2, <1>3 DEF FormsInit

\* The merge of the second call.
LEMMA PatchStep ==
  ASSUME NoDocumentIsNull, NoRowIsNull, NoDocumentIsAbsent, NoNodeIsAbsent, DiffOK, PatchCall, MergeNext,
         UNCHANGED diffVars
  PROVE  PatchCall' /\ MergedRowIsThePatchedDocument' /\ CopiedLanesReadTrue'
<1>1. /\ RowsRead /\ RowsFollow
      /\ DOMAIN arguments = 1 .. 2 /\ Len(inputs) = 2
      /\ folded = RunResidualFold(Residuals)
  BY PatchCallIsRead
<1>2. CopyLanes \/ Reshred
  <2>1. ASSUME NEW i \in DOMAIN arguments, NEW doc \in Arguments(arguments, i), Read(i, doc)
        PROVE  FALSE
    <3>1. i = Len(inputs) + 1 /\ i \in 1 .. 2
      BY <1>1, <2>1 DEF Read
    <3> QED BY <1>1, <3>1
  <2> QED BY <2>1 DEF MergeNext
<1>3. arguments' = arguments /\ inputs' = inputs /\ folded' = folded
  BY <1>2 DEF CopyLanes, Reshred
<1>4. PatchCall'
  BY <1>3 DEF PatchCall, diffVars
<1>5. DocumentOf(result') = PatchedDocument
  BY <1>1, <1>2, CopyLanesTrue, ReshredTrue
<1>6. PatchedDocument' = PatchedDocument
  BY <1>3 DEF PatchedDocument, Documents
<1>7. CopiedLanesReadTrue'
  BY <1>1, <1>2, CopiedRowsReadTrue, ReshreddedRowsReadTrue
<1> QED BY <1>4, <1>5, <1>6, <1>7 DEF MergedRowIsThePatchedDocument

LEMMA FormsNextOK ==
  ASSUME LanesFollow, NoDocumentIsNull, NoRowIsNull, NoDocumentIsAbsent, NoNodeIsAbsent,
         FormsOK, [FormsNext]_formsVars
  PROVE  FormsOK'
<1>1. DiffOK
  BY DEF FormsOK
<1>2. CASE MergeStep
  <2>1. /\ stage \in {"merge", "patch"} /\ MergeNext
        /\ stage' = stage /\ UNCHANGED diffVars
    BY <1>2 DEF MergeStep
  <2>2. DiffOK'
    BY <1>1, <2>1, DiffNextOK
  <2>3. CASE stage = "merge"
    <3>1. MergeTrue'
      BY <2>1, <2>3, MergeNextTrue DEF FormsOK
    <3> QED BY <2>1, <2>2, <2>3, <3>1 DEF FormsOK
  <2>4. CASE stage = "patch"
    <3>1. PatchCall' /\ MergedRowIsThePatchedDocument' /\ CopiedLanesReadTrue'
      BY <1>1, <2>1, <2>4, PatchStep DEF FormsOK
    <3> QED BY <2>1, <2>2, <2>4, <3>1 DEF FormsOK
  <2> QED BY <2>1, <2>3, <2>4
<1>3. CASE DiffStep
  <2>1. stage = "diff" /\ DiffNext /\ stage' = stage /\ UNCHANGED mergeVars
    BY <1>3 DEF DiffStep
  <2>2. DiffOK'
    BY <1>1, <2>1, DiffNextOK
  <2>3. result' = result
    BY <2>1 DEF mergeVars
  <2> QED BY <2>1, <2>2, <2>3 DEF FormsOK
<1>4. CASE PatchBack
  <2>1. /\ stage = "diff" /\ stage' = "patch" /\ result' = result /\ UNCHANGED diffVars
        /\ result = Pending
    BY <1>4 DEF PatchBack, FormsOK
  <2>2. DiffOK'
    BY <1>1, <2>1, DiffNextOK
  <2>3. PatchCall'
    BY <1>4 DEF PatchBack, PatchCall, diffVars
  <2>4. MergedRowIsThePatchedDocument' /\ CopiedLanesReadTrue'
    BY <2>1 DEF MergedRowIsThePatchedDocument, CopiedLanesReadTrue
  <2> QED BY <2>1, <2>2, <2>3, <2>4 DEF FormsOK
<1>5. CASE UNCHANGED formsVars
  <2>1. stage' = stage /\ UNCHANGED mergeVars /\ UNCHANGED diffVars
    BY <1>5 DEF formsVars
  <2>2. DiffOK'
    BY <1>1, <2>1, DiffNextOK
  <2>3. stage = "merge" => MergeTrue'
    BY <2>1, MergeNextTrue DEF FormsOK
  <2>4. /\ arguments' = arguments /\ inputs' = inputs /\ folded' = folded /\ result' = result
    BY <2>1 DEF mergeVars
  <2>5. ASSUME stage = "patch"
        PROVE  PatchCall' /\ MergedRowIsThePatchedDocument' /\ CopiedLanesReadTrue'
    <3>1. PatchCall /\ MergedRowIsThePatchedDocument /\ CopiedLanesReadTrue
      BY <2>5 DEF FormsOK
    <3>2. PatchCall'
      BY <2>1, <2>4, <3>1 DEF PatchCall, diffVars
    <3>3. MergedRowIsThePatchedDocument'
      BY <2>4, <3>1 DEF MergedRowIsThePatchedDocument, PatchedDocument, Documents
    <3>4. CopiedLanesReadTrue'
      BY <2>4, <3>1 DEF CopiedLanesReadTrue, ClearBitsAreTrue, ResultLanes, ResultType, Declaring, Lanes,
                        ShreddedType, BareRead, PathRead, Reconstruct
    <3> QED BY <3>2, <3>3, <3>4
  <2> QED BY <2>1, <2>2, <2>3, <2>4, <2>5 DEF FormsOK
<1> QED BY <1>2, <1>3, <1>4, <1>5 DEF FormsNext

LEMMA FormsPromise ==
  ASSUME NoDocumentIsNull, NoRowIsNull, NoDocumentIsAbsent, NoNodeIsAbsent, FormsOK
  PROVE  /\ MergedRowIsThePatchedDocument
         /\ CopiedLanesReadTrue
         /\ DirectDiffIsThePlainDiff
         /\ PatchingBackGivesTheSecondDocument
<1>1. DirectDiffIsThePlainDiff
  BY DEF FormsOK, DiffOK
<1>2. MergedRowIsThePatchedDocument /\ CopiedLanesReadTrue
  <2>1. CASE stage = "merge"
    BY <2>1 DEF FormsOK, MergeTrue, MergeOK
  <2>2. CASE stage = "diff"
    BY <2>2 DEF FormsOK, MergedRowIsThePatchedDocument, CopiedLanesReadTrue
  <2>3. CASE stage = "patch"
    BY <2>3 DEF FormsOK
  <2> QED BY <2>1, <2>2, <2>3 DEF FormsOK
<1>3. ASSUME stage = "patch", result # Pending, IsObject(CurDocument), NullFree(CurDocument)
      PROVE  DocumentOf(result) = CurDocument
  <2>1. PatchCall /\ DiffOK
    BY <1>3 DEF FormsOK
  <2>2. DocumentOf(result) = PatchedDocument
    BY <1>2, <1>3 DEF MergedRowIsThePatchedDocument
  <2>3. PatchedDocument = ApplyPatch(DocumentOf(prev), diff)
    BY <2>1, PatchCallIsRead
  <2>4. ApplyPatch(DocumentOf(prev), diff) = CurDocument
    BY <1>3, <2>1, DiffIsWhole DEF PatchCall
  <2> QED BY <2>2, <2>3, <2>4
<1> QED BY <1>1, <1>2, <1>3 DEF PatchingBackGivesTheSecondDocument

\* jsono_merge_patch and jsono_diff keep their promises alone and one after the
\* other: the difference that jsono_diff writes comes as a plain argument beside
\* the shredded one that it was computed from.
THEOREM RowFunctions ==
  ASSUME LanesFollow, NoDocumentIsNull, NoRowIsNull, NoDocumentIsAbsent, NoNodeIsAbsent
  PROVE  FormsSpec => [](MergedRowIsThePatchedDocument /\ CopiedLanesReadTrue /\ DirectDiffIsThePlainDiff)
<1>1. FormsInit => FormsOK
  BY FormsInitOK
<1>2. FormsOK /\ [FormsNext]_formsVars => FormsOK'
  BY FormsNextOK
<1>3. FormsOK => MergedRowIsThePatchedDocument /\ CopiedLanesReadTrue /\ DirectDiffIsThePlainDiff
  BY FormsPromise
<1> QED BY <1>1, <1>2, <1>3, PTL DEF FormsSpec

\* jsono_merge_patch(a, jsono_diff(a, b)) is b, through the lanes of both
\* functions, for any documents, SQL NULL too, and any row type, if b is an
\* object without explicit nulls.
THEOREM PatchingBack ==
  ASSUME LanesFollow, NoDocumentIsNull, NoRowIsNull, NoDocumentIsAbsent, NoNodeIsAbsent
  PROVE  FormsSpec => []PatchingBackGivesTheSecondDocument
<1>1. FormsInit => FormsOK
  BY FormsInitOK
<1>2. FormsOK /\ [FormsNext]_formsVars => FormsOK'
  BY FormsNextOK
<1>3. FormsOK => PatchingBackGivesTheSecondDocument
  BY FormsPromise
<1> QED BY <1>1, <1>2, <1>3, PTL DEF FormsSpec

-----------------------------------------------------------------------------
(* Changed arrays: matching elements in order and counting occurrences. *)

\* In a finite set of indices, the number of those before one is its rank.
LEMMA Ranks ==
  ASSUME NEW n \in Nat, NEW I \in SUBSET (1 .. n)
  PROVE  /\ IsFiniteSet(I) /\ Cardinality(I) \in Nat
         /\ \A i \in I : Before(I, i) \in 0 .. Cardinality(I) - 1
         /\ \A i \in I, j \in I : i < j => Before(I, i) < Before(I, j)
         /\ \A i \in I, j \in I : Before(I, i) = Before(I, j) => i = j
         /\ \A m \in 0 .. Cardinality(I) - 1 : \E i \in I : Before(I, i) = m
<1> DEFINE c == Cardinality(I)
           L(i) == {j \in I : j < i}
<1>1. IsFiniteSet(I) /\ c \in Nat
  <2>1. 1 \in Int /\ n \in Int
    OBVIOUS
  <2>2. IsFiniteSet(1 .. n)
    BY <2>1, FS_Interval
  <2>3. IsFiniteSet(I)
    BY <2>2, FS_Subset
  <2> QED BY <2>3, FS_CardinalityType
<1>2. \A i \in I : IsFiniteSet(L(i)) /\ Cardinality(L(i)) \in Nat /\ Before(I, i) = Cardinality(L(i))
  <2>1. SUFFICES ASSUME NEW i \in I
                 PROVE  IsFiniteSet(L(i)) /\ Cardinality(L(i)) \in Nat /\ Before(I, i) = Cardinality(L(i))
    OBVIOUS
  <2>2. L(i) \in SUBSET I
    OBVIOUS
  <2>3. IsFiniteSet(L(i))
    BY <1>1, <2>2, FS_Subset
  <2>4. Cardinality(L(i)) \in Nat
    BY <2>3, FS_CardinalityType
  <2> QED BY <2>3, <2>4 DEF Before
<1>3. ASSUME NEW i \in I, NEW S, IsFiniteSet(S), Cardinality(S) \in Nat, L(i) \subseteq S, i \in S
      PROVE  Before(I, i) < Cardinality(S)
  <2>1. i \notin L(i)
    OBVIOUS
  <2>2. Cardinality(L(i)) <= Cardinality(S) /\ Cardinality(L(i)) # Cardinality(S)
    <3>1. L(i) \in SUBSET S /\ L(i) # S
      BY <1>3, <2>1
    <3> HIDE DEF L
    <3> QED BY <1>3, <3>1, FS_Subset
  <2> QED BY <1>2, <1>3, <2>2
<1>4. \A i \in I : Before(I, i) \in 0 .. c - 1
  <2>1. SUFFICES ASSUME NEW i \in I PROVE Before(I, i) \in 0 .. c - 1
    OBVIOUS
  <2>2. Before(I, i) < c
    BY <1>1, <1>3
  <2>3. Before(I, i) \in Nat
    BY <1>2
  <2> QED BY <1>1, <2>2, <2>3
<1>5. \A i \in I, j \in I : i < j => Before(I, i) < Before(I, j)
  <2>1. SUFFICES ASSUME NEW i \in I, NEW j \in I, i < j PROVE Before(I, i) < Before(I, j)
    OBVIOUS
  <2>2. L(i) \subseteq L(j) /\ i \in L(j)
    <3>1. \A x \in I : x \in Int
      OBVIOUS
    <3>2. \A x \in I : x < i => x < j
      BY <2>1, <3>1
    <3> QED BY <2>1, <3>2
  <2>3. IsFiniteSet(L(j)) /\ Cardinality(L(j)) \in Nat /\ Before(I, j) = Cardinality(L(j))
    BY <1>2
  <2> QED BY <1>3, <2>2, <2>3
<1>6. \A i \in I, j \in I : Before(I, i) = Before(I, j) => i = j
  <2>1. \A i \in I : Before(I, i) \in Nat
    BY <1>1, <1>4
  <2> QED BY <1>5, <2>1
<1>7. \A m \in 0 .. c - 1 : \E i \in I : Before(I, i) = m
  <2> DEFINE T == 0 .. c - 1
             f == [i \in I |-> Before(I, i)]
  <2>1. f \in Injection(I, T)
    BY <1>4, <1>6 DEF Injection, IsInjective
  <2>2. IsFiniteSet(T) /\ Cardinality(T) = c
    <3>1. 0 \in Int /\ c - 1 \in Int
      BY <1>1
    <3>2. IsFiniteSet(0 .. c - 1) /\ Cardinality(0 .. c - 1) = IF 0 > c - 1 THEN 0 ELSE c - 1 - 0 + 1
      BY <3>1, FS_Interval
    <3> QED BY <1>1, <3>2
  <2>3. f \in Surjection(I, T)
    <3> HIDE DEF f, T
    <3> QED BY <2>1, <2>2, FS_Injection
  <2> QED BY <2>3 DEF Surjection
<1> QED BY <1>1, <1>4, <1>5, <1>6, <1>7

\* How many have k or more before them.
LEMMA RanksFrom ==
  ASSUME NEW n \in Nat, NEW I \in SUBSET (1 .. n), NEW k \in Nat
  PROVE  Cardinality({i \in I : Before(I, i) >= k})
           = IF k > Cardinality(I) THEN 0 ELSE Cardinality(I) - k
<1> DEFINE c == Cardinality(I)
           U == {i \in I : Before(I, i) >= k}
           T == k .. c - 1
           f == [i \in U |-> Before(I, i)]
<1>1. /\ IsFiniteSet(I) /\ c \in Nat
      /\ \A i \in I : Before(I, i) \in 0 .. c - 1
      /\ \A i \in I, j \in I : Before(I, i) = Before(I, j) => i = j
      /\ \A m \in 0 .. c - 1 : \E i \in I : Before(I, i) = m
  BY Ranks
<1>2. IsFiniteSet(U)
  BY <1>1, FS_Subset
<1>3. f \in Bijection(U, T)
  <2>1. f \in [U -> T]
    <3>1. \A i \in U : Before(I, i) \in T
      <4>1. SUFFICES ASSUME NEW i \in U PROVE Before(I, i) \in T
        OBVIOUS
      <4>2. Before(I, i) \in 0 .. c - 1 /\ Before(I, i) >= k
        BY <1>1
      <4> HIDE DEF c
      <4> QED BY <1>1, <4>2
    <3> HIDE DEF T, U
    <3> QED BY <3>1
  <2>2. \A i \in U, j \in U : f[i] = f[j] => i = j
    BY <1>1
  <2>3. \A m \in T : \E i \in U : f[i] = m
    <3>1. SUFFICES ASSUME NEW m \in T PROVE \E i \in U : f[i] = m
      OBVIOUS
    <3>2. m \in 0 .. c - 1 /\ m >= k
      BY <1>1
    <3> QED BY <1>1, <3>2
  <2> HIDE DEF f, U, T
  <2> QED BY <2>1, <2>2, <2>3 DEF Bijection, Injection, Surjection, IsInjective
<1>4. Cardinality(T) = Cardinality(U)
  <2> HIDE DEF f, U, T
  <2> QED BY <1>2, <1>3, FS_Bijection DEF ExistsBijection
<1>5. Cardinality(T) = IF k > c - 1 THEN 0 ELSE c - 1 - k + 1
  <2>1. k \in Int /\ c - 1 \in Int
    BY <1>1
  <2> QED BY <2>1, FS_Interval
<1>6. Cardinality(U) = IF k > c THEN 0 ELSE c - k
  <2> HIDE DEF U, T, c
  <2> QED BY <1>1, <1>4, <1>5
<1> QED BY <1>6

\* The indices among some that hold a value.
Holders(I, s, v) == {i \in I : s[i] = v}

\* What is picked, in order, and how often each value.
LEMMA Picked ==
  ASSUME NEW n \in Nat, NEW I \in SUBSET (1 .. n), NEW s
  PROVE  /\ DOMAIN Pick(s, I) = 1 .. Cardinality(I)
         /\ Len(Pick(s, I)) = Cardinality(I)
         /\ \A v : Occurrences(Pick(s, I), v) = Cardinality(Holders(I, s, v))
<1> DEFINE c == Cardinality(I)
           At1(m) == CHOOSE i \in I : Before(I, i) = m - 1
           t == Pick(s, I)
<1>1. /\ IsFiniteSet(I) /\ c \in Nat
      /\ \A i \in I : Before(I, i) \in 0 .. c - 1
      /\ \A i \in I, j \in I : Before(I, i) = Before(I, j) => i = j
      /\ \A m \in 0 .. c - 1 : \E i \in I : Before(I, i) = m
  BY Ranks
<1>2. t = [m \in 1 .. c |-> s[At1(m)]]
  BY DEF Pick
<1>3. \A m \in 1 .. c : At1(m) \in I /\ Before(I, At1(m)) = m - 1
  <2>1. SUFFICES ASSUME NEW m \in 1 .. c PROVE At1(m) \in I /\ Before(I, At1(m)) = m - 1
    OBVIOUS
  <2>2. m - 1 \in 0 .. c - 1
    BY <1>1
  <2>3. \E i \in I : Before(I, i) = m - 1
    BY <1>1, <2>2
  <2> QED BY <2>3
<1> HIDE DEF At1, t
<1>4. DOMAIN t = 1 .. c /\ \A m \in 1 .. c : t[m] = s[At1(m)]
  BY <1>2
<1>5. Len(t) = c
  <2>1. t \in Seq({s[At1(m)] : m \in 1 .. c})
    BY <1>1, <1>2
  <2> QED BY <1>1, <1>4, <2>1
<1>6. ASSUME NEW v PROVE Occurrences(t, v) = Cardinality(Holders(I, s, v))
  <2> DEFINE V == {i \in I : s[i] = v}
             P == {m \in 1 .. c : t[m] = v}
             f == [i \in V |-> Before(I, i) + 1]
  <2>1. Occurrences(t, v) = Cardinality(P)
    BY <1>4 DEF Occurrences, Places
  <2>2. \A i \in V : Before(I, i) + 1 \in P
    <3>1. SUFFICES ASSUME NEW i \in V PROVE Before(I, i) + 1 \in P
      OBVIOUS
    <3> DEFINE m == Before(I, i) + 1
    <3>2. m \in 1 .. c /\ m - 1 = Before(I, i)
      BY <1>1
    <3>3. At1(m) = i
      BY <1>1, <1>3, <3>2
    <3> QED BY <1>4, <3>2, <3>3
  <2>3. f \in [V -> P]
    BY <2>2
  <2>4. \A i \in V, j \in V : f[i] = f[j] => i = j
    BY <1>1
  <2>5. \A m \in P : \E i \in V : f[i] = m
    <3>1. SUFFICES ASSUME NEW m \in P PROVE \E i \in V : f[i] = m
      OBVIOUS
    <3>2. At1(m) \in V /\ Before(I, At1(m)) = m - 1
      BY <1>3, <1>4
    <3>3. f[At1(m)] = m
      BY <3>2
    <3> QED BY <3>2, <3>3
  <2>6. IsFiniteSet(V)
    BY <1>1, FS_Subset
  <2> HIDE DEF f, V, P
  <2>7. f \in Bijection(V, P)
    BY <2>3, <2>4, <2>5 DEF Bijection, Injection, Surjection, IsInjective
  <2>8. Cardinality(P) = Cardinality(V)
    BY <2>6, <2>7, FS_Bijection DEF ExistsBijection
  <2> QED BY <2>1, <2>8 DEF V, Holders
<1> QED BY <1>4, <1>5, <1>6 DEF t

\* A sequence, as the elements of an array are one.
Listed(s) == Len(s) \in Nat /\ DOMAIN s = 1 .. Len(s)

LEMMA PlacesOf ==
  ASSUME NEW s, Listed(s), NEW v
  PROVE  /\ Places(s, v) \in SUBSET (1 .. Len(s))
         /\ Occurrences(s, v) = Cardinality(Places(s, v))
         /\ \A i : i \in Places(s, v) <=> i \in 1 .. Len(s) /\ s[i] = v
BY DEF Places, Occurrences, Listed

\* Which element of was element i of now takes: the one with as many equal
\* elements before it.
Partner(was, now, i) ==
  IF Before(Places(now, now[i]), i) < Occurrences(was, now[i])
  THEN CHOOSE j \in Places(was, now[i]) :
         Before(Places(was, now[i]), j) = Before(Places(now, now[i]), i)
  ELSE 0

LEMMA PartnerIs ==
  ASSUME NEW was, Listed(was), NEW now, Listed(now), NEW i \in 1 .. Len(now)
  PROVE  LET P == Places(was, now[i])
             Q == Places(now, now[i])
         IN /\ Before(Q, i) < Occurrences(was, now[i]) =>
                 Partner(was, now, i) \in P /\ Before(P, Partner(was, now, i)) = Before(Q, i)
            /\ ~(Before(Q, i) < Occurrences(was, now[i])) => Partner(was, now, i) = 0
            /\ Before(Q, i) \in 0 .. Occurrences(now, now[i]) - 1
            /\ Partner(was, now, i) \in 0 .. Len(was)
            /\ Occurrences(was, now[i]) \in Nat
<1> DEFINE P == Places(was, now[i])
           Q == Places(now, now[i])
           o == Occurrences(was, now[i])
<1>1. /\ P \in SUBSET (1 .. Len(was)) /\ o = Cardinality(P)
      /\ Q \in SUBSET (1 .. Len(now)) /\ Occurrences(now, now[i]) = Cardinality(Q)
      /\ i \in Q
  BY PlacesOf
<1>2. Len(was) \in Nat /\ Len(now) \in Nat
  BY DEF Listed
<1> HIDE DEF P, Q
<1>3. Cardinality(P) \in Nat /\ \A m \in 0 .. Cardinality(P) - 1 : \E j \in P : Before(P, j) = m
  BY <1>1, <1>2, Ranks
<1>4. Before(Q, i) \in 0 .. Cardinality(Q) - 1 /\ Cardinality(Q) \in Nat
  BY <1>1, <1>2, Ranks
<1>5. CASE Before(Q, i) < o
  <2>1. Before(Q, i) \in 0 .. Cardinality(P) - 1
    BY <1>1, <1>3, <1>4, <1>5
  <2>2. \E j \in P : Before(P, j) = Before(Q, i)
    BY <1>3, <2>1
  <2>3. Partner(was, now, i) = CHOOSE j \in P : Before(P, j) = Before(Q, i)
    BY <1>5 DEF Partner, P, Q
  <2>4. Partner(was, now, i) \in P /\ Before(P, Partner(was, now, i)) = Before(Q, i)
    BY <2>2, <2>3
  <2>5. Partner(was, now, i) \in 0 .. Len(was)
    <3>1. Partner(was, now, i) \in 1 .. Len(was)
      BY <1>1, <2>4
    <3> QED BY <1>2, <3>1
  <2> QED BY <1>1, <1>3, <1>4, <1>5, <2>4, <2>5 DEF P, Q
<1>6. CASE ~(Before(Q, i) < o)
  <2>1. Partner(was, now, i) = 0
    BY <1>6 DEF Partner, Q
  <2> QED BY <1>1, <1>2, <1>3, <1>4, <1>6, <2>1 DEF P, Q
<1> QED BY <1>5, <1>6

FreeFor(was, now, taken, i) == {j \in Places(was, now[i]) : \A k \in 1 .. i - 1 : taken[k] # j}
FirstFree(was, now, taken, i) ==
  IF FreeFor(was, now, taken, i) = {} THEN 0 ELSE Min(FreeFor(was, now, taken, i))

\* What is free when element i is matched, if the elements before it took their partners.
LEMMA FreeElements ==
  ASSUME NEW was, Listed(was), NEW now, Listed(now), NEW i \in 1 .. Len(now),
         NEW taken, \A k \in 1 .. i - 1 : taken[k] = Partner(was, now, k)
  PROVE  FreeFor(was, now, taken, i)
           = {j \in Places(was, now[i]) :
                Before(Places(was, now[i]), j) >= Before(Places(now, now[i]), i)}
<1> DEFINE v == now[i]
           P == Places(was, v)
           Q == Places(now, v)
<1>0. Len(was) \in Nat /\ Len(now) \in Nat
  BY DEF Listed
<1>1. /\ P \in SUBSET (1 .. Len(was)) /\ Occurrences(was, v) = Cardinality(P)
      /\ \A j : j \in P <=> j \in 1 .. Len(was) /\ was[j] = v
  BY PlacesOf
<1>2. /\ Q \in SUBSET (1 .. Len(now))
      /\ \A j : j \in Q <=> j \in 1 .. Len(now) /\ now[j] = v
  BY PlacesOf
<1>3. \A k \in 1 .. i - 1 : k \in 1 .. Len(now) /\ k < i
  BY <1>0
<1> HIDE DEF P, Q
<1>4. /\ \A j \in P : Before(P, j) \in 0 .. Cardinality(P) - 1
      /\ \A j \in P, k \in P : Before(P, j) = Before(P, k) => j = k
      /\ Cardinality(P) \in Nat
  BY <1>0, <1>1, Ranks
<1>5. /\ \A j \in Q : Before(Q, j) \in 0 .. Cardinality(Q) - 1
      /\ \A j \in Q, k \in Q : j < k => Before(Q, j) < Before(Q, k)
      /\ \A j \in Q, k \in Q : Before(Q, j) = Before(Q, k) => j = k
      /\ \A m \in 0 .. Cardinality(Q) - 1 : \E k \in Q : Before(Q, k) = m
      /\ Cardinality(Q) \in Nat
  BY <1>0, <1>2, Ranks
<1>6. i \in Q
  BY <1>2 DEF v
<1>7. ASSUME NEW j \in P, NEW k \in 1 .. i - 1, taken[k] = j
      PROVE  Before(P, j) < Before(Q, i)
  <2>1. k \in 1 .. Len(now) /\ k < i /\ Partner(was, now, k) = j
    BY <1>3, <1>7
  <2>2. j # 0 /\ was[j] = v
    BY <1>1
  <2>3. /\ j \in Places(was, now[k])
        /\ Before(Places(was, now[k]), j) = Before(Places(now, now[k]), k)
    BY <2>1, <2>2, PartnerIs
  <2>4. was[j] = now[k]
    BY <2>3 DEF Places
  <2>5. now[k] = v /\ Before(P, j) = Before(Q, k) /\ k \in Q
    BY <1>2, <2>1, <2>2, <2>3, <2>4 DEF P, Q
  <2>6. Before(Q, k) < Before(Q, i)
    BY <1>5, <1>6, <2>1, <2>5
  <2> QED BY <2>5, <2>6
<1>8. ASSUME NEW j \in P, Before(P, j) < Before(Q, i)
      PROVE  \E k \in 1 .. i - 1 : taken[k] = j
  <2>1. Before(P, j) \in 0 .. Cardinality(Q) - 1
    BY <1>4, <1>5, <1>6, <1>8
  <2>2. PICK k \in Q : Before(Q, k) = Before(P, j)
    BY <1>5, <2>1
  <2>3. k \in 1 .. Len(now) /\ now[k] = v
    BY <1>2
  <2>4. k < i
    <3>1. ~(i < k) /\ i # k
      <4>1. Before(Q, k) < Before(Q, i) /\ Before(Q, k) \in Int /\ Before(Q, i) \in Int
        BY <1>5, <1>6, <1>8, <2>2
      <4>2. i < k => Before(Q, i) < Before(Q, k)
        BY <1>5, <1>6
      <4> QED BY <4>1, <4>2
    <3> QED BY <1>0, <2>3, <3>1
  <2>5. k \in 1 .. i - 1
    BY <1>0, <2>3, <2>4
  <2>6. Before(P, j) < Occurrences(was, v)
    BY <1>1, <1>4
  <2>7. Partner(was, now, k) \in P /\ Before(P, Partner(was, now, k)) = Before(Q, k)
    BY <2>2, <2>3, <2>6, PartnerIs DEF P, Q
  <2>8. Partner(was, now, k) = j
    BY <1>4, <2>2, <2>7
  <2> QED BY <2>5, <2>8
<1>9. ASSUME NEW j \in P
      PROVE  (\A k \in 1 .. i - 1 : taken[k] # j) <=> Before(P, j) >= Before(Q, i)
  <2>1. Before(P, j) \in Int /\ Before(Q, i) \in Int
    BY <1>4, <1>5, <1>6
  <2> QED BY <1>7, <1>8, <2>1
<1> QED BY <1>9 DEF FreeFor, P, Q

LEMMA FirstFreeIsPartner ==
  ASSUME NEW was, Listed(was), NEW now, Listed(now), NEW i \in 1 .. Len(now),
         NEW taken, \A k \in 1 .. i - 1 : taken[k] = Partner(was, now, k)
  PROVE  FirstFree(was, now, taken, i) = Partner(was, now, i)
<1> DEFINE P == Places(was, now[i])
           b == Before(Places(now, now[i]), i)
           o == Occurrences(was, now[i])
           free == FreeFor(was, now, taken, i)
           partner == Partner(was, now, i)
<1>1. free = {j \in P : Before(P, j) >= b}
  BY FreeElements
<1>2. /\ b < o => partner \in P /\ Before(P, partner) = b
      /\ ~(b < o) => partner = 0
      /\ b \in Nat /\ o \in Nat
  BY PartnerIs
<1>3. P \in SUBSET (1 .. Len(was)) /\ o = Cardinality(P) /\ Len(was) \in Nat
  BY PlacesOf DEF Listed
<1>4. /\ \A j \in P : Before(P, j) \in 0 .. Cardinality(P) - 1
      /\ \A j \in P, k \in P : j < k => Before(P, j) < Before(P, k)
  <2> HIDE DEF P
  <2> QED BY <1>3, Ranks
<1> HIDE DEF P, b, o, free, partner
<1>5. CASE b < o
  <2>1. partner \in free
    BY <1>1, <1>2, <1>5
  <2>2. \A y \in free : partner <= y
    <3>1. SUFFICES ASSUME NEW y \in free, y < partner PROVE FALSE
      <4>1. \A y \in free : y \in Int /\ partner \in Int
        BY <1>1, <1>3, <2>1
      <4> QED BY <4>1
    <3>2. Before(P, y) < Before(P, partner) /\ Before(P, y) >= b
      BY <1>1, <1>4, <2>1, <3>1
    <3> QED BY <1>1, <1>2, <1>3, <1>4, <1>5, <3>2
  <2>3. Min(free) = partner
    <3>1. \A y \in free : y \in Int
      BY <1>1, <1>3
    <3>2. \A x \in free : (\A y \in free : x <= y) => x = partner
      BY <2>1, <2>2, <3>1
    <3> QED BY <2>1, <2>2, <3>2 DEF Min
  <2> QED BY <2>1, <2>3 DEF FirstFree, free, partner
<1>6. CASE ~(b < o)
  <2>1. free = {}
    <3>1. SUFFICES ASSUME NEW j \in free PROVE FALSE
      OBVIOUS
    <3>2. Before(P, j) \in 0 .. o - 1 /\ Before(P, j) >= b
      BY <1>1, <1>3, <1>4
    <3> QED BY <1>2, <1>6, <3>2
  <2> QED BY <1>2, <1>6, <2>1 DEF FirstFree, free, partner
<1> QED BY <1>5, <1>6

IsTaken(f, was, now) == f = [i \in DOMAIN now |-> FirstFree(was, now, f, i)]

\* The elements taken in order are the partners.
LEMMA TakenArePartners ==
  ASSUME NEW was, Listed(was), NEW now, Listed(now), NEW f, IsTaken(f, was, now), NEW i \in 1 .. Len(now)
  PROVE  f[i] = Partner(was, now, i)
<1> DEFINE n == Len(now)
           B == {k \in 1 .. n : f[k] # Partner(was, now, k)}
<1>1. n \in Nat /\ DOMAIN now = 1 .. n
  BY DEF Listed
<1>2. SUFFICES ASSUME B # {} PROVE FALSE
  OBVIOUS
<1>3. PICK k \in B : \A j \in B : k <= j
  <2> HIDE DEF B
  <2>1. B \subseteq 0 .. n
    BY <1>1 DEF B
  <2> QED BY <1>1, <1>2, <2>1, Least
<1>4. k \in 1 .. n /\ f[k] # Partner(was, now, k)
  BY <1>3
<1>5. \A j \in 1 .. k - 1 : f[j] = Partner(was, now, j)
  <2>1. SUFFICES ASSUME NEW j \in 1 .. k - 1 PROVE f[j] = Partner(was, now, j)
    OBVIOUS
  <2>2. j \in 1 .. n /\ ~(k <= j)
    BY <1>1, <1>4
  <2> QED BY <1>3, <2>2
<1> HIDE DEF B
<1>6. f[k] = FirstFree(was, now, f, k)
  BY <1>1, <1>4 DEF IsTaken
<1>7. FirstFree(was, now, f, k) = Partner(was, now, k)
  BY <1>4, <1>5, FirstFreeIsPartner
<1> QED BY <1>4, <1>6, <1>7

LEMMA SomeAreTaken ==
  ASSUME NEW was, Listed(was), NEW now, Listed(now)
  PROVE  \E f : IsTaken(f, was, now)
<1> DEFINE f == [i \in DOMAIN now |-> Partner(was, now, i)]
<1>1. DOMAIN now = 1 .. Len(now) /\ Len(now) \in Nat
  BY DEF Listed
<1>2. DOMAIN f = DOMAIN now /\ \A i \in 1 .. Len(now) : f[i] = Partner(was, now, i)
  BY <1>1
<1>3. f = [i \in DOMAIN f |-> f[i]]
  OBVIOUS
<1> HIDE DEF f
<1>4. \A i \in 1 .. Len(now) : FirstFree(was, now, f, i) = f[i]
  <2>1. SUFFICES ASSUME NEW i \in 1 .. Len(now) PROVE FirstFree(was, now, f, i) = f[i]
    OBVIOUS
  <2>2. \A k \in 1 .. i - 1 : f[k] = Partner(was, now, k)
    BY <1>1, <1>2
  <2>3. FirstFree(was, now, f, i) = Partner(was, now, i)
    BY <2>2, FirstFreeIsPartner
  <2> QED BY <1>2, <2>3
<1>5. f = [i \in DOMAIN now |-> FirstFree(was, now, f, i)]
  BY <1>1, <1>2, <1>3, <1>4
<1> QED BY <1>5 DEF IsTaken

\* Which old elements some new one takes.
LEMMA TakenByNone ==
  ASSUME NEW was, Listed(was), NEW now, Listed(now), NEW j \in 1 .. Len(was)
  PROVE  (\A i \in 1 .. Len(now) : Partner(was, now, i) # j)
           <=> Before(Places(was, was[j]), j) >= Occurrences(now, was[j])
<1> DEFINE v == was[j]
           P == Places(was, v)
           Q == Places(now, v)
<1>0. Len(was) \in Nat /\ Len(now) \in Nat
  BY DEF Listed
<1>1. /\ P \in SUBSET (1 .. Len(was)) /\ Occurrences(was, v) = Cardinality(P)
      /\ \A k : k \in P <=> k \in 1 .. Len(was) /\ was[k] = v
  BY PlacesOf
<1>2. /\ Q \in SUBSET (1 .. Len(now)) /\ Occurrences(now, v) = Cardinality(Q)
      /\ \A k : k \in Q <=> k \in 1 .. Len(now) /\ now[k] = v
  BY PlacesOf
<1>3. j \in P
  BY <1>1
<1> HIDE DEF P, Q
<1>4. /\ \A k \in P : Before(P, k) \in 0 .. Cardinality(P) - 1
      /\ \A k \in P, l \in P : Before(P, k) = Before(P, l) => k = l
      /\ Cardinality(P) \in Nat
  BY <1>0, <1>1, Ranks
<1>5. /\ \A k \in Q : Before(Q, k) \in 0 .. Cardinality(Q) - 1
      /\ \A m \in 0 .. Cardinality(Q) - 1 : \E k \in Q : Before(Q, k) = m
      /\ Cardinality(Q) \in Nat
  BY <1>0, <1>2, Ranks
<1>6. Before(P, j) \in 0 .. Cardinality(P) - 1
  BY <1>3, <1>4
<1>7. ASSUME NEW i \in 1 .. Len(now), Partner(was, now, i) = j
      PROVE  Before(P, j) < Cardinality(Q)
  <2>1. /\ j \in Places(was, now[i])
        /\ Before(Places(was, now[i]), j) = Before(Places(now, now[i]), i)
    <3>1. j # 0
      OBVIOUS
    <3> QED BY <1>7, <3>1, PartnerIs
  <2>2. now[i] = v
    BY <2>1 DEF Places, v
  <2>3. Before(P, j) = Before(Q, i) /\ i \in Q
    BY <1>2, <2>1, <2>2 DEF P, Q
  <2> QED BY <1>5, <2>3
<1>8. ASSUME Before(P, j) < Cardinality(Q)
      PROVE  \E i \in 1 .. Len(now) : Partner(was, now, i) = j
  <2>1. Before(P, j) \in 0 .. Cardinality(Q) - 1
    BY <1>5, <1>6, <1>8
  <2>2. PICK i \in Q : Before(Q, i) = Before(P, j)
    BY <1>5, <2>1
  <2>3. i \in 1 .. Len(now) /\ now[i] = v
    BY <1>2
  <2>4. Before(Q, i) < Occurrences(was, v)
    BY <1>1, <1>4, <1>6, <2>2
  <2>5. Partner(was, now, i) \in P /\ Before(P, Partner(was, now, i)) = Before(Q, i)
    BY <2>3, <2>4, PartnerIs DEF P, Q
  <2>6. Partner(was, now, i) = j
    BY <1>3, <1>4, <2>2, <2>5
  <2> QED BY <2>3, <2>6
<1>9. (\A i \in 1 .. Len(now) : Partner(was, now, i) # j) <=> Before(P, j) >= Cardinality(Q)
  <2>1. Before(P, j) \in Int /\ Cardinality(Q) \in Int
    BY <1>5, <1>6
  <2> QED BY <1>7, <1>8, <2>1
<1> QED BY <1>2, <1>9 DEF P, Q

\* Taking the first equal element that is free gives the same indices as counting
\* occurrences, so the length at which the code changes from one to the other does
\* not show (jsono_diff.cpp, ComputeMultiset).
THEOREM BothWaysOfMatchingAgree ==
  ASSUME NEW was, Listed(was), NEW now, Listed(now)
  PROVE  ComputeMultisetStructural(was, now) = ComputeMultisetHashed(was, now)
<1> DEFINE f == CHOOSE g : IsTaken(g, was, now)
<1>1. ComputeMultisetStructural(was, now)
        = [added   |-> {i \in DOMAIN now : f[i] = 0},
           removed |-> {j \in DOMAIN was : \A i \in DOMAIN now : f[i] # j}]
  BY DEF ComputeMultisetStructural, IsTaken, FirstFree, FreeFor
<1>2. IsTaken(f, was, now)
  BY SomeAreTaken
<1> HIDE DEF f
<1>3. DOMAIN now = 1 .. Len(now) /\ Len(now) \in Nat /\ DOMAIN was = 1 .. Len(was) /\ Len(was) \in Nat
  BY DEF Listed
<1>4. \A i \in 1 .. Len(now) : f[i] = Partner(was, now, i)
  BY <1>2, TakenArePartners
<1>5. {i \in DOMAIN now : f[i] = 0} = Surplus(now, was)
  <2>1. ASSUME NEW i \in 1 .. Len(now)
        PROVE  f[i] = 0 <=> Before(Places(now, now[i]), i) >= Occurrences(was, now[i])
    <3> DEFINE b == Before(Places(now, now[i]), i)
               o == Occurrences(was, now[i])
    <3>1. /\ b < o => Partner(was, now, i) \in Places(was, now[i])
          /\ ~(b < o) => Partner(was, now, i) = 0
          /\ b \in 0 .. Occurrences(now, now[i]) - 1
          /\ o \in Nat
      BY PartnerIs
    <3>2. Places(was, now[i]) \in SUBSET (1 .. Len(was))
      BY PlacesOf
    <3>3. Partner(was, now, i) \in Places(was, now[i]) => Partner(was, now, i) # 0
      BY <3>2
    <3> HIDE DEF b, o
    <3>4. f[i] = 0 <=> ~(b < o)
      BY <1>4, <3>1, <3>3
    <3>5. ~(b < o) <=> b >= o
      BY <3>1
    <3> QED BY <3>4, <3>5 DEF b, o
  <2> QED BY <1>3, <2>1 DEF Surplus
<1>6. {j \in DOMAIN was : \A i \in DOMAIN now : f[i] # j} = Surplus(was, now)
  <2>1. ASSUME NEW j \in 1 .. Len(was)
        PROVE  (\A i \in 1 .. Len(now) : f[i] # j)
                 <=> Before(Places(was, was[j]), j) >= Occurrences(now, was[j])
    <3>1. (\A i \in 1 .. Len(now) : Partner(was, now, i) # j)
            <=> Before(Places(was, was[j]), j) >= Occurrences(now, was[j])
      BY TakenByNone
    <3> QED BY <1>4, <3>1
  <2> QED BY <1>3, <2>1 DEF Surplus
<1> QED BY <1>1, <1>5, <1>6 DEF ComputeMultisetHashed

\* How often a value is picked from what one sequence has beyond another.
LEMMA SurplusCount ==
  ASSUME NEW s, Listed(s), NEW t, Listed(t), NEW v
  PROVE  /\ Occurrences(s, v) \in Nat /\ Occurrences(t, v) \in Nat
         /\ Occurrences(Pick(s, Surplus(s, t)), v)
              = IF Occurrences(t, v) > Occurrences(s, v) THEN 0
                ELSE Occurrences(s, v) - Occurrences(t, v)
<1> DEFINE P == Places(s, v)
           I == Surplus(s, t)
           o == Occurrences(t, v)
<1>0. Len(s) \in Nat /\ DOMAIN s = 1 .. Len(s) /\ Len(t) \in Nat
  BY DEF Listed
<1>1. /\ P \in SUBSET (1 .. Len(s)) /\ Occurrences(s, v) = Cardinality(P)
      /\ \A k : k \in P <=> k \in 1 .. Len(s) /\ s[k] = v
  BY PlacesOf
<1>2. Places(t, v) \in SUBSET (1 .. Len(t)) /\ o = Cardinality(Places(t, v))
  BY PlacesOf
<1>3. o \in Nat
  <2>1. Cardinality(Places(t, v)) \in Nat
    BY <1>0, <1>2, Ranks
  <2> QED BY <1>2, <2>1
<1>4. Cardinality(P) \in Nat
  <2> HIDE DEF P
  <2> QED BY <1>0, <1>1, Ranks
<1>5. I \in SUBSET (1 .. Len(s))
  BY <1>0 DEF Surplus
<1>6. Occurrences(Pick(s, I), v) = Cardinality(Holders(I, s, v))
  <2> HIDE DEF I
  <2> QED BY <1>0, <1>5, Picked
<1>7. Holders(I, s, v) = {i \in P : Before(P, i) >= o}
  <2>1. ASSUME NEW i
        PROVE  i \in I /\ s[i] = v <=> i \in P /\ Before(P, i) >= o
    BY <1>0, <1>1 DEF Surplus
  <2> HIDE DEF I, P, o
  <2> QED BY <2>1 DEF Holders
<1>8. Cardinality({i \in P : Before(P, i) >= o}) = IF o > Cardinality(P) THEN 0 ELSE Cardinality(P) - o
  <2> HIDE DEF P, o
  <2> QED BY <1>0, <1>1, <1>3, RanksFrom
<1> HIDE DEF P, I, o
<1> QED BY <1>1, <1>3, <1>4, <1>6, <1>7, <1>8 DEF P, I, o

\* Old and added elements are new and removed ones, and none is both.
LEMMA SurplusBalances ==
  ASSUME NEW s, Listed(s), NEW t, Listed(t), NEW v
  PROVE  LET added == Occurrences(Pick(t, Surplus(t, s)), v)
             removed == Occurrences(Pick(s, Surplus(s, t)), v)
         IN /\ Occurrences(s, v) + added = Occurrences(t, v) + removed
            /\ 0 \in {added, removed}
<1>1. /\ Occurrences(s, v) \in Nat /\ Occurrences(t, v) \in Nat
      /\ Occurrences(Pick(s, Surplus(s, t)), v)
              = IF Occurrences(t, v) > Occurrences(s, v) THEN 0
                ELSE Occurrences(s, v) - Occurrences(t, v)
  BY SurplusCount
<1>2. Occurrences(Pick(t, Surplus(t, s)), v)
              = IF Occurrences(s, v) > Occurrences(t, v) THEN 0
                ELSE Occurrences(t, v) - Occurrences(s, v)
  BY SurplusCount
<1> QED BY <1>1, <1>2

LEMMA MultisetIs ==
  ASSUME NEW s, Listed(s), NEW t, Listed(t)
  PROVE  ComputeMultiset(s, t) = [added |-> Surplus(t, s), removed |-> Surplus(s, t)]
<1>1. ComputeMultisetStructural(s, t) = ComputeMultisetHashed(s, t)
  BY BothWaysOfMatchingAgree
<1> QED BY <1>1 DEF ComputeMultiset, ComputeMultisetHashed

\* The sides a report has.
Sides == {"added", "removed"}

\* What a changed array is reported with.
LEMMA ReportIs ==
  ASSUME NEW was, Listed(Baseline(was)), NEW now, Listed(now.value)
  PROVE  LET s == Baseline(was)
             t == now.value
             elements == EmitDiffArray(was, now, "elements")
             counts == EmitDiffArray(was, now, "counts")
         IN /\ elements[<<"added">>].value = Pick(t, Surplus(t, s))
            /\ elements[<<"removed">>].value = Pick(s, Surplus(s, t))
            /\ counts[<<"added">>].value = Len(Pick(t, Surplus(t, s)))
            /\ counts[<<"removed">>].value = Len(Pick(s, Surplus(s, t)))
<1> DEFINE s == Baseline(was)
           t == now.value
           m == [added |-> Surplus(t, s), removed |-> Surplus(s, t)]
<1>1. ComputeMultiset(s, t) = m
  BY MultisetIs
<1>2. m.added = Surplus(t, s) /\ m.removed = Surplus(s, t)
  OBVIOUS
<1>3. /\ Surplus(t, s) \in SUBSET (1 .. Len(t)) /\ Len(t) \in Nat
      /\ Surplus(s, t) \in SUBSET (1 .. Len(s)) /\ Len(s) \in Nat
  BY DEF Surplus, Listed
<1>4. Len(Pick(t, Surplus(t, s))) = Cardinality(Surplus(t, s))
  <2> HIDE DEF s, t
  <2> QED BY <1>3, Picked
<1>5. Len(Pick(s, Surplus(s, t))) = Cardinality(Surplus(s, t))
  <2> HIDE DEF s, t
  <2> QED BY <1>3, Picked
<1>6. <<"added">> # <<>> /\ <<"removed">> # <<>> /\ <<"added">> # <<"removed">>
  OBVIOUS
<1> DEFINE D == {<<>>, <<"added">>, <<"removed">>}
<1>7. EmitDiffArray(was, now, "elements")
        = [q \in D |->
             CASE q = <<>> -> Branch
               [] q = <<"added">> -> Array(Pick(t, m.added))
               [] q = <<"removed">> -> Array(Pick(s, m.removed))]
  <2> HIDE DEF m
  <2> QED BY <1>1 DEF EmitDiffArray
<1>8. EmitDiffArray(was, now, "counts")
        = [q \in D |->
             CASE q = <<>> -> Branch
               [] q = <<"added">> -> Scalar(Cardinality(m.added))
               [] q = <<"removed">> -> Scalar(Cardinality(m.removed))]
  <2> HIDE DEF m
  <2> QED BY <1>1 DEF EmitDiffArray
<1>9. <<"added">> \in D /\ <<"removed">> \in D
  OBVIOUS
<1> HIDE DEF s, t, m, D
<1>10. /\ EmitDiffArray(was, now, "elements")[<<"added">>] = Array(Pick(t, m.added))
       /\ EmitDiffArray(was, now, "elements")[<<"removed">>] = Array(Pick(s, m.removed))
  BY <1>6, <1>7, <1>9
<1>11. /\ EmitDiffArray(was, now, "counts")[<<"added">>] = Scalar(Cardinality(m.added))
       /\ EmitDiffArray(was, now, "counts")[<<"removed">>] = Scalar(Cardinality(m.removed))
  BY <1>6, <1>8, <1>9
<1>12. \A x : Array(x).value = x /\ Scalar(x).value = x
  BY DEF Array, Scalar
<1> QED BY <1>2, <1>4, <1>5, <1>10, <1>11, <1>12 DEF s, t

LEMMA ReportBalances ==
  ASSUME NEW was, Listed(Baseline(was)), NEW now, Listed(now.value)
  PROVE  Balanced(Baseline(was), now.value, EmitDiffArray(was, now, "elements"))
<1> DEFINE s == Baseline(was)
           t == now.value
<1>1. /\ EmitDiffArray(was, now, "elements")[<<"added">>].value = Pick(t, Surplus(t, s))
      /\ EmitDiffArray(was, now, "elements")[<<"removed">>].value = Pick(s, Surplus(s, t))
  BY ReportIs
<1>2. ASSUME NEW v
      PROVE  /\ Occurrences(s, v) + Occurrences(Pick(t, Surplus(t, s)), v)
                  = Occurrences(t, v) + Occurrences(Pick(s, Surplus(s, t)), v)
             /\ 0 \in {Occurrences(Pick(t, Surplus(t, s)), v), Occurrences(Pick(s, Surplus(s, t)), v)}
  BY SurplusBalances
<1> HIDE DEF s, t
<1> QED BY <1>1, <1>2 DEF Balanced, s, t

\* The steps below a path that a report takes.
LEMMA StepBelow ==
  ASSUME NEW q \in Path, NEW r \in {<< >>, <<"added">>, <<"removed">>}
  PROVE  /\ SubSeq(q \o r, Len(q) + 1, Len(q \o r)) = r
         /\ r # << >> => <<Last(q \o r)>> = r /\ q \o r # q
<1> DEFINE S == STRING \cup {"added", "removed"}
<1>0. STRING \subseteq S /\ "added" \in S /\ "removed" \in S
  OBVIOUS
<1> HIDE DEF S
<1>1. q \in Seq(S) /\ r \in Seq(S)
  <2>1. q \in Seq(S)
    BY <1>0, SeqMonotonic DEF Path
  <2>2. ASSUME NEW k \in S PROVE <<k>> \in Seq(S)
    BY <2>2
  <2>3. << >> \in Seq(S)
    OBVIOUS
  <2> QED BY <1>0, <2>1, <2>2, <2>3
<1> DEFINE x == q \o r
<1>2. /\ x \in Seq(S) /\ Len(x) = Len(q) + Len(r)
      /\ Len(q) \in Nat /\ Len(r) \in Nat
  BY <1>1
<1>3. /\ \A i \in 1 .. Len(q) : x[i] = q[i]
      /\ \A i \in 1 .. Len(r) : x[Len(q) + i] = r[i]
  BY <1>1
<1> HIDE DEF x
<1>4. SubSeq(x, Len(q) + 1, Len(x)) = r
  <2> DEFINE y == SubSeq(x, Len(q) + 1, Len(x))
  <2>1. y \in Seq(S) /\ Len(y) = Len(r) /\ \A i \in 1 .. Len(r) : y[i] = x[Len(q) + i]
    BY <1>2
  <2> HIDE DEF y
  <2>2. y = r
    <3>1. y \in Seq(S) /\ r \in Seq(S) /\ Len(y) = Len(r)
      BY <1>1, <2>1
    <3>2. \A i \in 1 .. Len(y) : y[i] = r[i]
      BY <1>3, <2>1
    <3> QED BY <3>1, <3>2, SeqEqual
  <2> QED BY <2>2 DEF y
<1>5. ASSUME r # << >> PROVE <<Last(x)>> = r /\ x # q
  <2>1. Len(r) = 1
    BY <1>5
  <2>2. Last(x) = r[1]
    BY <1>2, <1>3, <2>1 DEF Last
  <2> QED BY <1>1, <1>2, <2>1, <2>2
<1> QED BY <1>4, <1>5 DEF x

LEMMA AboveAStep ==
  ASSUME NEW p \in Path, NEW q \in Path, NEW r \in {<< >>, <<"added">>, <<"removed">>},
         NEW x, x = q \o r, IsPrefix(p, x)
  PROVE  p = x \/ IsPrefix(p, q)
<1> DEFINE S == STRING \cup {"added", "removed"}
<1>0. STRING \subseteq S /\ "added" \in S /\ "removed" \in S
  OBVIOUS
<1> HIDE DEF S
<1>1. p \in Seq(S) /\ q \in Seq(S) /\ r \in Seq(S)
  <2>1. p \in Seq(S) /\ q \in Seq(S)
    BY <1>0, SeqMonotonic DEF Path
  <2>2. ASSUME NEW k \in S PROVE <<k>> \in Seq(S)
    BY <2>2
  <2>3. << >> \in Seq(S)
    OBVIOUS
  <2> QED BY <1>0, <2>1, <2>2, <2>3
<1>2. /\ x \in Seq(S) /\ Len(x) = Len(q) + Len(r)
      /\ Len(q) \in Nat /\ Len(r) \in Nat /\ Len(p) \in Nat
  BY <1>1
<1>3. /\ \A i \in 1 .. Len(q) : x[i] = q[i]
      /\ \A i \in 1 .. Len(r) : x[Len(q) + i] = r[i]
  BY <1>1
<1>11. Len(p) <= Len(x) /\ SubSeq(p, 1, Len(p)) = SubSeq(x, 1, Len(p))
  BY DEF IsPrefix
<1>12. SubSeq(p, 1, Len(p)) = p
  BY <1>1
<1>13. \A i \in 1 .. Len(p) : p[i] = x[i]
  <2>1. \A i \in 1 .. Len(p) : SubSeq(x, 1, Len(p))[i] = x[i]
    BY <1>2, <1>11
  <2> QED BY <1>11, <1>12, <2>1
<1>14. CASE Len(p) = Len(x)
  <2>1. p \in Seq(S) /\ x \in Seq(S)
    BY <1>1, <1>2
  <2>2. p = x
    BY <1>13, <1>14, <2>1, SeqEqual
  <2> QED BY <2>2
<1>15. CASE Len(p) # Len(x)
  <2>1. Len(r) = 0 \/ Len(r) = 1
    OBVIOUS
  <2>2. Len(p) <= Len(q)
    <3>1. Len(p) <= Len(x)
      BY <1>11
    <3>2. Len(x) = Len(q) \/ Len(x) = Len(q) + 1
      <4>1. Len(q) \in Nat /\ Len(x) = Len(q) + Len(r)
        BY <1>2
      <4>2. CASE Len(r) = 0
        BY <4>1, <4>2
      <4>3. CASE Len(r) = 1
        BY <4>1, <4>3
      <4> QED BY <2>1, <4>2, <4>3
    <3> QED BY <1>2, <1>15, <3>1, <3>2
  <2>3. \A i \in 1 .. Len(p) : p[i] = q[i]
    <3>1. \A i \in 1 .. Len(p) : i \in 1 .. Len(q)
      BY <1>2, <2>2
    <3> QED BY <1>3, <1>13, <3>1
  <2> QED BY <2>2, <2>3, PrefixByItems
<1> QED BY <1>14, <1>15

\* A changed array is reported in full and nothing else of the difference is at
\* its path or below.
LEMMA ReportedInFull ==
  ASSUME NEW was, was = Absent \/ IsDocument(was), NEW now, IsDocument(now), IsObject(now),
         NEW how \in Modes, NEW p \in DOMAIN now, IsArray(now[p]),
         p \in DOMAIN DiffDocuments(was, now, how)
  PROVE  LET report == ReportAt(was, now, how, p)
             diffed == DiffDocuments(was, now, how)
         IN /\ At(diffed, p) = [r \in DOMAIN report |-> report[r]]
            /\ \A r \in DOMAIN report : diffed[p \o r] = report[r]
<1> DEFINE report == ReportAt(was, now, how, p)
           diffed == DiffDocuments(was, now, how)
           paths == DiffPaths(was, now, how)
           arrays == ChangedArrays(was, now, how)
           R == DOMAIN report
<1>1. diffed = [x \in paths |-> DiffNode(was, now, how, x)]
  BY DiffDocumentsIs
<1>2. DOMAIN diffed = paths /\ \A x \in paths : diffed[x] = DiffNode(was, now, how, x)
  BY <1>1
<1>3. now[p] # Branch /\ p # << >> /\ p \in Path /\ DOMAIN now \subseteq Path
  BY KindsOfNodes, DocumentPaths DEF IsObject
<1>4. \A x : x \in paths <=> \/ x = << >> \/ x \in Changed(was, now, how)
                             \/ x \in Removed(was, now) \/ x \in ReportPaths(was, now, how)
  BY DEF DiffPaths
<1>5. Changed(was, now, how) \subseteq DOMAIN now
  BY DEF Changed
<1>6. ASSUME NEW x \in DOMAIN now, IsPrefix(p, x) PROVE x = p
  BY <1>3, <1>6, NothingBelowALeaf
<1>7. ASSUME NEW x \in Removed(was, now) PROVE ~IsPrefix(p, x)
  <2>1. /\ was # Absent /\ x \in DOMAIN was /\ x \notin DOMAIN now
        /\ x # << >> /\ Front(x) \in DOMAIN now /\ now[Front(x)] = Branch
    BY DEF Removed, Exists
  <2>2. x \in Path
    BY <2>1, DocumentPaths
  <2>3. SUFFICES ASSUME IsPrefix(p, x) PROVE FALSE
    OBVIOUS
  <2>4. IsStrictPrefix(p, x)
    BY <2>1, <2>3 DEF IsStrictPrefix
  <2>5. IsPrefix(p, Front(x))
    BY <1>3, <2>2, <2>4, AboveIsAboveFront
  <2>6. Front(x) = p
    BY <1>6, <2>1, <2>5
  <2> QED BY <1>3, <2>1, <2>6
<1>8. ASSUME NEW q \in arrays, NEW r \in DOMAIN ReportAt(was, now, how, q), IsPrefix(p, q \o r)
      PROVE  q = p
  <2>1. q \in DOMAIN now /\ IsArray(now[q]) /\ q \in Path
    BY <1>3 DEF ChangedArrays, Changed
  <2>2. r \in {<< >>, <<"added">>, <<"removed">>}
    BY ReportDomain DEF ReportAt
  <2>3. p = q \o r \/ IsPrefix(p, q)
    <3>1. p \in Path /\ q \in Path
      BY <1>3, <2>1
    <3> DEFINE x == q \o r
    <3>2. IsPrefix(p, x) /\ x = q \o r
      BY <1>8
    <3> HIDE DEF x
    <3>3. p = x \/ IsPrefix(p, q)
      BY <2>2, <3>1, <3>2, AboveAStep
    <3> QED BY <3>3 DEF x
  <2>4. CASE IsPrefix(p, q)
    BY <1>6, <2>1, <2>4
  <2>5. CASE p = q \o r
    <3>1. IsPrefix(q, p)
      BY <2>1, <2>2, <2>5, BelowPath
    <3>2. now[q] # Branch
      BY <2>1, KindsOfNodes
    <3> QED BY <2>1, <3>1, <3>2, NothingBelowALeaf
  <2> QED BY <2>3, <2>4, <2>5
<1>9. IsPrefix(p, p)
  BY <1>3, PrefixReflexive
<1>10. ASSUME NEW x \in ReportPaths(was, now, how), IsPrefix(p, x)
       PROVE  p \in arrays /\ \E r \in R : x = p \o r
  <2>1. PICK q \in arrays : x \in {q \o r : r \in DOMAIN ReportAt(was, now, how, q)}
    BY DEF ReportPaths
  <2>2. PICK r \in DOMAIN ReportAt(was, now, how, q) : x = q \o r
    BY <2>1
  <2>3. q = p
    BY <1>8, <1>10, <2>2
  <2> QED BY <2>2, <2>3
<1>11. p \in arrays
  <2>1. p \in paths
    BY <1>2
  <2>2. p \notin Removed(was, now)
    BY <1>7, <1>9
  <2>3. CASE p \in Changed(was, now, how)
    BY <2>3 DEF ChangedArrays
  <2>4. CASE p \in ReportPaths(was, now, how)
    BY <1>9, <1>10, <2>4
  <2> QED BY <1>3, <1>4, <2>1, <2>2, <2>3, <2>4
<1>12. ASSUME NEW r \in R
       PROVE  /\ p \o r \in paths /\ IsPrefix(p, p \o r)
              /\ diffed[p \o r] = report[r]
              /\ SubSeq(p \o r, Len(p) + 1, Len(p \o r)) = r
  <2>1. r \in {<< >>, <<"added">>, <<"removed">>}
    BY ReportDomain DEF ReportAt
  <2>2. /\ IsPrefix(p, p \o r)
        /\ r = << >> => p \o r = p
        /\ r # << >> => Front(p \o r) = p
    BY <1>3, <2>1, BelowPath
  <2>3. /\ SubSeq(p \o r, Len(p) + 1, Len(p \o r)) = r
        /\ r # << >> => <<Last(p \o r)>> = r /\ p \o r # p
    BY <1>3, <2>1, StepBelow
  <2>4. p \o r \in ReportPaths(was, now, how)
    BY <1>11 DEF ReportPaths
  <2>5. p \o r \in paths
    BY <1>4, <2>4
  <2>6. p \o r \notin Removed(was, now)
    BY <1>7, <2>2
  <2>7. CASE r = << >>
    <3>1. DiffNode(was, now, how, p) = report[<< >>]
      BY <1>11, <2>2, <2>6, <2>7 DEF DiffNode
    <3> HIDE DEF report, diffed, paths
    <3> QED BY <1>2, <2>2, <2>3, <2>5, <2>7, <3>1
  <2>8. CASE r # << >>
    <3>1. p \o r \notin Changed(was, now, how)
      BY <1>5, <1>6, <2>2, <2>3, <2>8
    <3>2. p \o r \notin ChangedArrays(was, now, how)
      BY <3>1 DEF ChangedArrays
    <3>3. DiffNode(was, now, how, p \o r) = ReportAt(was, now, how, Front(p \o r))[<<Last(p \o r)>>]
      BY <2>4, <2>6, <3>1, <3>2 DEF DiffNode
    <3>4. DiffNode(was, now, how, p \o r) = report[r]
      BY <2>2, <2>3, <2>8, <3>3
    <3> HIDE DEF report, diffed, paths
    <3> QED BY <1>2, <2>2, <2>3, <2>5, <3>4
  <2> QED BY <2>7, <2>8
<1>13. ASSUME NEW x \in paths, IsPrefix(p, x)
       PROVE  \E r \in R : x = p \o r
  <2>1. x # << >>
    BY <1>3, <1>13, NothingAboveTheRoot
  <2>2. x \notin Removed(was, now)
    BY <1>7, <1>13
  <2>3. CASE x \in Changed(was, now, how)
    <3>1. x = p
      BY <1>5, <1>6, <1>13, <2>3
    <3>2. << >> \in R /\ p \o << >> = p
      <4>1. << >> \in R
        <5>1. CASE how = "atomic"
          BY <5>1 DEF ReportAt, EmitDiffArray
        <5>2. CASE how = "counts"
          BY <5>2 DEF ReportAt, EmitDiffArray
        <5>3. CASE how = "elements"
          BY <5>3 DEF ReportAt, EmitDiffArray
        <5> QED BY <5>1, <5>2, <5>3 DEF Modes
      <4>2. << >> \in {<< >>, <<"added">>, <<"removed">>}
        OBVIOUS
      <4> QED BY <1>3, <4>1, <4>2, BelowPath
    <3> QED BY <3>1, <3>2
  <2>4. CASE x \in ReportPaths(was, now, how)
    BY <1>10, <1>13, <2>4
  <2> QED BY <1>4, <1>13, <2>1, <2>2, <2>3, <2>4
<1> HIDE DEF report, diffed, paths, R
<1>14. {SubSeq(x, Len(p) + 1, Len(x)) : x \in {y \in DOMAIN diffed : IsPrefix(p, y)}} = R
  <2> DEFINE below == {y \in DOMAIN diffed : IsPrefix(p, y)}
             cut(x) == SubSeq(x, Len(p) + 1, Len(x))
  <2>1. ASSUME NEW x \in below PROVE cut(x) \in R
    BY <1>2, <1>12, <1>13
  <2>2. ASSUME NEW r \in R PROVE p \o r \in below /\ r = cut(p \o r)
    BY <1>2, <1>12
  <2> HIDE DEF below, cut
  <2>3. {cut(x) : x \in below} = R
    BY <2>1, <2>2
  <2> QED BY <2>3 DEF below, cut
<1>15. At(diffed, p) = [r \in R |-> report[r]]
  <2>1. At(diffed, p) = [r \in R |-> diffed[p \o r]]
    BY <1>14 DEF At
  <2> QED BY <1>12, <2>1
<1> QED BY <1>12, <1>15 DEF report, diffed, R

\* An array of a document that is compared, or a baseline that is one, lists its
\* elements.
LEMMA ArraysAreListed ==
  ASSUME NEW doc \in Compared, NEW p
  PROVE  /\ p \in DOMAIN doc /\ IsArray(doc[p]) => Listed(doc[p].value)
         /\ Listed(Baseline(NodeAt(doc, p)))
<1>1. ASSUME p \in DOMAIN doc, IsArray(doc[p]) PROVE Listed(doc[p].value)
  BY <1>1, CompareAssumption DEF Listed
<1>2. Listed(<< >>)
  BY DEF Listed
<1>3. ~IsArray(Absent)
  BY DEF IsArray
<1>4. Listed(Baseline(NodeAt(doc, p)))
  <2>1. CASE NodeAt(doc, p) = Absent
    BY <1>2, <1>3, <2>1 DEF Baseline
  <2>2. CASE NodeAt(doc, p) # Absent
    <3>1. p \in DOMAIN doc /\ NodeAt(doc, p) = doc[p]
      BY <2>2 DEF NodeAt, Exists
    <3>2. CASE IsArray(doc[p])
      BY <1>1, <3>1, <3>2 DEF Baseline
    <3>3. CASE ~IsArray(doc[p])
      BY <1>2, <3>1, <3>3 DEF Baseline
    <3> QED BY <3>2, <3>3
  <2> QED BY <2>1, <2>2
<1> QED BY <1>1, <1>4

\* The two sides of the difference.
LEMMA ComparedSides ==
  ASSUME NoDocumentIsNull, NoRowIsNull, DiffOK
  PROVE  /\ PrevDocument = Absent \/ PrevDocument \in Compared
         /\ CurDocument = EmptyObject \/ CurDocument \in Compared
<1>1. RowType(lanes) /\ ComparedRow(prev) /\ ComparedRow(cur)
  BY DEF DiffOK
<1>2. prev # SqlNull => Reconstruct(prev) \in Compared
  BY <1>1, ComparedRowIs
<1>3. cur # SqlNull => Reconstruct(cur) \in Compared
  BY <1>1, ComparedRowIs
<1> QED BY <1>2, <1>3 DEF PrevDocument, CurDocument

\* A report as the lists of elements or as their lengths.
LEMMA ReportLengths ==
  ASSUME NEW was, Listed(Baseline(was)), NEW now, Listed(now.value), NEW side \in {"added", "removed"}
  PROVE  /\ <<side>> \in DOMAIN EmitDiffArray(was, now, "counts")
         /\ EmitDiffArray(was, now, "counts")[<<side>>].value
              = Len(EmitDiffArray(was, now, "elements")[<<side>>].value)
<1>1. /\ EmitDiffArray(was, now, "elements")[<<"added">>].value = Pick(now.value, Surplus(now.value, Baseline(was)))
      /\ EmitDiffArray(was, now, "elements")[<<"removed">>].value = Pick(Baseline(was), Surplus(Baseline(was), now.value))
      /\ EmitDiffArray(was, now, "counts")[<<"added">>].value = Len(Pick(now.value, Surplus(now.value, Baseline(was))))
      /\ EmitDiffArray(was, now, "counts")[<<"removed">>].value = Len(Pick(Baseline(was), Surplus(Baseline(was), now.value)))
  BY ReportIs
<1>2. DOMAIN EmitDiffArray(was, now, "counts") = {<< >>, <<"added">>, <<"removed">>}
  BY DEF EmitDiffArray
<1>3. CASE side = "added"
  BY <1>1, <1>2, <1>3
<1>4. CASE side = "removed"
  BY <1>1, <1>2, <1>4
<1> QED BY <1>3, <1>4

LEMMA ElementsAreAFunction ==
  ASSUME NEW was, NEW now
  PROVE  LET report == EmitDiffArray(was, now, "elements")
         IN report = [r \in DOMAIN report |-> report[r]]
BY DEF EmitDiffArray

LEMMA ReportsOfTheDifference ==
  ASSUME NoDocumentIsNull, NoRowIsNull, DiffOK
  PROVE  ArrayReportsBalance
<1> SUFFICES ASSUME diff # Unset, mode # "atomic", IsObject(CurDocument),
                    NEW p \in DOMAIN CurDocument \cap DOMAIN diff, IsArray(CurDocument[p])
             PROVE  LET was == NodeAt(PrevDocument, p)
                        now == CurDocument[p]
                        elements == EmitDiffArray(was, now, "elements")
                    IN /\ Balanced(Baseline(was), now.value, elements)
                       /\ mode = "elements" => At(diff, p) = elements
                       /\ mode = "counts" =>
                            \A side \in {"added", "removed"} :
                              diff[p \o <<side>>].value = Len(elements[<<side>>].value)
  BY DEF ArrayReportsBalance
<1> DEFINE was == NodeAt(PrevDocument, p)
           now == CurDocument[p]
<1>1. diff = DiffDocuments(PrevDocument, CurDocument, mode) /\ mode \in Modes
  BY DEF DiffOK, DirectDiffIsThePlainDiff
<1>2. PrevDocument = Absent \/ PrevDocument \in Compared
  BY ComparedSides
<1>3. CurDocument \in Compared
  <2>1. CurDocument # EmptyObject
    <3>1. SUFFICES ASSUME CurDocument = EmptyObject PROVE FALSE
      OBVIOUS
    <3>2. CurDocument[p] = Branch
      BY <3>1 DEF EmptyObject
    <3> QED BY <3>2, KindsOfNodes
  <2> QED BY <2>1, ComparedSides
<1>4. IsDocument(CurDocument) /\ (PrevDocument = Absent \/ IsDocument(PrevDocument))
  BY <1>2, <1>3, CompareAssumption
<1>5. Listed(now.value)
  BY <1>3, ArraysAreListed
<1>6. Listed(Baseline(was))
  <2>1. CASE PrevDocument = Absent
    <3>1. was = Absent
      BY <2>1 DEF NodeAt
    <3> QED BY <3>1 DEF Baseline, IsArray, Listed
  <2>2. CASE PrevDocument \in Compared
    BY <2>2, ArraysAreListed
  <2> QED BY <1>2, <2>1, <2>2
<1>7. LET report == ReportAt(PrevDocument, CurDocument, mode, p)
          diffed == DiffDocuments(PrevDocument, CurDocument, mode)
      IN /\ At(diffed, p) = [r \in DOMAIN report |-> report[r]]
         /\ \A r \in DOMAIN report : diffed[p \o r] = report[r]
  <2>1. p \in DOMAIN DiffDocuments(PrevDocument, CurDocument, mode)
    BY <1>1
  <2>2. p \in DOMAIN CurDocument
    OBVIOUS
  <2>3. IsArray(CurDocument[p]) /\ IsObject(CurDocument) /\ mode \in Modes
    BY <1>1
  <2>4. IsDocument(CurDocument)
    BY <1>4
  <2>5. PrevDocument = Absent \/ IsDocument(PrevDocument)
    BY <1>4
  <2> DEFINE w == PrevDocument
             n == CurDocument
             how == mode
  <2>6. /\ w = Absent \/ IsDocument(w)
        /\ IsDocument(n) /\ IsObject(n) /\ how \in Modes
        /\ p \in DOMAIN n /\ IsArray(n[p]) /\ p \in DOMAIN DiffDocuments(w, n, how)
    BY <2>1, <2>2, <2>3, <2>4, <2>5
  <2> HIDE DEF w, n, how
  <2>7. LET report == ReportAt(w, n, how, p)
            diffed == DiffDocuments(w, n, how)
        IN /\ At(diffed, p) = [r \in DOMAIN report |-> report[r]]
           /\ \A r \in DOMAIN report : diffed[p \o r] = report[r]
    BY <2>6, ReportedInFull
  <2> QED BY <2>7 DEF w, n, how
<1>8. ReportAt(PrevDocument, CurDocument, mode, p) = EmitDiffArray(was, now, mode)
  BY DEF ReportAt
<1> HIDE DEF was, now
<1> DEFINE report == EmitDiffArray(was, now, mode)
<1>9. /\ At(diff, p) = [r \in DOMAIN report |-> report[r]]
      /\ \A r \in DOMAIN report : diff[p \o r] = report[r]
  BY <1>1, <1>7, <1>8
<1>10. Balanced(Baseline(was), now.value, EmitDiffArray(was, now, "elements"))
  BY <1>5, <1>6, ReportBalances
<1>11. ASSUME mode = "elements" PROVE At(diff, p) = EmitDiffArray(was, now, "elements")
  BY <1>9, <1>11, ElementsAreAFunction
<1>12. ASSUME mode = "counts", NEW side \in {"added", "removed"}
       PROVE  diff[p \o <<side>>].value = Len(EmitDiffArray(was, now, "elements")[<<side>>].value)
  <2>1. /\ <<side>> \in DOMAIN EmitDiffArray(was, now, "counts")
        /\ EmitDiffArray(was, now, "counts")[<<side>>].value
             = Len(EmitDiffArray(was, now, "elements")[<<side>>].value)
    BY <1>5, <1>6, ReportLengths
  <2>2. diff[p \o <<side>>] = EmitDiffArray(was, now, "counts")[<<side>>]
    BY <1>9, <1>12, <2>1
  <2> QED BY <2>1, <2>2
<1> QED BY <1>10, <1>11, <1>12 DEF was, now

\* A changed array is reported with what its two sides hold, for arrays of any
\* length and values, on either side of the length at which jsono_diff changes its
\* way of matching, through lanes or through whole documents: nothing is both added
\* and removed, old and added elements are new and removed ones, counts are the
\* lengths of the lists, and the report stands in the difference in full.
THEOREM ReportsBalance ==
  ASSUME LanesFollow, NoDocumentIsNull, NoRowIsNull, NoDocumentIsAbsent, NoNodeIsAbsent
  PROVE  FormsSpec => []ArrayReportsBalance
<1>1. FormsInit => FormsOK
  BY FormsInitOK
<1>2. FormsOK /\ [FormsNext]_formsVars => FormsOK'
  BY FormsNextOK
<1>3. FormsOK => ArrayReportsBalance
  BY ReportsOfTheDifference DEF FormsOK
<1> QED BY <1>1, <1>2, <1>3, PTL DEF FormsSpec
===============================================================================
