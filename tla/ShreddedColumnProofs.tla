------------------------- MODULE ShreddedColumnProofs -------------------------
(* Theorems about ShreddedColumn, ShredStats and PlanTotality, for any      *)
(* paths, shred sets, documents, tables, plans, word width and hash without *)
(* collisions.                                                              *)
EXTENDS ShredStats, PlanTotality, FiniteSetTheorems, WellFoundedInduction, TLAPS

-----------------------------------------------------------------------------
(* Arithmetic of the spill words. *)

LEMMA DivRange ==
  ASSUME NEW n \in Nat, NEW w \in Nat \ {0}
  PROVE  n \div w \in Nat /\ n % w \in 0 .. w - 1
  BY SMT

\* The word of a rank below n is one of the words that n ranks fill.
LEMMA DivLess ==
  ASSUME NEW r \in Nat, NEW n \in Nat, NEW w \in Nat \ {0}, r < n
  PROVE  r \div w < (n + w - 1) \div w
  BY SMTT(30)

LEMMA DivMonotone ==
  ASSUME NEW m \in Nat, NEW n \in Nat, NEW w \in Nat \ {0}, m <= n
  PROVE  m \div w <= n \div w
  BY SMTT(30)

LEMMA DivUnique ==
  ASSUME NEW m \in Nat, NEW n \in Nat, NEW w \in Nat \ {0},
         m \div w = n \div w, m % w = n % w
  PROVE  m = n
<1>1. m = w * (m \div w) + (m % w) /\ n = w * (n \div w) + (n % w)
  BY SMT
<1>2. QED
  BY <1>1

-----------------------------------------------------------------------------
(* The numbering of a shred set. *)

LEMMA ShredSetFinite ==
  ASSUME NEW L \in SUBSET Path
  PROVE  IsFiniteSet(L) /\ Cardinality(L) \in Nat /\ Cardinality(L) <= Cardinality(Path)
<1>1. IsFiniteSet(Path)
  BY PathAssumption
<1>2. IsFiniteSet(L) /\ Cardinality(L) <= Cardinality(Path)
  BY <1>1, FS_Subset
<1>3. QED
  BY <1>2, FS_CardinalityType

\* A lane's rank is below the number of lanes.
LEMMA RankRange ==
  ASSUME NEW L \in SUBSET Path, NEW p \in L
  PROVE  Rank(L, p) \in Nat /\ Rank(L, p) < Cardinality(L)
<1> DEFINE below == {q \in L : Order[q] < Order[p]}
<1>1. IsFiniteSet(L) /\ Cardinality(L) \in Nat
  BY ShredSetFinite
<1>2. IsFiniteSet(L \ {p}) /\ Cardinality(L \ {p}) = Cardinality(L) - 1
  BY <1>1, FS_RemoveElement
<1>3. Order[p] \in Nat
  BY WordAssumption
<1>4. below \in SUBSET (L \ {p})
  BY <1>3
<1>5. IsFiniteSet(below) /\ Cardinality(below) <= Cardinality(L) - 1
  BY <1>2, <1>4, FS_Subset
<1>6. Cardinality(below) \in Nat
  BY <1>5, FS_CardinalityType
<1>7. Rank(L, p) = Cardinality(below)
  BY DEF Rank
<1>8. QED
  BY <1>1, <1>5, <1>6, <1>7

\* Every lane of a shred set has a bit in a spill column of its type.
LEMMA WordRange ==
  ASSUME NEW L \in SUBSET Path, NEW p \in L
  PROVE  WordOf(L, p) \in Words(L) /\ BitOf(L, p) \in Bits
<1>1. Rank(L, p) \in Nat /\ Rank(L, p) < Cardinality(L) /\ Cardinality(L) \in Nat
  BY RankRange, ShredSetFinite
<1>2. WordBits \in Nat \ {0}
  BY WordAssumption
<1>3. WordOf(L, p) \in Nat /\ BitOf(L, p) \in Bits
  BY <1>1, <1>2, DivRange DEF WordOf, BitOf, Bits
<1>4. WordOf(L, p) < Columns(L)
  BY <1>1, <1>2, DivLess DEF WordOf, Columns
<1>5. Columns(L) \in Nat
  <2>1. Cardinality(L) + WordBits - 1 \in Nat
    BY <1>1, <1>2
  <2>2. QED
    BY <2>1, <1>2, DivRange DEF Columns
<1>6. QED
  BY <1>3, <1>4, <1>5 DEF Words

\* No two lanes of a shred set share a rank, nor a bit of a word.
LEMMA RankInjective ==
  ASSUME NEW L \in SUBSET Path, NEW p \in L, NEW q \in L, Rank(L, p) = Rank(L, q)
  PROVE  p = q
<1> DEFINE below(x) == {y \in L : Order[y] < Order[x]}
<1>1. ASSUME NEW x \in L, NEW y \in L, Order[x] < Order[y]
      PROVE  Rank(L, x) < Rank(L, y)
  <2>1. Order[x] \in Nat /\ Order[y] \in Nat /\ \A z \in L : Order[z] \in Nat
    BY WordAssumption
  <2>2. below(x) \in SUBSET (below(y) \ {x}) /\ x \in below(y)
    BY <1>1, <2>1
  <2>3. IsFiniteSet(below(y)) /\ Cardinality(below(y)) \in Nat
    BY ShredSetFinite, FS_Subset, FS_CardinalityType
  <2>4. /\ IsFiniteSet(below(y) \ {x})
        /\ Cardinality(below(y) \ {x}) = Cardinality(below(y)) - 1
    BY <2>2, <2>3, FS_RemoveElement
  <2>5. /\ Cardinality(below(x)) <= Cardinality(below(y)) - 1
        /\ Cardinality(below(x)) \in Nat
    BY <2>2, <2>4, FS_Subset, FS_CardinalityType
  <2>6. QED
    BY <2>3, <2>5 DEF Rank
<1>2. Rank(L, p) \in Nat /\ Rank(L, q) \in Nat
  BY RankRange
<1>3. Order[p] = Order[q]
  BY <1>1, <1>2, WordAssumption
<1>4. QED
  BY <1>3, WordAssumption

LEMMA BitNamesLane ==
  ASSUME NEW L \in SUBSET Path, NEW p \in L, NEW q \in L,
         WordOf(L, p) = WordOf(L, q), BitOf(L, p) = BitOf(L, q)
  PROVE  p = q
<1>1. /\ Rank(L, p) \in Nat /\ Rank(L, q) \in Nat
      /\ WordBits \in Nat \ {0}
  BY RankRange, WordAssumption
<1>2. Rank(L, p) = Rank(L, q)
  BY <1>1, DivUnique DEF WordOf, BitOf
<1>3. QED
  BY <1>2, RankInjective

\* A smaller shred set has no spill column that a larger one lacks.
LEMMA WordsMonotone ==
  ASSUME NEW L \in SUBSET Path, NEW M \in SUBSET L
  PROVE  Words(M) \subseteq Words(L)
<1>1. /\ IsFiniteSet(L) /\ Cardinality(L) \in Nat
      /\ Cardinality(M) \in Nat /\ M \in SUBSET Path
  BY ShredSetFinite
<1>2. Cardinality(M) <= Cardinality(L)
  BY <1>1, FS_Subset
<1>3. WordBits \in Nat \ {0}
  BY WordAssumption
<1>4. /\ Cardinality(M) + WordBits - 1 \in Nat
      /\ Cardinality(L) + WordBits - 1 \in Nat
      /\ Cardinality(M) + WordBits - 1 <= Cardinality(L) + WordBits - 1
  BY <1>1, <1>2, <1>3
<1>5. Columns(M) \in Nat /\ Columns(L) \in Nat /\ Columns(M) <= Columns(L)
  BY <1>3, <1>4, DivRange, DivMonotone DEF Columns
<1>6. QED
  BY <1>5 DEF Words

LEMMA WordsOfPath ==
  ASSUME NEW L \in SUBSET Path
  PROVE  Words(L) \subseteq Word
  BY WordsMonotone DEF Word

-----------------------------------------------------------------------------
(* The marker and the stamp. *)

LEMMA MarkerType ==
  ASSUME NEW L \in SUBSET Path
  PROVE  /\ Clean(L) \in Nat /\ Dirty(L) \in Nat
         /\ Clean(L) # Dirty(L)
         /\ Dirty(L) \in {Clean(L) - 1, Clean(L) + 1}
<1>1. Hash[L] \in Nat
  BY HashAssumption
<1>2. QED
  BY <1>1 DEF Clean, Dirty, Flip

\* A marker, clean or dirty, names its shred set.
LEMMA MarkerNamesSet ==
  ASSUME NEW K \in SUBSET Path, NEW L \in SUBSET Path,
         {Clean(K), Dirty(K)} \cap {Clean(L), Dirty(L)} # {}
  PROVE  K = L
<1>1. Hash[K] \in Nat /\ Hash[L] \in Nat
  BY HashAssumption
<1>2. Flip(Hash[K]) = Flip(Hash[L]) => Hash[K] = Hash[L]
  BY <1>1 DEF Flip
<1>3. \/ Hash[K] = Hash[L]
      \/ Hash[K] = Flip(Hash[L])
      \/ Hash[L] = Flip(Hash[K])
  BY <1>2 DEF Clean, Dirty
<1>4. QED
  BY <1>3, HashAssumption

LEMMA MasksType ==
  ASSUME NEW L \in SUBSET Path, NEW spilled \in SUBSET L
  PROVE  /\ Masks(L, spilled) \in [Word -> {Null} \union SUBSET Bits]
         /\ Marker(L, spilled) \in {Clean(L), Dirty(L)}
<1>1. \A q \in spilled : BitOf(L, q) \in Bits
  BY WordRange
<1>2. \A w : {BitOf(L, p) : p \in {q \in spilled : WordOf(L, q) = w}} \in SUBSET Bits
  BY <1>1
<1>3. QED
  BY <1>2 DEF Masks, Marker

\* A diverted lane dirties the marker of its row.
LEMMA MarkerTells ==
  ASSUME NEW L \in SUBSET Path, NEW spilled
  PROVE  Marker(L, spilled) = Clean(L) <=> spilled = {}
  BY MarkerType DEF Marker

\* The words of a row name exactly the lanes that were diverted.
LEMMA MasksTell ==
  ASSUME NEW L \in SUBSET Path, NEW spilled \in SUBSET L, NEW p \in L
  PROVE  /\ Masks(L, spilled)[WordOf(L, p)] = Null <=> spilled = {}
         /\ p \in spilled <=> /\ Masks(L, spilled)[WordOf(L, p)] # Null
                              /\ BitOf(L, p) \in Masks(L, spilled)[WordOf(L, p)]
<1> DEFINE w == WordOf(L, p)
           bits == {BitOf(L, q) : q \in {q \in spilled : WordOf(L, q) = w}}
<1>1. w \in Words(L) /\ w \in Word
  BY WordRange, WordsOfPath
<1>2. Masks(L, spilled)[w] = IF spilled = {} THEN Null ELSE bits
  BY <1>1 DEF Masks
<1>3. bits # Null
  <2>1. bits \in SUBSET Bits
    BY WordRange
  <2>2. QED
    BY <2>1, SentinelAssumption
<1>4. BitOf(L, p) \in bits <=> p \in spilled
  BY BitNamesLane
<1>5. QED
  BY <1>2, <1>3, <1>4

-----------------------------------------------------------------------------
(* The inductive invariant: what the redundant records say of one row. *)

\* The lanes a value of the row was diverted from.
Diverting(r) == {p \in r.written \ ArrayPath : r.residual[p] \in Value}

\* A path is stripped or still in the residual, and a lane is the stripped
\* value or NULL: NULL only where nothing was stripped or a cast dropped it.
LanesOK(r) ==
  /\ r.manifest \subseteq {p \in r.written : r.doc[p] \in Fits[p]}
  /\ \A p \in Path :
       r.residual[p] = IF p \in r.manifest THEN Stripped(p) ELSE r.doc[p]
  /\ \A p \in Path : r.lane[p] \in {Null, r.doc[p]}
  /\ \A p \in Path : r.lane[p] # Null => p \in r.manifest \cap Lanes[r.table]
  /\ \A p \in r.manifest \ r.lost : r.lane[p] = r.doc[p]
  /\ r.lost \subseteq r.written
  /\ r.written \ r.lost \subseteq Lanes[r.table]

\* The marker names the shred set the row was written under and whether anything
\* was diverted; the words of an intact row say what.
StampOK(r) ==
  /\ r.set = Marker(r.written, Diverting(r))
  /\ r.lost = {} => r.spill = Masks(r.written, Diverting(r))

RowOK(r) ==
  IF r.doc = Null THEN r.set = Null /\ \A w \in Word : r.spill[w] = Null
  ELSE LanesOK(r) /\ StampOK(r)

Inv == TypeOK /\ \A r \in rows : RowOK(r)

-----------------------------------------------------------------------------
(* Lemmas about rows. *)

\* What the constants say of a row.
LEMMA RowFacts ==
  ASSUME NEW r \in Row
  PROVE  /\ r.table \in Table
         /\ Lanes[r.table] \in SUBSET Path
         /\ r.doc # Null => r.doc \in Doc
         /\ r.lane \in [Path -> Value \union {Null}]
         /\ r.residual \in [Path -> Value \union {Absent, JsonNull, Skeleton}]
         /\ r.set \in Nat \union {Null}
         /\ r.spill \in [Word -> {Null} \union SUBSET Bits]
         /\ r.manifest \in SUBSET Path /\ r.written \in SUBSET Path
         /\ r.lost \in SUBSET Path
  BY TableAssumption DEF Row

LEMMA DocFacts ==
  ASSUME NEW d \in Doc
  PROVE  /\ d \in [Path -> Value \union {Absent, JsonNull}]
         /\ d # Null
         /\ \A p \in Path : d[p] \in Value \union {Absent, JsonNull}
         /\ \A p \in Path : d[p] # Null /\ d[p] # Skeleton
  BY PathAssumption, SentinelAssumption

LEMMA StrippedFacts ==
  ASSUME NEW p \in Path
  PROVE  Stripped(p) \in {Absent, Skeleton} /\ Stripped(p) \notin Value
  BY SentinelAssumption DEF Stripped

\* Wherever no lane of K was lost, overlaying the lanes of K restores the
\* stripped paths of K and leaves every other path as the residual has it.
LEMMA OverlayRestores ==
  ASSUME NEW r \in Row, r.doc # Null, LanesOK(r),
         NEW K \in SUBSET Path, r.lost \cap K = {}, NEW p \in Path
  PROVE  Overlay(K, r)[p] =
           IF p \in r.manifest \ K THEN Stripped(p) ELSE r.doc[p]
<1>1. /\ r.doc[p] \in Value \union {Absent, JsonNull}
      /\ r.doc[p] # Null /\ r.doc[p] # Skeleton
  BY RowFacts, DocFacts
<1>2. Overlay(K, r)[p] =
        IF r.residual[p] \in {Absent, Skeleton} /\ p \in K /\ r.lane[p] # Null
        THEN r.lane[p] ELSE r.residual[p]
  BY DEF Overlay
<1>3. CASE p \in r.manifest
  <2>1. r.residual[p] = Stripped(p)
    BY <1>3 DEF LanesOK
  <2>2. p \in K => r.lane[p] = r.doc[p]
    BY <1>3 DEF LanesOK
  <2>3. QED
    BY <1>1, <1>2, <1>3, <2>1, <2>2, StrippedFacts
<1>4. CASE p \notin r.manifest
  <2>1. r.residual[p] = r.doc[p] /\ r.lane[p] = Null
    BY <1>4 DEF LanesOK
  <2>2. QED
    BY <1>2, <1>4, <2>1
<1>5. QED
  BY <1>3, <1>4

\* A row whose stripped paths all have their lanes reconstructs exactly.
LEMMA OverlayIsDoc ==
  ASSUME NEW r \in Row, r.doc # Null, LanesOK(r),
         NEW K \in SUBSET Path, r.lost \cap K = {}, Carried(K, r)
  PROVE  Overlay(K, r) = r.doc
<1>1. r.doc \in [Path -> Value \union {Absent, JsonNull}]
  BY RowFacts, DocFacts
<1>2. ASSUME NEW p \in Path
      PROVE  Overlay(K, r)[p] = r.doc[p]
  BY OverlayRestores DEF Carried
<1>3. Overlay(K, r) = [p \in Path |-> Overlay(K, r)[p]]
  BY DEF Overlay
<1>4. QED
  BY <1>1, <1>2, <1>3

-----------------------------------------------------------------------------
(* Every writer produces a correct row. *)

LEMMA ShreddedCorrect ==
  ASSUME NEW t \in Table, NEW d \in Doc
  PROVE  Shredded(t, Lanes[t], d) \in Row /\ RowOK(Shredded(t, Lanes[t], d))
<1> DEFINE L == Lanes[t]
           fitting == {p \in L : d[p] \in Fits[p]}
           spilled == Spilled(L, d)
           r == Shredded(t, L, d)
<1>1. L \in SUBSET Path /\ fitting \in SUBSET L /\ spilled \in SUBSET L
  BY TableAssumption DEF Spilled
<1>2. /\ d \in [Path -> Value \union {Absent, JsonNull}]
      /\ \A p \in Path : d[p] # Null
  BY DocFacts
<1>3. \A p \in fitting : d[p] \in Value
  BY <1>1, PathAssumption
<1>4. /\ r.table = t /\ r.doc = d /\ r.manifest = fitting
      /\ r.written = L /\ r.lost = {}
      /\ r.lane = [p \in Path |-> IF p \in fitting THEN d[p] ELSE Null]
      /\ r.residual = [p \in Path |-> IF p \in fitting THEN Stripped(p) ELSE d[p]]
      /\ r.set = Marker(L, spilled) /\ r.spill = Masks(L, spilled)
  BY DEF Shredded
<1>5. r \in Row
  <2>1. [p \in Path |-> IF p \in fitting THEN d[p] ELSE Null]
          \in [Path -> Value \union {Null}]
    BY <1>3
  <2>2. [p \in Path |-> IF p \in fitting THEN Stripped(p) ELSE d[p]]
          \in [Path -> Value \union {Absent, JsonNull, Skeleton}]
    BY <1>2, StrippedFacts
  <2>3. Marker(L, spilled) \in Nat
    BY <1>1, MasksType, MarkerType
  <2>4. Masks(L, spilled) \in [Word -> {Null} \union SUBSET Bits]
    BY <1>1, MasksType
  <2>5. fitting \in SUBSET Path
    BY <1>1
  <2> HIDE DEF fitting, spilled, L
  <2>6. QED
    BY <1>1, <2>1, <2>2, <2>3, <2>4, <2>5 DEF Shredded, Row, fitting, spilled
<1>6. LanesOK(r)
  <2> HIDE DEF r
  <2>1. \A p \in Path : r.lane[p] # Null => p \in fitting
    BY <1>4
  <2>2. \A p \in fitting : p \in Path /\ r.lane[p] = d[p]
    BY <1>1, <1>4
  <2>3. QED
    BY <1>1, <1>4, <2>1, <2>2 DEF LanesOK
<1>7. Diverting(r) = spilled
  <2> HIDE DEF r
  <2>1. ASSUME NEW p \in L \ ArrayPath
        PROVE  r.residual[p] \in Value <=> d[p] \in Value \ Fits[p]
    BY <1>1, <1>3, <1>4, StrippedFacts
  <2>2. QED
    BY <1>4, <2>1 DEF Diverting, Spilled
<1>8. StampOK(r)
  BY <1>4, <1>7 DEF StampOK
<1>9. QED
  BY <1>2, <1>4, <1>5, <1>6, <1>8, DocFacts DEF RowOK

LEMMA NullRowCorrect ==
  ASSUME NEW t \in Table
  PROVE  NullRow(t) \in Row /\ RowOK(NullRow(t))
<1>1. /\ NullRow(t).doc = Null /\ NullRow(t).set = Null
      /\ \A w \in Word : NullRow(t).spill[w] = Null
  BY DEF NullRow
<1>2. NullRow(t) \in Row
  BY DEF NullRow, Row
<1>3. QED
  BY <1>1, <1>2 DEF RowOK

\* A row that moves between tables of one shred set stays as correct as it was.
LEMMA MovedCorrect ==
  ASSUME NEW t \in Table, NEW r \in Row, RowOK(r),
         Lanes[t] = Lanes[r.table] \/ r.doc = Null
  PROVE  [r EXCEPT !.table = t] \in Row /\ RowOK([r EXCEPT !.table = t])
<1> DEFINE n == [r EXCEPT !.table = t]
<1>1. n \in Row
  BY DEF Row
<1>2. /\ n.table = t /\ n.doc = r.doc /\ n.lane = r.lane /\ n.residual = r.residual
      /\ n.set = r.set /\ n.spill = r.spill /\ n.manifest = r.manifest
      /\ n.written = r.written /\ n.lost = r.lost
  BY DEF Row
<1>3. RowOK(n)
  <2> HIDE DEF n
  <2>1. SUFFICES ASSUME r.doc # Null
                 PROVE  LanesOK(n) /\ StampOK(n)
    BY <1>2 DEF RowOK
  <2>2. Lanes[n.table] = Lanes[r.table]
    BY <1>2, <2>1
  <2>3. LanesOK(r) /\ StampOK(r)
    BY <2>1 DEF RowOK
  <2>4. LanesOK(n)
    BY <1>2, <2>2, <2>3 DEF LanesOK
  <2>5. StampOK(n)
    BY <1>2, <2>3 DEF StampOK, Diverting
  <2>6. QED
    BY <2>4, <2>5
<1>4. QED
  BY <1>1, <1>3

\* A raw cast loses lanes and their spill columns, and says so in its history:
\* what is left is still a correct row.
LEMMA RawCastCorrect ==
  ASSUME NEW t \in Table, NEW r \in Row, RowOK(r)
  PROVE  /\ RawCast(t, Lanes[t], Lanes[r.table], r) \in Row
         /\ RowOK(RawCast(t, Lanes[t], Lanes[r.table], r))
<1> DEFINE L == Lanes[t]
           n == RawCast(t, L, Lanes[r.table], r)
<1>1. L \in SUBSET Path
  BY TableAssumption
<1>2. /\ n.table = t /\ n.doc = r.doc /\ n.residual = r.residual
      /\ n.set = r.set /\ n.manifest = r.manifest /\ n.written = r.written
      /\ n.lane = [p \in Path |-> IF p \in L THEN r.lane[p] ELSE Null]
      /\ n.spill = [w \in Word |-> IF w \in Words(L) THEN r.spill[w] ELSE Null]
      /\ n.lost = r.lost \union (r.written \ L)
  BY DEF RawCast, Row
<1>3. n \in Row
  <2>1. [p \in Path |-> IF p \in L THEN r.lane[p] ELSE Null] \in [Path -> Value \union {Null}]
    BY RowFacts
  <2>2. [w \in Word |-> IF w \in Words(L) THEN r.spill[w] ELSE Null]
          \in [Word -> {Null} \union SUBSET Bits]
    BY RowFacts
  <2>3. r.lost \union (r.written \ L) \in SUBSET Path
    BY RowFacts
  <2> HIDE DEF L
  <2>4. QED
    BY <2>1, <2>2, <2>3 DEF RawCast, Row
<1>4. RowOK(n)
  <2> HIDE DEF n
  <2>1. SUFFICES ASSUME r.doc # Null
                 PROVE  LanesOK(n) /\ StampOK(n)
    BY <1>2, RowFacts DEF RowOK
  <2>2. LanesOK(r) /\ StampOK(r)
    BY <2>1 DEF RowOK
  <2>3. LanesOK(n)
    <3>1. /\ \A p \in Path : n.lane[p] \in {Null, r.doc[p]}
          /\ \A p \in Path : n.lane[p] # Null => p \in r.manifest \cap L
      BY <1>2, <2>2 DEF LanesOK
    <3>2. ASSUME NEW p \in r.manifest \ n.lost
          PROVE  n.lane[p] = r.doc[p]
      <4>1. p \in r.written /\ p \in Path
        BY <2>2, RowFacts DEF LanesOK
      <4>2. p \in L /\ p \notin r.lost
        BY <1>2, <4>1
      <4>3. QED
        BY <1>2, <2>2, <4>1, <4>2 DEF LanesOK
    <3>3. n.lost \subseteq n.written /\ n.written \ n.lost \subseteq L
      BY <1>2, <2>2 DEF LanesOK
    <3>4. QED
      BY <1>2, <2>2, <3>1, <3>2, <3>3 DEF LanesOK
  <2>4. Diverting(n) = Diverting(r)
    BY <1>2 DEF Diverting
  <2>5. ASSUME n.lost = {}
        PROVE  n.spill = Masks(r.written, Diverting(r))
    <3>1. /\ r.written \in SUBSET L /\ r.written \in SUBSET Path
          /\ r.lost = {}
      BY <1>2, <2>5, RowFacts
    <3>2. Words(r.written) \subseteq Words(L)
      BY <1>1, <3>1, WordsMonotone
    <3>3. r.spill = Masks(r.written, Diverting(r))
      BY <2>2, <3>1 DEF StampOK
    <3>4. ASSUME NEW w \in Word
          PROVE  (IF w \in Words(L) THEN r.spill[w] ELSE Null)
                   = Masks(r.written, Diverting(r))[w]
      BY <3>2, <3>3 DEF Masks
    <3>5. Masks(r.written, Diverting(r)) = [w \in Word |-> Masks(r.written, Diverting(r))[w]]
      BY DEF Masks
    <3>6. QED
      BY <1>2, <3>4, <3>5
  <2>6. StampOK(n)
    BY <1>2, <2>2, <2>4, <2>5 DEF StampOK
  <2>7. QED
    BY <2>3, <2>6
<1>5. QED
  BY <1>3, <1>4

\* A reshred of a row none of whose carried lanes was lost is a correct row of
\* the new shred set: a kept lane keeps its spill bit, found under the old
\* numbering or probed for, and a dropped lane is folded back.
LEMMA ReshreddedCorrect ==
  ASSUME NEW t \in Table, NEW r \in Row, RowOK(r), r.doc # Null,
         Carried(Lanes[r.table], r), ~Regained(Lanes[r.table], r)
  PROVE  /\ Reshredded(t, Lanes[t], Lanes[r.table], r) \in Row
         /\ RowOK(Reshredded(t, Lanes[t], Lanes[r.table], r))
<1> DEFINE L == Lanes[t]
           K == Lanes[r.table]
           n == Reshredded(t, L, K, r)
<1>1. /\ L \in SUBSET Path /\ K \in SUBSET Path
      /\ r.lost \cap K = {} /\ r.manifest \subseteq K
      /\ LanesOK(r) /\ StampOK(r)
  BY TableAssumption, RowFacts DEF Carried, Regained, RowOK
<1>2. /\ r.doc \in Doc
      /\ \A p \in Path : /\ r.doc[p] \in Value \union {Absent, JsonNull}
                         /\ r.doc[p] # Null
  BY RowFacts, DocFacts
<1>3. CASE L \cap ArrayPath # K \cap ArrayPath
  <2>1. Overlay(K, r) = r.doc
    BY <1>1, OverlayIsDoc
  <2>2. n = [Shredded(t, L, r.doc) EXCEPT !.doc = r.doc]
    BY <1>3, <2>1 DEF Reshredded
  <2>3. Shredded(t, L, r.doc) = [Shredded(t, L, r.doc) EXCEPT !.doc = r.doc]
    BY DEF Shredded
  <2>4. QED
    BY <1>2, <2>2, <2>3, ShreddedCorrect
<1>4. CASE L \cap ArrayPath = K \cap ArrayPath
  <2> DEFINE merged == Folded(L, K, r)
             kept == L \cap K
             new == {p \in L \ K : merged[p] \in Fits[p]}
             probed == {p \in kept \ ArrayPath : KeptSpill(K, r, p)}
             spilled == probed \union Spilled(L \ K, merged)
             lane == [p \in Path |-> IF p \in new THEN merged[p]
                                     ELSE IF p \in kept THEN r.lane[p] ELSE Null]
             residual == [p \in Path |-> IF p \in new THEN Absent ELSE merged[p]]
  <2>1. n = [table |-> t, doc |-> r.doc, lane |-> lane, residual |-> residual,
             set |-> Marker(L, spilled), spill |-> Masks(L, spilled),
             manifest |-> (r.manifest \cap L) \union new, written |-> L, lost |-> {}]
    BY <1>4 DEF Reshredded, CarriedManifest
  <2>2. /\ n.table = t /\ n.doc = r.doc /\ n.lane = lane /\ n.residual = residual
        /\ n.set = Marker(L, spilled) /\ n.spill = Masks(L, spilled)
        /\ n.manifest = (r.manifest \cap L) \union new
        /\ n.written = L /\ n.lost = {}
    BY <2>1
  <2>3. \A p \in Path : merged[p] = IF p \in r.manifest \cap L THEN Stripped(p) ELSE r.doc[p]
    <3>1. K \ L \in SUBSET Path /\ r.lost \cap (K \ L) = {}
      BY <1>1
    <3>2. r.manifest \ (K \ L) = r.manifest \cap L
      BY <1>1
    <3>3. QED
      BY <1>1, <3>1, <3>2, OverlayRestores DEF Folded
  <2>4. \A p \in new : /\ p \in Path /\ p \in L \ K /\ p \notin ArrayPath
                       /\ merged[p] = r.doc[p] /\ r.doc[p] \in Fits[p]
                       /\ r.doc[p] \in Value
    <3>1. TAKE p \in new
    <3>2. p \in Path /\ p \in L \ K /\ p \notin ArrayPath
      BY <1>1, <1>4
    <3>3. merged[p] = r.doc[p]
      BY <1>1, <2>3, <3>2
    <3>4. merged[p] \in Fits[p] /\ Fits[p] \subseteq Value
      BY <3>2, PathAssumption
    <3> HIDE DEF merged
    <3>5. QED
      BY <3>2, <3>3, <3>4
  <2>5. spilled \in SUBSET L /\ new \in SUBSET L
    BY DEF Spilled
  <2> HIDE DEF merged, new, probed, n
  <2>6. n \in Row
    <3>1. lane \in [Path -> Value \union {Null}]
      BY <2>4, RowFacts
    <3>2. residual \in [Path -> Value \union {Absent, JsonNull, Skeleton}]
      BY <1>2, <2>3, StrippedFacts
    <3>3. Marker(L, spilled) \in Nat
      BY <1>1, <2>5, MasksType, MarkerType
    <3>4. Masks(L, spilled) \in [Word -> {Null} \union SUBSET Bits]
      BY <1>1, <2>5, MasksType
    <3>5. (r.manifest \cap L) \union new \in SUBSET Path
      BY <1>1, <2>5
    <3> HIDE DEF L, lane, residual, spilled
    <3>6. L \in SUBSET Path /\ r.doc \in Doc
      BY <1>1, <1>2
    <3>7. QED
      BY <2>1, <3>1, <3>2, <3>3, <3>4, <3>5, <3>6 DEF Row
  <2>7. LanesOK(n)
    <3>1. ASSUME NEW p \in n.manifest
          PROVE  p \in L /\ r.doc[p] \in Fits[p] /\ lane[p] = r.doc[p]
      <4>1. CASE p \in new
        BY <2>4, <4>1
      <4>2. CASE p \in r.manifest \cap L
        <5>1. p \in Path /\ p \in kept /\ p \notin new /\ p \notin r.lost
          BY <1>1, <2>4, <4>2
        <5>2. lane[p] = r.lane[p]
          BY <5>1
        <5>3. r.lane[p] = r.doc[p] /\ r.doc[p] \in Fits[p]
          BY <1>1, <4>2, <5>1 DEF LanesOK
        <5>4. QED
          BY <4>2, <5>2, <5>3
      <4>3. QED
        BY <2>2, <4>1, <4>2
    <3>2. ASSUME NEW p \in Path
          PROVE  residual[p] = IF p \in n.manifest THEN Stripped(p) ELSE r.doc[p]
      <4>1. CASE p \in new
        BY <2>2, <2>4, <4>1 DEF Stripped
      <4>2. CASE p \notin new
        BY <2>2, <2>3, <4>2
      <4>3. QED
        BY <4>1, <4>2
    <3>3. ASSUME NEW p \in Path, lane[p] # Null
          PROVE  p \in n.manifest /\ p \in L
      <4>1. CASE p \in new
        BY <2>2, <2>4, <4>1
      <4>2. CASE p \in kept /\ p \notin new
        BY <1>1, <2>2, <3>3, <4>2 DEF LanesOK
      <4>3. QED
        BY <3>3, <4>1, <4>2
    <3>4. \A p \in Path : lane[p] \in {Null, r.doc[p]}
      BY <2>4, <1>1 DEF LanesOK
    <3> HIDE DEF L, lane, residual
    <3>5. QED
      BY <2>2, <3>1, <3>2, <3>3, <3>4 DEF LanesOK, L
  <2>8. \A p \in kept \ ArrayPath : KeptSpill(K, r, p) <=> r.residual[p] \in Value
    <3>1. TAKE p \in kept \ ArrayPath
    <3>2. p \in Path
      BY <1>1
    <3>3. CASE Identity(K, r) /\ WordOf(K, p) \in Words(K)
      <4>1. r.written = K
        <5>1. r.set \in {Clean(K), Dirty(K)} \cap {Clean(r.written), Dirty(r.written)}
          BY <1>1, <3>3 DEF Identity, StampOK, Marker
        <5>2. QED
          BY <1>1, <5>1, RowFacts, MarkerNamesSet
      <4>2. r.spill = Masks(K, Diverting(r))
        BY <1>1, <4>1 DEF LanesOK, StampOK
      <4>3. Diverting(r) \in SUBSET K
        BY <4>1 DEF Diverting
      <4>4. KeptSpill(K, r, p) <=> p \in Diverting(r)
        <5>1. p \in Diverting(r) <=> /\ Masks(K, Diverting(r))[WordOf(K, p)] # Null
                                     /\ BitOf(K, p) \in Masks(K, Diverting(r))[WordOf(K, p)]
          BY <1>1, <4>3, MasksTell
        <5>2. QED
          BY <3>3, <4>2, <5>1 DEF KeptSpill
      <4>5. QED
        BY <4>1, <4>4 DEF Diverting
    <3>4. CASE ~(Identity(K, r) /\ WordOf(K, p) \in Words(K))
      <4>1. r.residual[p] \in Value => r.lane[p] = Null
        BY <1>1, <3>2, StrippedFacts DEF LanesOK
      <4>2. QED
        BY <3>4, <4>1 DEF KeptSpill
    <3>5. QED
      BY <3>3, <3>4
  <2>9. Diverting(n) = spilled
    <3>1. ASSUME NEW p \in L \ ArrayPath
          PROVE  residual[p] \in Value <=> p \in spilled
      <4>1. p \in Path /\ (p \in r.manifest => p \in K)
        BY <1>1, <3>1
      <4>2. CASE p \in K
        <5>1. p \notin new /\ merged[p] = r.residual[p]
          BY <1>1, <2>3, <2>4, <3>1, <4>1, <4>2 DEF LanesOK
        <5>2. residual[p] \in Value <=> p \in probed
          BY <2>8, <3>1, <4>1, <4>2, <5>1 DEF probed
        <5>3. QED
          BY <4>2, <5>2 DEF Spilled
      <4>3. CASE p \notin K
        <5>1. residual[p] \in Value <=> merged[p] \in Value \ Fits[p]
          BY <2>4, <3>1, <4>1, <4>3, SentinelAssumption DEF new
        <5>2. QED
          BY <3>1, <4>3, <5>1 DEF Spilled, probed
      <4>4. QED
        BY <4>2, <4>3
    <3>2. spilled \subseteq L \ ArrayPath
      BY DEF Spilled, probed
    <3>3. QED
      BY <2>2, <3>1, <3>2 DEF Diverting
  <2>10. StampOK(n)
    BY <2>2, <2>9 DEF StampOK
  <2>11. QED
    BY <2>2, <2>6, <2>7, <2>10 DEF RowOK, n
<1>5. QED
  BY <1>3, <1>4

-----------------------------------------------------------------------------
(* The invariant is inductive. *)

LEMMA InitInv == Init => Inv
  BY DEF Init, Inv, TypeOK

LEMMA NextInv == Inv /\ [Next]_rows => Inv'
<1> SUFFICES ASSUME Inv, [Next]_rows
             PROVE  Inv'
  OBVIOUS
<1>1. \A r \in rows : r \in Row /\ RowOK(r)
  BY DEF Inv, TypeOK
<1>2. ASSUME NEW n, n \in Row, RowOK(n), rows' = rows \union {n}
      PROVE  Inv'
  BY <1>1, <1>2 DEF Inv, TypeOK
<1>3. ASSUME NEW t \in Table, Insert(t)
      PROVE  Inv'
  BY <1>2, <1>3, ShreddedCorrect DEF Insert
<1>4. ASSUME NEW t \in Table, InsertNull(t)
      PROVE  Inv'
  BY <1>2, <1>4, NullRowCorrect DEF InsertNull
<1>5. ASSUME NEW t \in Table, InsertSelect(t)
      PROVE  Inv'
  <2>1. PICK r \in rows :
          /\ ~Regained(Lanes[r.table], r)
          /\ IF Lanes[t] = Lanes[r.table] \/ r.doc = Null
             THEN rows' = rows \union {[r EXCEPT !.table = t]}
             ELSE /\ Carried(Lanes[r.table], r)
                  /\ rows' = rows \union {Reshredded(t, Lanes[t], Lanes[r.table], r)}
    BY <1>5 DEF InsertSelect
  <2>2. r \in Row /\ RowOK(r)
    BY <1>1
  <2>3. CASE Lanes[t] = Lanes[r.table] \/ r.doc = Null
    <3>1. [r EXCEPT !.table = t] \in Row /\ RowOK([r EXCEPT !.table = t])
      BY <2>2, <2>3, MovedCorrect
    <3>2. rows' = rows \union {[r EXCEPT !.table = t]}
      BY <2>1, <2>3
    <3>3. QED
      BY <1>2, <3>1, <3>2
  <2>4. CASE ~(Lanes[t] = Lanes[r.table] \/ r.doc = Null)
    <3>1. /\ Reshredded(t, Lanes[t], Lanes[r.table], r) \in Row
          /\ RowOK(Reshredded(t, Lanes[t], Lanes[r.table], r))
      BY <2>1, <2>2, <2>4, ReshreddedCorrect
    <3>2. rows' = rows \union {Reshredded(t, Lanes[t], Lanes[r.table], r)}
      BY <2>1, <2>4
    <3>3. QED
      BY <1>2, <3>1, <3>2
  <2>5. QED
    BY <2>3, <2>4
<1>6. ASSUME NEW t \in Table, RawInsertSelect(t)
      PROVE  Inv'
  <2>1. PICK r \in rows :
          rows' = rows \union {RawCast(t, Lanes[t], Lanes[r.table], r)}
    BY <1>6 DEF RawInsertSelect
  <2>2. /\ RawCast(t, Lanes[t], Lanes[r.table], r) \in Row
        /\ RowOK(RawCast(t, Lanes[t], Lanes[r.table], r))
    BY <1>1, RawCastCorrect
  <2>3. QED
    BY <1>2, <2>1, <2>2
<1>7. CASE UNCHANGED rows
  BY <1>7 DEF Inv, TypeOK
<1>8. QED
  BY <1>3, <1>4, <1>5, <1>6, <1>7 DEF Next

\* Every stored row, whatever writers and casts it went through, has the three
\* records of where its values are in agreement.
THEOREM Invariance == Spec => []Inv
  BY InitInv, NextInv, PTL DEF Spec

\* Every stored row has the shape of a row of its table's type.
THEOREM TypeCorrect == Spec => []TypeOK
<1>1. Inv => TypeOK
  BY DEF Inv
<1>2. QED
  BY <1>1, Invariance, PTL

-----------------------------------------------------------------------------
(* The proof of totality is sound, and the reads built on it are right. *)

\* Where the statistics of a scan prove the lane spill-free, a row that lost no
\* lane of the scan is stamped under exactly the scan's shred set and holds
\* nothing in its residual at the lane's path.
LEMMA SpillProvenSound ==
  ASSUME Inv,
         NEW S, NEW L \in SUBSET Path, NEW p \in Path, SpillProven(L, S, p),
         NEW r \in InScan(S), r.doc # Null, r.lost \cap L = {}
  PROVE  r.residual[p] \notin Value
<1>1. r \in Row /\ LanesOK(r) /\ StampOK(r)
  BY DEF Inv, TypeOK, InScan, RowOK
<1>2. /\ r.set \in {Clean(r.written), Dirty(r.written)}
      /\ r.written \in SUBSET Path
  BY <1>1, RowFacts DEF StampOK, Marker
<1>3. r.set \in Nat /\ r.set \in Markers(S)
  <2>1. r.set \in Nat
    BY <1>2, MarkerType
  <2>2. QED
    BY <2>1, SentinelAssumption DEF Markers
<1>4. p \in L /\ p \notin ArrayPath
  BY DEF SpillProven
<1>5. r.set \in {Clean(L), Dirty(L)} => r.written = L
  BY <1>2, MarkerNamesSet
<1>6. r.written = L => r.lost = {}
  BY <1>1 DEF LanesOK
<1>7. SUFFICES ASSUME r.residual[p] \in Value
               PROVE  FALSE
  OBVIOUS
<1>8. CASE AllClean(L, S)
  <2>1. r.set <= Clean(L) /\ Clean(L) <= r.set
    BY <1>3, <1>8 DEF AllClean, Spans
  <2>2. r.set = Clean(L)
    BY <1>3, <2>1, MarkerType
  <2>3. r.written = L
    BY <1>5, <2>2
  <2>4. Diverting(r) = {}
    BY <1>1, <2>2, <2>3, MarkerTells DEF StampOK
  <2>5. QED
    BY <1>4, <1>7, <2>3, <2>4 DEF Diverting
<1>9. CASE SameSet(L, S) /\ BitClear(L, S, p)
  <2>1. r.set \in {Clean(L), Dirty(L)}
    <3>1. PICK lo \in {Clean(L), Dirty(L)}, hi \in {Clean(L), Dirty(L)} :
            Spans(Markers(S), lo, hi)
      BY <1>9 DEF SameSet
    <3>2. lo <= r.set /\ r.set <= hi
      BY <1>3, <3>1 DEF Spans
    <3>3. QED
      BY <1>3, <3>1, <3>2, MarkerType
  <2>2. r.written = L /\ r.lost = {} /\ p \in Diverting(r)
    BY <1>4, <1>5, <1>6, <1>7, <2>1 DEF Diverting
  <2> DEFINE w == WordOf(L, p)
             word == r.spill[w]
             N == MaskStats(S, w)
  <2>3. w \in Word /\ BitOf(L, p) \in Bits
    BY <1>4, WordRange, WordsOfPath
  <2>4. word # Null /\ BitOf(L, p) \in word
    <3>1. r.spill = Masks(L, Diverting(r)) /\ Diverting(r) \in SUBSET L
      BY <1>1, <2>2 DEF StampOK, Diverting
    <3>2. QED
      BY <1>4, <2>2, <3>1, MasksTell
  <2>5. word \in SUBSET Bits
    BY <1>1, <2>3, <2>4, RowFacts
  <2>6. MaskOf[word] \in N /\ MaskOf[word] \in Nat
    BY <2>4, <2>5, WordAssumption DEF MaskStats
  <2>7. PICK lo \in N, hi \in N :
          /\ Spans(N, lo, hi)
          /\ \/ /\ lo = hi
                /\ \E B \in SUBSET UsedBits(L, w) : MaskOf[B] = lo /\ BitOf(L, p) \notin B
             \/ hi < MaskOf[{BitOf(L, p)}]
    BY <1>9 DEF BitClear
  <2>8. lo \in Nat /\ hi \in Nat
    <3>1. ASSUME NEW q \in InScan(S), q.spill[w] # Null
          PROVE  MaskOf[q.spill[w]] \in Nat
      <4>1. q \in Row
        BY DEF Inv, TypeOK, InScan
      <4>2. q.spill[w] \in SUBSET Bits
        BY <2>3, <3>1, <4>1, RowFacts
      <4>3. QED
        BY <4>2, WordAssumption
    <3>2. QED
      BY <3>1 DEF MaskStats
  <2>9. lo <= MaskOf[word] /\ MaskOf[word] <= hi
    BY <2>6, <2>7 DEF Spans
  <2>10. CASE lo = hi /\ \E B \in SUBSET UsedBits(L, w) :
                           MaskOf[B] = lo /\ BitOf(L, p) \notin B
    <3>1. PICK B \in SUBSET UsedBits(L, w) : MaskOf[B] = lo /\ BitOf(L, p) \notin B
      BY <2>10
    <3>2. B \in SUBSET Bits
      BY WordRange DEF UsedBits
    <3>3. MaskOf[B] = MaskOf[word]
      BY <2>6, <2>8, <2>9, <2>10, <3>1
    <3>4. B = word
      BY <2>5, <3>2, <3>3, WordAssumption
    <3>5. QED
      BY <2>4, <3>1, <3>4
  <2>11. CASE hi < MaskOf[{BitOf(L, p)}]
    <3>1. MaskOf[{BitOf(L, p)}] <= MaskOf[word]
      BY <2>4, <2>5, WordAssumption
    <3>2. MaskOf[{BitOf(L, p)}] \in Nat
      BY <2>3, WordAssumption
    <3>3. QED
      BY <2>6, <2>8, <2>9, <2>11, <3>1, <3>2
  <2>12. QED
    BY <2>7, <2>10, <2>11
<1>10. QED
  BY <1>8, <1>9 DEF SpillProven

\* The read of a row over a scan none of whose lanes the row lost.
LEMMA ReadsAnswer ==
  ASSUME Inv, NEW S \in SUBSET Table, NEW r \in InScan(S), r.doc # Null,
         r.lost \cap ScanLanes(S) = {}, NEW p \in Path
  PROVE  /\ p \in ScanLanes(S) \ ArrayPath => Read(S, r, p) = Answer(r, p)
         /\ p \in ScanLanes(S) \cap ArrayPath =>
              Read(S, r, p) = IF Carried(ScanLanes(S), r) THEN Answer(r, p) ELSE Failure
         /\ p \notin ScanLanes(S) =>
              /\ p \notin r.manifest => Read(S, r, p) = Answer(r, p)
              /\ p \in r.manifest \ ArrayPath => Read(S, r, p) = Failure
<1> DEFINE K == ScanLanes(S)
<1>1. r \in Row /\ LanesOK(r) /\ r.table \in S
  BY DEF Inv, TypeOK, InScan, RowOK
<1>2. K \in SUBSET Path /\ Lanes[r.table] \subseteq K
  BY <1>1, TableAssumption DEF ScanLanes
<1>3. /\ r.doc[p] \in Value \union {Absent, JsonNull}
      /\ r.doc[p] # Null
  BY <1>1, RowFacts, DocFacts
<1>4. Answer(r, p) = Text(r.doc[p])
  BY DEF Answer
<1>5. r.doc[p] \in Value => Text(r.doc[p]) = r.doc[p]
  BY SentinelAssumption DEF Text
<1>6. r.doc[p] \notin Value => Text(r.doc[p]) = Null
  BY <1>3 DEF Text
<1>7. p \notin r.manifest => r.residual[p] = r.doc[p] /\ r.lane[p] = Null
  BY <1>1 DEF LanesOK
<1>8. p \in r.manifest \cap K =>
        r.lane[p] = r.doc[p] /\ r.doc[p] \in Value
  <2>1. SUFFICES ASSUME p \in r.manifest \cap K
                 PROVE  r.lane[p] = r.doc[p] /\ r.doc[p] \in Value
    OBVIOUS
  <2>2. r.lane[p] = r.doc[p] /\ r.doc[p] \in Fits[p]
    BY <1>1, <2>1 DEF LanesOK
  <2>3. QED
    BY <2>2, PathAssumption
<1>9. ASSUME p \in K \ ArrayPath
      PROVE  Read(S, r, p) = Answer(r, p)
  <2>1. CASE r.lane[p] # Null
    <3>1. p \in r.manifest \cap K
      BY <1>7, <1>9, <2>1
    <3>2. Read(S, r, p) = r.lane[p]
      BY <1>9, <2>1 DEF Read
    <3>3. QED
      BY <1>4, <1>5, <1>8, <3>1, <3>2
  <2>2. CASE r.lane[p] = Null /\ ~Total(S, p)
    <3>1. p \notin r.manifest
      BY <1>3, <1>8, <1>9, <2>2
    <3>2. Read(S, r, p) = Text(r.residual[p])
      BY <1>9, <2>2 DEF Read
    <3>3. QED
      BY <1>4, <1>7, <3>1, <3>2
  <2>3. CASE r.lane[p] = Null /\ Total(S, p)
    <3>1. p \notin r.manifest
      BY <1>3, <1>8, <1>9, <2>3
    <3>2. r.residual[p] \notin Value
      <4>1. CASE SpillProven(K, S, p)
        BY <1>2, <4>1, SpillProvenSound
      <4>2. CASE NoNull(S, p)
        BY <2>3, <4>2 DEF NoNull
      <4>3. CASE EachFileProven(S, p)
        <5>1. SpillProven(Lanes[r.table], {r.table}, p)
          BY <1>1, <4>3 DEF EachFileProven
        <5>2. r \in InScan({r.table})
          BY DEF InScan
        <5>3. r.lost \cap Lanes[r.table] = {} /\ Lanes[r.table] \in SUBSET Path
          BY <1>2
        <5>4. QED
          BY <5>1, <5>2, <5>3, SpillProvenSound
      <4>4. QED
        BY <2>3, <4>1, <4>2, <4>3 DEF Total
    <3>3. Read(S, r, p) = Null
      BY <1>9, <2>3 DEF Read
    <3>4. QED
      BY <1>4, <1>6, <1>7, <3>1, <3>2, <3>3
  <2>4. QED
    BY <2>1, <2>2, <2>3
<1>10. ASSUME p \in K \cap ArrayPath
       PROVE  Read(S, r, p) = IF Carried(K, r) THEN Answer(r, p) ELSE Failure
  <2>1. Read(S, r, p) = WholeRead(K, r, p)
    BY <1>10 DEF Read
  <2>2. CASE Carried(K, r)
    <3>1. Overlay(K, r) = r.doc
      BY <1>1, <1>2, <2>2, OverlayIsDoc
    <3>2. QED
      BY <1>4, <2>1, <2>2, <3>1 DEF WholeRead
  <2>3. CASE ~Carried(K, r)
    BY <2>1, <2>3 DEF WholeRead
  <2>4. QED
    BY <2>2, <2>3
<1>11. ASSUME p \notin K
       PROVE  /\ p \notin r.manifest => Read(S, r, p) = Answer(r, p)
              /\ p \in r.manifest \ ArrayPath => Read(S, r, p) = Failure
  <2>1. Read(S, r, p) = PointRead(r, p)
    BY <1>11 DEF Read
  <2>2. CASE p \notin r.manifest
    BY <1>4, <1>7, <2>1, <2>2 DEF PointRead
  <2>3. CASE p \in r.manifest \ ArrayPath
    <3>1. r.residual[p] = Absent
      BY <1>1, <2>3 DEF LanesOK, Stripped
    <3>2. QED
      BY <2>1, <2>3, <3>1 DEF PointRead
  <2>4. QED
    BY <2>2, <2>3
<1>12. QED
  BY <1>9, <1>10, <1>11

\* A lane of the table a row was written to and never lost is in every scan of
\* the table the row is now in, and so is everything that was stripped from it.
LEMMA IntactCarried ==
  ASSUME Inv, NEW S \in SUBSET Table, NEW r \in InScan(S), r.doc # Null, r.lost = {}
  PROVE  Carried(ScanLanes(S), r) /\ r.manifest \subseteq r.written
<1>1. r \in Row /\ LanesOK(r) /\ r.table \in S
  BY DEF Inv, TypeOK, InScan, RowOK
<1>2. Lanes[r.table] \subseteq ScanLanes(S)
  BY <1>1 DEF ScanLanes
<1>3. QED
  BY <1>1, <1>2 DEF LanesOK, Carried

\* A row no raw cast has narrowed reads every path of every scan as the
\* document does, though some lanes are read bare on the word of statistics.
THEOREM IntactReads == Spec => []IntactRowsAnswer
<1>1. Inv => IntactRowsAnswer
  <2>1. SUFFICES ASSUME Inv, NEW S \in Scans, NEW r \in InScan(S), r.lost = {},
                        NEW p \in Path
                 PROVE  Read(S, r, p) = Answer(r, p)
    BY DEF IntactRowsAnswer
  <2>2. CASE r.doc = Null
    BY <2>2 DEF Read, Answer
  <2>3. CASE r.doc # Null
    <3>1. S \in SUBSET Table /\ r.lost \cap ScanLanes(S) = {}
      BY <2>1, TableAssumption
    <3>2. Carried(ScanLanes(S), r)
      BY <2>1, <2>3, <3>1, IntactCarried
    <3>3. p \notin ScanLanes(S) => p \notin r.manifest
      BY <3>2 DEF Carried
    <3>4. QED
      BY <2>1, <2>3, <3>1, <3>2, <3>3, ReadsAnswer
  <2>4. QED
    BY <2>2, <2>3
<1>2. QED
  BY <1>1, Invariance, PTL

\* Such a row also reconstructs to the document it was written from.
THEOREM IntactReconstructs == Spec => []IntactRowsReconstruct
<1>1. Inv => IntactRowsReconstruct
  <2>1. SUFFICES ASSUME Inv, NEW S \in Scans, NEW r \in InScan(S),
                        r.lost = {}, r.doc # Null
                 PROVE  Carried(ScanLanes(S), r) /\ Overlay(ScanLanes(S), r) = r.doc
    BY DEF IntactRowsReconstruct
  <2>2. S \in SUBSET Table
    BY TableAssumption
  <2>3. Carried(ScanLanes(S), r)
    BY <2>1, <2>2, IntactCarried
  <2>4. r \in Row /\ LanesOK(r) /\ ScanLanes(S) \in SUBSET Path
    BY <2>1, <2>2, TableAssumption DEF Inv, TypeOK, InScan, RowOK, ScanLanes
  <2>5. QED
    BY <2>1, <2>3, <2>4, OverlayIsDoc
<1>2. QED
  BY <1>1, Invariance, PTL

\* A row a raw cast has narrowed is never silently partial: as long as its lost
\* lanes stay lost, a read is right or fails (arrays that were dropped aside).
THEOREM NarrowedReads == Spec => []NarrowedRowsAnswerOrFail
<1>1. Inv => NarrowedRowsAnswerOrFail
  <2>1. SUFFICES ASSUME Inv, NEW S \in Scans, NEW r \in InScan(S),
                        ~Regained(ScanLanes(S), r),
                        NEW p \in Path \ (ArrayPath \cap r.lost)
                 PROVE  Read(S, r, p) \in {Answer(r, p), Failure}
    BY DEF NarrowedRowsAnswerOrFail
  <2>2. CASE r.doc = Null
    BY <2>2 DEF Read, Answer
  <2>3. CASE r.doc # Null
    <3>1. S \in SUBSET Table /\ r.lost \cap ScanLanes(S) = {}
      BY <2>1, TableAssumption DEF Regained
    <3>2. r \in Row /\ LanesOK(r) /\ Lanes[r.table] \subseteq ScanLanes(S)
      BY <2>1, <2>3 DEF Inv, TypeOK, InScan, RowOK, ScanLanes
    <3>3. p \in r.manifest \ ScanLanes(S) => p \in r.lost
      BY <3>2 DEF LanesOK
    <3>4. QED
      BY <2>1, <2>3, <3>1, <3>3, ReadsAnswer
  <2>4. QED
    BY <2>2, <2>3
<1>2. QED
  BY <1>1, Invariance, PTL

-----------------------------------------------------------------------------
(* The stamp is exact. *)

\* On a row stamped under its own type the bit of a scalar lane is set exactly
\* when the value sits in the residual: what jsono_validate checks.
THEOREM StampDiscipline == Spec => []SpillDiscipline
<1>1. Inv => SpillDiscipline
  <2> DEFINE L(r) == Lanes[r.table]
             Told(r, p) == r.set = Dirty(L(r)) /\ BitOf(L(r), p) \in r.spill[WordOf(L(r), p)]
  <2>1. SUFFICES ASSUME Inv, NEW r \in rows, Identity(L(r), r), r.lost = {},
                        NEW p \in L(r) \ ArrayPath
                 PROVE  (r.lane[p] = Null /\ r.residual[p] \in Value) <=> Told(r, p)
    BY DEF SpillDiscipline
  <2>2. r \in Row /\ RowOK(r) /\ L(r) \in SUBSET Path
    BY <2>1, TableAssumption DEF Inv, TypeOK, Row
  <2>3. r.doc # Null
    <3>1. r.set # Null
      BY <2>1, <2>2, MarkerType, SentinelAssumption DEF Identity
    <3>2. QED
      BY <2>2, <3>1 DEF RowOK
  <2>4. LanesOK(r) /\ StampOK(r)
    BY <2>2, <2>3 DEF RowOK
  <2>5. r.written = L(r)
    <3>1. r.set \in {Clean(L(r)), Dirty(L(r))} \cap {Clean(r.written), Dirty(r.written)}
      BY <2>1, <2>4 DEF Identity, StampOK, Marker
    <3>2. QED
      BY <2>2, <3>1, RowFacts, MarkerNamesSet
  <2>6. /\ r.set = Marker(L(r), Diverting(r)) /\ r.spill = Masks(L(r), Diverting(r))
        /\ Diverting(r) \in SUBSET L(r)
    BY <2>1, <2>4, <2>5 DEF StampOK, Diverting
  <2>7. r.set = Dirty(L(r)) <=> Diverting(r) # {}
    BY <2>2, <2>6, MarkerType DEF Marker
  <2>8. Told(r, p) <=> p \in Diverting(r)
    <3> HIDE DEF L
    <3>1. p \in L(r)
      BY <2>1
    <3>2. QED
      BY <2>2, <2>6, <2>7, <3>1, MasksTell
  <2>9. p \in Diverting(r) <=> r.residual[p] \in Value
    BY <2>1, <2>5 DEF Diverting
  <2>10. r.residual[p] \in Value => r.lane[p] = Null
    BY <2>1, <2>2, <2>4, StrippedFacts DEF LanesOK
  <2>11. QED
    BY <2>8, <2>9, <2>10
<1>2. QED
  BY <1>1, Invariance, PTL

\* Rows that all divert the same lanes leave every other lane of their table
\* provably total: the marker alone would demote the whole shred set.
THEOREM UniformDiverts == Spec => []UniformDivertSparesTheRest
<1>1. ASSUME Inv, NEW t \in Table, NEW D \in SUBSET Lanes[t],
             \E r \in InScan({t}) : r.doc # Null,
             \A r \in InScan({t}) : r.doc # Null =>
               /\ r.written = Lanes[t] /\ r.lost = {}
               /\ Diverting(r) \in {{}, D},
             NEW p \in Lanes[t] \ (ArrayPath \union D)
      PROVE  Total({t}, p)
  <2> DEFINE L == Lanes[t]
             here == InScan({t})
             w == WordOf(L, p)
             N == MaskStats({t}, w)
             word == Masks(L, D)[w]
  <2>1. L \in SUBSET Path /\ ScanLanes({t}) = L
    BY TableAssumption DEF ScanLanes
  <2>2. ASSUME NEW r \in here
        PROVE  /\ r.doc = Null => r.set = Null /\ r.spill[w] = Null
               /\ r.doc # Null => /\ r.set = Marker(L, Diverting(r))
                                  /\ r.spill = Masks(L, Diverting(r))
    <3>1. RowOK(r)
      BY <1>1 DEF Inv, InScan
    <3>2. w \in Word
      BY <2>1, WordRange, WordsOfPath
    <3>3. QED
      BY <1>1, <3>1, <3>2 DEF RowOK, StampOK
  <2>3. Clean(L) \in Nat /\ Dirty(L) \in Nat /\ Clean(L) # Null /\ Dirty(L) # Null
    BY <2>1, MarkerType, SentinelAssumption
  <2>4. Markers({t}) = {r.set : r \in {q \in here : q.doc # Null}}
    BY <2>2, <2>3 DEF Markers, Marker
  <2>5. CASE \A r \in here : r.doc # Null => Diverting(r) = {}
    <3>1. Markers({t}) = {Clean(L)}
      BY <1>1, <2>2, <2>4, <2>5 DEF Marker
    <3>2. AllClean(L, {t})
      BY <2>3, <3>1 DEF AllClean, Spans
    <3>3. QED
      BY <2>1, <3>2 DEF Total, SpillProven
  <2>6. ASSUME NEW r0 \in here, r0.doc # Null, Diverting(r0) # {}
        PROVE  Total({t}, p)
    <3>1. D # {} /\ Diverting(r0) = D
      BY <1>1, <2>6
    <3>2. Dirty(L) \in Markers({t}) /\ Markers({t}) \subseteq {Clean(L), Dirty(L)}
      BY <2>2, <2>4, <2>6 DEF Marker
    <3>3. SameSet(L, {t})
      <4>1. CASE Clean(L) \notin Markers({t})
        BY <2>3, <3>2, <4>1 DEF SameSet, Spans
      <4>2. CASE Clean(L) \in Markers({t}) /\ Clean(L) <= Dirty(L)
        <5>1. Spans(Markers({t}), Clean(L), Dirty(L))
          BY <2>3, <3>2, <4>2 DEF Spans
        <5>2. QED
          BY <5>1 DEF SameSet
      <4>3. CASE Clean(L) \in Markers({t}) /\ Dirty(L) <= Clean(L)
        <5>1. Spans(Markers({t}), Dirty(L), Clean(L))
          BY <2>3, <3>2, <4>3 DEF Spans
        <5>2. QED
          BY <5>1 DEF SameSet
      <4>4. QED
        BY <2>3, <4>1, <4>2, <4>3
    <3>4. /\ word # Null /\ BitOf(L, p) \notin word
          /\ Masks(L, {})[w] = Null
      BY <2>1, <3>1, MasksTell
    <3>5. word \in SUBSET UsedBits(L, w) /\ MaskOf[word] \in Nat
      <4>1. word = {BitOf(L, q) : q \in {q \in D : WordOf(L, q) = w}}
        BY <2>1, <3>4, WordRange, WordsOfPath DEF Masks
      <4>2. word \in SUBSET UsedBits(L, w)
        BY <4>1 DEF UsedBits
      <4>3. UsedBits(L, w) \subseteq Bits
        BY <2>1, WordRange DEF UsedBits
      <4>4. QED
        BY <4>2, <4>3, WordAssumption
    <3>6. N = {MaskOf[word]}
      <4>1. \A r \in here : r.spill[w] # Null => r.spill[w] = word
        BY <1>1, <2>2, <3>4
      <4>2. r0.spill[w] = word
        BY <2>2, <2>6, <3>1
      <4>3. QED
        BY <2>6, <3>4, <4>1, <4>2 DEF MaskStats
    <3>7. w \in KnownWords({t})
      BY <2>1, WordRange, WordsOfPath DEF KnownWords
    <3>8. BitClear(L, {t}, p)
      <4>1. Spans(N, MaskOf[word], MaskOf[word])
        BY <3>5, <3>6 DEF Spans
      <4> HIDE DEF word, N, w
      <4>2. QED
        BY <3>4, <3>5, <3>6, <3>7, <4>1 DEF BitClear, w, N
    <3>9. QED
      BY <2>1, <3>3, <3>8 DEF Total, SpillProven
  <2>7. QED
    BY <2>5, <2>6
<1>2. Inv => UniformDivertSparesTheRest
  <2>1. \A t \in Table : \A r \in InScan({t}) :
          r.written = Lanes[t] =>
            {p \in Lanes[t] \ ArrayPath : r.residual[p] \in Value} = Diverting(r)
    BY DEF Diverting
  <2>2. QED
    BY <1>1, <2>1 DEF UniformDivertSparesTheRest
<1>3. QED
  BY <1>2, Invariance, PTL

-----------------------------------------------------------------------------
(* What jsono_shred_stats counts is what the documents hold.               *)
(* The inductive invariant, with what it says of rows that lost a lane: a  *)
(* spill column that survived the casts still says what it said.           *)

WordKept(r) ==
  \A w \in Word : r.spill[w] \in {Null, Masks(r.written, Diverting(r))[w]}

WordsKept == \A r \in rows : r.doc # Null => WordKept(r)

IInv == Inv /\ WordsKept

LEMMA IntactKeepsWords ==
  ASSUME NEW r \in Row, RowOK(r), r.doc # Null, r.lost = {}
  PROVE  WordKept(r)
  BY DEF RowOK, StampOK, WordKept

LEMMA MoveKeepsWords ==
  ASSUME NEW t \in Table, NEW r \in Row, WordKept(r)
  PROVE  WordKept([r EXCEPT !.table = t])
<1> DEFINE n == [r EXCEPT !.table = t]
<1>1. n.written = r.written /\ n.residual = r.residual /\ n.spill = r.spill
  BY DEF Row
<1> HIDE DEF n
<1>2. Diverting(n) = Diverting(r)
  BY <1>1 DEF Diverting
<1>3. WordKept(n)
  BY <1>1, <1>2 DEF WordKept
<1>4. QED
  BY <1>3 DEF n

LEMMA CastKeepsWords ==
  ASSUME NEW t \in Table, NEW r \in Row, WordKept(r)
  PROVE  WordKept(RawCast(t, Lanes[t], Lanes[r.table], r))
<1> DEFINE L == Lanes[t]
           n == RawCast(t, L, Lanes[r.table], r)
<1>1. /\ n.written = r.written /\ n.residual = r.residual
      /\ n.spill = [w \in Word |-> IF w \in Words(L) THEN r.spill[w] ELSE Null]
  BY DEF RawCast, Row
<1> HIDE DEF n
<1>2. Diverting(n) = Diverting(r)
  BY <1>1 DEF Diverting
<1>3. WordKept(n)
  BY <1>1, <1>2 DEF WordKept
<1>4. QED
  BY <1>3 DEF n

LEMMA NextIInv == IInv /\ [Next]_rows => IInv'
<1> SUFFICES ASSUME Inv, WordsKept, [Next]_rows
             PROVE  Inv' /\ WordsKept'
  BY DEF IInv
<1>1. Inv'
  BY NextInv
<1>2. \A r \in rows : r \in Row /\ RowOK(r) /\ (r.doc # Null => WordKept(r))
  BY DEF Inv, TypeOK, WordsKept
<1>3. ASSUME NEW n, n.doc # Null => WordKept(n), rows' = rows \union {n}
      PROVE  WordsKept'
  BY <1>2, <1>3 DEF WordsKept
<1>4. ASSUME NEW t \in Table, Insert(t)
      PROVE  WordsKept'
  <2>1. PICK d \in Doc : rows' = rows \union {Shredded(t, Lanes[t], d)}
    BY <1>4 DEF Insert
  <2>2. Shredded(t, Lanes[t], d).lost = {}
    BY DEF Shredded
  <2>3. QED
    BY <1>3, <2>1, <2>2, ShreddedCorrect, IntactKeepsWords
<1>5. ASSUME NEW t \in Table, InsertNull(t)
      PROVE  WordsKept'
  BY <1>3, <1>5 DEF InsertNull, NullRow
<1>6. ASSUME NEW t \in Table, InsertSelect(t)
      PROVE  WordsKept'
  <2>1. PICK r \in rows :
          /\ ~Regained(Lanes[r.table], r)
          /\ IF Lanes[t] = Lanes[r.table] \/ r.doc = Null
             THEN rows' = rows \union {[r EXCEPT !.table = t]}
             ELSE /\ Carried(Lanes[r.table], r)
                  /\ rows' = rows \union {Reshredded(t, Lanes[t], Lanes[r.table], r)}
    BY <1>6 DEF InsertSelect
  <2>2. r \in Row /\ RowOK(r) /\ (r.doc # Null => WordKept(r))
    BY <1>2
  <2>3. CASE Lanes[t] = Lanes[r.table] \/ r.doc = Null
    <3>1. [r EXCEPT !.table = t].doc = r.doc
      BY <2>2 DEF Row
    <3>2. [r EXCEPT !.table = t].doc # Null => WordKept([r EXCEPT !.table = t])
      BY <2>2, <3>1, MoveKeepsWords
    <3>3. rows' = rows \union {[r EXCEPT !.table = t]}
      BY <2>1, <2>3
    <3>4. QED
      BY <1>3, <3>2, <3>3
  <2>4. CASE ~(Lanes[t] = Lanes[r.table] \/ r.doc = Null)
    <3> DEFINE n == Reshredded(t, Lanes[t], Lanes[r.table], r)
    <3>1. n \in Row /\ RowOK(n)
      BY <2>1, <2>2, <2>4, ReshreddedCorrect
    <3>2. n.lost = {}
      BY DEF Reshredded, Shredded
    <3>3. rows' = rows \union {n}
      BY <2>1, <2>4
    <3> HIDE DEF n
    <3>4. QED
      BY <1>3, <3>1, <3>2, <3>3, IntactKeepsWords
  <2>5. QED
    BY <2>3, <2>4
<1>7. ASSUME NEW t \in Table, RawInsertSelect(t)
      PROVE  WordsKept'
  <2>1. PICK r \in rows :
          rows' = rows \union {RawCast(t, Lanes[t], Lanes[r.table], r)}
    BY <1>7 DEF RawInsertSelect
  <2>2. r \in Row /\ (r.doc # Null => WordKept(r))
    BY <1>2
  <2>3. RawCast(t, Lanes[t], Lanes[r.table], r).doc = r.doc
    BY <2>2 DEF RawCast, Row
  <2>4. QED
    BY <1>3, <2>1, <2>2, <2>3, CastKeepsWords
<1>8. CASE UNCHANGED rows
  BY <1>1, <1>8 DEF WordsKept
<1>9. QED
  BY <1>1, <1>4, <1>5, <1>6, <1>7, <1>8 DEF Next

\* Whatever casts a row went through, each spill column left to it still names
\* the lanes its values were diverted from.
THEOREM StatsInvariance == Spec => []IInv
<1>1. Init => IInv
  BY InitInv DEF Init, IInv, WordsKept
<1>2. QED
  BY <1>1, NextIInv, PTL DEF Spec

-----------------------------------------------------------------------------
(* The counters. *)

\* The spill bit of a lane nothing of which was lost, on a row stamped under
\* the scan's shred set, is set exactly on a value in the residual.
LEMMA BitTellsDivert ==
  ASSUME IInv, NEW r \in rows, r.doc # Null,
         NEW L \in SUBSET Path, NEW p \in L \ ArrayPath,
         Identity(L, r), ~WordLost(L, r, p)
  PROVE  SpillBit(L, r, p) <=> r.residual[p] \in Value
<1> DEFINE w == WordOf(L, p)
<1>1. r \in Row /\ LanesOK(r) /\ StampOK(r) /\ WordKept(r)
  BY DEF IInv, Inv, TypeOK, RowOK, WordsKept
<1>2. r.written = L
  <2>1. r.set \in {Clean(L), Dirty(L)} \cap {Clean(r.written), Dirty(r.written)}
    BY <1>1 DEF Identity, StampOK, Marker
  <2>2. QED
    BY <1>1, <2>1, RowFacts, MarkerNamesSet
<1>3. p \in Diverting(r) <=> r.residual[p] \in Value
  BY <1>2 DEF Diverting
<1>4. Diverting(r) \in SUBSET L /\ r.set = Marker(L, Diverting(r))
  BY <1>1, <1>2 DEF Diverting, StampOK
<1>5. r.spill[w] \in {Null, Masks(L, Diverting(r))[w]}
  BY <1>1, <1>2, WordRange, WordsOfPath DEF WordKept
<1>6. /\ Masks(L, Diverting(r))[w] = Null <=> Diverting(r) = {}
      /\ p \in Diverting(r) <=> /\ Masks(L, Diverting(r))[w] # Null
                                /\ BitOf(L, p) \in Masks(L, Diverting(r))[w]
  BY <1>4, MasksTell
<1>7. CASE Diverting(r) = {}
  BY <1>3, <1>5, <1>6, <1>7 DEF SpillBit
<1>8. CASE Diverting(r) # {}
  <2>1. r.spill[w] = Masks(L, Diverting(r))[w]
    BY <1>4, <1>5, <1>8 DEF Marker, WordLost
  <2>2. QED
    BY <1>3, <1>6, <2>1 DEF SpillBit
<1>9. QED
  BY <1>7, <1>8

\* One row: it is counted for the lane exactly when its document has a value the
\* lane is there for.
LEMMA RowCounted ==
  ASSUME IInv, NEW r \in rows, r.doc # Null,
         NEW L \in SUBSET Path, NEW p \in L, Countable(L, r, p)
  PROVE  r.lane[p] # Null \/ Diverted(L, r, p)
           <=> r.doc[p] # Absent /\ (p \in ArrayPath \/ r.doc[p] # JsonNull)
<1>1. r \in Row /\ LanesOK(r) /\ p \in Path /\ p \notin r.lost
  BY DEF IInv, Inv, TypeOK, RowOK, Countable
<1>2. r.doc[p] \in Value \union {Absent, JsonNull} /\ r.doc[p] # Null
  BY <1>1, RowFacts, DocFacts
<1>3. CASE r.lane[p] # Null
  <2>1. r.doc[p] \in Fits[p]
    BY <1>1, <1>3 DEF LanesOK
  <2>2. r.doc[p] \in Value
    BY <1>1, <2>1, PathAssumption
  <2>3. QED
    BY <1>3, <2>2, SentinelAssumption
<1>4. CASE r.lane[p] = Null
  <2>1. p \notin r.manifest
    BY <1>1, <1>2, <1>4 DEF LanesOK
  <2>2. r.residual[p] = r.doc[p]
    BY <1>1, <2>1 DEF LanesOK
  <2>3. CASE p \notin ArrayPath /\ Identity(L, r) /\ WordOf(L, p) \in Words(L)
    <3>1. SpillBit(L, r, p) <=> r.doc[p] \in Value
      BY <2>2, <2>3, BitTellsDivert DEF Countable
    <3>2. QED
      BY <1>2, <1>4, <2>3, <3>1, SentinelAssumption DEF Diverted
  <2>4. CASE ~(p \notin ArrayPath /\ Identity(L, r) /\ WordOf(L, p) \in Words(L))
    BY <1>4, <2>2, <2>4 DEF Diverted, InResidual
  <2>5. QED
    BY <2>3, <2>4
<1>5. QED
  BY <1>3, <1>4

\* The two counters of a lane divide among them exactly the rows with a value
\* for it, unless a raw cast dropped the lane or its spill column.
THEOREM StatsCount == Spec => []StatsCountTheDocuments
<1>1. IInv => StatsCountTheDocuments
  <2>1. SUFFICES ASSUME IInv, NEW S \in Scans, NEW p \in ScanLanes(S),
                        \A r \in NonNullRows(S) : Countable(ScanLanes(S), r, p)
                 PROVE  LanePresent(S, p) \cup Divert(S, p) = Wanting(S, p)
    BY DEF StatsCountTheDocuments
  <2>2. ScanLanes(S) \in SUBSET Path
    BY TableAssumption DEF ScanLanes
  <2>3. \A r \in NonNullRows(S) : r \in rows /\ r.doc # Null
    BY DEF NonNullRows, InScan
  <2>4. \A r \in NonNullRows(S) :
          r.lane[p] # Null \/ Diverted(ScanLanes(S), r, p)
            <=> r.doc[p] # Absent /\ (p \in ArrayPath \/ r.doc[p] # JsonNull)
    BY <2>1, <2>2, <2>3, RowCounted
  <2>5. QED
    BY <2>4 DEF LanePresent, Divert, Wanting
<1>2. QED
  BY <1>1, StatsInvariance, PTL

-----------------------------------------------------------------------------
(* The proof of totality above the scans: every plan passes it on truly. *)

LEMMA Least ==
  ASSUME NEW n \in Nat, NEW S, S \subseteq 0 .. n, S # {}
  PROVE  \E m \in S : \A i \in S : m <= i
<1> DEFINE B == {T \in SUBSET (0 .. n) : T # {} /\ ~\E x \in T : \A y \in T : x <= y}
<1>1. ASSUME B # {}
      PROVE  FALSE
  <2>1. PICK T \in B : \A U \in SUBSET T : U # T => U \notin B
    <3>1. IsFiniteSet(0 .. n)
      BY FS_Interval
    <3>2. B \subseteq SUBSET (0 .. n)
      OBVIOUS
    <3> DEFINE R == StrictSubsetOrdering(0 .. n)
    <3>3. IsWellFoundedOn(R, SUBSET (0 .. n))
      BY <3>1, FS_StrictSubsetOrderingWellFounded, FS_FiniteSubsetsOfFinite
    <3>4. \A T \in B, U \in B : U \subseteq T /\ U # T => <<U, T>> \in R
      BY <3>2 DEF StrictSubsetOrdering
    <3> HIDE DEF B, R
    <3>5. \E T \in B : \A U \in B : <<U, T>> \notin R
      BY <1>1, <3>2, <3>3, WFMin
    <3> QED
      BY <3>4, <3>5
  <2>2. PICK x \in T : TRUE
    OBVIOUS
  <2>3. /\ T \subseteq 0 .. n /\ ~\E a \in T : \A y \in T : a <= y
        /\ \A U \in SUBSET T : U # T /\ U # {} => \E a \in U : \A y \in U : a <= y
    BY <2>1
  <2>4. CASE T \ {x} = {}
    <3>1. \A y \in T : x <= y
      BY <2>2, <2>3, <2>4
    <3> QED
      BY <2>2, <2>3, <3>1
  <2>5. CASE T \ {x} # {}
    <3>1. PICK a \in T \ {x} : \A y \in T \ {x} : a <= y
      BY <2>2, <2>3, <2>5
    <3>2. CASE a <= x
      <4>1. \A y \in T : a <= y
        BY <3>1, <3>2
      <4> QED
        BY <2>3, <3>1, <4>1
    <3>3. CASE ~(a <= x)
      <4>1. \A y \in T : x <= y
        BY <2>2, <2>3, <3>1, <3>3
      <4> QED
        BY <2>2, <2>3, <4>1
    <3> QED
      BY <3>2, <3>3
  <2> QED
    BY <2>4, <2>5
<1> QED
  BY <1>1

\* A row of SQL NULL has no lane either.
NullLanes == \A r \in rows : r.doc = Null => \A p \in Path : r.lane[p] = Null

LEMMA NextNullLanes ==
  ASSUME Inv, NullLanes, [Next]_rows
  PROVE  NullLanes'
<1>1. ASSUME NEW n, n.doc = Null => \A p \in Path : n.lane[p] = Null, rows' = rows \union {n}
      PROVE  NullLanes'
  BY <1>1 DEF NullLanes
<1>2. ASSUME NEW t \in Table, Insert(t)
      PROVE  NullLanes'
  <2>1. PICK d \in Doc : rows' = rows \union {Shredded(t, Lanes[t], d)}
    BY <1>2 DEF Insert
  <2> DEFINE n == Shredded(t, Lanes[t], d)
  <2>2. n.doc = d /\ d # Null
    BY SentinelAssumption DEF Shredded
  <2> HIDE DEF n
  <2> QED BY <1>1, <2>1, <2>2 DEF n
<1>3. ASSUME NEW t \in Table, InsertNull(t)
      PROVE  NullLanes'
  <2> DEFINE n == NullRow(t)
  <2>1. \A p \in Path : n.lane[p] = Null
    BY DEF NullRow
  <2>2. rows' = rows \union {n}
    BY <1>3 DEF InsertNull
  <2> HIDE DEF n
  <2> QED BY <1>1, <2>1, <2>2
<1>4. ASSUME NEW t \in Table, InsertSelect(t)
      PROVE  NullLanes'
  <2>1. PICK r \in rows :
          IF Lanes[t] = Lanes[r.table] \/ r.doc = Null
          THEN rows' = rows \union {[r EXCEPT !.table = t]}
          ELSE rows' = rows \union {Reshredded(t, Lanes[t], Lanes[r.table], r)}
    BY <1>4 DEF InsertSelect
  <2>2. CASE Lanes[t] = Lanes[r.table] \/ r.doc = Null
    <3> DEFINE n == [r EXCEPT !.table = t]
    <3>1. r \in Row
      BY DEF Inv, TypeOK
    <3>2. n.doc = r.doc /\ n.lane = r.lane
      BY <3>1 DEF Row
    <3>3. n.doc = Null => \A p \in Path : n.lane[p] = Null
      BY <3>2 DEF NullLanes
    <3>4. rows' = rows \union {n}
      BY <2>1, <2>2
    <3> HIDE DEF n
    <3> QED BY <1>1, <3>3, <3>4
  <2>3. CASE ~(Lanes[t] = Lanes[r.table] \/ r.doc = Null)
    <3> DEFINE n == Reshredded(t, Lanes[t], Lanes[r.table], r)
    <3>1. n.doc = r.doc
      BY DEF Reshredded, Shredded
    <3>2. rows' = rows \union {n}
      BY <2>1, <2>3
    <3> HIDE DEF n
    <3> QED BY <1>1, <2>3, <3>1, <3>2
  <2> QED BY <2>2, <2>3
<1>5. ASSUME NEW t \in Table, RawInsertSelect(t)
      PROVE  NullLanes'
  <2>1. PICK r \in rows : rows' = rows \union {RawCast(t, Lanes[t], Lanes[r.table], r)}
    BY <1>5 DEF RawInsertSelect
  <2> DEFINE n == RawCast(t, Lanes[t], Lanes[r.table], r)
  <2>2. r \in Row
    BY DEF Inv, TypeOK
  <2>3. n.doc = r.doc /\ n.lane = [p \in Path |-> IF p \in Lanes[t] THEN r.lane[p] ELSE Null]
    BY <2>2 DEF RawCast, Row
  <2> HIDE DEF n
  <2>4. n.doc = Null => \A p \in Path : n.lane[p] = Null
    BY <2>3 DEF NullLanes
  <2> QED BY <1>1, <2>1, <2>4 DEF n
<1>6. CASE UNCHANGED rows
  BY <1>6 DEF NullLanes
<1> QED BY <1>2, <1>3, <1>4, <1>5, <1>6 DEF Next

\* What a scan proves total answers for itself.
LEMMA ScanTotal ==
  ASSUME Inv, NullLanes, NEW S \in SUBSET Table, NEW p, Total(S, p),
         NEW r \in InScan(S), ~Regained(ScanLanes(S), r)
  PROVE  r.lane[p] = Answer(r, p)
<1>1. p \in ScanLanes(S) \ ArrayPath
  BY DEF Total
<1>2. p \in Path
  BY <1>1, TableAssumption DEF ScanLanes
<1>3. CASE r.doc = Null
  BY <1>2, <1>3 DEF NullLanes, InScan, Answer
<1>4. CASE r.doc # Null
  <2>1. r.lost \cap ScanLanes(S) = {}
    BY DEF Regained
  <2>2. Read(S, r, p) = Answer(r, p)
    BY <1>1, <1>2, <1>4, <2>1, ReadsAnswer
  <2>3. Read(S, r, p) = r.lane[p]
    BY <1>1, <1>4 DEF Read
  <2> QED BY <2>2, <2>3
<1> QED BY <1>3, <1>4

\* What is known of a column is true of the rows that come to it.
Sound(lanes, column) ==
  \A p \in lanes : \A r \in column.rows : Regained(column.lanes, r) \/ r.lane[p] = Answer(r, p)
AllSound(known, flow) == \A b : Sound(Known(known, b), Column(flow, b))
Within(known, all) == \A b : Known(known, b) \subseteq Known(all, b)

LEMMA SoundTogether ==
  ASSUME NEW lanes, NEW columns, \A c \in columns : Sound(lanes, c)
  PROVE  Sound(lanes, Together(columns))
<1> DEFINE joined == Together(columns)
<1>0. /\ joined.rows = UNION {c.rows : c \in columns}
      /\ joined.lanes = UNION {c.lanes : c \in columns}
  BY DEF Together
<1> HIDE DEF joined
<1>1. ASSUME NEW p \in lanes, NEW r \in joined.rows
      PROVE  Regained(joined.lanes, r) \/ r.lane[p] = Answer(r, p)
  <2>1. PICK c \in columns : r \in c.rows
    BY <1>0, <1>1
  <2>2. Regained(c.lanes, r) \/ r.lane[p] = Answer(r, p)
    BY <1>1, <2>1 DEF Sound
  <2>3. c.lanes \subseteq joined.lanes
    BY <1>0, <2>1
  <2>4. Regained(c.lanes, r) => Regained(joined.lanes, r)
    BY <2>3 DEF Regained
  <2> QED BY <2>2, <2>4
<1>2. Sound(lanes, joined)
  BY <1>1 DEF Sound
<1> QED BY <1>2 DEF joined

LEMMA SoundAmongSources ==
  ASSUME NEW known, NEW flow, AllSound(known, flow), NEW sources,
         NEW lanes, \A b \in sources : lanes \subseteq Known(known, b)
  PROVE  Sound(lanes, Together({Column(flow, b) : b \in sources}))
<1> DEFINE columns == {Column(flow, b) : b \in sources}
<1>1. \A c \in columns : Sound(lanes, c)
  <2>1. SUFFICES ASSUME NEW b \in sources PROVE Sound(lanes, Column(flow, b))
    OBVIOUS
  <2> QED BY DEF AllSound, Sound
<1> HIDE DEF columns
<1>2. Sound(lanes, Together(columns))
  BY <1>1, SoundTogether
<1> QED BY <1>2 DEF columns

\* What plans look like.
LEMMA PlanFacts ==
  ASSUME NEW plan \in Plans
  PROVE  /\ DOMAIN plan = 1 .. Len(plan) /\ Len(plan) \in Nat
         /\ \A n \in 1 .. Len(plan) :
              /\ \A j \in DOMAIN plan[n].children : plan[n].children[j] \in 1 .. n - 1
              /\ plan[n].kind \in {"cte", "delimjoin"} => plan[n].children[1] \in 1 .. n - 1
              /\ \A m \in (1 .. Len(plan)) \ {n} : Own(plan[m]) \cap Own(plan[n]) = {}
              /\ plan[n].kind = "get" => plan[n].scan \in SUBSET Table
BY PlanAssumption

LEMMA NearestIsStacked ==
  ASSUME NEW plan \in Plans, NEW n \in 1 .. Len(plan), Stacked(plan, n) # {}
  PROVE  Nearest(plan, n) \in Stacked(plan, n)
<1> DEFINE S == Stacked(plan, n)
           Place(d) == plan[d].children[1]
           places == {n - Place(d) : d \in S}
<1>1. Len(plan) \in Nat
  BY PlanFacts
<1>2. \A d \in S : Place(d) \in Nat /\ Place(d) < n
  <2>1. SUFFICES ASSUME NEW d \in S PROVE Place(d) \in Nat /\ Place(d) < n
    OBVIOUS
  <2>2. d \in 1 .. Len(plan) /\ plan[d].kind = "delimjoin" /\ plan[d].children[1] < n
    BY DEF Stacked
  <2>3. plan[d].children[1] \in 1 .. d - 1
    BY <2>2, PlanFacts
  <2> QED BY <1>1, <2>2, <2>3
<1> HIDE DEF S, Place
<1>3. places \subseteq 0 .. n /\ places # {} /\ n \in Nat
  <2>1. n \in Nat
    BY <1>1
  <2>2. \A d \in S : n - Place(d) \in 0 .. n
    BY <1>2, <2>1
  <2> QED BY <2>1, <2>2 DEF S
<1>4. PICK x \in places : \A y \in places : x <= y
  <2> HIDE DEF places
  <2> QED BY <1>3, Least
<1>5. PICK d \in S : x = n - Place(d)
  BY <1>4
<1>6. \A e \in S : Place(e) <= Place(d)
  <2>1. SUFFICES ASSUME NEW e \in S PROVE Place(e) <= Place(d)
    OBVIOUS
  <2>2. n - Place(d) <= n - Place(e)
    BY <1>4, <1>5
  <2> QED BY <1>2, <1>3, <2>2
<1> QED BY <1>6 DEF S, Place, Nearest

\* A snapshot is taken before it is replayed, of the operator that it is of.
LEMMA SnapshotFacts ==
  ASSUME NEW plan \in Plans, NEW n \in 1 .. Len(plan)
  PROVE  LET from == SnapshotOf(plan, n) IN
         /\ SnapshotAt(plan, n) \in 0 .. n - 1
         /\ from # 0 => \/ plan[n].kind = "cteref"
                        \/ plan[n].kind = "delimget" /\ from = Nearest(plan, n) /\ from \in Stacked(plan, n)
<1> DEFINE from == SnapshotOf(plan, n)
           S == Registered(plan, n, plan[n].index)
<1>1. Len(plan) \in Nat /\ n \in Nat /\ n # 0
  BY PlanFacts
<1>2. CASE plan[n].kind = "cteref" /\ S # {}
  <2>1. from \in S
    BY <1>2 DEF SnapshotOf
  <2>2. from \in 1 .. Len(plan) /\ plan[from].kind = "cte" /\ plan[from].children[1] < n
    BY <2>1 DEF Registered
  <2> HIDE DEF from
  <2>3. plan[from].children[1] \in 1 .. from - 1
    BY <2>2, PlanFacts
  <2>4. SnapshotAt(plan, n) = plan[from].children[1]
    BY <1>1, <2>2 DEF SnapshotAt, from
  <2>5. plan[from].children[1] \in 0 .. n - 1
    BY <1>1, <2>2, <2>3
  <2> QED BY <1>2, <2>4, <2>5 DEF from
<1>3. CASE /\ plan[n].kind = "delimget" /\ Stacked(plan, n) # {}
           /\ Len(plan[Nearest(plan, n)].columns) = plan[n].width
  <2>1. from = Nearest(plan, n)
    BY <1>3 DEF SnapshotOf
  <2>2. from \in Stacked(plan, n)
    BY <1>3, <2>1, NearestIsStacked
  <2>3. from \in 1 .. Len(plan) /\ plan[from].kind = "delimjoin" /\ plan[from].children[1] < n
    BY <2>2 DEF Stacked
  <2> HIDE DEF from
  <2>4. plan[from].children[1] \in 1 .. from - 1
    BY <2>3, PlanFacts
  <2>5. SnapshotAt(plan, n) = plan[from].children[1]
    BY <1>1, <2>3 DEF SnapshotAt, from
  <2>6. plan[from].children[1] \in 0 .. n - 1
    BY <1>1, <2>3, <2>4
  <2> QED BY <1>3, <2>1, <2>2, <2>5, <2>6 DEF from
<1>4. CASE /\ ~(plan[n].kind = "cteref" /\ S # {})
           /\ ~(/\ plan[n].kind = "delimget" /\ Stacked(plan, n) # {}
                /\ Len(plan[Nearest(plan, n)].columns) = plan[n].width)
  <2>1. from = 0
    BY <1>4 DEF SnapshotOf
  <2>2. SnapshotAt(plan, n) = n - 1
    BY <2>1 DEF SnapshotAt
  <2> QED BY <1>1, <2>1, <2>2
<1> QED BY <1>2, <1>3, <1>4

-----------------------------------------------------------------------------
(* The pass, as a function of the operators left behind. *)

IsPass(f, plan, bindings, n) ==
  f = [m \in 0 .. n |->
         IF m = 0 THEN <<>> ELSE Visited(plan, bindings, m, f[m - 1], f[SnapshotAt(plan, m)])]

LEMMA PassExists ==
  ASSUME NEW plan \in Plans, NEW bindings
  PROVE  \E f : IsPass(f, plan, bindings, Len(plan))
<1> DEFINE N == Len(plan)
           B == {m \in 0 .. N : ~\E f : IsPass(f, plan, bindings, m)}
<1>0. N \in Nat
  BY PlanFacts
<1>1. SUFFICES ASSUME B # {} PROVE FALSE
  BY <1>0
<1>2. PICK m \in B : \A i \in B : m <= i
  <2> HIDE DEF B
  <2>1. B \subseteq 0 .. N
    BY DEF B
  <2> QED BY <1>0, <1>1, <2>1, Least
<1>3. m # 0
  <2> DEFINE f == [i \in 0 .. 0 |-> << >>]
  <2>1. IsPass(f, plan, bindings, 0)
    <3>1. f = [i \in 0 .. 0 |->
                 IF i = 0 THEN <<>> ELSE Visited(plan, bindings, i, f[i - 1], f[SnapshotAt(plan, i)])]
      OBVIOUS
    <3> HIDE DEF f
    <3> QED BY <3>1 DEF IsPass
  <2> QED BY <1>2, <2>1
<1>4. m \in 1 .. N /\ m - 1 \in 0 .. N
  BY <1>0, <1>2, <1>3
<1>5. PICK v : IsPass(v, plan, bindings, m - 1)
  <2>1. m - 1 \in 0 .. N /\ ~(m <= m - 1)
    BY <1>0, <1>4
  <2> QED BY <1>2, <2>1
<1> DEFINE last == Visited(plan, bindings, m, v[m - 1], v[SnapshotAt(plan, m)])
           w == [i \in 0 .. m |-> IF i = m THEN last ELSE v[i]]
<1>6. \A i \in 0 .. m - 1 :
        v[i] = IF i = 0 THEN <<>> ELSE Visited(plan, bindings, i, v[i - 1], v[SnapshotAt(plan, i)])
  BY <1>5 DEF IsPass
<1>7. \A i \in 1 .. m : SnapshotAt(plan, i) \in 0 .. i - 1
  <2>1. \A i \in 1 .. m : i \in 1 .. N
    BY <1>0, <1>4
  <2> QED BY <2>1, SnapshotFacts
<1>8. /\ w[m] = last
      /\ \A i \in 0 .. m - 1 : w[i] = v[i]
  BY <1>0, <1>4
<1> HIDE DEF last, B
<1>9. ASSUME NEW i \in 0 .. m
      PROVE  w[i] = IF i = 0 THEN <<>> ELSE Visited(plan, bindings, i, w[i - 1], w[SnapshotAt(plan, i)])
  <2> HIDE DEF w
  <2>1. CASE i = 0
    <3>1. 0 \in 0 .. m - 1
      BY <1>0, <1>4
    <3> QED BY <1>6, <1>8, <2>1, <3>1
  <2>2. CASE i # 0
    <3>1. i \in 1 .. m /\ i - 1 \in 0 .. m - 1
      BY <1>0, <1>4, <2>2
    <3>2. SnapshotAt(plan, i) \in 0 .. m - 1
      BY <1>0, <1>4, <1>7, <3>1
    <3>3. w[i - 1] = v[i - 1] /\ w[SnapshotAt(plan, i)] = v[SnapshotAt(plan, i)]
      BY <1>8, <3>1, <3>2
    <3>4. CASE i = m
      BY <1>8, <2>2, <3>3, <3>4 DEF last
    <3>5. CASE i # m
      <4>1. i \in 0 .. m - 1
        BY <1>0, <1>4, <3>5
      <4>2. w[i] = v[i]
        BY <1>8, <4>1
      <4>3. v[i] = Visited(plan, bindings, i, v[i - 1], v[SnapshotAt(plan, i)])
        BY <1>6, <2>2, <4>1
      <4> QED BY <2>2, <3>3, <4>2, <4>3
    <3> QED BY <3>4, <3>5
  <2> QED BY <2>1, <2>2
<1>10. w = [i \in 0 .. m |-> w[i]]
  OBVIOUS
<1> HIDE DEF w
<1>11. IsPass(w, plan, bindings, m)
  <2>1. [i \in 0 .. m |-> w[i]]
          = [i \in 0 .. m |-> IF i = 0 THEN <<>> ELSE Visited(plan, bindings, i, w[i - 1], w[SnapshotAt(plan, i)])]
    BY <1>9
  <2> QED BY <1>10, <2>1 DEF IsPass
<1> QED BY <1>2, <1>11 DEF B

\* What the pass has found when it ends.
LEMMA PassIs ==
  ASSUME NEW plan \in Plans, NEW bindings
  PROVE  \E f : /\ CollectShredTotality(plan, bindings) = f[Len(plan)]
                /\ f[0] = <<>>
                /\ \A n \in 1 .. Len(plan) :
                     f[n] = Visited(plan, bindings, n, f[n - 1], f[SnapshotAt(plan, n)])
<1> DEFINE f == CHOOSE h : IsPass(h, plan, bindings, Len(plan))
<1>1. CollectShredTotality(plan, bindings) = f[Len(plan)]
  BY DEF CollectShredTotality, IsPass
<1>2. IsPass(f, plan, bindings, Len(plan))
  BY PassExists
<1>3. Len(plan) \in Nat
  BY PlanFacts
<1> HIDE DEF f
<1>4. \A n \in 0 .. Len(plan) :
        f[n] = IF n = 0 THEN <<>> ELSE Visited(plan, bindings, n, f[n - 1], f[SnapshotAt(plan, n)])
  BY <1>2 DEF IsPass
<1>5. f[0] = <<>>
  BY <1>3, <1>4
<1>6. \A n \in 1 .. Len(plan) : f[n] = Visited(plan, bindings, n, f[n - 1], f[SnapshotAt(plan, n)])
  BY <1>3, <1>4
<1> QED BY <1>1, <1>5, <1>6

\* The rows followed, as a function of the operators they have come through.
IsFlow(f, plan, bindings, n) ==
  f = [k \in 0 .. n |-> IF k = 0 THEN <<>> ELSE Onward(plan, bindings, f[k - 1])]

LEMMA FlowExists ==
  ASSUME NEW plan, NEW bindings, NEW n \in Nat
  PROVE  \E f : IsFlow(f, plan, bindings, n)
<1> DEFINE B == {m \in 0 .. n : ~\E f : IsFlow(f, plan, bindings, m)}
<1>1. SUFFICES ASSUME B # {} PROVE FALSE
  OBVIOUS
<1>2. PICK m \in B : \A i \in B : m <= i
  <2> HIDE DEF B
  <2>1. B \subseteq 0 .. n
    BY DEF B
  <2> QED BY <1>1, <2>1, Least
<1>3. m # 0
  <2> DEFINE f == [i \in 0 .. 0 |-> << >>]
  <2>1. IsFlow(f, plan, bindings, 0)
    <3>1. f = [i \in 0 .. 0 |-> IF i = 0 THEN <<>> ELSE Onward(plan, bindings, f[i - 1])]
      OBVIOUS
    <3> HIDE DEF f
    <3> QED BY <3>1 DEF IsFlow
  <2> QED BY <1>2, <2>1
<1>4. m \in 1 .. n /\ m - 1 \in 0 .. n
  BY <1>2, <1>3
<1>5. PICK v : IsFlow(v, plan, bindings, m - 1)
  <2>1. m - 1 \in 0 .. n /\ ~(m <= m - 1)
    BY <1>4
  <2> QED BY <1>2, <2>1
<1> DEFINE last == Onward(plan, bindings, v[m - 1])
           w == [i \in 0 .. m |-> IF i = m THEN last ELSE v[i]]
<1>6. \A i \in 0 .. m - 1 : v[i] = IF i = 0 THEN <<>> ELSE Onward(plan, bindings, v[i - 1])
  BY <1>5 DEF IsFlow
<1>7. w[m] = last /\ \A i \in 0 .. m - 1 : w[i] = v[i]
  BY <1>4
<1> HIDE DEF last, B
<1>8. ASSUME NEW i \in 0 .. m
      PROVE  w[i] = IF i = 0 THEN <<>> ELSE Onward(plan, bindings, w[i - 1])
  <2> HIDE DEF w
  <2>1. CASE i = 0
    <3>1. 0 \in 0 .. m - 1
      BY <1>4
    <3> QED BY <1>6, <1>7, <2>1, <3>1
  <2>2. CASE i # 0
    <3>1. i - 1 \in 0 .. m - 1
      BY <1>4, <2>2
    <3>2. w[i - 1] = v[i - 1]
      BY <1>7, <3>1
    <3>3. CASE i = m
      BY <1>7, <2>2, <3>2, <3>3 DEF last
    <3>4. CASE i # m
      <4>1. i \in 0 .. m - 1
        BY <1>4, <3>4
      <4> QED BY <1>6, <1>7, <2>2, <3>2, <4>1
    <3> QED BY <3>3, <3>4
  <2> QED BY <2>1, <2>2
<1>9. w = [i \in 0 .. m |-> w[i]]
  OBVIOUS
<1> HIDE DEF w
<1>10. IsFlow(w, plan, bindings, m)
  <2>1. [i \in 0 .. m |-> w[i]] = [i \in 0 .. m |-> IF i = 0 THEN <<>> ELSE Onward(plan, bindings, w[i - 1])]
    BY <1>8
  <2> QED BY <1>9, <2>1 DEF IsFlow
<1> QED BY <1>2, <1>10 DEF B

LEMMA FlowIs ==
  ASSUME NEW plan, NEW bindings
  PROVE  \E f : /\ Flow(plan, bindings) = f[Rounds]
                /\ f[0] = <<>>
                /\ \A k \in 1 .. Rounds : f[k] = Onward(plan, bindings, f[k - 1])
<1> DEFINE f == CHOOSE h : IsFlow(h, plan, bindings, Rounds)
<1>1. Flow(plan, bindings) = f[Rounds]
  BY DEF Flow, IsFlow
<1>2. Rounds \in Nat
  BY PlanAssumption
<1>3. IsFlow(f, plan, bindings, Rounds)
  BY <1>2, FlowExists
<1> HIDE DEF f
<1>4. \A k \in 0 .. Rounds : f[k] = IF k = 0 THEN <<>> ELSE Onward(plan, bindings, f[k - 1])
  BY <1>3 DEF IsFlow
<1>5. f[0] = <<>>
  BY <1>2, <1>4
<1>6. \A k \in 1 .. Rounds : f[k] = Onward(plan, bindings, f[k - 1])
  BY <1>2, <1>4
<1> QED BY <1>1, <1>5, <1>6

LEMMA VisitedKeeps ==
  ASSUME NEW plan, NEW bindings, NEW n, NEW known, NEW snapshot
  PROVE  LET after == Visited(plan, bindings, n, known, snapshot)
             found == Found(plan, bindings, n, known, snapshot)
         IN /\ DOMAIN known \subseteq DOMAIN after
            /\ \A b \in DOMAIN known : after[b] = known[b]
            /\ \A b \in DOMAIN after \ DOMAIN known :
                 b \in Own(plan[n]) /\ b[2] \in DOMAIN found /\ after[b] = found[b[2]]
<1> DEFINE found == Found(plan, bindings, n, known, snapshot)
           new == Rebound(plan[n], found)
           after == Visited(plan, bindings, n, known, snapshot)
<1>1. after = [b \in DOMAIN known \cup DOMAIN new |-> IF b \in DOMAIN known THEN known[b] ELSE new[b]]
  BY DEF Visited, Joined
<1>2. new = [b \in {c \in Own(plan[n]) : c[2] \in DOMAIN found} |-> found[b[2]]]
  BY DEF Rebound
<1> HIDE DEF found, new, after
<1>3. \A b \in DOMAIN new : b \in Own(plan[n]) /\ b[2] \in DOMAIN found /\ new[b] = found[b[2]]
  BY <1>2
<1>4. /\ DOMAIN known \subseteq DOMAIN after
      /\ \A b \in DOMAIN known : after[b] = known[b]
      /\ \A b \in DOMAIN after \ DOMAIN known :
           b \in Own(plan[n]) /\ b[2] \in DOMAIN found /\ after[b] = found[b[2]]
  BY <1>1, <1>3
<1> QED BY <1>4 DEF found, after

\* What the pass does, and what it finds of column b at operator n.
Passes(f, plan, bindings, N) ==
  \A n \in 1 .. N : f[n] = Visited(plan, bindings, n, f[n - 1], f[SnapshotAt(plan, n)])
FoundAt(f, plan, bindings, n) == Found(plan, bindings, n, f[n - 1], f[SnapshotAt(plan, n)])

\* What is known once stays known as it is.
LEMMA PassKeeps ==
  ASSUME NEW N \in Nat, NEW plan, NEW bindings, NEW f,
         Passes(f, plan, bindings, N),
         NEW m \in 0 .. N
  PROVE  DOMAIN f[m] \subseteq DOMAIN f[N] /\ \A b \in DOMAIN f[m] : f[N][b] = f[m][b]
<1> DEFINE Kept(n) == DOMAIN f[m] \subseteq DOMAIN f[n] /\ \A b \in DOMAIN f[m] : f[n][b] = f[m][b]
           B == {n \in m .. N : ~Kept(n)}
<1>1. SUFFICES ASSUME B # {} PROVE FALSE
  <2>1. N \in m .. N
    OBVIOUS
  <2>2. B = {} => Kept(N)
    BY <2>1
  <2> HIDE DEF B
  <2> QED BY <2>2
<1>2. PICK n \in B : \A i \in B : n <= i
  <2> HIDE DEF B
  <2>1. B \subseteq 0 .. N
    BY DEF B
  <2> QED BY <1>1, <2>1, Least
<1>3. n \in m .. N /\ ~Kept(n)
  BY <1>2
<1>4. n # m
  BY <1>3
<1>5. n - 1 \in m .. N /\ n \in 1 .. N
  BY <1>3, <1>4
<1>6. Kept(n - 1)
  BY <1>2, <1>5
<1> HIDE DEF B
<1>7. f[n] = Visited(plan, bindings, n, f[n - 1], f[SnapshotAt(plan, n)])
  BY <1>5 DEF Passes
<1>8. DOMAIN f[n - 1] \subseteq DOMAIN f[n] /\ \A b \in DOMAIN f[n - 1] : f[n][b] = f[n - 1][b]
  <2> DEFINE after == Visited(plan, bindings, n, f[n - 1], f[SnapshotAt(plan, n)])
  <2>1. DOMAIN f[n - 1] \subseteq DOMAIN after /\ \A b \in DOMAIN f[n - 1] : after[b] = f[n - 1][b]
    BY VisitedKeeps
  <2> HIDE DEF after
  <2>2. f[n] = after
    BY <1>7 DEF after
  <2> QED BY <2>1, <2>2
<1>9. Kept(n)
  BY <1>6, <1>8
<1> QED BY <1>3, <1>9

LEMMA PassWithin ==
  ASSUME NEW N \in Nat, NEW plan, NEW bindings, NEW f,
         Passes(f, plan, bindings, N),
         NEW m \in 0 .. N
  PROVE  Within(f[m], f[N])
<1>1. DOMAIN f[m] \subseteq DOMAIN f[N] /\ \A b \in DOMAIN f[m] : f[N][b] = f[m][b]
  BY PassKeeps
<1> QED BY <1>1 DEF Within, Known

\* What is known of a column was found at its own operator.
LEMMA FoundAtItsOperator ==
  ASSUME NEW N \in Nat, NEW plan, NEW bindings, NEW f, f[0] = <<>>,
         Passes(f, plan, bindings, N),
         NEW b \in DOMAIN f[N]
  PROVE  \E n \in 1 .. N :
           /\ b \in Own(plan[n]) /\ b[2] \in DOMAIN FoundAt(f, plan, bindings, n)
           /\ f[N][b] = FoundAt(f, plan, bindings, n)[b[2]]
<1> DEFINE B == {n \in 0 .. N : b \in DOMAIN f[n]}
<1>1. B \subseteq 0 .. N /\ N \in B
  OBVIOUS
<1>2. PICK n \in B : \A i \in B : n <= i
  <2> HIDE DEF B
  <2> QED BY <1>1, Least
<1>3. n \in 1 .. N /\ n - 1 \in 0 .. N /\ b \in DOMAIN f[n]
  BY <1>2
<1>4. b \notin DOMAIN f[n - 1]
  <2>1. ~(n <= n - 1)
    BY <1>3
  <2> QED BY <1>2, <1>3, <2>1
<1> DEFINE found == Found(plan, bindings, n, f[n - 1], f[SnapshotAt(plan, n)])
<1>5. f[n] = Visited(plan, bindings, n, f[n - 1], f[SnapshotAt(plan, n)])
  BY <1>3 DEF Passes
<1>6. b \in Own(plan[n]) /\ b[2] \in DOMAIN found /\ f[n][b] = found[b[2]]
  BY <1>3, <1>4, <1>5, VisitedKeeps
<1>7. f[N][b] = f[n][b]
  <2>1. n \in 0 .. N
    BY <1>2
  <2> HIDE DEF B, found
  <2>2. DOMAIN f[n] \subseteq DOMAIN f[N] /\ \A c \in DOMAIN f[n] : f[N][c] = f[n][c]
    BY <2>1, PassKeeps
  <2> QED BY <1>3, <2>2
<1> HIDE DEF B
<1> QED BY <1>3, <1>6, <1>7 DEF FoundAt

-----------------------------------------------------------------------------
(* One operator. *)

\* If everything known below is true of the rows so far, what the operator adds is
\* true of the rows it brings.
LEMMA GetIsSound ==
  ASSUME Inv, NullLanes, NEW plan \in Plans, NEW n \in 1 .. Len(plan), plan[n].kind = "get",
         NEW bindings, NEW known, NEW snapshot, NEW flow, NEW i,
         i \in DOMAIN Found(plan, bindings, n, known, snapshot)
  PROVE  Sound(Found(plan, bindings, n, known, snapshot)[i], Brought(plan, bindings, n, i, flow))
<1> DEFINE S == plan[n].scan
           lanes == {p \in ScanLanes(S) : Total(S, p)}
           column == [lanes |-> ScanLanes(S), rows |-> InScan(S) \cup {OuterRow}]
<1>1. S \in SUBSET Table
  BY PlanFacts
<1>2. Found(plan, bindings, n, known, snapshot) = <<lanes>>
  BY DEF Found
<1>3. Found(plan, bindings, n, known, snapshot)[i] = lanes
  BY <1>2
<1>4. Brought(plan, bindings, n, i, flow) = column
  BY DEF Brought
<1>5. ASSUME NEW p \in lanes, NEW r \in column.rows
      PROVE  Regained(column.lanes, r) \/ r.lane[p] = Answer(r, p)
  <2>1. CASE r \in InScan(S)
    <3>1. Total(S, p)
      OBVIOUS
    <3>2. Regained(ScanLanes(S), r) \/ r.lane[p] = Answer(r, p)
      BY <1>1, <2>1, <3>1, ScanTotal
    <3> QED BY <3>2
  <2>2. CASE r = OuterRow
    <3>1. p \in Path
      BY <1>1, TableAssumption DEF ScanLanes
    <3> QED BY <2>2, <3>1 DEF OuterRow, NullRow, Answer
  <2> QED BY <2>1, <2>2
<1> HIDE DEF lanes, column
<1> QED BY <1>3, <1>4, <1>5 DEF Sound

\* Any other operator whose column has its rows from others.
LEMMA CarriedIsSound ==
  ASSUME NEW plan, NEW bindings, NEW n, NEW i, NEW all, NEW flow, AllSound(all, flow),
         plan[n].kind # "get",
         ~(plan[n].kind = "projection" /\ plan[n].exprs[i].kind = "cast"),
         NEW lanes, \A b \in Sources(plan, bindings, n, i) : lanes \subseteq Known(all, b)
  PROVE  Sound(lanes, Brought(plan, bindings, n, i, flow))
<1> DEFINE sources == Sources(plan, bindings, n, i)
           columns == {Column(flow, b) : b \in sources}
<1>1. Brought(plan, bindings, n, i, flow) = Together(columns)
  BY DEF Brought
<1>2. \A b \in sources : lanes \subseteq Known(all, b)
  OBVIOUS
<1> HIDE DEF sources
<1>3. Sound(lanes, Together({Column(flow, b) : b \in sources}))
  BY <1>2, SoundAmongSources
<1> QED BY <1>1, <1>3

LEMMA ReplayIsSound ==
  ASSUME NEW plan \in Plans, NEW n \in 1 .. Len(plan), plan[n].kind \in {"cteref", "delimget"},
         NEW bindings, NEW known, NEW snapshot, NEW flow, NEW i,
         i \in DOMAIN Found(plan, bindings, n, known, snapshot),
         NEW all, Within(snapshot, all), AllSound(all, flow)
  PROVE  Sound(Found(plan, bindings, n, known, snapshot)[i], Brought(plan, bindings, n, i, flow))
<1> DEFINE from == SnapshotOf(plan, n)
           columns == Replayed(plan, bindings, n)
           lanes == Known(snapshot, columns[i])
<1>1. Found(plan, bindings, n, known, snapshot) = [j \in DOMAIN columns |-> Known(snapshot, columns[j])]
  BY DEF Found, Snapshot
<1>2. i \in DOMAIN columns /\ Found(plan, bindings, n, known, snapshot)[i] = lanes
  BY <1>1
<1>3. from # 0
  <2>1. from = 0 => columns = <<>>
    BY DEF Replayed
  <2> HIDE DEF from, columns
  <2> QED BY <1>2, <2>1
<1>4. \A b \in Sources(plan, bindings, n, i) : b = columns[i]
  <2>1. CASE plan[n].kind = "cteref"
    <3>1. columns = bindings[plan[from].children[1]]
      BY <1>3, <2>1 DEF Replayed
    <3>2. Behind(plan, n) = {plan[from].children[1]}
      BY <1>3, <2>1 DEF Behind
    <3>3. Sources(plan, bindings, n, i) = {bindings[m][i] : m \in Behind(plan, n)}
      BY <2>1 DEF Sources
    <3> QED BY <3>1, <3>2, <3>3
  <2>2. CASE plan[n].kind = "delimget"
    <3>1. columns = plan[from].columns
      BY <1>3, <2>2 DEF Replayed
    <3>2. from = Nearest(plan, n)
      BY <1>3, <2>2, SnapshotFacts
    <3>3. Sources(plan, bindings, n, i) = {plan[d].columns[i] : d \in {Nearest(plan, n)} \cap Stacked(plan, n)}
      BY <2>2 DEF Sources
    <3> QED BY <3>1, <3>2, <3>3
  <2> QED BY <2>1, <2>2
<1>5. \A b \in Sources(plan, bindings, n, i) : lanes \subseteq Known(all, b)
  BY <1>4 DEF Within
<1> HIDE DEF lanes, from, columns
<1>6. Sound(lanes, Brought(plan, bindings, n, i, flow))
  BY <1>5, CarriedIsSound
<1> QED BY <1>2, <1>6

LEMMA MergeIsSound ==
  ASSUME NEW plan \in Plans, NEW n \in 1 .. Len(plan), plan[n].kind = "setop",
         NEW bindings, NEW known, NEW snapshot, NEW flow, NEW i,
         i \in DOMAIN Found(plan, bindings, n, known, snapshot),
         NEW all, Within(known, all), AllSound(all, flow)
  PROVE  Sound(Found(plan, bindings, n, known, snapshot)[i], Brought(plan, bindings, n, i, flow))
<1> DEFINE children == plan[n].children
           branches == [j \in DOMAIN children |-> bindings[children[j]]]
           branch == [j \in DOMAIN branches |-> Snapshot(known, branches[j])]
           lanes == {p \in branch[1][i] : \A j \in DOMAIN branch : i \in DOMAIN branch[j] /\ p \in branch[j][i]}
<1>1. Found(plan, bindings, n, known, snapshot) = MergedBranches(known, branches)
  BY DEF Found
<1>2. MergedBranches(known, branches)
        = [k \in DOMAIN branch[1] |->
             {p \in branch[1][k] : \A j \in DOMAIN branch : k \in DOMAIN branch[j] /\ p \in branch[j][k]}]
  BY DEF MergedBranches
<1>3. Found(plan, bindings, n, known, snapshot)[i] = lanes
  <2> DEFINE found == Found(plan, bindings, n, known, snapshot)
  <2> HIDE DEF branch, found
  <2>1. found = [k \in DOMAIN branch[1] |->
                   {p \in branch[1][k] : \A j \in DOMAIN branch : k \in DOMAIN branch[j] /\ p \in branch[j][k]}]
    BY <1>1, <1>2 DEF found
  <2>2. i \in DOMAIN found
    BY DEF found
  <2>3. found[i] = lanes
    BY <2>1, <2>2
  <2> QED BY <2>3 DEF found
<1>4. ASSUME NEW j \in DOMAIN children
      PROVE  lanes \subseteq Known(known, bindings[children[j]][i])
  <2>1. branch[j] = [k \in DOMAIN bindings[children[j]] |-> Known(known, bindings[children[j]][k])]
    BY DEF Snapshot
  <2>2. DOMAIN branch = DOMAIN children
    OBVIOUS
  <2> HIDE DEF branch, branches, children
  <2>3. \A p \in lanes : i \in DOMAIN branch[j] /\ p \in branch[j][i]
    BY <2>2
  <2>4. \A p \in lanes : p \in Known(known, bindings[children[j]][i])
    BY <2>1, <2>3
  <2> QED BY <2>4
<1> HIDE DEF lanes
<1>5. \A b \in Sources(plan, bindings, n, i) : lanes \subseteq Known(all, b)
  <2>1. Sources(plan, bindings, n, i) = {bindings[m][i] : m \in Behind(plan, n)}
    BY DEF Sources
  <2>2. Behind(plan, n) = {children[j] : j \in DOMAIN children}
    BY DEF Behind
  <2>3. SUFFICES ASSUME NEW b \in Sources(plan, bindings, n, i) PROVE lanes \subseteq Known(all, b)
    OBVIOUS
  <2>4. PICK j \in DOMAIN children : b = bindings[children[j]][i]
    BY <2>1, <2>2
  <2>5. Known(known, b) \subseteq Known(all, b)
    BY DEF Within
  <2> QED BY <1>4, <2>4, <2>5
<1>6. Sound(lanes, Brought(plan, bindings, n, i, flow))
  BY <1>5, CarriedIsSound
<1> QED BY <1>3, <1>6

LEMMA ForwardIsSound ==
  ASSUME NEW plan \in Plans, NEW n \in 1 .. Len(plan), plan[n].kind = "projection",
         NEW bindings, NEW known, NEW snapshot, NEW flow, NEW i,
         i \in DOMAIN Found(plan, bindings, n, known, snapshot),
         NEW all, Within(known, all), AllSound(all, flow)
  PROVE  Sound(Found(plan, bindings, n, known, snapshot)[i], Brought(plan, bindings, n, i, flow))
<1> DEFINE exprs == plan[n].exprs
           lanes == IF exprs[i].kind = "ref" THEN Known(known, exprs[i].binding) ELSE {}
<1>1. Found(plan, bindings, n, known, snapshot)
        = [j \in DOMAIN exprs |-> IF exprs[j].kind = "ref" THEN Known(known, exprs[j].binding) ELSE {}]
  BY DEF Found, Forwarded
<1>2. Found(plan, bindings, n, known, snapshot)[i] = lanes
  BY <1>1
<1>3. CASE exprs[i].kind = "ref"
  <2>1. Sources(plan, bindings, n, i) = {exprs[i].binding}
    BY <1>3 DEF Sources
  <2>2. \A b \in Sources(plan, bindings, n, i) : lanes \subseteq Known(all, b)
    BY <1>3, <2>1 DEF Within
  <2>3. ~(plan[n].kind = "projection" /\ plan[n].exprs[i].kind = "cast")
    BY <1>3
  <2> HIDE DEF lanes
  <2>4. Sound(lanes, Brought(plan, bindings, n, i, flow))
    BY <2>2, <2>3, CarriedIsSound
  <2> QED BY <1>2, <2>4
<1>4. CASE exprs[i].kind # "ref"
  BY <1>2, <1>4 DEF Sound
<1> QED BY <1>3, <1>4

LEMMA OperatorIsSound ==
  ASSUME Inv, NullLanes, NEW plan \in Plans, NEW n \in 1 .. Len(plan),
         NEW bindings, NEW known, NEW snapshot, NEW flow, NEW i,
         i \in DOMAIN Found(plan, bindings, n, known, snapshot),
         NEW all, Within(known, all), Within(snapshot, all), AllSound(all, flow)
  PROVE  Sound(Found(plan, bindings, n, known, snapshot)[i], Brought(plan, bindings, n, i, flow))
<1>1. CASE plan[n].kind = "get"
  BY <1>1, GetIsSound
<1>2. CASE plan[n].kind \in {"cteref", "delimget"}
  BY <1>2, ReplayIsSound
<1>3. CASE plan[n].kind = "setop"
  BY <1>3, MergeIsSound
<1>4. CASE plan[n].kind = "projection"
  BY <1>4, ForwardIsSound
<1>5. CASE plan[n].kind \notin {"get", "cteref", "delimget", "setop", "projection"}
  <2>1. Found(plan, bindings, n, known, snapshot) = <<>>
    BY <1>5 DEF Found
  <2> QED BY <2>1
<1> QED BY <1>1, <1>2, <1>3, <1>4, <1>5

-----------------------------------------------------------------------------
(* The whole plan. *)

LEMMA PlanIsSound ==
  ASSUME Inv, NullLanes, NEW plan \in Plans, NEW bindings
  PROVE  AllSound(CollectShredTotality(plan, bindings), Flow(plan, bindings))
<1> DEFINE N == Len(plan)
<1>1. N \in Nat /\ DOMAIN plan = 1 .. N
  BY PlanFacts
<1>2. PICK f : /\ CollectShredTotality(plan, bindings) = f[Len(plan)]
               /\ f[0] = <<>>
               /\ \A n \in 1 .. Len(plan) :
                    f[n] = Visited(plan, bindings, n, f[n - 1], f[SnapshotAt(plan, n)])
  BY PassIs
<1>3. PICK g : /\ Flow(plan, bindings) = g[Rounds]
               /\ g[0] = <<>>
               /\ \A k \in 1 .. Rounds : g[k] = Onward(plan, bindings, g[k - 1])
  BY FlowIs
<1> DEFINE all == f[N]
           B == {k \in 0 .. Rounds : ~AllSound(all, g[k])}
<1>4. Rounds \in Nat
  BY PlanAssumption
<1>5. SUFFICES ASSUME B # {} PROVE FALSE
  <2>1. Rounds \in 0 .. Rounds
    BY <1>4
  <2> QED BY <1>2, <1>3, <2>1
<1>6. PICK k \in B : \A j \in B : k <= j
  <2> HIDE DEF B
  <2>1. B \subseteq 0 .. Rounds
    BY DEF B
  <2> QED BY <1>4, <1>5, <2>1, Least
<1>7. k \in 0 .. Rounds /\ ~AllSound(all, g[k])
  BY <1>6
<1> HIDE DEF all
<1>8. k # 0
  <2>1. ASSUME NEW b PROVE Sound(Known(all, b), Column(<<>>, b))
    <3>1. Column(<<>>, b) = Empty
      BY DEF Column
    <3> QED BY <3>1 DEF Sound, Empty
  <2> QED BY <1>3, <1>7, <2>1 DEF AllSound
<1>9. k - 1 \in 0 .. Rounds /\ k \in 1 .. Rounds
  BY <1>4, <1>7, <1>8
<1>10. AllSound(all, g[k - 1])
  <2>1. ~(k <= k - 1)
    BY <1>9
  <2> QED BY <1>6, <1>9, <2>1
<1> HIDE DEF B
<1> DEFINE flow == g[k - 1]
<1>11. g[k] = Onward(plan, bindings, flow)
  BY <1>3, <1>9
<1> HIDE DEF flow
<1>12. Passes(f, plan, bindings, N)
  BY <1>2 DEF Passes
<1>13. ASSUME NEW b
       PROVE  Sound(Known(all, b), Column(g[k], b))
  <2>1. CASE b \notin DOMAIN all
    BY <2>1 DEF Known, Sound
  <2>2. CASE b \in DOMAIN all
    <3>1. PICK n \in 1 .. N :
            /\ b \in Own(plan[n]) /\ b[2] \in DOMAIN FoundAt(f, plan, bindings, n)
            /\ all[b] = FoundAt(f, plan, bindings, n)[b[2]]
      <4>1. b \in DOMAIN f[N]
        BY <2>2 DEF all
      <4>2. \E m \in 1 .. N :
              /\ b \in Own(plan[m]) /\ b[2] \in DOMAIN FoundAt(f, plan, bindings, m)
              /\ f[N][b] = FoundAt(f, plan, bindings, m)[b[2]]
        <5> HIDE DEF N
        <5> QED BY <1>1, <1>2, <1>12, <4>1, FoundAtItsOperator
      <4> QED BY <4>2 DEF all
    <3> DEFINE i == b[2]
               known == f[n - 1]
               snapshot == f[SnapshotAt(plan, n)]
    <3>2. n - 1 \in 0 .. N /\ SnapshotAt(plan, n) \in 0 .. N
      <4>1. SnapshotAt(plan, n) \in 0 .. n - 1
        BY <3>1, SnapshotFacts
      <4> QED BY <1>1, <3>1, <4>1
    <3>3. Within(known, all) /\ Within(snapshot, all)
      <4> HIDE DEF N
      <4>3. \A m \in 0 .. N : Within(f[m], f[N])
        BY <1>1, <1>12, PassWithin
      <4> QED BY <3>2, <4>3 DEF all
    <3>4. b \in PlanColumns(plan)
      BY <1>1, <3>1 DEF PlanColumns
    <3>5. (CHOOSE m \in DOMAIN plan : b \in Own(plan[m])) = n
      <4>1. \A m \in DOMAIN plan : b \in Own(plan[m]) => m = n
        <5>1. \A m \in (1 .. N) \ {n} : Own(plan[m]) \cap Own(plan[n]) = {}
          BY <3>1, PlanFacts
        <5> QED BY <1>1, <3>1, <5>1
      <4> QED BY <1>1, <3>1, <4>1
    <3>6. b \in DOMAIN g[k] /\ g[k][b] = Brought(plan, bindings, n, i, flow)
      BY <1>11, <3>4, <3>5 DEF Onward
    <3>7. Column(g[k], b) = Brought(plan, bindings, n, i, flow)
      BY <3>6 DEF Column
    <3>8. Known(all, b) = Found(plan, bindings, n, known, snapshot)[i]
          /\ i \in DOMAIN Found(plan, bindings, n, known, snapshot)
      BY <2>2, <3>1 DEF Known, FoundAt
    <3>9. AllSound(all, flow)
      BY <1>10 DEF flow
    <3> HIDE DEF i, known, snapshot
    <3>10. Sound(Found(plan, bindings, n, known, snapshot)[i], Brought(plan, bindings, n, i, flow))
      BY <3>1, <3>3, <3>8, <3>9, OperatorIsSound
    <3> QED BY <3>7, <3>8, <3>10
  <2> QED BY <2>1, <2>2
<1> QED BY <1>7, <1>13 DEF AllSound

\* A lane that CollectShredTotality calls total, over any query plan, holds the
\* document's value in every row that comes to the read, after any writes.
THEOREM TotalityOfPlans == Spec => []TotalLanesReadTrueInEveryPlan
<1>1. Init => Inv /\ NullLanes
  BY InitInv DEF Init, NullLanes
<1>2. Inv /\ NullLanes /\ [Next]_rows => Inv' /\ NullLanes'
  BY NextInv, NextNullLanes
<1>3. Inv /\ NullLanes => TotalLanesReadTrueInEveryPlan
  <2>1. SUFFICES ASSUME Inv, NullLanes, NEW plan \in Plans
                 PROVE  LET bindings == ColumnBindings(plan)
                            total == CollectShredTotality(plan, bindings)
                            flow == Flow(plan, bindings)
                        IN \A b \in DOMAIN total \cap DOMAIN flow : \A p \in total[b] : \A r \in flow[b].rows :
                             Regained(flow[b].lanes, r) \/ r.lane[p] = Answer(r, p)
    BY DEF TotalLanesReadTrueInEveryPlan
  <2> DEFINE bindings == ColumnBindings(plan)
             total == CollectShredTotality(plan, bindings)
             flow == Flow(plan, bindings)
  <2>2. AllSound(total, flow)
    BY <2>1, PlanIsSound
  <2> HIDE DEF total, flow, bindings
  <2>3. \A b \in DOMAIN total \cap DOMAIN flow : Sound(total[b], flow[b])
    BY <2>2 DEF AllSound, Known, Column
  <2> QED BY <2>3 DEF Sound, total, flow, bindings
<1> QED BY <1>1, <1>2, <1>3, PTL DEF Spec
=============================================================================
