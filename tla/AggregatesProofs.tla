--------------------------- MODULE AggregatesProofs ---------------------------
(* Theorems about Aggregates, for any rows, states, texts, documents, caps   *)
(* and fractions.                                                            *)
(*                                                                           *)
(* The inductive invariant is one for min and max and one for the advisor.   *)
(* Of min and max: what is allocated is owned, each buffer by one state, and *)
(* every state stands for the texts of its rows.  Of the advisor: every      *)
(* counter of a state is the number of rows, or of elements of their arrays, *)
(* that it counts, and no state holds more paths than the cap.  Counters of  *)
(* rows that have nothing in common add up, and a document counts as one.    *)
(*                                                                           *)
(* First come lemmas about Extrema and Groups: the canonical rendering of    *)
(* numbers, the order of texts, the allocation of buffers and what a fold    *)
(* over the rows of a state leaves, by induction on a least counterexample.  *)
EXTENDS Aggregates, SequenceTheorems, FiniteSetTheorems, WellFoundedInduction, TLAPS

-----------------------------------------------------------------------------
(* The least element of a bounded set. *)

LEMMA Least ==
  ASSUME NEW n \in Nat, NEW S, S \subseteq 0 .. n, S # {}
  PROVE  \E m \in S : \A i \in S : m <= i
<1> DEFINE B == {T \in SUBSET (0 .. n) : T # {} /\ ~\E x \in T : \A y \in T : x <= y}
<1>1. ASSUME B # {}
      PROVE  FALSE
  <2>1. PICK T \in B : \A U \in SUBSET T : U # T => U \notin B
    <3>1. IsFiniteSet(0 .. n)
      BY FS_Interval
    <3>2. B \subseteq SUBSET (0 .. n)
      OBVIOUS
    <3> DEFINE R == StrictSubsetOrdering(0 .. n)
    <3>3. IsWellFoundedOn(R, SUBSET (0 .. n))
      BY <3>1, FS_StrictSubsetOrderingWellFounded, FS_FiniteSubsetsOfFinite
    <3>4. \A T \in B, U \in B : U \subseteq T /\ U # T => <<U, T>> \in R
      BY <3>2 DEF StrictSubsetOrdering
    <3> HIDE DEF B, R
    <3>5. \E T \in B : \A U \in B : <<U, T>> \notin R
      BY <1>1, <3>2, <3>3, WFMin
    <3> QED
      BY <3>4, <3>5
  <2>2. PICK x \in T : TRUE
    OBVIOUS
  <2>3. /\ T \subseteq 0 .. n /\ ~\E a \in T : \A y \in T : a <= y
        /\ \A U \in SUBSET T : U # T /\ U # {} => \E a \in U : \A y \in U : a <= y
    BY <2>1
  <2>4. CASE T \ {x} = {}
    <3>1. \A y \in T : x <= y
      BY <2>2, <2>3, <2>4
    <3> QED
      BY <2>2, <2>3, <3>1
  <2>5. CASE T \ {x} # {}
    <3>1. PICK a \in T \ {x} : \A y \in T \ {x} : a <= y
      BY <2>2, <2>3, <2>5
    <3>2. CASE a <= x
      <4>1. \A y \in T : a <= y
        BY <3>1, <3>2
      <4> QED
        BY <2>3, <3>1, <4>1
    <3>3. CASE ~(a <= x)
      <4>1. \A y \in T : x <= y
        BY <2>2, <2>3, <3>1, <3>3
      <4> QED
        BY <2>2, <2>3, <4>1
    <3> QED
      BY <3>2, <3>3
  <2> QED
    BY <2>4, <2>5
<1> QED
  BY <1>1

-----------------------------------------------------------------------------
(* The order of bytes. *)

\* x and y agree on n bytes, and then x ends or has the smaller byte.
Parts(x, y, n) ==
  /\ n <= Len(x)
  /\ \A i \in 1 .. n : x[i] = y[i]
  /\ Len(x) = n \/ x[n + 1] < y[n + 1]

LEMMA BeforeIs ==
  ASSUME NEW x \in Bytes, NEW y \in Bytes
  PROVE  Before(x, y) <=> \E n \in 0 .. Len(y) - 1 : Parts(x, y, n)
<1>1. ASSUME NEW n \in 0 .. Len(y) - 1
      PROVE  IsPrefix(SubSeq(y, 1, n), x) <=> n <= Len(x) /\ \A i \in 1 .. n : x[i] = y[i]
  <2> DEFINE s == SubSeq(y, 1, n)
  <2>1. s \in Bytes /\ Len(s) = n /\ \A i \in 1 .. n : s[i] = y[i]
    BY DEF Bytes
  <2>2. s = SubSeq(s, 1, n)
    BY <2>1 DEF Bytes
  <2>3. n <= Len(x) => /\ SubSeq(x, 1, n) \in Bytes /\ Len(SubSeq(x, 1, n)) = n
                       /\ \A i \in 1 .. n : SubSeq(x, 1, n)[i] = x[i]
    BY DEF Bytes
  <2> HIDE DEF s
  <2>4. n <= Len(x) => (s = SubSeq(x, 1, n) <=> \A i \in 1 .. n : x[i] = y[i])
    BY <2>1, <2>3, SeqEqual DEF Bytes
  <2> QED
    BY <2>1, <2>2, <2>4 DEF IsPrefix, s
<1> QED
  BY <1>1 DEF Before, Parts

LEMMA BeforeTotal ==
  ASSUME NEW x \in Bytes, NEW y \in Bytes, x # y
  PROVE  Before(x, y) \/ Before(y, x)
<1>1. Len(x) \in Nat /\ Len(y) \in Nat
  BY DEF Bytes
<1> DEFINE shorter == IF Len(x) <= Len(y) THEN Len(x) ELSE Len(y)
           D == {n \in 0 .. shorter : n = shorter \/ x[n + 1] # y[n + 1]}
<1>2. shorter \in Nat /\ shorter <= Len(x) /\ shorter <= Len(y) /\ shorter \in {Len(x), Len(y)}
  BY <1>1
<1> HIDE DEF shorter
<1>3. PICK m \in D : \A i \in D : m <= i
  <2>1. D \subseteq 0 .. shorter /\ D # {}
    BY <1>2
  <2> HIDE DEF D
  <2> QED
    BY <1>2, <2>1, Least
<1>4. m \in 0 .. shorter /\ \A i \in 1 .. m : x[i] = y[i]
  <2>1. ASSUME NEW i \in 1 .. m
        PROVE  x[i] = y[i]
    <3>1. i - 1 \notin D /\ i - 1 \in 0 .. shorter /\ i - 1 # shorter
      BY <1>2, <1>3
    <3> QED
      BY <3>1
  <2> QED
    BY <1>3, <2>1
<1>5. CASE m < shorter
  <2>1. x[m + 1] # y[m + 1] /\ x[m + 1] \in Nat /\ y[m + 1] \in Nat
    BY <1>1, <1>2, <1>3, <1>5, ElementOfSeq DEF Bytes
  <2>2. Parts(x, y, m) \/ Parts(y, x, m)
    BY <1>1, <1>2, <1>4, <1>5, <2>1 DEF Parts
  <2> QED
    BY <1>1, <1>2, <1>4, <1>5, <2>2, BeforeIs
<1>6. CASE m = shorter
  <2>1. CASE Len(x) = Len(y)
    BY <1>1, <1>2, <1>4, <1>6, <2>1, SeqEqual DEF Bytes
  <2>2. CASE Len(x) < Len(y)
    <3>1. m = Len(x)
      BY <1>1, <1>2, <1>6, <2>2
    <3>2. Parts(x, y, m) /\ m \in 0 .. Len(y) - 1
      BY <1>1, <1>4, <2>2, <3>1 DEF Parts
    <3> QED
      BY <3>2, BeforeIs
  <2>3. CASE Len(y) < Len(x)
    <3>1. m = Len(y)
      BY <1>1, <1>2, <1>6, <2>3
    <3>2. Parts(y, x, m) /\ m \in 0 .. Len(x) - 1
      BY <1>1, <1>4, <2>3, <3>1 DEF Parts
    <3> QED
      BY <3>2, BeforeIs
  <2> QED
    BY <1>1, <2>1, <2>2, <2>3
<1> QED
  BY <1>2, <1>4, <1>5, <1>6

LEMMA BeforeTransitive ==
  ASSUME NEW x \in Bytes, NEW y \in Bytes, NEW z \in Bytes, Before(x, y), Before(y, z)
  PROVE  Before(x, z)
<1>1. PICK m \in 0 .. Len(y) - 1 : Parts(x, y, m)
  BY BeforeIs
<1>2. PICK n \in 0 .. Len(z) - 1 : Parts(y, z, n)
  BY BeforeIs
<1>3. /\ Len(x) \in Nat /\ Len(y) \in Nat /\ Len(z) \in Nat
      /\ \A i \in 1 .. Len(x) : x[i] \in Nat
      /\ \A i \in 1 .. Len(y) : y[i] \in Nat
      /\ \A i \in 1 .. Len(z) : z[i] \in Nat
  BY ElementOfSeq DEF Bytes
<1>4. CASE m <= n
  <2>1. m \in 0 .. Len(z) - 1
    BY <1>2, <1>3, <1>4
  <2>2. \A i \in 1 .. m : x[i] = z[i]
    BY <1>1, <1>2, <1>4 DEF Parts
  <2>3. Len(x) # m => x[m + 1] < z[m + 1]
    <3>1. Len(x) # m => m + 1 \in 1 .. Len(x) /\ x[m + 1] < y[m + 1]
      BY <1>1, <1>3 DEF Parts
    <3>2. m + 1 \in 1 .. Len(y) /\ m + 1 \in 1 .. Len(z)
      BY <1>1, <2>1
    <3>3. y[m + 1] <= z[m + 1]
      <4>1. CASE m < n
        BY <1>2, <1>3, <3>2, <4>1 DEF Parts
      <4>2. CASE m = n
        BY <1>2, <1>3, <3>2, <4>2 DEF Parts
      <4> QED
        BY <1>4, <4>1, <4>2
    <3> QED
      BY <1>3, <3>1, <3>2, <3>3
  <2>4. Parts(x, z, m)
    BY <1>1, <2>2, <2>3 DEF Parts
  <2> QED
    BY <2>1, <2>4, BeforeIs
<1>5. CASE n < m
  <2>1. \A i \in 1 .. n : x[i] = z[i]
    BY <1>1, <1>2, <1>5 DEF Parts
  <2>2. n + 1 \in 1 .. m /\ x[n + 1] = y[n + 1] /\ n <= Len(x) /\ Len(y) # n
    BY <1>1, <1>2, <1>3, <1>5 DEF Parts
  <2>3. Parts(x, z, n)
    BY <1>2, <2>1, <2>2 DEF Parts
  <2> QED
    BY <2>3, BeforeIs
<1> QED
  BY <1>4, <1>5

LEMMA BeforeIrreflexive ==
  ASSUME NEW x \in Bytes
  PROVE  ~Before(x, x)
<1>1. ASSUME NEW n \in 0 .. Len(x) - 1
      PROVE  ~Parts(x, x, n)
  <2>1. Len(x) \in Nat /\ x[n + 1] \in Nat
    BY ElementOfSeq DEF Bytes
  <2> QED
    BY <2>1 DEF Parts
<1> QED
  BY <1>1, BeforeIs

-----------------------------------------------------------------------------
(* Texts as numbers. *)

IsDigits(text) == text \in Bytes /\ \A i \in 1 .. Len(text) : text[i] \in Zero .. Zero + Base - 1

IsReading(v, text, m) ==
  v = [n \in 0 .. m |-> IF n = 0 THEN 0 ELSE v[n - 1] * Base + text[n] - Zero]

LEMMA ReadIsReading ==
  ASSUME NEW text
  PROVE  Read(text) = CHOOSE v : IsReading(v, text, Len(text))
BY DEF Read, IsReading

LEMMA ReadingExists ==
  ASSUME NEW text, NEW k \in Nat
  PROVE  \E v : IsReading(v, text, k)
<1> DEFINE B == {m \in 0 .. k : ~\E v : IsReading(v, text, m)}
<1>1. SUFFICES ASSUME B # {}
               PROVE  FALSE
  OBVIOUS
<1>2. PICK m \in B : \A i \in B : m <= i
  <2> HIDE DEF B
  <2> B \subseteq 0 .. k
    BY DEF B
  <2> QED
    BY <1>1, Least
<1>3. m # 0
  <2>1. IsReading([n \in 0 .. 0 |-> 0], text, 0)
    BY DEF IsReading
  <2> QED
    BY <1>2, <2>1
<1>4. PICK v : IsReading(v, text, m - 1)
  <2>1. m - 1 \in 0 .. k /\ ~(m <= m - 1)
    BY <1>2, <1>3
  <2> QED
    BY <1>2, <2>1
<1> DEFINE last == v[m - 1] * Base + text[m] - Zero
           w == [n \in 0 .. m |-> IF n = m THEN last ELSE v[n]]
<1>5. IsReading(w, text, m)
  <2>1. m \in Nat
    BY <1>2
  <2>2. ASSUME NEW n \in 0 .. m
        PROVE  w[n] = IF n = 0 THEN 0 ELSE w[n - 1] * Base + text[n] - Zero
    <3>1. CASE n = m
      <4>1. w[n] = last /\ w[n - 1] = v[m - 1]
        BY <1>3, <2>1, <3>1
      <4> QED
        BY <1>3, <3>1, <4>1
    <3>2. CASE n # m
      <4>1. n \in 0 .. m - 1 /\ w[n] = v[n]
        BY <2>1, <3>2
      <4>2. v[n] = IF n = 0 THEN 0 ELSE v[n - 1] * Base + text[n] - Zero
        BY <1>4, <4>1 DEF IsReading
      <4>3. n # 0 => w[n - 1] = v[n - 1]
        BY <2>1, <3>2
      <4> HIDE DEF w
      <4> QED
        BY <4>1, <4>2, <4>3
    <3> QED
      BY <3>1, <3>2
  <2>3. w = [n \in 0 .. m |-> w[n]]
    OBVIOUS
  <2> HIDE DEF w
  <2>4. [n \in 0 .. m |-> w[n]]
          = [n \in 0 .. m |-> IF n = 0 THEN 0 ELSE w[n - 1] * Base + text[n] - Zero]
    BY <2>2
  <2> QED
    BY <2>3, <2>4 DEF IsReading
<1> QED
  BY <1>2, <1>5

LEMMA ReadSteps ==
  ASSUME NEW text \in Bytes
  PROVE  /\ Read(text)[0] = 0
         /\ \A n \in 1 .. Len(text) : Read(text)[n] = Read(text)[n - 1] * Base + text[n] - Zero
<1> DEFINE v == Read(text)
<1>1. Len(text) \in Nat
  BY DEF Bytes
<1>2. IsReading(v, text, Len(text))
  BY <1>1, ReadIsReading, ReadingExists
<1> HIDE DEF v
<1>3. \A n \in 0 .. Len(text) : v[n] = IF n = 0 THEN 0 ELSE v[n - 1] * Base + text[n] - Zero
  BY <1>2 DEF IsReading
<1> QED
  BY <1>1, <1>3 DEF v

LEMMA ReadIsNat ==
  ASSUME ExtremaAssumption, NEW text, IsDigits(text)
  PROVE  \A n \in 0 .. Len(text) : Read(text)[n] \in Nat
<1> DEFINE v == Read(text)
           B == {n \in 0 .. Len(text) : v[n] \notin Nat}
<1>1. SUFFICES ASSUME B # {}
               PROVE  FALSE
  OBVIOUS
<1>2. Len(text) \in Nat
  BY DEF IsDigits, Bytes
<1>3. PICK m \in B : \A i \in B : m <= i
  <2> B \subseteq 0 .. Len(text)
    OBVIOUS
  <2> HIDE DEF B
  <2> QED
    BY <1>1, <1>2, Least
<1>4. m # 0 /\ m \in 1 .. Len(text)
  BY <1>3, ReadSteps DEF IsDigits
<1>5. v[m] = v[m - 1] * Base + text[m] - Zero
  BY <1>4, ReadSteps DEF IsDigits
<1>6. v[m - 1] \in Nat
  <2>1. m - 1 \in 0 .. Len(text) /\ ~(m <= m - 1)
    BY <1>4
  <2> QED
    BY <1>3, <2>1
<1>7. text[m] - Zero \in Nat /\ Zero \in Nat /\ text[m] \in Nat
  BY <1>4 DEF IsDigits, ExtremaAssumption
<1>8. v[m - 1] * Base \in Nat
  BY <1>6 DEF ExtremaAssumption
<1>9. v[m] \in Nat
  BY <1>5, <1>7, <1>8
<1> QED
  BY <1>3, <1>9

LEMMA CarryOver ==
  ASSUME NEW b \in Nat, NEW p \in Nat, NEW q \in Nat, p < q,
         NEW x \in Nat, x < b, NEW y \in Nat
  PROVE  p * b + x < q * b + y
OBVIOUS

\* Among numbers of one width the first digit that differs decides.
LEMMA WidthOrder ==
  ASSUME ExtremaAssumption, NEW s, IsDigits(s), NEW t, IsDigits(t), Len(s) = Len(t),
         NEW k \in 0 .. Len(s) - 1, \A i \in 1 .. k : s[i] = t[i], s[k + 1] < t[k + 1]
  PROVE  NumberOf(s) < NumberOf(t)
<1> DEFINE v == Read(s)
           w == Read(t)
<1>1. Len(s) \in Nat /\ Len(s) > 0 /\ k \in Nat /\ Zero \in Nat /\ Base \in Nat /\ Base >= 2
  BY DEF IsDigits, Bytes, ExtremaAssumption
<1>2. /\ v[0] = 0 /\ \A n \in 1 .. Len(s) : v[n] = v[n - 1] * Base + (s[n] - Zero)
      /\ w[0] = 0 /\ \A n \in 1 .. Len(s) : w[n] = w[n - 1] * Base + (t[n] - Zero)
  <2>1. /\ v[0] = 0 /\ \A n \in 1 .. Len(s) : v[n] = v[n - 1] * Base + s[n] - Zero
        /\ w[0] = 0 /\ \A n \in 1 .. Len(s) : w[n] = w[n - 1] * Base + t[n] - Zero
    BY ReadSteps DEF IsDigits
  <2>2. \A n \in 0 .. Len(s) : v[n] \in Nat /\ w[n] \in Nat
    BY ReadIsNat
  <2> HIDE DEF v, w
  <2>3. ASSUME NEW n \in 1 .. Len(s)
        PROVE  /\ v[n] = v[n - 1] * Base + (s[n] - Zero)
               /\ w[n] = w[n - 1] * Base + (t[n] - Zero)
    <3> n - 1 \in 0 .. Len(s)
      BY <1>1
    <3> v[n - 1] * Base \in Nat /\ w[n - 1] * Base \in Nat
      BY <1>1, <2>2
    <3> s[n] \in Nat /\ t[n] \in Nat
      BY <1>1 DEF IsDigits
    <3> QED
      BY <1>1, <2>1
  <2> QED
    BY <2>1, <2>3
<1>3. \A n \in 0 .. Len(s) : v[n] \in Nat /\ w[n] \in Nat
  BY ReadIsNat
<1>4. \A n \in 1 .. Len(s) : /\ s[n] - Zero \in Nat /\ s[n] - Zero < Base
                             /\ t[n] - Zero \in Nat /\ t[n] - Zero < Base
                             /\ s[n] \in Nat /\ t[n] \in Nat
  BY <1>1 DEF IsDigits
<1> HIDE DEF v, w
<1>5. v[k] = w[k]
  <2> DEFINE B == {n \in 0 .. k : v[n] # w[n]}
  <2>1. SUFFICES ASSUME B # {}
                 PROVE  FALSE
    BY <1>1
  <2>2. PICK m \in B : \A i \in B : m <= i
    <3> B \subseteq 0 .. k
      OBVIOUS
    <3> HIDE DEF B
    <3> QED
      BY <1>1, <2>1, Least
  <2>3. m \in 1 .. k /\ m \in 1 .. Len(s) /\ m - 1 \in 0 .. k
    BY <1>1, <1>2, <2>2
  <2>4. v[m - 1] = w[m - 1]
    BY <2>2, <2>3
  <2> QED
    BY <1>2, <2>2, <2>3, <2>4
<1>6. v[Len(s)] < w[Len(s)]
  <2> DEFINE B == {n \in 0 .. Len(s) : n > k /\ ~(v[n] < w[n])}
  <2>1. SUFFICES ASSUME B # {}
                 PROVE  FALSE
    BY <1>1
  <2>2. PICK m \in B : \A i \in B : m <= i
    <3> B \subseteq 0 .. Len(s)
      OBVIOUS
    <3> HIDE DEF B
    <3> QED
      BY <1>1, <2>1, Least
  <2>3. m \in 1 .. Len(s) /\ m - 1 \in 0 .. Len(s) /\ m > k /\ ~(v[m] < w[m])
    BY <1>1, <2>2
  <2>4. /\ v[m] = v[m - 1] * Base + (s[m] - Zero)
        /\ w[m] = w[m - 1] * Base + (t[m] - Zero)
    BY <1>2, <2>3
  <2>5. v[m - 1] \in Nat /\ w[m - 1] \in Nat
    BY <1>3, <2>3
  <2>6. /\ s[m] - Zero \in Nat /\ s[m] - Zero < Base
        /\ t[m] - Zero \in Nat /\ t[m] - Zero < Base
        /\ s[m] \in Nat /\ t[m] \in Nat
    BY <1>4, <2>3
  <2>7. CASE m = k + 1
    <3>1. v[m - 1] = w[m - 1] /\ s[m] - Zero < t[m] - Zero
      BY <1>1, <1>5, <2>6, <2>7
    <3>2. v[m - 1] * Base \in Nat
      BY <1>1, <2>5
    <3> QED
      BY <2>3, <2>4, <2>6, <3>1, <3>2
  <2>8. CASE m # k + 1
    <3>1. m - 1 > k /\ ~(m <= m - 1)
      BY <1>1, <2>3, <2>8
    <3>2. v[m - 1] < w[m - 1]
      BY <2>2, <2>3, <3>1
    <3>3. v[m] < w[m]
      <4> DEFINE p == v[m - 1]
                 q == w[m - 1]
                 x == s[m] - Zero
                 y == t[m] - Zero
      <4>1. p \in Nat /\ q \in Nat /\ p < q /\ x \in Nat /\ x < Base /\ y \in Nat /\ Base \in Nat
        BY <1>1, <2>5, <2>6, <3>2
      <4>2. v[m] = p * Base + x /\ w[m] = q * Base + y
        BY <2>4
      <4> HIDE DEF p, q, x, y
      <4>3. p * Base + x < q * Base + y
        BY <4>1, CarryOver
      <4> QED
        BY <4>2, <4>3
    <3> QED
      BY <2>3, <3>3
  <2> QED
    BY <2>7, <2>8
<1> QED
  BY <1>6 DEF NumberOf, v, w

\* Canonical texts of one width are ordered as their numbers.
LEMMA OrderOfNumbers ==
  ASSUME ExtremaAssumption, NEW s, IsDigits(s), NEW t, IsDigits(t), Len(s) = Len(t)
  PROVE  Before(s, t) <=> NumberOf(s) < NumberOf(t)
<1>1. s \in Bytes /\ t \in Bytes /\ Len(s) \in Nat
  BY DEF IsDigits, Bytes
<1>2. NumberOf(s) \in Nat /\ NumberOf(t) \in Nat
  BY <1>1, ReadIsNat DEF NumberOf
<1>3. ASSUME Before(s, t) PROVE NumberOf(s) < NumberOf(t)
  <2>1. PICK n \in 0 .. Len(t) - 1 : Parts(s, t, n)
    BY <1>1, <1>3, BeforeIs
  <2>2. n \in 0 .. Len(s) - 1 /\ (\A i \in 1 .. n : s[i] = t[i]) /\ s[n + 1] < t[n + 1]
    BY <1>1, <2>1 DEF Parts
  <2> QED
    BY <2>2, WidthOrder
<1>4. ASSUME Before(t, s) PROVE NumberOf(t) < NumberOf(s)
  <2>1. PICK n \in 0 .. Len(s) - 1 : Parts(t, s, n)
    BY <1>1, <1>4, BeforeIs
  <2>2. n \in 0 .. Len(t) - 1 /\ (\A i \in 1 .. n : t[i] = s[i]) /\ t[n + 1] < s[n + 1]
    BY <1>1, <2>1 DEF Parts
  <2> QED
    BY <2>2, WidthOrder
<1>5. ASSUME NumberOf(s) < NumberOf(t) PROVE Before(s, t)
  <2>1. s # t /\ ~Before(t, s)
    BY <1>2, <1>4, <1>5
  <2> QED
    BY <1>1, <2>1, BeforeTotal
<1> QED
  BY <1>3, <1>5

IsRendering(f, m) ==
  f = [n \in 0 .. m |->
         IF n < Base THEN <<Zero + n>> ELSE Append(f[n \div Base], Zero + (n % Base))]

LEMMA DivisionShrinks ==
  ASSUME NEW b \in Nat, b >= 2, NEW n \in Nat, n >= b
  PROVE  n \div b \in Nat /\ n \div b < n
OBVIOUS

LEMMA DivisionUndone ==
  ASSUME NEW b \in Nat, b >= 2, NEW p \in Nat, NEW x \in Nat, x < b
  PROVE  (p * b + x) \div b = p /\ (p * b + x) % b = x
OBVIOUS

LEMMA RenderingExists ==
  ASSUME ExtremaAssumption, NEW k \in Nat
  PROVE  \E f : IsRendering(f, k)
<1> DEFINE B == {m \in 0 .. k : ~\E f : IsRendering(f, m)}
<1>1. SUFFICES ASSUME B # {}
               PROVE  FALSE
  OBVIOUS
<1>2. PICK m \in B : \A i \in B : m <= i
  <2> HIDE DEF B
  <2> B \subseteq 0 .. k
    BY DEF B
  <2> QED
    BY <1>1, Least
<1>3. Base \in Nat /\ Base >= 2 /\ m \in Nat
  BY <1>2 DEF ExtremaAssumption
<1>4. m # 0
  <2> DEFINE f == [n \in 0 .. 0 |-> <<Zero + n>>]
  <2>1. \A n \in 0 .. 0 : <<Zero + n>> = IF n < Base THEN <<Zero + n>>
                                        ELSE Append(f[n \div Base], Zero + (n % Base))
    BY <1>3
  <2> HIDE DEF f
  <2>2. f = [n \in 0 .. 0 |-> IF n < Base THEN <<Zero + n>>
                               ELSE Append(f[n \div Base], Zero + (n % Base))]
    BY <2>1 DEF f
  <2>3. IsRendering(f, 0)
    BY <2>2 DEF IsRendering
  <2> QED
    BY <1>2, <2>3
<1>5. PICK v : IsRendering(v, m - 1)
  <2>1. m - 1 \in 0 .. k /\ ~(m <= m - 1)
    BY <1>2, <1>4
  <2> QED
    BY <1>2, <2>1
<1> DEFINE Step(f, n) == IF n < Base THEN <<Zero + n>> ELSE Append(f[n \div Base], Zero + (n % Base))
           w == [n \in 0 .. m |-> IF n = m THEN Step(v, m) ELSE v[n]]
<1>6. ASSUME NEW n \in 0 .. m
      PROVE  w[n] = Step(w, n)
  <2>1. n >= Base => n \div Base \in 0 .. m - 1
    <3>1. n >= Base => n \div Base \in Nat /\ n \div Base < n
      BY <1>3, DivisionShrinks
    <3> QED
      BY <1>3, <3>1
  <2>2. \A i \in 0 .. m - 1 : w[i] = v[i]
    BY <1>3
  <2>3. Step(w, n) = Step(v, n)
    <3> HIDE DEF w
    <3>1. n >= Base => w[n \div Base] = v[n \div Base]
      BY <2>1, <2>2
    <3> QED
      BY <1>3, <3>1
  <2>4. CASE n = m
    <3>1. w[n] = Step(v, n)
      BY <1>3, <2>4
    <3> HIDE DEF w, Step
    <3> QED
      BY <2>3, <3>1
  <2>5. CASE n # m
    <3>1. n \in 0 .. m - 1
      BY <1>3, <2>5
    <3>2. v[n] = Step(v, n)
      BY <1>5, <3>1 DEF IsRendering
    <3> HIDE DEF w, Step
    <3> QED
      BY <2>2, <2>3, <3>1, <3>2
  <2> QED
    BY <2>4, <2>5
<1>7. IsRendering(w, m)
  <2>1. w = [n \in 0 .. m |-> w[n]]
    OBVIOUS
  <2> HIDE DEF w
  <2>2. [n \in 0 .. m |-> w[n]] = [n \in 0 .. m |-> Step(w, n)]
    <3> HIDE DEF Step
    <3> QED
      BY <1>6
  <2>3. w = [n \in 0 .. m |-> Step(w, n)]
    <3> HIDE DEF Step
    <3> QED
      BY <2>1, <2>2
  <2> QED
    BY <2>3 DEF IsRendering
<1> QED
  BY <1>2, <1>7

LEMMA RenderedSteps ==
  ASSUME ExtremaAssumption, NEW n \in 0 .. MaxNumber
  PROVE  Rendered[n] = IF n < Base THEN <<Zero + n>>
                       ELSE Append(Rendered[n \div Base], Zero + (n % Base))
<1> DEFINE f == Rendered
<1>1. MaxNumber \in Nat
  BY DEF ExtremaAssumption
<1>2. f = CHOOSE g : IsRendering(g, MaxNumber)
  BY DEF Rendered, IsRendering
<1> HIDE DEF f
<1>3. IsRendering(f, MaxNumber)
  BY <1>1, <1>2, RenderingExists
<1>4. f[n] = IF n < Base THEN <<Zero + n>> ELSE Append(f[n \div Base], Zero + (n % Base))
  BY <1>3 DEF IsRendering
<1> QED
  BY <1>4 DEF f

IsCanonical(text) == text \in Bytes /\ TryParseCanonicalUnsignedIntegerText(text)

LEMMA CanonicalIs ==
  ASSUME ExtremaAssumption, NEW text, IsCanonical(text)
  PROVE  /\ IsDigits(text) /\ text \in Bytes
         /\ Len(text) \in Nat \ {0}
         /\ Len(text) > 1 => text[1] # Zero
         /\ NumberOf(text) \in 0 .. MaxNumber
<1>1. IsDigits(text) /\ Len(text) \in Nat \ {0} /\ (Len(text) > 1 => text[1] # Zero)
  BY DEF IsCanonical, IsDigits, TryParseCanonicalUnsignedIntegerText, Range, Bytes
<1>2. NumberOf(text) \in Nat
  BY <1>1, ReadIsNat DEF NumberOf
<1>3. NumberOf(text) <= MaxNumber
  BY DEF IsCanonical, TryParseCanonicalUnsignedIntegerText
<1> QED
  BY <1>1, <1>2, <1>3 DEF IsCanonical, ExtremaAssumption

\* A digit more makes a number no smaller.
LEMMA ReadGrows ==
  ASSUME ExtremaAssumption, NEW text, IsDigits(text), NEW n \in 1 .. Len(text)
  PROVE  /\ Read(text)[n] = Read(text)[n - 1] * Base + (text[n] - Zero)
         /\ Read(text)[n] \in Nat /\ Read(text)[n - 1] \in Nat
         /\ text[n] - Zero \in Nat /\ text[n] - Zero < Base
         /\ Read(text)[n] >= Read(text)[n - 1]
<1> DEFINE v == Read(text)
<1>1. Len(text) \in Nat /\ text \in Bytes
  BY DEF IsDigits, Bytes
<1>2. v[n] = v[n - 1] * Base + text[n] - Zero
  BY <1>1, ReadSteps
<1>3. v[n] \in Nat /\ v[n - 1] \in Nat
  BY <1>1, ReadIsNat
<1>4. text[n] - Zero \in Nat /\ text[n] - Zero < Base /\ text[n] \in Nat /\ Zero \in Nat
  BY DEF IsDigits, ExtremaAssumption
<1>5. Base \in Nat /\ Base >= 2
  BY DEF ExtremaAssumption
<1> DEFINE p == v[n - 1]
           x == text[n]
<1>6. p \in Nat /\ x \in Nat /\ x - Zero \in Nat
  BY <1>3, <1>4
<1>7. v[n] = p * Base + x - Zero
  BY <1>2
<1> HIDE DEF p, x
<1>8. p * Base \in Nat /\ p * Base >= p
  BY <1>5, <1>6
<1>9. v[n] = p * Base + (x - Zero) /\ v[n] >= p
  BY <1>4, <1>6, <1>7, <1>8
<1> QED
  BY <1>3, <1>4, <1>9 DEF p, x

\* A canonical text is what its number is written as.
LEMMA RenderedAgain ==
  ASSUME ExtremaAssumption, NEW text, IsCanonical(text)
  PROVE  Rendered[NumberOf(text)] = text
<1> DEFINE v == Read(text)
           L == Len(text)
<1>1. /\ IsDigits(text) /\ text \in Bytes
      /\ L \in Nat \ {0}
      /\ L > 1 => text[1] # Zero
      /\ v[L] \in 0 .. MaxNumber
  BY CanonicalIs DEF NumberOf
<1>2. Base \in Nat /\ Base >= 2 /\ Zero \in Nat /\ MaxNumber \in Nat
  BY DEF ExtremaAssumption
<1>3. \A n \in 1 .. L : /\ v[n] = v[n - 1] * Base + (text[n] - Zero)
                        /\ v[n] \in Nat /\ v[n - 1] \in Nat
                        /\ text[n] - Zero \in Nat /\ text[n] - Zero < Base
                        /\ v[n] >= v[n - 1]
  BY <1>1, ReadGrows
<1>4. v[0] = 0
  BY <1>1, ReadSteps
<1> HIDE DEF v
<1>5. \A n \in 0 .. L : v[n] \in 0 .. MaxNumber
  <2> DEFINE B == {j \in 0 .. L : v[L - j] \notin 0 .. MaxNumber}
  <2>1. ASSUME B # {}
        PROVE  FALSE
    <3>1. PICK j \in B : \A i \in B : j <= i
      <4> B \subseteq 0 .. L
        OBVIOUS
      <4> HIDE DEF B
      <4> QED
        BY <1>1, <2>1, Least
    <3>2. j # 0
      BY <1>1, <3>1
    <3>3. j - 1 \in 0 .. L /\ ~(j <= j - 1)
      BY <1>1, <3>1, <3>2
    <3>4. v[L - (j - 1)] \in 0 .. MaxNumber
      BY <3>1, <3>3
    <3>5. L - (j - 1) \in 1 .. L /\ (L - (j - 1)) - 1 = L - j
      BY <1>1, <3>1, <3>2
    <3>6. v[L - j] \in 0 .. MaxNumber
      BY <1>2, <1>3, <3>4, <3>5
    <3> QED
      BY <3>1, <3>6
  <2>2. ASSUME NEW n \in 0 .. L
        PROVE  v[n] \in 0 .. MaxNumber
    <3>1. L - n \in 0 .. L /\ L - (L - n) = n
      BY <1>1
    <3> QED
      BY <2>1, <3>1
  <2> QED
    BY <2>2
<1>6. ASSUME L > 1
      PROVE  \A n \in 1 .. L : v[n] >= 1
  <2> DEFINE B == {n \in 0 .. L : n # 0 /\ ~(v[n] >= 1)}
  <2>1. SUFFICES ASSUME B # {}
                 PROVE  FALSE
    BY <1>1
  <2>2. PICK m \in B : \A i \in B : m <= i
    <3> B \subseteq 0 .. L
      OBVIOUS
    <3> HIDE DEF B
    <3> QED
      BY <1>1, <2>1, Least
  <2>3. m # 1
    <3>1. v[1] = v[0] * Base + (text[1] - Zero) /\ text[1] - Zero \in Nat /\ text[1] # Zero
      BY <1>1, <1>3, <1>6
    <3>2. v[0] * Base = 0
      BY <1>2, <1>4
    <3>3. text[1] \in Nat
      <4>1. 1 \in 1 .. Len(text)
        BY <1>1
      <4> QED
        BY <1>1, <1>2, <4>1 DEF IsDigits
    <3> QED
      BY <1>2, <2>2, <3>1, <3>2, <3>3
  <2>4. m \in 1 .. L /\ m - 1 \in 1 .. L /\ ~(m <= m - 1)
    BY <1>1, <2>2, <2>3
  <2>5. v[m - 1] >= 1
    BY <2>2, <2>4
  <2>6. v[m] >= 1
    BY <1>3, <2>4, <2>5
  <2> QED
    BY <2>2, <2>6
<1>7. \A m \in 1 .. L : Rendered[v[m]] = SubSeq(text, 1, m)
  <2> DEFINE B == {n \in 0 .. L : n # 0 /\ Rendered[v[n]] # SubSeq(text, 1, n)}
  <2>1. SUFFICES ASSUME B # {}
                 PROVE  FALSE
    BY <1>1
  <2>2. PICK m \in B : \A i \in B : m <= i
    <3> B \subseteq 0 .. L
      OBVIOUS
    <3> HIDE DEF B
    <3> QED
      BY <1>1, <2>1, Least
  <2>3. m \in 1 .. L
    BY <2>2
  <2> DEFINE n == v[m]
             x == text[m] - Zero
             p == v[m - 1]
  <2>4. /\ n = p * Base + x /\ n \in 0 .. MaxNumber
        /\ p \in Nat /\ x \in Nat /\ x < Base
    BY <1>3, <1>5, <2>3
  <2>5. Rendered[n] = IF n < Base THEN <<Zero + n>>
                      ELSE Append(Rendered[n \div Base], Zero + (n % Base))
    BY <2>4, RenderedSteps
  <2>6. Zero + x = text[m] /\ text[m] \in Nat
    BY <1>1, <1>2, <2>3 DEF IsDigits
  <2>7. CASE m = 1
    <3>1. p * Base = 0
      BY <1>2, <1>4, <2>7
    <3> HIDE DEF n, x, p
    <3>2. n = x /\ n < Base
      BY <1>2, <2>4, <3>1
    <3>3. Rendered[n] = <<text[1]>>
      BY <2>5, <2>6, <2>7, <3>2
    <3>4. SubSeq(text, 1, 1) = <<text[1]>>
      <4>1. 1 \in 1 .. L /\ text \in Seq(Nat) /\ text[1] \in Nat
        BY <1>1, <2>3, <2>6, <2>7 DEF Bytes
      <4>2. /\ SubSeq(text, 1, 1) \in Seq(Nat) /\ Len(SubSeq(text, 1, 1)) = 1
            /\ SubSeq(text, 1, 1)[1] = text[1]
        BY <4>1
      <4> DEFINE one == SubSeq(text, 1, 1)
                 two == <<text[1]>>
      <4>3. two \in Seq(Nat) /\ Len(two) = 1 /\ two[1] = text[1]
        BY <4>1
      <4>4. one \in Seq(Nat) /\ Len(one) = Len(two) /\ \A i \in 1 .. Len(one) : one[i] = two[i]
        BY <4>2, <4>3
      <4> HIDE DEF one, two
      <4>5. one = two
        BY <4>3, <4>4, SeqEqual
      <4> QED
        BY <4>5 DEF one, two
    <3> QED
      BY <2>2, <2>7, <3>3, <3>4 DEF n
  <2>8. CASE m # 1
    <3>1. L > 1 /\ m - 1 \in 1 .. L
      BY <1>1, <2>3, <2>8
    <3>2. p >= 1
      BY <1>6, <3>1
    <3>3. Rendered[p] = SubSeq(text, 1, m - 1)
      <4>1. ~(m <= m - 1) /\ m - 1 \in 0 .. L /\ m - 1 # 0
        BY <2>3, <3>1
      <4>2. m - 1 \notin B
        BY <2>2, <4>1
      <4> QED
        BY <4>1, <4>2
    <3>4. SubSeq(text, 1, m) = Append(SubSeq(text, 1, m - 1), text[m])
      <4>1. m - 1 \in 1 .. L /\ m \in 1 .. L
        BY <2>3, <3>1
      <4> QED
        BY <1>1, <4>1, SubSeqRecursiveSecond DEF Bytes
    <3> HIDE DEF n, x, p
    <3>5. p * Base >= Base /\ p * Base \in Nat
      BY <1>2, <2>4, <3>2
    <3>6. ~(n < Base)
      BY <1>2, <2>4, <3>5
    <3>7. n \div Base = p /\ n % Base = x
      BY <1>2, <2>4, DivisionUndone
    <3>8. Rendered[n] = Append(Rendered[p], text[m])
      BY <2>5, <2>6, <3>6, <3>7
    <3> QED
      BY <2>2, <3>3, <3>4, <3>8 DEF n
  <2> QED
    BY <2>7, <2>8
<1>8. SubSeq(text, 1, L) = text
  BY <1>1 DEF Bytes
<1>9. Rendered[v[L]] = text
  BY <1>1, <1>7, <1>8
<1> QED
  BY <1>9 DEF NumberOf, v

-----------------------------------------------------------------------------
(* The text that wins among some. *)

IsExtremeOf(kind, text, T) ==
  text \in T /\ \A t \in T : ~TextWins(kind, text, t)

LEMMA WinsOrder ==
  ASSUME NEW kind, NEW x \in Bytes, NEW y \in Bytes, NEW z \in Bytes
  PROVE  /\ ~TextWins(kind, x, x)
         /\ x # y => TextWins(kind, x, y) \/ TextWins(kind, y, x)
         /\ TextWins(kind, x, y) /\ TextWins(kind, y, z) => TextWins(kind, x, z)
<1>1. ~Before(x, x)
  BY BeforeIrreflexive
<1>2. x # y => Before(x, y) \/ Before(y, x)
  BY BeforeTotal
<1>3. Before(x, y) /\ Before(y, z) => Before(x, z)
  BY BeforeTransitive
<1>4. Before(z, y) /\ Before(y, x) => Before(z, x)
  BY BeforeTransitive
<1> QED
  BY <1>1, <1>2, <1>3, <1>4 DEF TextWins

LEMMA ExtremeOfBoth ==
  ASSUME NEW kind, NEW S \in SUBSET Bytes, NEW T \in SUBSET Bytes,
         NEW x, IsExtremeOf(kind, x, S), NEW y, IsExtremeOf(kind, y, T)
  PROVE  IsExtremeOf(kind, IF TextWins(kind, x, y) THEN y ELSE x, S \cup T)
<1>1. x \in Bytes /\ y \in Bytes
  BY DEF IsExtremeOf
<1>2. CASE TextWins(kind, x, y)
  <2>1. ASSUME NEW s \in S, TextWins(kind, y, s)
        PROVE  FALSE
    <3>1. TextWins(kind, x, s)
      BY <1>1, <1>2, <2>1, WinsOrder
    <3> QED
      BY <3>1 DEF IsExtremeOf
  <2> QED
    BY <1>2, <2>1 DEF IsExtremeOf
<1>3. CASE ~TextWins(kind, x, y)
  <2>1. ASSUME NEW t \in T, TextWins(kind, x, t)
        PROVE  FALSE
    <3>1. x = y \/ TextWins(kind, y, x)
      BY <1>1, <1>3, WinsOrder
    <3>2. TextWins(kind, y, t)
      BY <1>1, <2>1, <3>1, WinsOrder
    <3> QED
      BY <3>2 DEF IsExtremeOf
  <2> QED
    BY <1>3, <2>1 DEF IsExtremeOf
<1> QED
  BY <1>2, <1>3

\* A number of a width stands for texts that are canonical numbers of that width.
NumberStands(kind, value, width, T) ==
  /\ \A t \in T : IsCanonical(t) /\ Len(t) = width
  /\ \E t \in T : value = NumberOf(t)
  /\ \A t \in T : ~NumberWins(kind, value, NumberOf(t))

LEMMA NumberIsExtreme ==
  ASSUME ExtremaAssumption, NEW kind, NEW value, NEW width, NEW T,
         NumberStands(kind, value, width, T)
  PROVE  /\ IsExtremeOf(kind, Rendered[value], T)
         /\ value \in 0 .. MaxNumber /\ width \in Nat /\ T \subseteq Bytes
<1>1. PICK t \in T : value = NumberOf(t)
  BY DEF NumberStands
<1>2. IsCanonical(t) /\ Len(t) = width
  BY DEF NumberStands
<1>3. Rendered[value] = t /\ value \in 0 .. MaxNumber /\ width \in Nat /\ IsDigits(t)
  BY <1>1, <1>2, RenderedAgain, CanonicalIs
<1>4. ASSUME NEW u \in T
      PROVE  ~TextWins(kind, t, u)
  <2>1. IsCanonical(u) /\ Len(u) = width /\ ~NumberWins(kind, value, NumberOf(u))
    BY DEF NumberStands
  <2>2. IsDigits(u)
    BY <2>1, CanonicalIs
  <2>3. /\ Before(t, u) <=> NumberOf(t) < NumberOf(u)
        /\ Before(u, t) <=> NumberOf(u) < NumberOf(t)
    BY <1>2, <1>3, <2>1, <2>2, OrderOfNumbers
  <2>4. NumberOf(t) \in 0 .. MaxNumber /\ NumberOf(u) \in 0 .. MaxNumber
    BY <1>2, <2>1, CanonicalIs
  <2> QED
    BY <1>1, <2>1, <2>3, <2>4 DEF TextWins, NumberWins
<1>5. T \subseteq Bytes
  BY DEF NumberStands, IsCanonical
<1> QED
  BY <1>3, <1>4, <1>5 DEF IsExtremeOf

LEMMA NumberOfBoth ==
  ASSUME ExtremaAssumption, NEW kind, NEW width, NEW v, NEW w, NEW S, NEW T,
         NumberStands(kind, v, width, S), NumberStands(kind, w, width, T)
  PROVE  NumberStands(kind, IF NumberWins(kind, v, w) THEN w ELSE v, width, S \cup T)
<1>1. v \in 0 .. MaxNumber /\ w \in 0 .. MaxNumber
  BY NumberIsExtreme
<1>2. ASSUME NEW t \in S \cup T
      PROVE  NumberOf(t) \in 0 .. MaxNumber
  BY CanonicalIs DEF NumberStands
<1>3. ASSUME NEW t \in S \cup T
      PROVE  ~NumberWins(kind, IF NumberWins(kind, v, w) THEN w ELSE v, NumberOf(t))
  <2>1. t \in S => ~NumberWins(kind, v, NumberOf(t))
    BY DEF NumberStands
  <2>2. t \in T => ~NumberWins(kind, w, NumberOf(t))
    BY DEF NumberStands
  <2> QED
    BY <1>1, <1>2, <2>1, <2>2 DEF NumberWins
<1> QED
  BY <1>3 DEF NumberStands

-----------------------------------------------------------------------------
(* The cell of min and max. *)

ExtremaState ==
  [has_value : BOOLEAN, numeric_mode : BOOLEAN, value : 0 .. MaxNumber, width : Nat,
   text : Bytes, buffer : Buffers \cup {Inline}]

Own(st) == IF OwnsText(st) THEN {st.buffer} ELSE {}

\* The buffers that are allocated are those of others, and this state's own.
SoundCell(cell, others) ==
  /\ cell.state \in ExtremaState
  /\ cell = [state |-> cell.state, live |-> cell.live]
  /\ cell.state.numeric_mode \/ ~cell.state.has_value => cell.state.buffer = Inline
  /\ others \subseteq Buffers
  /\ Own(cell.state) \cap others = {}
  /\ cell.live = others \cup Own(cell.state)

Room(others) == \E b \in Buffers : b \notin others

HoldsText(cell, others, text) ==
  /\ SoundCell(cell, others)
  /\ cell.state.has_value /\ ~cell.state.numeric_mode /\ cell.state.text = text

LEMMA BufferTaken ==
  ASSUME ExtremaAssumption, NEW cell, NEW others, SoundCell(cell, others), Room(others),
         NEW text \in Bytes, cell.state.has_value
  PROVE  LET now == AssignExtremaText(cell, text)
         IN HoldsText([now EXCEPT !.state.numeric_mode = FALSE], others, text)
<1> DEFINE freed == DestroyText(cell)
           b == IF Len(text) <= InlineLength THEN Inline
                ELSE CHOOSE x \in Buffers : x \notin freed.live
           st == [cell.state EXCEPT !.text = text, !.buffer = b]
           now == AssignExtremaText(cell, text)
<1>1. freed = [state |-> cell.state, live |-> others]
  BY DEF DestroyText, SoundCell, Own
<1>2. b \in Buffers \cup {Inline} /\ b \notin others
  BY <1>1 DEF Room, SoundCell, ExtremaAssumption
<1>3. now = [state |-> st, live |-> others \cup ({b} \ {Inline})]
  <2>1. now = [state |-> [freed.state EXCEPT !.text = text, !.buffer = b],
               live |-> freed.live \cup ({b} \ {Inline})]
    BY DEF AssignExtremaText
  <2> QED
    BY <1>1, <2>1
<1> HIDE DEF now, b
<1>4. [now EXCEPT !.state.numeric_mode = FALSE]
        = [state |-> [st EXCEPT !.numeric_mode = FALSE], live |-> others \cup ({b} \ {Inline})]
  BY <1>3
<1>5. [st EXCEPT !.numeric_mode = FALSE] \in ExtremaState
  BY <1>2 DEF SoundCell, ExtremaState
<1>6. /\ [st EXCEPT !.numeric_mode = FALSE].has_value = TRUE
      /\ [st EXCEPT !.numeric_mode = FALSE].numeric_mode = FALSE
      /\ [st EXCEPT !.numeric_mode = FALSE].text = text
      /\ [st EXCEPT !.numeric_mode = FALSE].buffer = b
  BY DEF SoundCell, ExtremaState
<1>7. Own([st EXCEPT !.numeric_mode = FALSE]) = {b} \ {Inline}
  BY <1>6 DEF Own, OwnsText
<1>8. others \subseteq Buffers
  BY DEF SoundCell
<1> DEFINE r == [st EXCEPT !.numeric_mode = FALSE]
<1> HIDE DEF st, r
<1>9. /\ r \in ExtremaState /\ r.has_value = TRUE /\ r.numeric_mode = FALSE
      /\ r.text = text /\ Own(r) = {b} \ {Inline}
  BY <1>5, <1>6, <1>7 DEF r
<1>10. HoldsText([state |-> r, live |-> others \cup ({b} \ {Inline})], others, text)
  BY <1>2, <1>8, <1>9 DEF HoldsText, SoundCell
<1> QED
  BY <1>4, <1>10 DEF now, r

(* An update of one field of the state in a cell. *)

LEMMA ModeSet ==
  ASSUME NEW cell, NEW st, NEW left, cell = [state |-> st, live |-> left]
  PROVE  [cell EXCEPT !.state.numeric_mode = FALSE] = [state |-> [st EXCEPT !.numeric_mode = FALSE], live |-> left]
<1> DEFINE now == [cell EXCEPT !.state.numeric_mode = FALSE]
           new == [st EXCEPT !.numeric_mode = FALSE]
<1>1. now \in [state : {new}, live : {left}]
  <2>1. now = [cell EXCEPT !.state = new]
    OBVIOUS
  <2> HIDE DEF new, now
  <2> QED
    BY <2>1
<1> HIDE DEF now, new
<1>2. now = [state |-> new, live |-> left]
  BY <1>1
<1> QED
  BY <1>2 DEF now, new

LEMMA PresenceSet ==
  ASSUME NEW cell, NEW st, NEW left, cell = [state |-> st, live |-> left]
  PROVE  [cell EXCEPT !.state.has_value = TRUE] = [state |-> [st EXCEPT !.has_value = TRUE], live |-> left]
<1> DEFINE now == [cell EXCEPT !.state.has_value = TRUE]
           new == [st EXCEPT !.has_value = TRUE]
<1>1. now \in [state : {new}, live : {left}]
  <2>1. now = [cell EXCEPT !.state = new]
    OBVIOUS
  <2> HIDE DEF new, now
  <2> QED
    BY <2>1
<1> HIDE DEF now, new
<1>2. now = [state |-> new, live |-> left]
  BY <1>1
<1> QED
  BY <1>2 DEF now, new

LEMMA TextAssigned ==
  ASSUME ExtremaAssumption, NEW cell, NEW others, Room(others), NEW old,
         HoldsText(cell, others, old), NEW text \in Bytes
  PROVE  HoldsText(AssignExtremaText(cell, text), others, text)
<1> DEFINE now == AssignExtremaText(cell, text)
<1>1. HoldsText([now EXCEPT !.state.numeric_mode = FALSE], others, text)
  BY BufferTaken DEF HoldsText
<1>2. now = [now EXCEPT !.state.numeric_mode = FALSE]
  <2>1. cell = [state |-> cell.state, live |-> cell.live] /\ cell.state \in ExtremaState
        /\ cell.state.numeric_mode = FALSE
    BY DEF HoldsText, SoundCell, ExtremaState
  <2>2. DestroyText(cell).state = cell.state
    BY <2>1 DEF DestroyText
  <2> DEFINE b == IF Len(text) <= InlineLength THEN Inline
                  ELSE CHOOSE x \in Buffers : x \notin DestroyText(cell).live
             l == DestroyText(cell).live \cup ({b} \ {Inline})
  <2>3. now = [state |-> [cell.state EXCEPT !.text = text, !.buffer = b], live |-> l]
    BY <2>2 DEF AssignExtremaText
  <2> HIDE DEF now, b, l
  <2> DEFINE r == [cell.state EXCEPT !.text = text, !.buffer = b]
  <2>4. /\ r.numeric_mode = FALSE
        /\ r \in [has_value : BOOLEAN, numeric_mode : BOOLEAN, value : 0 .. MaxNumber, width : Nat,
                 text : Bytes, buffer : {b}]
    BY <2>1 DEF ExtremaState
  <2>5. now = [state |-> r, live |-> l]
    BY <2>3
  <2> HIDE DEF r
  <2>6. r = [r EXCEPT !.numeric_mode = FALSE]
    BY <2>4
  <2>7. [now EXCEPT !.state.numeric_mode = FALSE]
          = [state |-> [r EXCEPT !.numeric_mode = FALSE], live |-> l]
    BY <2>5, ModeSet
  <2> QED
    BY <2>5, <2>6, <2>7
<1> QED
  BY <1>1, <1>2

\* What a state would give.
Shown(st) == IF st.numeric_mode THEN Rendered[st.value] ELSE st.text

LEMMA ModeChanged ==
  ASSUME ExtremaAssumption, NEW cell, NEW others, SoundCell(cell, others), Room(others),
         cell.state.has_value, Shown(cell.state) \in Bytes
  PROVE  HoldsText(EnsureExtremaStringMode(cell), others, Shown(cell.state))
<1>1. CASE cell.state.numeric_mode
  BY <1>1, BufferTaken DEF EnsureExtremaStringMode, Shown
<1>2. CASE ~cell.state.numeric_mode
  BY <1>2 DEF EnsureExtremaStringMode, Shown, HoldsText
<1> QED
  BY <1>1, <1>2

LEMMA StringFolded ==
  ASSUME ExtremaAssumption, NEW cell, NEW others, SoundCell(cell, others), Room(others),
         NEW kind, NEW text \in Bytes, cell.state.has_value => Shown(cell.state) \in Bytes
  PROVE  HoldsText(FoldStringExtrema(cell, kind, text), others,
                   IF cell.state.has_value /\ ~TextWins(kind, Shown(cell.state), text)
                   THEN Shown(cell.state) ELSE text)
<1>1. CASE ~cell.state.has_value
  <2> DEFINE begun == [cell EXCEPT !.state.has_value = TRUE, !.state.numeric_mode = FALSE]
             st == [cell.state EXCEPT !.has_value = TRUE, !.numeric_mode = FALSE]
  <2>1. /\ cell = [state |-> cell.state, live |-> cell.live] /\ cell.state \in ExtremaState
        /\ cell.state.buffer = Inline /\ cell.live = others /\ others \subseteq Buffers
    BY <1>1 DEF SoundCell, Own, OwnsText
  <2>2. begun = [state |-> st, live |-> others]
    <3> DEFINE c == cell.state
    <3>1. cell.state = c
      OBVIOUS
    <3> HIDE DEF c
    <3>2. cell = [state |-> c, live |-> others] /\ c \in ExtremaState
      BY <2>1, <3>1
    <3> DEFINE half == [c EXCEPT !.has_value = TRUE]
               first == [cell EXCEPT !.state.has_value = TRUE]
    <3>3. first = [state |-> half, live |-> others]
      BY <3>2, PresenceSet
    <3>4. begun = [first EXCEPT !.state.numeric_mode = FALSE]
      OBVIOUS
    <3> HIDE DEF first, half
    <3>5. [first EXCEPT !.state.numeric_mode = FALSE]
            = [state |-> [half EXCEPT !.numeric_mode = FALSE], live |-> others]
      BY <3>3, ModeSet
    <3>6. [half EXCEPT !.numeric_mode = FALSE] = st
      BY <3>1 DEF half
    <3> QED
      BY <3>4, <3>5, <3>6
  <2>3. /\ st \in ExtremaState /\ st.has_value = TRUE /\ st.numeric_mode = FALSE
        /\ st.buffer = Inline
    BY <2>1 DEF ExtremaState
  <2>4. Own(st) = {}
    BY <2>3 DEF Own, OwnsText
  <2>5. HoldsText(begun, others, st.text)
    <3> HIDE DEF st, begun
    <3> QED
      BY <2>1, <2>2, <2>3, <2>4 DEF HoldsText, SoundCell
  <2>6. FoldStringExtrema(cell, kind, text) = AssignExtremaText(begun, text)
    BY <1>1 DEF FoldStringExtrema
  <2> HIDE DEF st, begun
  <2> QED
    BY <1>1, <2>5, <2>6, TextAssigned
<1>2. CASE cell.state.has_value
  <2> DEFINE now == EnsureExtremaStringMode(cell)
  <2>1. HoldsText(now, others, Shown(cell.state))
    BY <1>2, ModeChanged
  <2>2. now.state.text = Shown(cell.state)
    BY <2>1 DEF HoldsText
  <2>3. FoldStringExtrema(cell, kind, text) =
          IF TextWins(kind, now.state.text, text) THEN AssignExtremaText(now, text) ELSE now
    BY <1>2 DEF FoldStringExtrema
  <2> HIDE DEF now
  <2>4. HoldsText(AssignExtremaText(now, text), others, text)
    BY <2>1, TextAssigned
  <2> QED
    BY <1>2, <2>1, <2>2, <2>3, <2>4
<1> QED
  BY <1>1, <1>2

\* A state stands for texts: without any it is empty.
StandsFor(st, kind, T) ==
  IF T = {} THEN ~st.has_value /\ st.numeric_mode
  ELSE /\ st.has_value
       /\ IF st.numeric_mode THEN NumberStands(kind, st.value, st.width, T)
          ELSE IsExtremeOf(kind, st.text, T)

LEMMA ShownIsExtreme ==
  ASSUME ExtremaAssumption, NEW kind, NEW T \in SUBSET Bytes, T # {},
         NEW st, StandsFor(st, kind, T)
  PROVE  st.has_value /\ IsExtremeOf(kind, Shown(st), T) /\ Shown(st) \in Bytes
<1>1. st.has_value /\ IsExtremeOf(kind, Shown(st), T)
  BY NumberIsExtreme DEF StandsFor, Shown
<1> QED
  BY <1>1 DEF IsExtremeOf

\* A text is folded into a cell, which stands for that text as well.
LEMMA StringStands ==
  ASSUME ExtremaAssumption, NEW cell, NEW others, SoundCell(cell, others), Room(others),
         NEW kind, NEW S \in SUBSET Bytes, StandsFor(cell.state, kind, S),
         NEW T \in SUBSET Bytes, NEW text, IsExtremeOf(kind, text, T)
  PROVE  /\ SoundCell(FoldStringExtrema(cell, kind, text), others)
         /\ StandsFor(FoldStringExtrema(cell, kind, text).state, kind, S \cup T)
<1> DEFINE now == FoldStringExtrema(cell, kind, text)
           best == IF cell.state.has_value /\ ~TextWins(kind, Shown(cell.state), text)
                   THEN Shown(cell.state) ELSE text
<1>1. text \in Bytes /\ T # {}
  BY DEF IsExtremeOf
<1>2. CASE S = {}
  <2>1. ~cell.state.has_value /\ best = text
    BY <1>2 DEF StandsFor
  <2>2. HoldsText(now, others, best)
    BY <1>1, <2>1, StringFolded
  <2> HIDE DEF now
  <2> QED
    BY <1>1, <1>2, <2>1, <2>2 DEF HoldsText, StandsFor, now
<1>3. CASE S # {}
  <2>1. /\ cell.state.has_value /\ IsExtremeOf(kind, Shown(cell.state), S)
        /\ Shown(cell.state) \in Bytes
    BY <1>3, ShownIsExtreme
  <2>2. HoldsText(now, others, best)
    BY <1>1, <2>1, StringFolded
  <2>3. best = IF TextWins(kind, Shown(cell.state), text) THEN text ELSE Shown(cell.state)
    BY <2>1
  <2>4. IsExtremeOf(kind, best, S \cup T)
    BY <2>1, <2>3, ExtremeOfBoth
  <2> HIDE DEF now, best
  <2> QED
    BY <1>1, <2>2, <2>4 DEF HoldsText, StandsFor, now
<1> QED
  BY <1>2, <1>3

\* A number is folded into a cell.
LEMMA NumberFolded ==
  ASSUME ExtremaAssumption, NEW cell, NEW others, SoundCell(cell, others), Room(others),
         NEW kind, NEW S \in SUBSET Bytes, StandsFor(cell.state, kind, S),
         NEW T, T # {}, NEW value, NEW width, NumberStands(kind, value, width, T)
  PROVE  /\ SoundCell(FoldNumericExtrema(cell, kind, value, width), others)
         /\ StandsFor(FoldNumericExtrema(cell, kind, value, width).state, kind, S \cup T)
<1> DEFINE now == FoldNumericExtrema(cell, kind, value, width)
           st == cell.state
<1>1. /\ IsExtremeOf(kind, Rendered[value], T)
      /\ value \in 0 .. MaxNumber /\ width \in Nat /\ T \subseteq Bytes
  BY NumberIsExtreme
<1>2. /\ cell = [state |-> st, live |-> cell.live] /\ st \in ExtremaState
      /\ st.numeric_mode \/ ~st.has_value => st.buffer = Inline
      /\ others \subseteq Buffers
  BY DEF SoundCell
<1>3. CASE ~st.has_value
  <2> DEFINE new == [st EXCEPT !.has_value = TRUE, !.numeric_mode = TRUE,
                               !.value = value, !.width = width]
  <2>1. S = {} /\ cell.live = others /\ st.buffer = Inline
    BY <1>3 DEF StandsFor, SoundCell, Own, OwnsText
  <2>2. now = [state |-> new, live |-> others]
    <3> HIDE DEF st
    <3>1. cell.state = st
      BY DEF st
    <3> QED
      BY <1>2, <1>3, <2>1, <3>1 DEF FoldNumericExtrema, ExtremaState
  <2>3. /\ new \in ExtremaState /\ new.has_value = TRUE /\ new.numeric_mode = TRUE
        /\ new.value = value /\ new.width = width /\ new.buffer = Inline
    BY <1>1, <1>2, <2>1 DEF ExtremaState
  <2>4. Own(new) = {}
    BY <2>3 DEF Own, OwnsText
  <2> HIDE DEF now, new, st
  <2>5. SoundCell(now, others)
    BY <1>2, <2>2, <2>3, <2>4 DEF SoundCell
  <2>6. StandsFor(now.state, kind, S \cup T)
    BY <2>1, <2>2, <2>3 DEF StandsFor
  <2> QED
    BY <2>5, <2>6 DEF now
<1>4. CASE st.has_value /\ st.numeric_mode /\ st.width = width
  <2> DEFINE best == IF NumberWins(kind, st.value, value) THEN value ELSE st.value
             new == [st EXCEPT !.value = best]
  <2>1. S # {} /\ NumberStands(kind, st.value, width, S)
    BY <1>4 DEF StandsFor
  <2>2. NumberStands(kind, best, width, S \cup T)
    BY <2>1, NumberOfBoth
  <2>3. cell.live = others /\ st.buffer = Inline
    BY <1>2, <1>4 DEF SoundCell, Own, OwnsText
  <2>4. now = [state |-> new, live |-> others]
    <3>1. now = IF NumberWins(kind, st.value, value) THEN [cell EXCEPT !.state.value = value] ELSE cell
      BY <1>4 DEF FoldNumericExtrema
    <3>2. [cell EXCEPT !.state.value = value] = [state |-> [st EXCEPT !.value = value], live |-> others]
      <4> HIDE DEF st
      <4>1. cell.state = st
        BY DEF st
      <4> QED
        BY <1>2, <2>3, <4>1
    <3>3. [st EXCEPT !.value = st.value] = st
      BY <1>2 DEF ExtremaState
    <3> HIDE DEF now, st
    <3> QED
      BY <1>2, <2>3, <3>1, <3>2, <3>3
  <2>5. best \in 0 .. MaxNumber
    BY <1>1, <1>2 DEF ExtremaState
  <2>6. /\ new \in ExtremaState /\ new.has_value /\ new.numeric_mode
        /\ new.value = best /\ new.width = width /\ new.buffer = Inline
    <3> HIDE DEF best, st
    <3> QED
      BY <1>2, <1>4, <2>3, <2>5 DEF ExtremaState
  <2>7. Own(new) = {}
    BY <2>6 DEF Own, OwnsText
  <2> HIDE DEF now, new, st, best
  <2>8. SoundCell(now, others)
    BY <1>2, <2>4, <2>6, <2>7 DEF SoundCell
  <2>9. StandsFor(now.state, kind, S \cup T)
    BY <2>1, <2>2, <2>4, <2>6 DEF StandsFor
  <2> QED
    BY <2>8, <2>9 DEF now
<1>5. CASE st.has_value /\ ~(st.numeric_mode /\ st.width = width)
  <2>1. now = FoldStringExtrema(cell, kind, Rendered[value])
    BY <1>5 DEF FoldNumericExtrema
  <2> QED
    BY <1>1, <2>1, StringStands
<1> QED
  BY <1>3, <1>4, <1>5

LEMMA TextFolded ==
  ASSUME ExtremaAssumption, NEW cell, NEW others, SoundCell(cell, others), Room(others),
         NEW kind, NEW S \in SUBSET Bytes, StandsFor(cell.state, kind, S), NEW text \in Bytes
  PROVE  /\ SoundCell(FoldVarcharExtrema(cell, kind, text), others)
         /\ StandsFor(FoldVarcharExtrema(cell, kind, text).state, kind, S \cup {text})
<1>1. CASE cell.state.numeric_mode /\ TryParseCanonicalUnsignedIntegerText(text)
  <2>1. IsCanonical(text)
    BY <1>1 DEF IsCanonical
  <2>2. NumberOf(text) \in 0 .. MaxNumber
    BY <2>1, CanonicalIs
  <2>3. NumberStands(kind, NumberOf(text), Len(text), {text})
    BY <2>1, <2>2 DEF NumberStands, NumberWins
  <2> DEFINE n == NumberOf(text)
             l == Len(text)
             T == {text}
  <2>4. FoldVarcharExtrema(cell, kind, text) = FoldNumericExtrema(cell, kind, n, l)
    BY <1>1 DEF FoldVarcharExtrema
  <2>5. T # {} /\ NumberStands(kind, n, l, T)
    BY <2>3
  <2> HIDE DEF n, l, T
  <2>6. /\ SoundCell(FoldNumericExtrema(cell, kind, n, l), others)
        /\ StandsFor(FoldNumericExtrema(cell, kind, n, l).state, kind, S \cup T)
    BY <2>5, NumberFolded
  <2> QED
    BY <2>4, <2>6 DEF T
<1>2. CASE ~(cell.state.numeric_mode /\ TryParseCanonicalUnsignedIntegerText(text))
  <2>1. IsExtremeOf(kind, text, {text})
    BY WinsOrder DEF IsExtremeOf
  <2>2. FoldVarcharExtrema(cell, kind, text) = FoldStringExtrema(cell, kind, text)
    BY <1>2 DEF FoldVarcharExtrema
  <2> QED
    BY <2>1, <2>2, StringStands
<1> QED
  BY <1>1, <1>2

LEMMA StateFolded ==
  ASSUME ExtremaAssumption, NEW cell, NEW others, SoundCell(cell, others), Room(others),
         NEW kind, NEW S \in SUBSET Bytes, StandsFor(cell.state, kind, S),
         NEW source, NEW T \in SUBSET Bytes, StandsFor(source, kind, T)
  PROVE  /\ SoundCell(FoldStateExtrema(cell, source, kind), others)
         /\ StandsFor(FoldStateExtrema(cell, source, kind).state, kind, S \cup T)
<1>1. CASE T = {}
  BY <1>1 DEF StandsFor, FoldStateExtrema
<1>2. CASE T # {} /\ source.numeric_mode
  <2>1. NumberStands(kind, source.value, source.width, T) /\ source.has_value
    BY <1>2 DEF StandsFor
  <2>2. FoldStateExtrema(cell, source, kind)
          = FoldNumericExtrema(cell, kind, source.value, source.width)
    BY <1>2, <2>1 DEF FoldStateExtrema
  <2> DEFINE n == source.value
             l == source.width
  <2>3. NumberStands(kind, n, l, T) /\ T # {}
    BY <1>2, <2>1
  <2> HIDE DEF n, l
  <2>4. /\ SoundCell(FoldNumericExtrema(cell, kind, n, l), others)
        /\ StandsFor(FoldNumericExtrema(cell, kind, n, l).state, kind, S \cup T)
    BY <2>3, NumberFolded
  <2> QED
    BY <2>2, <2>4 DEF n, l
<1>3. CASE T # {} /\ ~source.numeric_mode
  <2>1. IsExtremeOf(kind, source.text, T) /\ source.has_value
    BY <1>3 DEF StandsFor
  <2>2. FoldStateExtrema(cell, source, kind) = FoldStringExtrema(cell, kind, source.text)
    BY <1>3, <2>1 DEF FoldStateExtrema
  <2> QED
    BY <2>1, <2>2, StringStands
<1> QED
  BY <1>1, <1>2, <1>3


-----------------------------------------------------------------------------
(* The walk of a document, and the values at its paths. *)

Below(node, k) ==
  IF IsObject(node) /\ k \in DOMAIN node.member THEN node.member[k] ELSE Nowhere

IsDescent(f, doc, p, m) == f = [n \in 0 .. m |-> IF n = 0 THEN doc ELSE Below(f[n - 1], p[n])]

LEMMA DescentIs ==
  ASSUME NEW doc, NEW p
  PROVE  Descent(doc, p) = CHOOSE f : IsDescent(f, doc, p, Len(p))
BY DEF Descent, IsDescent, Below

LEMMA DescentExists ==
  ASSUME NEW doc, NEW p, NEW k \in Nat
  PROVE  \E f : IsDescent(f, doc, p, k)
<1> DEFINE B == {m \in 0 .. k : ~\E f : IsDescent(f, doc, p, m)}
<1>1. SUFFICES ASSUME B # {}
               PROVE  FALSE
  OBVIOUS
<1>2. PICK m \in B : \A i \in B : m <= i
  <2> HIDE DEF B
  <2> B \subseteq 0 .. k
    BY DEF B
  <2> QED
    BY <1>1, Least
<1>3. m # 0
  <2>1. IsDescent([n \in 0 .. 0 |-> doc], doc, p, 0)
    BY DEF IsDescent
  <2> QED
    BY <1>2, <2>1
<1>4. PICK v : IsDescent(v, doc, p, m - 1)
  <2>1. m - 1 \in 0 .. k /\ ~(m <= m - 1)
    BY <1>2, <1>3
  <2> QED
    BY <1>2, <2>1
<1> DEFINE w == [n \in 0 .. m |-> IF n = m THEN Below(v[m - 1], p[m]) ELSE v[n]]
<1>5. IsDescent(w, doc, p, m)
  <2>1. m \in Nat
    BY <1>2
  <2>2. ASSUME NEW n \in 0 .. m
        PROVE  w[n] = IF n = 0 THEN doc ELSE Below(w[n - 1], p[n])
    <3>1. CASE n = m
      <4>1. w[n] = Below(v[m - 1], p[m]) /\ w[n - 1] = v[m - 1]
        BY <1>3, <2>1, <3>1
      <4> QED
        BY <1>3, <3>1, <4>1
    <3>2. CASE n # m
      <4>1. n \in 0 .. m - 1 /\ w[n] = v[n]
        BY <2>1, <3>2
      <4>2. v[n] = IF n = 0 THEN doc ELSE Below(v[n - 1], p[n])
        BY <1>4, <4>1 DEF IsDescent
      <4>3. n # 0 => w[n - 1] = v[n - 1]
        BY <2>1, <3>2
      <4> HIDE DEF w
      <4> QED
        BY <4>1, <4>2, <4>3
    <3> QED
      BY <3>1, <3>2
  <2>3. w = [n \in 0 .. m |-> w[n]]
    OBVIOUS
  <2> HIDE DEF w
  <2>4. [n \in 0 .. m |-> w[n]] = [n \in 0 .. m |-> IF n = 0 THEN doc ELSE Below(w[n - 1], p[n])]
    BY <2>2
  <2> QED
    BY <2>3, <2>4 DEF IsDescent
<1> QED
  BY <1>2, <1>5

LEMMA DescentSteps ==
  ASSUME NEW doc, NEW p, Len(p) \in Nat
  PROVE  /\ Descent(doc, p)[0] = doc
         /\ \A n \in 1 .. Len(p) : Descent(doc, p)[n] = Below(Descent(doc, p)[n - 1], p[n])
<1> DEFINE f == Descent(doc, p)
<1>1. IsDescent(f, doc, p, Len(p))
  BY DescentIs, DescentExists
<1> HIDE DEF f
<1>2. \A n \in 0 .. Len(p) : f[n] = IF n = 0 THEN doc ELSE Below(f[n - 1], p[n])
  BY <1>1 DEF IsDescent
<1> QED
  BY <1>2 DEF f

\* How a descent begins depends on how its path begins only.
LEMMA DescentPrefix ==
  ASSUME NEW doc, NEW p, NEW q, Len(p) \in Nat, Len(q) \in Nat, NEW k \in Nat,
         k <= Len(p), k <= Len(q), \A i \in 1 .. k : p[i] = q[i]
  PROVE  Descent(doc, p)[k] = Descent(doc, q)[k]
<1> DEFINE f == Descent(doc, p)
           g == Descent(doc, q)
           B == {n \in 0 .. k : f[n] # g[n]}
<1>1. /\ f[0] = doc /\ \A n \in 1 .. Len(p) : f[n] = Below(f[n - 1], p[n])
      /\ g[0] = doc /\ \A n \in 1 .. Len(q) : g[n] = Below(g[n - 1], q[n])
  BY DescentSteps
<1> HIDE DEF f, g
<1>2. ASSUME B # {}
      PROVE  FALSE
  <2>1. PICK m \in B : \A i \in B : m <= i
    <3> B \subseteq 0 .. k
      OBVIOUS
    <3> HIDE DEF B
    <3> QED
      BY <1>2, Least
  <2>2. m # 0
    BY <1>1, <2>1
  <2>3. m \in 1 .. k /\ m - 1 \in 0 .. k /\ ~(m <= m - 1)
    BY <2>1, <2>2
  <2>4. f[m - 1] = g[m - 1]
    BY <2>1, <2>3
  <2>5. f[m] = g[m]
    BY <1>1, <2>3, <2>4
  <2> QED
    BY <2>1, <2>5
<1> QED
  BY <1>2 DEF f, g

LEMMA ValueAtRoot ==
  ASSUME NEW doc
  PROVE  ValueAt(doc, <<>>) = doc
BY DescentSteps DEF ValueAt

LEMMA ValueBelow ==
  ASSUME NEW doc, NEW S, NEW p \in Seq(S), NEW k \in S
  PROVE  ValueAt(doc, Append(p, k)) = Below(ValueAt(doc, p), k)
<1> DEFINE q == Append(p, k)
<1>1. /\ q \in Seq(S) /\ Len(q) = Len(p) + 1 /\ Len(p) \in Nat
      /\ q[Len(p) + 1] = k /\ \A i \in 1 .. Len(p) : p[i] = q[i]
  OBVIOUS
<1> HIDE DEF q
<1>2. Descent(doc, q)[Len(q)] = Below(Descent(doc, q)[Len(p)], k)
  BY <1>1, DescentSteps
<1>3. Descent(doc, p)[Len(p)] = Descent(doc, q)[Len(p)]
  BY <1>1, DescentPrefix
<1> QED
  BY <1>2, <1>3 DEF ValueAt, q

Names == Keys \ {EmptyKey}
PathsOf(d) == [1 .. d -> Names]

LEMMA PathIsSeq ==
  ASSUME NEW d \in Nat, NEW p \in PathsOf(d)
  PROVE  p \in Seq(Names) /\ Len(p) = d
BY DEF PathsOf

LEMMA PathExtended ==
  ASSUME NEW d \in Nat, NEW p \in PathsOf(d), NEW k \in Names
  PROVE  Append(p, k) \in PathsOf(d + 1)
<1>1. p \in Seq(Names) /\ Len(p) = d
  BY PathIsSeq
<1> DEFINE q == Append(p, k)
<1>2. q \in Seq(Names) /\ Len(q) = d + 1
  BY <1>1
<1> HIDE DEF q
<1>3. q \in [1 .. Len(q) -> Names]
  BY <1>2
<1> QED
  BY <1>2, <1>3 DEF PathsOf, q

LEMMA PathSplit ==
  ASSUME NEW d \in Nat, NEW q \in PathsOf(d + 1)
  PROVE  \E p \in PathsOf(d), k \in Names : q = Append(p, k)
<1> DEFINE p == [i \in 1 .. d |-> q[i]]
           k == q[d + 1]
<1>1. p \in PathsOf(d) /\ k \in Names
  BY DEF PathsOf
<1>2. q = Append(p, k)
  <2>1. p \in Seq(Names) /\ Len(p) = d /\ \A i \in 1 .. d : p[i] = q[i]
    BY <1>1, PathIsSeq
  <2>2. q \in Seq(Names) /\ Len(q) = d + 1
    BY PathIsSeq
  <2> HIDE DEF p
  <2>3. /\ Append(p, k) \in Seq(Names) /\ Len(Append(p, k)) = d + 1
        /\ \A i \in 1 .. d + 1 : Append(p, k)[i] = q[i]
    BY <1>1, <2>1
  <2> HIDE DEF k
  <2> QED
    BY <2>2, <2>3, SeqEqual
<1> QED
  BY <1>1, <1>2

LEMMA ClosedBelow ==
  ASSUME NEW D, IsClosed(D), NEW node \in D \cup {Nowhere}, NEW k
  PROVE  /\ Below(node, k) \in D \cup {Nowhere}
         /\ Below(node, k) # Nowhere <=> /\ node # Nowhere /\ IsObject(node)
                                         /\ k \in DOMAIN node.member
         /\ Below(node, k) # Nowhere => /\ Below(node, k) = node.member[k]
                                        /\ k \in Keys
<1>1. Nowhere.kind = "none"
  BY DEF Nowhere
<1>2. Nowhere \notin D
  BY <1>1 DEF IsClosed
<1>3. node = Nowhere => ~IsObject(node)
  BY <1>1 DEF IsObject
<1>4. ASSUME IsObject(node), k \in DOMAIN node.member
      PROVE  node.member[k] \in D /\ k \in Keys
  BY <1>3, <1>4 DEF IsClosed, IsObject
<1> QED
  BY <1>2, <1>3, <1>4 DEF Below

LEMMA ValueInDocuments ==
  ASSUME NEW D, IsClosed(D), NEW doc \in D, NEW p, Len(p) \in Nat
  PROVE  ValueAt(doc, p) \in D \cup {Nowhere}
<1> DEFINE f == Descent(doc, p)
           B == {n \in 0 .. Len(p) : f[n] \notin D \cup {Nowhere}}
<1>1. f[0] = doc /\ \A n \in 1 .. Len(p) : f[n] = Below(f[n - 1], p[n])
  BY DescentSteps
<1> HIDE DEF f
<1>2. ASSUME B # {}
      PROVE  FALSE
  <2>1. PICK m \in B : \A i \in B : m <= i
    <3> B \subseteq 0 .. Len(p)
      OBVIOUS
    <3> HIDE DEF B
    <3> QED
      BY <1>2, Least
  <2>2. m # 0
    BY <1>1, <2>1
  <2>3. m \in 1 .. Len(p) /\ m - 1 \in 0 .. Len(p) /\ ~(m <= m - 1)
    BY <2>1, <2>2
  <2>4. f[m - 1] \in D \cup {Nowhere}
    BY <2>1, <2>3
  <2>5. f[m] \in D \cup {Nowhere}
    <3> DEFINE node == f[m - 1]
               k == p[m]
    <3>1. f[m] = Below(node, k)
      BY <1>1, <2>3
    <3>2. node \in D \cup {Nowhere}
      BY <2>4
    <3> HIDE DEF node, k
    <3> QED
      BY <3>1, <3>2, ClosedBelow
  <2> QED
    BY <2>1, <2>5
<1> QED
  BY <1>2 DEF ValueAt, f

-----------------------------------------------------------------------------

Spread(at) == {<<Append(at[1], k), at[2].member[k]>> : k \in DOMAIN at[2].member \ {EmptyKey}}
Deeper(level) == UNION {Spread(at) : at \in {x \in level : IsObject(x[2])}}

IsLevels(f, doc, m) == f = [d \in 0 .. m |-> IF d = 0 THEN {<< <<>>, doc >>} ELSE Deeper(f[d - 1])]

LEMMA LevelsAre ==
  ASSUME NEW doc
  PROVE  LevelsBelow(doc) = CHOOSE f : IsLevels(f, doc, MaxDepth)
BY DEF LevelsBelow, IsLevels, Deeper, Spread

\* The paths of a document, and what is met at them.
PathsAt(doc, d) == {p \in PathsOf(d) : Has(doc, p)}
MetAt(doc, d) == {<<p, ValueAt(doc, p)>> : p \in PathsAt(doc, d)}

LEMMA FirstMet ==
  ASSUME NEW D, IsClosed(D), NEW doc \in D
  PROVE  MetAt(doc, 0) = {<< <<>>, doc >>}
<1>1. PathsOf(0) = {<<>>}
  <2>1. \A p \in PathsOf(0) : p = <<>>
    BY PathIsSeq, EmptySeq
  <2>2. <<>> \in PathsOf(0)
    BY DEF PathsOf
  <2> QED
    BY <2>1, <2>2
<1>2. ValueAt(doc, <<>>) = doc
  BY ValueAtRoot
<1>3. doc # Nowhere
  BY DEF IsClosed, Nowhere
<1> QED
  BY <1>1, <1>2, <1>3 DEF MetAt, PathsAt, Has

LEMMA NextMet ==
  ASSUME NEW D, IsClosed(D), NEW doc \in D, NEW d \in Nat
  PROVE  Deeper(MetAt(doc, d)) = MetAt(doc, d + 1)
<1>1. ASSUME NEW x \in Deeper(MetAt(doc, d))
      PROVE  x \in MetAt(doc, d + 1)
  <2>1. PICK at \in MetAt(doc, d) : IsObject(at[2]) /\ x \in Spread(at)
    BY <1>1 DEF Deeper
  <2>2. PICK p \in PathsAt(doc, d) : at = <<p, ValueAt(doc, p)>>
    BY <2>1 DEF MetAt
  <2> DEFINE node == ValueAt(doc, p)
  <2>3. PICK k \in DOMAIN node.member \ {EmptyKey} : x = <<Append(p, k), node.member[k]>>
    BY <2>1, <2>2 DEF Spread
  <2>4. /\ p \in PathsOf(d) /\ p \in Seq(Names) /\ Len(p) \in Nat
        /\ node # Nowhere /\ IsObject(node)
    BY <2>1, <2>2, PathIsSeq DEF PathsAt, Has
  <2>5. node \in D \cup {Nowhere}
    BY <2>4, ValueInDocuments
  <2> HIDE DEF node
  <2>6. Below(node, k) # Nowhere /\ Below(node, k) = node.member[k] /\ k \in Keys
    BY <2>3, <2>4, <2>5, ClosedBelow
  <2>7. k \in Names
    BY <2>3, <2>6 DEF Names
  <2>8. Append(p, k) \in PathsOf(d + 1)
    BY <2>4, <2>7, PathExtended
  <2>9. ValueAt(doc, Append(p, k)) = Below(node, k)
    BY <2>4, <2>7, ValueBelow DEF node
  <2> QED
    BY <2>3, <2>6, <2>8, <2>9 DEF MetAt, PathsAt, Has
<1>2. ASSUME NEW x \in MetAt(doc, d + 1)
      PROVE  x \in Deeper(MetAt(doc, d))
  <2>1. PICK q \in PathsAt(doc, d + 1) : x = <<q, ValueAt(doc, q)>>
    BY <1>2 DEF MetAt
  <2>2. q \in PathsOf(d + 1) /\ ValueAt(doc, q) # Nowhere
    BY DEF PathsAt, Has
  <2>3. PICK p \in PathsOf(d), k \in Names : q = Append(p, k)
    BY <2>2, PathSplit
  <2> DEFINE node == ValueAt(doc, p)
  <2>4. p \in Seq(Names) /\ Len(p) \in Nat
    BY PathIsSeq
  <2>5. node \in D \cup {Nowhere}
    BY <2>4, ValueInDocuments
  <2>6. ValueAt(doc, q) = Below(node, k)
    BY <2>3, <2>4, ValueBelow
  <2> HIDE DEF node
  <2>7. /\ node # Nowhere /\ IsObject(node) /\ k \in DOMAIN node.member
        /\ Below(node, k) = node.member[k]
    BY <2>2, <2>5, <2>6, ClosedBelow
  <2> DEFINE at == <<p, node>>
  <2>8. at \in MetAt(doc, d)
    BY <2>7 DEF MetAt, PathsAt, Has, node
  <2>9. x \in Spread(at)
    BY <2>1, <2>3, <2>6, <2>7 DEF Spread, Names
  <2>10. IsObject(at[2])
    BY <2>7
  <2> HIDE DEF at
  <2> QED
    BY <2>8, <2>9, <2>10 DEF Deeper
<1> QED
  BY <1>1, <1>2

LEMMA MetLevels ==
  ASSUME NEW D, IsClosed(D), NEW doc \in D, NEW m \in Nat
  PROVE  IsLevels([d \in 0 .. m |-> MetAt(doc, d)], doc, m)
<1> DEFINE f == [d \in 0 .. m |-> MetAt(doc, d)]
<1>1. ASSUME NEW d \in 0 .. m
      PROVE  f[d] = IF d = 0 THEN {<< <<>>, doc >>} ELSE Deeper(f[d - 1])
  <2>1. CASE d = 0
    BY <2>1, FirstMet
  <2>2. CASE d # 0
    <3>1. d - 1 \in Nat /\ d - 1 \in 0 .. m /\ (d - 1) + 1 = d
      BY <2>2
    <3>2. Deeper(MetAt(doc, d - 1)) = MetAt(doc, d)
      BY <3>1, NextMet
    <3> QED
      BY <2>2, <3>1, <3>2
  <2> QED
    BY <2>1, <2>2
<1>2. f = [d \in 0 .. m |-> f[d]]
  OBVIOUS
<1> HIDE DEF f
<1>3. [d \in 0 .. m |-> f[d]] = [d \in 0 .. m |-> IF d = 0 THEN {<< <<>>, doc >>} ELSE Deeper(f[d - 1])]
  BY <1>1
<1> QED
  BY <1>2, <1>3 DEF IsLevels, f

LEMMA LevelsMet ==
  ASSUME MaxDepth \in Nat, NEW D, IsClosed(D), NEW doc \in D, NEW d \in 0 .. MaxDepth
  PROVE  LevelsBelow(doc)[d] = MetAt(doc, d)
<1> DEFINE f == LevelsBelow(doc)
           B == {e \in 0 .. MaxDepth : f[e] # MetAt(doc, e)}
<1>1. IsLevels(f, doc, MaxDepth)
  BY LevelsAre, MetLevels
<1> HIDE DEF f
<1>2. \A e \in 0 .. MaxDepth : f[e] = IF e = 0 THEN {<< <<>>, doc >>} ELSE Deeper(f[e - 1])
  BY <1>1 DEF IsLevels
<1>3. ASSUME B # {}
      PROVE  FALSE
  <2>1. PICK m \in B : \A i \in B : m <= i
    <3> B \subseteq 0 .. MaxDepth
      OBVIOUS
    <3> HIDE DEF B
    <3> QED
      BY <1>3, Least
  <2>2. m # 0
    BY <1>2, <2>1, FirstMet
  <2>3. m \in 1 .. MaxDepth /\ m - 1 \in 0 .. MaxDepth /\ m - 1 \in Nat /\ ~(m <= m - 1)
        /\ (m - 1) + 1 = m
    BY <2>1, <2>2
  <2>4. f[m - 1] = MetAt(doc, m - 1)
    BY <2>1, <2>3
  <2>5. f[m] = Deeper(f[m - 1])
    BY <1>2, <2>3
  <2>6. Deeper(MetAt(doc, m - 1)) = MetAt(doc, m)
    BY <2>3, NextMet
  <2> QED
    BY <2>1, <2>4, <2>5, <2>6
<1> QED
  BY <1>3 DEF f

\* The walk meets every path of a document to the depth of lanes, with its value.
\* The walk meets every path of the document that may be a lane, and no other.
LEMMA DocumentAccumulated ==
  ASSUME MaxDepth \in Nat, NEW D, IsClosed(D), NEW doc \in D
  PROVE  AccumulateDocument(doc) =
           [p \in {q \in LanePaths : Has(doc, q)} |-> Seen(ValueAt(doc, p), Len(p))]
<1> DEFINE met == WalkNestedObject(doc)
           had == {q \in LanePaths : Has(doc, q)}
           node(p) == (CHOOSE at \in met : at[1] = p)[2]
<1>1. met = {<<p, ValueAt(doc, p)>> : p \in had}
  <2>1. ASSUME NEW x
        PROVE  x \in met <=> x \in {<<p, ValueAt(doc, p)>> : p \in had}
    <3>1. x \in met <=> \E d \in 1 .. MaxDepth : x \in LevelsBelow(doc)[d]
      BY DEF WalkNestedObject
    <3>2. \A d \in 1 .. MaxDepth : LevelsBelow(doc)[d] = MetAt(doc, d)
      BY LevelsMet
    <3>3. x \in met <=> \E d \in 1 .. MaxDepth : \E p \in PathsOf(d) :
                          Has(doc, p) /\ x = <<p, ValueAt(doc, p)>>
      BY <3>1, <3>2 DEF MetAt, PathsAt
    <3>4. \A p : p \in had <=> \E d \in 1 .. MaxDepth : p \in PathsOf(d) /\ Has(doc, p)
      BY DEF LanePaths, PathsOf, Names
    <3> HIDE DEF met, had
    <3> QED
      BY <3>3, <3>4
  <2> QED
    BY <2>1
<1> HIDE DEF met, had
<1>2. {at[1] : at \in met} = had
  <2>1. \A at \in met : at[1] \in had
    BY <1>1
  <2>2. \A p \in had : <<p, ValueAt(doc, p)>> \in met /\ <<p, ValueAt(doc, p)>>[1] = p
    BY <1>1
  <2> QED
    BY <2>1, <2>2
<1>3. ASSUME NEW p \in had
      PROVE  node(p) = ValueAt(doc, p)
  <2> DEFINE at == CHOOSE at \in met : at[1] = p
  <2>1. <<p, ValueAt(doc, p)>> \in met /\ <<p, ValueAt(doc, p)>>[1] = p
    BY <1>1
  <2>2. at \in met /\ at[1] = p
    BY <2>1
  <2>3. node(p) = at[2]
    OBVIOUS
  <2> HIDE DEF at, node
  <2>4. at = <<p, ValueAt(doc, p)>>
    BY <1>1, <2>2
  <2> QED
    BY <2>3, <2>4
<1>4. AccumulateDocument(doc) = [p \in {at[1] : at \in met} |-> Seen(node(p), Len(p))]
  BY DEF AccumulateDocument, met
<1> HIDE DEF node
<1>5. [p \in had |-> Seen(node(p), Len(p))] = [p \in had |-> Seen(ValueAt(doc, p), Len(p))]
  BY <1>3
<1> QED
  BY <1>2, <1>4, <1>5 DEF had

-----------------------------------------------------------------------------
(* What is counted of the rows that have a path. *)

Scalars(R, p) == {r \in Having(R, p) : IsScalar(At(r, p))}
Fitting(R, p, x) == {r \in Having(R, p) : FitsPrimitive(At(r, p), x)}
Arrays(R, p) == {r \in Having(R, p) : IsArray(At(r, p)) /\ Len(p) = 1}
Roleless(R, p) ==
  {r \in Having(R, p) : ~IsScalar(At(r, p)) /\ ~(IsArray(At(r, p)) /\ Len(p) = 1)}
FittingArrays(R, p, x) ==
  {r \in Arrays(R, p) : \A i \in DOMAIN At(r, p).items : FitsPrimitive(At(r, p).items[i], x)}
ObjectArrays(R, p) == {r \in Arrays(R, p) : IsObjectArray(At(r, p))}
FittingElements(R, p, k, x) == {e \in With(R, p, k) : FitsPrimitive(ElementAt(e, p).member[k], x)}

RowsCounted(c, R, p) ==
  /\ c.scalar_present = Cardinality(Scalars(R, p))
  /\ c.nonrole_present = Cardinality(Roleless(R, p))
  /\ c.array_rows = Cardinality(Arrays(R, p))
  /\ c.oarray_object_rows = Cardinality(ObjectArrays(R, p))
  /\ \A x \in Primitive : c.scalar_fit[x] = Cardinality(Fitting(R, p, x))
  /\ \A x \in Primitive : c.sarray_fit[x] = Cardinality(FittingArrays(R, p, x))

SubfieldCounted(c, R, p, k) ==
  /\ c.present = Cardinality(With(R, p, k))
  /\ \A x \in Primitive : c.fit[x] = Cardinality(FittingElements(R, p, k, x))

ElementsCounted(c, R, p) ==
  /\ c.object_elements = Cardinality(Elements(R, p))
  /\ DOMAIN c.subfields = Subfields(R, p)
  /\ \A k \in DOMAIN c.subfields : SubfieldCounted(c.subfields[k], R, p, k)

Counted(c, R, p) ==
  /\ RowsCounted(c, R, p)
  /\ Len(p) = 1 => ElementsCounted(c, R, p)
  /\ Len(p) # 1 => DOMAIN c.subfields = {}

\* A state stands for rows.
StandsForRows(st, R) ==
  /\ st.non_null_rows = Cardinality(R)
  /\ DOMAIN st.paths = {p \in LanePaths : Having(R, p) # {}}
  /\ \A p \in DOMAIN st.paths : Counted(st.paths[p], R, p)

-----------------------------------------------------------------------------

LEMMA Adds ==
  ASSUME NEW S, IsFiniteSet(S), NEW T, IsFiniteSet(T), S \cap T = {},
         NEW U, U = S \cup T
  PROVE  /\ Cardinality(U) = Cardinality(S) + Cardinality(T)
         /\ Cardinality(S) \in Nat /\ Cardinality(T) \in Nat
<1>1. Cardinality(S \cap T) = 0
  BY FS_EmptySet
<1>2. Cardinality(S) \in Nat /\ Cardinality(T) \in Nat
  BY FS_CardinalityType
<1>3. Cardinality(S \cup T) = Cardinality(S) + Cardinality(T) - Cardinality(S \cap T)
  BY FS_Union
<1> QED
  BY <1>1, <1>2, <1>3

\* What is counted of two sets of rows: the union, and disjoint if those are.
LEMMA HavingBoth ==
  ASSUME NEW R, NEW Q, NEW U, U = R \cup Q, NEW p
  PROVE  Having(U, p) = Having(R, p) \cup Having(Q, p)
BY DEF Having

LEMMA ArraysBoth ==
  ASSUME NEW R, NEW Q, NEW U, U = R \cup Q, NEW p
  PROVE  Arrays(U, p) = Arrays(R, p) \cup Arrays(Q, p)
BY HavingBoth DEF Arrays

LEMMA ScalarsBoth ==
  ASSUME NEW R, NEW Q, NEW U, U = R \cup Q, NEW p
  PROVE  Scalars(U, p) = Scalars(R, p) \cup Scalars(Q, p)
BY HavingBoth DEF Scalars

LEMMA RolelessBoth ==
  ASSUME NEW R, NEW Q, NEW U, U = R \cup Q, NEW p
  PROVE  Roleless(U, p) = Roleless(R, p) \cup Roleless(Q, p)
BY HavingBoth DEF Roleless

LEMMA ObjectArraysBoth ==
  ASSUME NEW R, NEW Q, NEW U, U = R \cup Q, NEW p
  PROVE  ObjectArrays(U, p) = ObjectArrays(R, p) \cup ObjectArrays(Q, p)
BY ArraysBoth DEF ObjectArrays

LEMMA FittingBoth ==
  ASSUME NEW R, NEW Q, NEW U, U = R \cup Q, NEW p, NEW x
  PROVE  Fitting(U, p, x) = Fitting(R, p, x) \cup Fitting(Q, p, x)
BY HavingBoth DEF Fitting

LEMMA FittingArraysBoth ==
  ASSUME NEW R, NEW Q, NEW U, U = R \cup Q, NEW p, NEW x
  PROVE  FittingArrays(U, p, x) = FittingArrays(R, p, x) \cup FittingArrays(Q, p, x)
BY ArraysBoth DEF FittingArrays

LEMMA CountedOfRows ==
  ASSUME NEW R, NEW p
  PROVE  /\ Having(R, p) \subseteq R /\ Scalars(R, p) \subseteq R /\ Roleless(R, p) \subseteq R
         /\ Arrays(R, p) \subseteq R /\ ObjectArrays(R, p) \subseteq R
         /\ \A x : Fitting(R, p, x) \subseteq R /\ FittingArrays(R, p, x) \subseteq R
BY DEF Having, Scalars, Roleless, Arrays, ObjectArrays, Fitting, FittingArrays

LEMMA ElementIs ==
  ASSUME NEW X, NEW e, NEW p
  PROVE  e \in Elements(X, p) <=>
           \E r \in X : Has(argument[r], p) /\ IsObjectArray(At(r, p))
                        /\ \E i \in DOMAIN At(r, p).items : e = <<r, i>>
<1> DEFINE H == {x \in Having(X, p) : IsObjectArray(At(x, p))}
<1>1. e \in Elements(X, p) <=> \E r \in H : e \in {<<r, i>> : i \in DOMAIN At(r, p).items}
  BY DEF Elements
<1>2. \A r : r \in H <=> r \in X /\ Has(argument[r], p) /\ IsObjectArray(At(r, p))
  BY DEF Having
<1> HIDE DEF H
<1> QED
  BY <1>1, <1>2

LEMMA ElementsBoth ==
  ASSUME NEW R, NEW Q, NEW U, U = R \cup Q, NEW p
  PROVE  Elements(U, p) = Elements(R, p) \cup Elements(Q, p)
<1>1. \A X, e : e \in Elements(X, p) <=>
                  \E r \in X : Has(argument[r], p) /\ IsObjectArray(At(r, p))
                               /\ \E i \in DOMAIN At(r, p).items : e = <<r, i>>
  BY ElementIs
<1> QED
  BY <1>1

LEMMA WithBoth ==
  ASSUME NEW R, NEW Q, NEW U, U = R \cup Q, NEW p, NEW k
  PROVE  With(U, p, k) = With(R, p, k) \cup With(Q, p, k)
BY ElementsBoth DEF With

LEMMA FittingElementsBoth ==
  ASSUME NEW R, NEW Q, NEW U, U = R \cup Q, NEW p, NEW k, NEW x
  PROVE  FittingElements(U, p, k, x) = FittingElements(R, p, k, x) \cup FittingElements(Q, p, k, x)
BY WithBoth DEF FittingElements

LEMMA SubfieldsBoth ==
  ASSUME NEW R, NEW Q, NEW U, U = R \cup Q, NEW p
  PROVE  Subfields(U, p) = Subfields(R, p) \cup Subfields(Q, p)
<1>1. \A k : With(U, p, k) = With(R, p, k) \cup With(Q, p, k)
  BY WithBoth
<1>2. \A k : With(U, p, k) = {} <=> With(R, p, k) = {} /\ With(Q, p, k) = {}
  BY <1>1
<1> QED
  BY <1>2 DEF Subfields

LEMMA ElementsApart ==
  ASSUME NEW R, NEW Q, R \cap Q = {}, NEW p
  PROVE  Elements(R, p) \cap Elements(Q, p) = {}
<1>1. \A e \in Elements(R, p) : e[1] \in R
  BY DEF Elements, Having
<1>2. \A e \in Elements(Q, p) : e[1] \in Q
  BY DEF Elements, Having
<1> QED
  BY <1>1, <1>2

LEMMA Paired ==
  ASSUME NEW r, NEW I, IsFiniteSet(I)
  PROVE  /\ IsFiniteSet({<<r, i>> : i \in I})
         /\ Cardinality({<<r, i>> : i \in I}) = Cardinality(I)
<1> DEFINE T == {<<r, i>> : i \in I}
           f == [i \in I |-> <<r, i>>]
<1>1. f \in Surjection(I, T)
  BY DEF Surjection
<1>2. f \in Injection(I, T)
  BY DEF Injection, IsInjective
<1> HIDE DEF T, f
<1>3. IsFiniteSet(T) /\ (Cardinality(T) = Cardinality(I) <=> f \in Injection(I, T))
  BY <1>1, FS_Surjection
<1> QED
  BY <1>2, <1>3 DEF T

LEMMA ElementsFinite ==
  ASSUME NEW D, IsClosed(D), NEW R, IsFiniteSet(R), \A r \in R : argument[r] \in D,
         NEW p, Len(p) \in Nat
  PROVE  IsFiniteSet(Elements(R, p))
<1> DEFINE H == {r \in Having(R, p) : IsObjectArray(At(r, p))}
           of(r) == {<<r, i>> : i \in DOMAIN At(r, p).items}
           All == {of(r) : r \in H}
           f == [r \in H |-> of(r)]
<1>1. H \subseteq R
  BY DEF Having
<1>2. IsFiniteSet(H)
  <2> HIDE DEF H
  <2> QED
    BY <1>1, FS_Subset
<1>3. \A r \in H : IsFiniteSet(of(r))
  <2>1. ASSUME NEW r \in H
        PROVE  IsFiniteSet(of(r))
    <3>1. At(r, p) \in D \cup {Nowhere} /\ IsArray(At(r, p))
      BY <1>1, ValueInDocuments DEF At, IsObjectArray
    <3>2. At(r, p).items \in Seq(D)
      BY <3>1 DEF IsClosed, IsArray, Nowhere
    <3> DEFINE I == DOMAIN At(r, p).items
    <3>3. IsFiniteSet(I)
      <4> DEFINE n == Len(At(r, p).items)
      <4>1. I = 1 .. n /\ n \in Nat
        BY <3>2
      <4> HIDE DEF I, n
      <4> QED
        BY <4>1, FS_Interval
    <3> HIDE DEF I
    <3>4. IsFiniteSet({<<r, i>> : i \in I})
      BY <3>3, Paired
    <3> QED
      BY <3>4 DEF I
  <2> QED
    BY <2>1
<1>4. IsFiniteSet(All)
  <2>1. f \in Surjection(H, All)
    BY DEF Surjection
  <2> HIDE DEF f, All, H
  <2> QED
    BY <1>2, <2>1, FS_Surjection
<1>5. \A T \in All : IsFiniteSet(T)
  BY <1>3
<1>6. Elements(R, p) = UNION All
  BY DEF Elements
<1> HIDE DEF All
<1> QED
  BY <1>4, <1>5, <1>6, FS_UNION

-----------------------------------------------------------------------------
(* Counters that are put together. *)

\* The parts of two sets that have nothing in common add up.
LEMMA AddsWithin ==
  ASSUME NEW R, NEW Q, IsFiniteSet(R), IsFiniteSet(Q), R \cap Q = {},
         NEW S, NEW T, S \subseteq R, T \subseteq Q, NEW U, U = S \cup T
  PROVE  Cardinality(U) = Cardinality(S) + Cardinality(T)
<1>1. IsFiniteSet(S) /\ IsFiniteSet(T)
  BY FS_Subset
<1>2. S \cap T = {}
  OBVIOUS
<1> QED
  BY <1>1, <1>2, Adds

LEMMA MergedRows ==
  ASSUME NEW R, NEW Q, IsFiniteSet(R), IsFiniteSet(Q), R \cap Q = {}, NEW U, U = R \cup Q, NEW p,
         NEW a, NEW b, RowsCounted(a, R, p), RowsCounted(b, Q, p)
  PROVE  RowsCounted(MergeSuggestCandidate(a, b), U, p)
<1> DEFINE c == MergeSuggestCandidate(a, b)
<1>1. /\ c.scalar_present = a.scalar_present + b.scalar_present
      /\ c.nonrole_present = a.nonrole_present + b.nonrole_present
      /\ c.array_rows = a.array_rows + b.array_rows
      /\ c.oarray_object_rows = a.oarray_object_rows + b.oarray_object_rows
      /\ c.scalar_fit = Added(a.scalar_fit, b.scalar_fit)
      /\ c.sarray_fit = Added(a.sarray_fit, b.sarray_fit)
  BY DEF MergeSuggestCandidate
<1> HIDE DEF c
<1>2. \A x \in Primitive : /\ c.scalar_fit[x] = a.scalar_fit[x] + b.scalar_fit[x]
                           /\ c.sarray_fit[x] = a.sarray_fit[x] + b.sarray_fit[x]
  BY <1>1 DEF Added
<1>3. c.scalar_present = Cardinality(Scalars(U, p))
  <2> DEFINE S == Scalars(R, p)
             T == Scalars(Q, p)
             V == Scalars(U, p)
  <2>1. V = S \cup T
    BY ScalarsBoth
  <2>2. S \subseteq R /\ T \subseteq Q
    BY CountedOfRows
  <2>3. a.scalar_present = Cardinality(S) /\ b.scalar_present = Cardinality(T)
    BY DEF RowsCounted
  <2> HIDE DEF S, T, V
  <2>4. Cardinality(V) = Cardinality(S) + Cardinality(T)
    BY <2>1, <2>2, AddsWithin
  <2>5. c.scalar_present = Cardinality(V)
    BY <1>1, <2>3, <2>4
  <2> QED
    BY <2>5 DEF V
<1>4. c.nonrole_present = Cardinality(Roleless(U, p))
  <2> DEFINE S == Roleless(R, p)
             T == Roleless(Q, p)
             V == Roleless(U, p)
  <2>1. V = S \cup T
    BY RolelessBoth
  <2>2. S \subseteq R /\ T \subseteq Q
    BY CountedOfRows
  <2>3. a.nonrole_present = Cardinality(S) /\ b.nonrole_present = Cardinality(T)
    BY DEF RowsCounted
  <2> HIDE DEF S, T, V
  <2>4. Cardinality(V) = Cardinality(S) + Cardinality(T)
    BY <2>1, <2>2, AddsWithin
  <2>5. c.nonrole_present = Cardinality(V)
    BY <1>1, <2>3, <2>4
  <2> QED
    BY <2>5 DEF V
<1>5. c.array_rows = Cardinality(Arrays(U, p))
  <2> DEFINE S == Arrays(R, p)
             T == Arrays(Q, p)
             V == Arrays(U, p)
  <2>1. V = S \cup T
    BY ArraysBoth
  <2>2. S \subseteq R /\ T \subseteq Q
    BY CountedOfRows
  <2>3. a.array_rows = Cardinality(S) /\ b.array_rows = Cardinality(T)
    BY DEF RowsCounted
  <2> HIDE DEF S, T, V
  <2>4. Cardinality(V) = Cardinality(S) + Cardinality(T)
    BY <2>1, <2>2, AddsWithin
  <2>5. c.array_rows = Cardinality(V)
    BY <1>1, <2>3, <2>4
  <2> QED
    BY <2>5 DEF V
<1>6. c.oarray_object_rows = Cardinality(ObjectArrays(U, p))
  <2> DEFINE S == ObjectArrays(R, p)
             T == ObjectArrays(Q, p)
             V == ObjectArrays(U, p)
  <2>1. V = S \cup T
    BY ObjectArraysBoth
  <2>2. S \subseteq R /\ T \subseteq Q
    BY CountedOfRows
  <2>3. a.oarray_object_rows = Cardinality(S) /\ b.oarray_object_rows = Cardinality(T)
    BY DEF RowsCounted
  <2> HIDE DEF S, T, V
  <2>4. Cardinality(V) = Cardinality(S) + Cardinality(T)
    BY <2>1, <2>2, AddsWithin
  <2>5. c.oarray_object_rows = Cardinality(V)
    BY <1>1, <2>3, <2>4
  <2> QED
    BY <2>5 DEF V
<1>7. ASSUME NEW x \in Primitive
      PROVE  c.scalar_fit[x] = Cardinality(Fitting(U, p, x))
  <2> DEFINE S == Fitting(R, p, x)
             T == Fitting(Q, p, x)
             V == Fitting(U, p, x)
  <2>1. V = S \cup T
    BY FittingBoth
  <2>2. S \subseteq R /\ T \subseteq Q
    BY CountedOfRows
  <2>3. a.scalar_fit[x] = Cardinality(S) /\ b.scalar_fit[x] = Cardinality(T)
    BY DEF RowsCounted
  <2> HIDE DEF S, T, V
  <2>4. Cardinality(V) = Cardinality(S) + Cardinality(T)
    BY <2>1, <2>2, AddsWithin
  <2>5. c.scalar_fit[x] = Cardinality(V)
    BY <1>2, <2>3, <2>4
  <2> QED
    BY <2>5 DEF V
<1>8. ASSUME NEW x \in Primitive
      PROVE  c.sarray_fit[x] = Cardinality(FittingArrays(U, p, x))
  <2> DEFINE S == FittingArrays(R, p, x)
             T == FittingArrays(Q, p, x)
             V == FittingArrays(U, p, x)
  <2>1. V = S \cup T
    BY FittingArraysBoth
  <2>2. S \subseteq R /\ T \subseteq Q
    BY CountedOfRows
  <2>3. a.sarray_fit[x] = Cardinality(S) /\ b.sarray_fit[x] = Cardinality(T)
    BY DEF RowsCounted
  <2> HIDE DEF S, T, V
  <2>4. Cardinality(V) = Cardinality(S) + Cardinality(T)
    BY <2>1, <2>2, AddsWithin
  <2>5. c.sarray_fit[x] = Cardinality(V)
    BY <1>2, <2>3, <2>4
  <2> QED
    BY <2>5 DEF V
<1> QED
  BY <1>3, <1>4, <1>5, <1>6, <1>7, <1>8 DEF RowsCounted, c

LEMMA ElementSets ==
  ASSUME NEW R, NEW p, NEW k
  PROVE  With(R, p, k) \subseteq Elements(R, p)
         /\ \A x : FittingElements(R, p, k, x) \subseteq Elements(R, p)
BY DEF With, FittingElements

\* What no element of the second rows has is counted as it was.
LEMMA SubfieldOfOne ==
  ASSUME NEW R, NEW Q, NEW U, U = R \cup Q, NEW p, NEW k,
         NEW c, SubfieldCounted(c, R, p, k)
  PROVE  With(Q, p, k) = {} => SubfieldCounted(c, U, p, k)
<1>0. With(U, p, k) = With(R, p, k) \cup With(Q, p, k)
  BY WithBoth
<1> HAVE With(Q, p, k) = {}
<1>1. With(U, p, k) = With(R, p, k)
  BY <1>0
<1>2. \A x : FittingElements(U, p, k, x) = FittingElements(R, p, k, x)
  BY <1>1 DEF FittingElements
<1> QED
  BY <1>1, <1>2 DEF SubfieldCounted

LEMMA SubfieldOfBoth ==
  ASSUME NEW R, NEW Q, R \cap Q = {}, NEW U, U = R \cup Q, NEW p,
         IsFiniteSet(Elements(R, p)), IsFiniteSet(Elements(Q, p)), NEW k,
         NEW a, SubfieldCounted(a, R, p, k), NEW b, SubfieldCounted(b, Q, p, k)
  PROVE  SubfieldCounted(MergeSubfieldStat(a, b), U, p, k)
<1> DEFINE c == MergeSubfieldStat(a, b)
<1>1. c.present = a.present + b.present /\ c.fit = Added(a.fit, b.fit)
  BY DEF MergeSubfieldStat
<1> HIDE DEF c
<1>2. Elements(R, p) \cap Elements(Q, p) = {}
  BY ElementsApart
<1>4. c.present = Cardinality(With(U, p, k))
  <2> DEFINE S == With(R, p, k)
             T == With(Q, p, k)
             V == With(U, p, k)
  <2>1. V = S \cup T
    BY WithBoth
  <2>2. S \subseteq Elements(R, p) /\ T \subseteq Elements(Q, p)
    BY ElementSets
  <2>3. a.present = Cardinality(S) /\ b.present = Cardinality(T)
    BY DEF SubfieldCounted
  <2> HIDE DEF S, T, V
  <2>4. Cardinality(V) = Cardinality(S) + Cardinality(T)
    BY <1>2, <2>1, <2>2, AddsWithin
  <2>5. c.present = Cardinality(V)
    BY <1>1, <2>3, <2>4
  <2> QED
    BY <2>5 DEF V
<1>5. ASSUME NEW x \in Primitive
      PROVE  c.fit[x] = Cardinality(FittingElements(U, p, k, x))
  <2>0. c.fit[x] = a.fit[x] + b.fit[x]
    BY <1>1 DEF Added
  <2> DEFINE S == FittingElements(R, p, k, x)
             T == FittingElements(Q, p, k, x)
             V == FittingElements(U, p, k, x)
  <2>1. V = S \cup T
    BY FittingElementsBoth
  <2>2. S \subseteq Elements(R, p) /\ T \subseteq Elements(Q, p)
    BY ElementSets
  <2>3. a.fit[x] = Cardinality(S) /\ b.fit[x] = Cardinality(T)
    BY DEF SubfieldCounted
  <2> HIDE DEF S, T, V
  <2>4. Cardinality(V) = Cardinality(S) + Cardinality(T)
    BY <1>2, <2>1, <2>2, AddsWithin
  <2>5. c.fit[x] = Cardinality(V)
    BY <2>0, <2>3, <2>4
  <2> QED
    BY <2>5 DEF V
<1> QED
  BY <1>4, <1>5 DEF SubfieldCounted, c

LEMMA MergedElements ==
  ASSUME NEW R, NEW Q, R \cap Q = {}, NEW U, U = R \cup Q, NEW p,
         IsFiniteSet(Elements(R, p)), IsFiniteSet(Elements(Q, p)),
         NEW a, ElementsCounted(a, R, p), NEW b, ElementsCounted(b, Q, p)
  PROVE  ElementsCounted(MergeSuggestCandidate(a, b), U, p)
<1> DEFINE c == MergeSuggestCandidate(a, b)
<1>0. U = Q \cup R
  OBVIOUS
<1>1. c.object_elements = a.object_elements + b.object_elements
      /\ c.subfields = MergedMaps(a.subfields, b.subfields, MergeSubfieldStat)
  BY DEF MergeSuggestCandidate
<1> HIDE DEF c
<1>2. c.object_elements = Cardinality(Elements(U, p))
  <2> DEFINE S == Elements(R, p)
             T == Elements(Q, p)
             V == Elements(U, p)
  <2>1. S \cap T = {}
    BY ElementsApart
  <2>2. V = S \cup T
    BY ElementsBoth
  <2>3. a.object_elements = Cardinality(S) /\ b.object_elements = Cardinality(T)
    BY DEF ElementsCounted
  <2>4. IsFiniteSet(S) /\ IsFiniteSet(T)
    OBVIOUS
  <2> HIDE DEF S, T, V
  <2>5. Cardinality(V) = Cardinality(S) + Cardinality(T)
    BY <2>1, <2>2, <2>4, Adds
  <2>6. c.object_elements = Cardinality(V)
    BY <1>1, <2>3, <2>5
  <2> QED
    BY <2>6 DEF V
<1>3. DOMAIN a.subfields = Subfields(R, p) /\ DOMAIN b.subfields = Subfields(Q, p)
  BY DEF ElementsCounted
<1>4. DOMAIN c.subfields = DOMAIN a.subfields \cup DOMAIN b.subfields
  BY <1>1 DEF MergedMaps
<1>5. DOMAIN c.subfields = Subfields(U, p)
  <2>1. Subfields(U, p) = Subfields(R, p) \cup Subfields(Q, p)
    BY SubfieldsBoth
  <2> QED
    BY <1>3, <1>4, <2>1
<1>6. ASSUME NEW k \in DOMAIN c.subfields
      PROVE  SubfieldCounted(c.subfields[k], U, p, k)
  <2>0. k \in Keys \ {EmptyKey}
    BY <1>5 DEF Subfields
  <2>1. CASE k \notin DOMAIN b.subfields
    <3>1. c.subfields[k] = a.subfields[k] /\ k \in DOMAIN a.subfields
      BY <1>1, <1>4, <2>1 DEF MergedMaps
    <3>2. With(Q, p, k) = {}
      BY <2>0, <2>1, <1>3 DEF Subfields
    <3>3. SubfieldCounted(a.subfields[k], R, p, k)
      BY <3>1 DEF ElementsCounted
    <3> QED
      BY <3>1, <3>2, <3>3, SubfieldOfOne
  <2>2. CASE k \notin DOMAIN a.subfields
    <3>1. c.subfields[k] = b.subfields[k] /\ k \in DOMAIN b.subfields
      BY <1>1, <1>4, <2>2 DEF MergedMaps
    <3>2. With(R, p, k) = {}
      BY <2>0, <2>2, <1>3 DEF Subfields
    <3>3. SubfieldCounted(b.subfields[k], Q, p, k)
      BY <3>1 DEF ElementsCounted
    <3> QED
      BY <1>0, <3>1, <3>2, <3>3, SubfieldOfOne
  <2>3. CASE k \in DOMAIN a.subfields /\ k \in DOMAIN b.subfields
    <3>1. c.subfields[k] = MergeSubfieldStat(a.subfields[k], b.subfields[k])
      BY <1>1, <1>4, <2>3 DEF MergedMaps
    <3>2. SubfieldCounted(a.subfields[k], R, p, k) /\ SubfieldCounted(b.subfields[k], Q, p, k)
      BY <2>3 DEF ElementsCounted
    <3> QED
      BY <3>1, <3>2, SubfieldOfBoth
  <2> QED
    BY <2>1, <2>2, <2>3
<1> QED
  BY <1>2, <1>5, <1>6 DEF ElementsCounted, c

LEMMA MergedCounted ==
  ASSUME NEW R, NEW Q, IsFiniteSet(R), IsFiniteSet(Q), R \cap Q = {}, NEW U, U = R \cup Q, NEW p,
         IsFiniteSet(Elements(R, p)), IsFiniteSet(Elements(Q, p)),
         NEW a, NEW b, Counted(a, R, p), Counted(b, Q, p)
  PROVE  Counted(MergeSuggestCandidate(a, b), U, p)
<1>1. RowsCounted(MergeSuggestCandidate(a, b), U, p)
  BY MergedRows DEF Counted
<1>2. Len(p) = 1 => ElementsCounted(MergeSuggestCandidate(a, b), U, p)
  BY MergedElements DEF Counted
<1>3. Len(p) # 1 => DOMAIN MergeSuggestCandidate(a, b).subfields = {}
  BY DEF Counted, MergeSuggestCandidate, MergedMaps
<1> QED
  BY <1>1, <1>2, <1>3 DEF Counted

\* Rows that lack the path do not change what is counted of it.
LEMMA CountedOfOne ==
  ASSUME NEW R, NEW Q, NEW U, U = R \cup Q, NEW p, NEW c, Counted(c, R, p)
  PROVE  Having(Q, p) = {} => Counted(c, U, p)
<1>1. Having(U, p) = Having(R, p) \cup Having(Q, p)
  BY HavingBoth
<1> HAVE Having(Q, p) = {}
<1>2. Having(U, p) = Having(R, p)
  BY <1>1
<1>3. Arrays(U, p) = Arrays(R, p)
  BY <1>2 DEF Arrays
<1>4. /\ Scalars(U, p) = Scalars(R, p)
      /\ Roleless(U, p) = Roleless(R, p)
      /\ ObjectArrays(U, p) = ObjectArrays(R, p)
      /\ \A x : Fitting(U, p, x) = Fitting(R, p, x)
      /\ \A x : FittingArrays(U, p, x) = FittingArrays(R, p, x)
  BY <1>2, <1>3 DEF Scalars, Roleless, ObjectArrays, Fitting, FittingArrays
<1>5. RowsCounted(c, U, p)
  BY <1>3, <1>4 DEF Counted, RowsCounted
<1>6. Elements(U, p) = Elements(R, p)
  BY <1>2 DEF Elements
<1>7. \A k : With(U, p, k) = With(R, p, k)
  BY <1>6 DEF With
<1>8. Subfields(U, p) = Subfields(R, p)
  BY <1>7 DEF Subfields
<1>9. \A k, x : FittingElements(U, p, k, x) = FittingElements(R, p, k, x)
  BY <1>7 DEF FittingElements
<1>10. Len(p) = 1 => ElementsCounted(c, U, p)
  BY <1>6, <1>7, <1>8, <1>9 DEF Counted, ElementsCounted, SubfieldCounted
<1>11. Len(p) # 1 => DOMAIN c.subfields = {}
  BY DEF Counted
<1> QED
  BY <1>5, <1>10, <1>11 DEF Counted

LEMMA PathLength ==
  ASSUME NEW p \in LanePaths
  PROVE  Len(p) \in Nat \ {0} /\ p \in PathsOf(Len(p)) /\ (MaxDepth \in Nat => Len(p) <= MaxDepth)
<1>1. PICK n \in 1 .. MaxDepth : p \in [1 .. n -> Keys \ {EmptyKey}]
  BY DEF LanePaths
<1>2. n \in Nat \ {0} /\ p \in PathsOf(n)
  BY <1>1 DEF PathsOf, Names
<1>3. Len(p) = n
  BY <1>2, PathIsSeq
<1> QED
  BY <1>2, <1>3

\* Two states put together stand for the rows of both.
LEMMA MergedStands ==
  ASSUME NEW D, IsClosed(D), NEW R, NEW Q, IsFiniteSet(R), IsFiniteSet(Q), R \cap Q = {},
         NEW U, U = R \cup Q, \A r \in U : argument[r] \in D,
         NEW a, NEW b, StandsForRows(a, R), StandsForRows(b, Q)
  PROVE  StandsForRows(MergeSuggest(a, b), U)
<1> DEFINE m == MergeSuggest(a, b)
<1>0. U = Q \cup R
  OBVIOUS
<1>1. m.non_null_rows = a.non_null_rows + b.non_null_rows
      /\ m.paths = MergedMaps(a.paths, b.paths, MergeSuggestCandidate)
  BY DEF MergeSuggest
<1> HIDE DEF m
<1>2. m.non_null_rows = Cardinality(U)
  BY <1>1, Adds DEF StandsForRows
<1>3. /\ DOMAIN a.paths = {p \in LanePaths : Having(R, p) # {}}
      /\ DOMAIN b.paths = {p \in LanePaths : Having(Q, p) # {}}
  BY DEF StandsForRows
<1>4. DOMAIN m.paths = DOMAIN a.paths \cup DOMAIN b.paths
  BY <1>1 DEF MergedMaps
<1>5. DOMAIN m.paths = {p \in LanePaths : Having(U, p) # {}}
  <2>1. ASSUME NEW p
        PROVE  Having(U, p) = {} <=> Having(R, p) = {} /\ Having(Q, p) = {}
    <3>1. Having(U, p) = Having(R, p) \cup Having(Q, p)
      BY HavingBoth
    <3> QED
      BY <3>1
  <2> QED
    BY <1>3, <1>4, <2>1
<1>6. ASSUME NEW p \in DOMAIN m.paths
      PROVE  Counted(m.paths[p], U, p)
  <2>1. p \in LanePaths
    BY <1>5
  <2>2. CASE p \notin DOMAIN b.paths
    <3>1. m.paths[p] = a.paths[p] /\ p \in DOMAIN a.paths
      BY <1>1, <1>4, <2>2 DEF MergedMaps
    <3>2. Having(Q, p) = {}
      BY <2>1, <2>2, <1>3
    <3>3. Counted(a.paths[p], R, p)
      BY <3>1 DEF StandsForRows
    <3> QED
      BY <3>1, <3>2, <3>3, CountedOfOne
  <2>3. CASE p \notin DOMAIN a.paths
    <3>1. m.paths[p] = b.paths[p] /\ p \in DOMAIN b.paths
      BY <1>1, <1>4, <2>3 DEF MergedMaps
    <3>2. Having(R, p) = {}
      BY <2>1, <2>3, <1>3
    <3>3. Counted(b.paths[p], Q, p)
      BY <3>1 DEF StandsForRows
    <3> QED
      BY <1>0, <3>1, <3>2, <3>3, CountedOfOne
  <2>4. CASE p \in DOMAIN a.paths /\ p \in DOMAIN b.paths
    <3>1. m.paths[p] = MergeSuggestCandidate(a.paths[p], b.paths[p])
      BY <1>1, <1>4, <2>4 DEF MergedMaps
    <3>2. Counted(a.paths[p], R, p) /\ Counted(b.paths[p], Q, p)
      BY <2>4 DEF StandsForRows
    <3>3. Len(p) \in Nat
      BY <2>1, PathLength
    <3>4. IsFiniteSet(Elements(R, p)) /\ IsFiniteSet(Elements(Q, p))
      BY <3>3, ElementsFinite
    <3> QED
      BY <3>1, <3>2, <3>4, MergedCounted
  <2> QED
    BY <2>2, <2>3, <2>4
<1> QED
  BY <1>2, <1>5, <1>6 DEF StandsForRows, m

-----------------------------------------------------------------------------
(* What one document is counted as. *)

LEMMA CardOfOne ==
  ASSUME NEW r, NEW S, S \subseteq {r}
  PROVE  Cardinality(S) = IF r \in S THEN 1 ELSE 0
<1>1. CASE r \in S
  <2>1. S = {r}
    BY <1>1
  <2>2. Cardinality({r}) = 1
    BY FS_Singleton
  <2> QED
    BY <1>1, <2>1, <2>2
<1>2. CASE r \notin S
  <2>1. S = {}
    BY <1>2
  <2>2. Cardinality({}) = 0
    BY FS_EmptySet
  <2> QED
    BY <1>2, <2>1, <2>2
<1> QED
  BY <1>1, <1>2

LEMMA CountsOfOne ==
  ASSUME NEW r, NEW p, Has(argument[r], p)
  PROVE  /\ Cardinality(Scalars({r}, p)) = IF IsScalar(At(r, p)) THEN 1 ELSE 0
         /\ Cardinality(Arrays({r}, p)) = IF IsArray(At(r, p)) /\ Len(p) = 1 THEN 1 ELSE 0
         /\ Cardinality(Roleless({r}, p)) =
              IF ~IsScalar(At(r, p)) /\ ~(IsArray(At(r, p)) /\ Len(p) = 1) THEN 1 ELSE 0
         /\ Cardinality(ObjectArrays({r}, p)) = IF IsObjectArray(At(r, p)) /\ Len(p) = 1 THEN 1 ELSE 0
<1>1. Having({r}, p) = {r}
  BY DEF Having
<1>2. Cardinality(Scalars({r}, p)) = IF IsScalar(At(r, p)) THEN 1 ELSE 0
  <2> DEFINE S == Scalars({r}, p)
  <2>1. S \subseteq {r} /\ (r \in S <=> IsScalar(At(r, p)))
    BY <1>1 DEF Scalars
  <2> HIDE DEF S
  <2>2. Cardinality(S) = IF r \in S THEN 1 ELSE 0
    BY <2>1, CardOfOne
  <2> QED
    BY <2>1, <2>2 DEF S
<1>3. Cardinality(Arrays({r}, p)) = IF IsArray(At(r, p)) /\ Len(p) = 1 THEN 1 ELSE 0
  <2> DEFINE S == Arrays({r}, p)
  <2>1. S \subseteq {r} /\ (r \in S <=> IsArray(At(r, p)) /\ Len(p) = 1)
    BY <1>1 DEF Arrays
  <2> HIDE DEF S
  <2>2. Cardinality(S) = IF r \in S THEN 1 ELSE 0
    BY <2>1, CardOfOne
  <2> QED
    BY <2>1, <2>2 DEF S
<1>4. Cardinality(Roleless({r}, p)) =
        IF ~IsScalar(At(r, p)) /\ ~(IsArray(At(r, p)) /\ Len(p) = 1) THEN 1 ELSE 0
  <2> DEFINE S == Roleless({r}, p)
  <2>1. S \subseteq {r}
        /\ (r \in S <=> ~IsScalar(At(r, p)) /\ ~(IsArray(At(r, p)) /\ Len(p) = 1))
    BY <1>1 DEF Roleless
  <2> HIDE DEF S
  <2>2. Cardinality(S) = IF r \in S THEN 1 ELSE 0
    BY <2>1, CardOfOne
  <2> QED
    BY <2>1, <2>2 DEF S
<1>5. Cardinality(ObjectArrays({r}, p)) = IF IsObjectArray(At(r, p)) /\ Len(p) = 1 THEN 1 ELSE 0
  <2> DEFINE S == ObjectArrays({r}, p)
  <2>1. S \subseteq {r} /\ (r \in S <=> IsObjectArray(At(r, p)) /\ Len(p) = 1)
    BY <1>1 DEF ObjectArrays, Arrays, IsObjectArray
  <2> HIDE DEF S
  <2>2. Cardinality(S) = IF r \in S THEN 1 ELSE 0
    BY <2>1, CardOfOne
  <2> QED
    BY <2>1, <2>2 DEF S
<1> QED
  BY <1>2, <1>3, <1>4, <1>5

LEMMA FitsOfOne ==
  ASSUME NEW r, NEW p, Has(argument[r], p), NEW x
  PROVE  /\ Cardinality(Fitting({r}, p, x)) = IF FitsPrimitive(At(r, p), x) THEN 1 ELSE 0
         /\ Cardinality(FittingArrays({r}, p, x)) =
              IF /\ IsArray(At(r, p)) /\ Len(p) = 1
                 /\ \A i \in DOMAIN At(r, p).items : FitsPrimitive(At(r, p).items[i], x)
              THEN 1 ELSE 0
<1>1. Having({r}, p) = {r}
  BY DEF Having
<1>2. Cardinality(Fitting({r}, p, x)) = IF FitsPrimitive(At(r, p), x) THEN 1 ELSE 0
  <2> DEFINE S == Fitting({r}, p, x)
  <2>1. S \subseteq {r} /\ (r \in S <=> FitsPrimitive(At(r, p), x))
    BY <1>1 DEF Fitting
  <2> HIDE DEF S
  <2>2. Cardinality(S) = IF r \in S THEN 1 ELSE 0
    BY <2>1, CardOfOne
  <2> QED
    BY <2>1, <2>2 DEF S
<1>3. Cardinality(FittingArrays({r}, p, x)) =
        IF /\ IsArray(At(r, p)) /\ Len(p) = 1
           /\ \A i \in DOMAIN At(r, p).items : FitsPrimitive(At(r, p).items[i], x)
        THEN 1 ELSE 0
  <2> DEFINE S == FittingArrays({r}, p, x)
             P == /\ IsArray(At(r, p)) /\ Len(p) = 1
                  /\ \A i \in DOMAIN At(r, p).items : FitsPrimitive(At(r, p).items[i], x)
  <2>1. S \subseteq {r} /\ (r \in S <=> P)
    BY <1>1 DEF FittingArrays, Arrays
  <2> HIDE DEF S, P
  <2>2. Cardinality(S) = IF r \in S THEN 1 ELSE 0
    BY <2>1, CardOfOne
  <2>3. Cardinality(S) = IF P THEN 1 ELSE 0
    BY <2>1, <2>2
  <2> QED
    BY <2>3 DEF S, P
<1> QED
  BY <1>2, <1>3

\* A value of no role, or a scalar, has no elements.
LEMMA NoElements ==
  ASSUME NEW r, NEW p, ~IsObjectArray(At(r, p)), NEW c,
         c.object_elements = 0, DOMAIN c.subfields = {}
  PROVE  ElementsCounted(c, {r}, p)
<1>1. Elements({r}, p) = {}
  <2>1. \A e : e \notin Elements({r}, p)
    BY ElementIs
  <2> QED
    BY <2>1
<1>2. \A k : With({r}, p, k) = {}
  BY <1>1 DEF With
<1>3. Subfields({r}, p) = {}
  BY <1>2 DEF Subfields
<1>4. Cardinality({}) = 0
  BY FS_EmptySet
<1> QED
  BY <1>1, <1>3, <1>4 DEF ElementsCounted

LEMMA ScalarCounted ==
  ASSUME NEW r, NEW p, Has(argument[r], p), IsScalar(At(r, p))
  PROVE  Counted(RecordScalar(At(r, p)), {r}, p)
<1> DEFINE c == RecordScalar(At(r, p))
<1>0. ~IsArray(At(r, p)) /\ ~IsObjectArray(At(r, p))
  BY DEF IsScalar, IsArray, IsObjectArray
<1>1. /\ c.scalar_present = 1 /\ c.nonrole_present = 0 /\ c.array_rows = 0
      /\ c.oarray_object_rows = 0 /\ c.object_elements = 0 /\ DOMAIN c.subfields = {}
  BY DEF RecordScalar, NoCandidate
<1>2. \A x \in Primitive : /\ c.scalar_fit[x] = IF FitsPrimitive(At(r, p), x) THEN 1 ELSE 0
                           /\ c.sarray_fit[x] = 0
  BY DEF RecordScalar, NoCandidate, FitCounts, NoFit
<1> HIDE DEF c
<1>3. RowsCounted(c, {r}, p)
  <2>1. /\ c.scalar_present = Cardinality(Scalars({r}, p))
        /\ c.nonrole_present = Cardinality(Roleless({r}, p))
        /\ c.array_rows = Cardinality(Arrays({r}, p))
        /\ c.oarray_object_rows = Cardinality(ObjectArrays({r}, p))
    BY <1>0, <1>1, CountsOfOne
  <2>2. ASSUME NEW x \in Primitive
        PROVE  c.scalar_fit[x] = Cardinality(Fitting({r}, p, x))
               /\ c.sarray_fit[x] = Cardinality(FittingArrays({r}, p, x))
    BY <1>0, <1>2, FitsOfOne
  <2> QED
    BY <2>1, <2>2 DEF RowsCounted
<1>4. ElementsCounted(c, {r}, p)
  BY <1>0, <1>1, NoElements
<1> QED
  BY <1>1, <1>3, <1>4 DEF Counted, c

LEMMA NonroleCounted ==
  ASSUME NEW r, NEW p, Has(argument[r], p), ~IsScalar(At(r, p)), ~(IsArray(At(r, p)) /\ Len(p) = 1)
  PROVE  Counted(Nonrole, {r}, p)
<1> DEFINE c == Nonrole
<1>1. /\ c.scalar_present = 0 /\ c.nonrole_present = 1 /\ c.array_rows = 0
      /\ c.oarray_object_rows = 0 /\ c.object_elements = 0 /\ DOMAIN c.subfields = {}
  BY DEF Nonrole, NoCandidate
<1>2. \A x \in Primitive : c.scalar_fit[x] = 0 /\ c.sarray_fit[x] = 0
  BY DEF Nonrole, NoCandidate, NoFit
<1> HIDE DEF c
<1>0. \A x : ~FitsPrimitive(At(r, p), x)
  BY DEF FitsPrimitive
<1>5. ~(IsObjectArray(At(r, p)) /\ Len(p) = 1)
  BY DEF IsObjectArray
<1>3. RowsCounted(c, {r}, p)
  <2>1. /\ c.scalar_present = Cardinality(Scalars({r}, p))
        /\ c.nonrole_present = Cardinality(Roleless({r}, p))
        /\ c.array_rows = Cardinality(Arrays({r}, p))
        /\ c.oarray_object_rows = Cardinality(ObjectArrays({r}, p))
    BY <1>5, <1>1, CountsOfOne
  <2>2. ASSUME NEW x \in Primitive
        PROVE  c.scalar_fit[x] = Cardinality(Fitting({r}, p, x))
               /\ c.sarray_fit[x] = Cardinality(FittingArrays({r}, p, x))
    BY <1>0, <1>2, FitsOfOne
  <2> QED
    BY <2>1, <2>2 DEF RowsCounted
<1>4. Len(p) = 1 => ElementsCounted(c, {r}, p)
  BY <1>5, <1>1, NoElements
<1> QED
  BY <1>1, <1>3, <1>4 DEF Counted, c

\* The elements of one array of objects.
LEMMA ArrayElements ==
  ASSUME NEW D, IsClosed(D), NEW r, NEW p, Has(argument[r], p), At(r, p) \in D,
         IsArray(At(r, p)), Len(p) = 1
  PROVE  ElementsCounted(ClassifyTopLevelArray(At(r, p).items), {r}, p)
<1> DEFINE items == At(r, p).items
           c == ClassifyTopLevelArray(items)
           all == \A i \in DOMAIN items : IsObject(items[i])
           keys == (UNION {DOMAIN items[i].member : i \in DOMAIN items}) \ {EmptyKey}
<1>1. /\ c.object_elements = IF all THEN Len(items) ELSE 0
      /\ c.subfields = IF all THEN [k \in keys |-> SubfieldStat(items, k)] ELSE <<>>
  BY DEF ClassifyTopLevelArray, NoCandidate
<1>2. items \in Seq(D)
  BY DEF IsClosed, IsArray
<1>3. all <=> IsObjectArray(At(r, p))
  BY DEF IsObjectArray
<1>4. CASE ~all
  <2>1. c.object_elements = 0 /\ c.subfields = <<>>
    BY <1>1, <1>4
  <2> HIDE DEF c, all
  <2>2. DOMAIN c.subfields = {}
    BY <2>1
  <2>3. ~IsObjectArray(At(r, p))
    BY <1>3, <1>4
  <2>4. ElementsCounted(c, {r}, p)
    BY <2>1, <2>2, <2>3, NoElements
  <2> QED
    BY <2>4 DEF c
<1>5. CASE all
  <2>1. \A e : e \in Elements({r}, p) <=> \E i \in DOMAIN items : e = <<r, i>>
    BY <1>3, <1>5, ElementIs
  <2>2. Elements({r}, p) = {<<r, i>> : i \in DOMAIN items}
    BY <2>1
  <2>3. \A i \in DOMAIN items : ElementAt(<<r, i>>, p) = items[i]
    BY DEF ElementAt
  <2>4. \A i \in DOMAIN items : items[i] \in D
    BY <1>2
  <2>5. c.object_elements = Len(items) /\ c.subfields = [k \in keys |-> SubfieldStat(items, k)]
    BY <1>1, <1>5
  <2>6. \A i \in DOMAIN items : DOMAIN items[i].member \subseteq Keys
    BY <2>4, <1>5 DEF IsClosed, IsObject
  <2>7. DOMAIN items = 1 .. Len(items) /\ Len(items) \in Nat
    BY <1>2
  <2> HIDE DEF items, c
  <2>8. c.object_elements = Cardinality(Elements({r}, p))
    <3> DEFINE I == DOMAIN items
               n == Len(items)
    <3>1. I = 1 .. n /\ n \in Nat
      BY <2>7
    <3> HIDE DEF I, n
    <3>2. IsFiniteSet(I) /\ Cardinality(I) = n
      BY <3>1, FS_Interval
    <3>3. Cardinality({<<r, i>> : i \in I}) = Cardinality(I)
      BY <3>2, Paired
    <3> QED
      BY <2>2, <2>5, <3>2, <3>3 DEF I, n
  <2>9. \A k : With({r}, p, k) = {<<r, i>> : i \in Carrying(items, k)}
    <3>1. ASSUME NEW k, NEW e
          PROVE  e \in With({r}, p, k) <=> \E i \in Carrying(items, k) : e = <<r, i>>
      <4>1. e \in With({r}, p, k) <=> \E i \in DOMAIN items : e = <<r, i>> /\ k \in DOMAIN ElementAt(e, p).member
        BY <2>1 DEF With
      <4> QED
        BY <4>1, <2>3 DEF Carrying
    <3> QED
      BY <3>1
  <2>10. \A k : Carrying(items, k) \subseteq DOMAIN items /\ IsFiniteSet(Carrying(items, k))
    <3>1. \A k : Carrying(items, k) \subseteq DOMAIN items
      BY DEF Carrying
    <3>2. IsFiniteSet(DOMAIN items)
      <4> DEFINE n == Len(items)
      <4>1. DOMAIN items = 1 .. n /\ n \in Nat
        BY <2>7
      <4> HIDE DEF n
      <4>2. IsFiniteSet(1 .. n)
        BY <4>1, FS_Interval
      <4> QED
        BY <4>1, <4>2
    <3> QED
      BY <3>1, <3>2, FS_Subset
  <2>11. keys = Subfields({r}, p)
    <3>1. ASSUME NEW k
          PROVE  k \in keys <=> k \in Subfields({r}, p)
      <4>1. k \in keys <=> k # EmptyKey /\ Carrying(items, k) # {}
        BY DEF Carrying
      <4>2. With({r}, p, k) # {} <=> Carrying(items, k) # {}
        <5>1. With({r}, p, k) = {<<r, i>> : i \in Carrying(items, k)}
          BY <2>9
        <5> QED
          BY <5>1
      <4>3. Carrying(items, k) # {} => k \in Keys
        BY <2>6 DEF Carrying
      <4>4. k \in Subfields({r}, p) <=> k \in Keys /\ k # EmptyKey /\ With({r}, p, k) # {}
        BY DEF Subfields
      <4> QED
        BY <4>1, <4>2, <4>3, <4>4
    <3> HIDE DEF keys
    <3> QED
      BY <3>1
  <2>12. DOMAIN c.subfields = keys
    BY <2>5
  <2>13. ASSUME NEW k \in DOMAIN c.subfields
         PROVE  SubfieldCounted(c.subfields[k], {r}, p, k)
    <3>1. c.subfields[k] = SubfieldStat(items, k)
      BY <2>5, <2>12
    <3>2. SubfieldStat(items, k).present = Cardinality(With({r}, p, k))
      <4> DEFINE I == Carrying(items, k)
      <4>1. IsFiniteSet(I)
        BY <2>10
      <4>2. SubfieldStat(items, k).present = Cardinality(I)
        BY DEF SubfieldStat
      <4>3. With({r}, p, k) = {<<r, i>> : i \in I}
        BY <2>9
      <4> HIDE DEF I
      <4>4. Cardinality({<<r, i>> : i \in I}) = Cardinality(I)
        BY <4>1, Paired
      <4> QED
        BY <4>2, <4>3, <4>4
    <3>3. ASSUME NEW x \in Primitive
          PROVE  SubfieldStat(items, k).fit[x] = Cardinality(FittingElements({r}, p, k, x))
      <4> DEFINE I == {i \in Carrying(items, k) : FitsPrimitive(items[i].member[k], x)}
      <4>1. IsFiniteSet(I)
        <5>1. I \subseteq Carrying(items, k)
          OBVIOUS
        <5> HIDE DEF I
        <5> QED
          BY <5>1, <2>10, FS_Subset
      <4>2. SubfieldStat(items, k).fit[x] = Cardinality(I)
        BY DEF SubfieldStat
      <4>3. FittingElements({r}, p, k, x) = {<<r, i>> : i \in I}
        <5>1. ASSUME NEW e
              PROVE  e \in FittingElements({r}, p, k, x) <=> \E i \in I : e = <<r, i>>
          <6>1. e \in FittingElements({r}, p, k, x) <=>
                  \E i \in Carrying(items, k) : e = <<r, i>> /\ FitsPrimitive(ElementAt(e, p).member[k], x)
            BY <2>9 DEF FittingElements
          <6>2. \A i \in Carrying(items, k) : ElementAt(<<r, i>>, p) = items[i]
            BY <2>3, <2>10
          <6> QED
            BY <6>1, <6>2
        <5> HIDE DEF I
        <5> QED
          BY <5>1
      <4> HIDE DEF I
      <4>4. Cardinality({<<r, i>> : i \in I}) = Cardinality(I)
        BY <4>1, Paired
      <4> QED
        BY <4>2, <4>3, <4>4
    <3> QED
      BY <3>1, <3>2, <3>3 DEF SubfieldCounted
  <2>14. ElementsCounted(c, {r}, p)
    BY <2>8, <2>11, <2>12, <2>13 DEF ElementsCounted
  <2> QED
    BY <2>14 DEF c, items
<1> QED
  BY <1>4, <1>5

LEMMA ArrayCounted ==
  ASSUME NEW D, IsClosed(D), NEW r, NEW p, Has(argument[r], p), At(r, p) \in D,
         IsArray(At(r, p)), Len(p) = 1
  PROVE  Counted(ClassifyTopLevelArray(At(r, p).items), {r}, p)
<1> DEFINE items == At(r, p).items
           c == ClassifyTopLevelArray(items)
<1>0. ~IsScalar(At(r, p))
  BY DEF IsScalar, IsArray
<1>1. \A x : ~FitsPrimitive(At(r, p), x)
  BY <1>0 DEF FitsPrimitive
<1>2. /\ c.scalar_present = 0 /\ c.nonrole_present = 0 /\ c.array_rows = 1
      /\ c.oarray_object_rows = IF \A i \in DOMAIN items : IsObject(items[i]) THEN 1 ELSE 0
  BY DEF ClassifyTopLevelArray, NoCandidate
<1>3. \A x \in Primitive :
        /\ c.scalar_fit[x] = 0
        /\ c.sarray_fit[x] = IF /\ \A i \in DOMAIN items : IsScalar(items[i])
                                /\ \A i \in DOMAIN items : FitsPrimitive(items[i], x)
                             THEN 1 ELSE 0
  BY DEF ClassifyTopLevelArray, NoCandidate, NoFit
<1>4. \A x : (\A i \in DOMAIN items : FitsPrimitive(items[i], x)) => \A i \in DOMAIN items : IsScalar(items[i])
  BY DEF FitsPrimitive
<1> HIDE DEF c
<1>5. RowsCounted(c, {r}, p)
  <2>1. /\ c.scalar_present = Cardinality(Scalars({r}, p))
        /\ c.nonrole_present = Cardinality(Roleless({r}, p))
        /\ c.array_rows = Cardinality(Arrays({r}, p))
    BY <1>0, <1>2, CountsOfOne
  <2>2. c.oarray_object_rows = Cardinality(ObjectArrays({r}, p))
    <3>1. IsObjectArray(At(r, p)) <=> \A i \in DOMAIN items : IsObject(items[i])
      BY DEF IsObjectArray
    <3>2. Cardinality(ObjectArrays({r}, p)) = IF IsObjectArray(At(r, p)) /\ Len(p) = 1 THEN 1 ELSE 0
      BY CountsOfOne
    <3> HIDE DEF items
    <3> QED
      BY <1>2, <3>1, <3>2
  <2>3. ASSUME NEW x \in Primitive
        PROVE  c.scalar_fit[x] = Cardinality(Fitting({r}, p, x))
    BY <1>1, <1>3, FitsOfOne
  <2>4. ASSUME NEW x \in Primitive
        PROVE  c.sarray_fit[x] = Cardinality(FittingArrays({r}, p, x))
    <3>1. Cardinality(FittingArrays({r}, p, x)) =
              IF /\ IsArray(At(r, p)) /\ Len(p) = 1
                 /\ \A i \in DOMAIN items : FitsPrimitive(items[i], x)
              THEN 1 ELSE 0
      BY FitsOfOne
    <3> HIDE DEF items
    <3> QED
      BY <3>1, <1>3, <1>4
  <2> QED
    BY <2>1, <2>2, <2>3, <2>4 DEF RowsCounted
<1>6. ElementsCounted(c, {r}, p)
  BY ArrayElements DEF c
<1> QED
  BY <1>5, <1>6 DEF Counted, c

\* A document is counted at every path where it has a value, and once.
LEMMA DocumentStands ==
  ASSUME MaxDepth \in Nat, NEW D, IsClosed(D), NEW r, argument[r] \in D
  PROVE  StandsForRows(SuggestOf(argument[r]), {r})
<1> DEFINE doc == argument[r]
           st == SuggestOf(doc)
<1>1. st.non_null_rows = 1 /\ st.paths = AccumulateDocument(doc)
  BY DEF SuggestOf
<1>2. AccumulateDocument(doc) =
        [p \in {q \in LanePaths : Has(doc, q)} |-> Seen(ValueAt(doc, p), Len(p))]
  BY DocumentAccumulated
<1> HIDE DEF st
<1>3. st.non_null_rows = Cardinality({r})
  BY <1>1, FS_Singleton
<1>4. \A p : Having({r}, p) # {} <=> Has(doc, p)
  BY DEF Having
<1>5. DOMAIN st.paths = {p \in LanePaths : Having({r}, p) # {}}
  BY <1>1, <1>2, <1>4
<1>6. ASSUME NEW p \in DOMAIN st.paths
      PROVE  Counted(st.paths[p], {r}, p)
  <2>1. p \in LanePaths /\ Has(doc, p)
    BY <1>4, <1>5
  <2>2. st.paths[p] = Seen(At(r, p), Len(p))
    BY <1>1, <1>2, <2>1 DEF At
  <2>3. Len(p) \in Nat
    BY <2>1, PathLength
  <2>4. At(r, p) \in D
    <3>1. ValueAt(doc, p) \in D \cup {Nowhere}
      BY <2>3, ValueInDocuments
    <3> QED
      BY <2>1, <3>1 DEF At, Has
  <2>5. Has(argument[r], p)
    BY <2>1
  <2> HIDE DEF doc
  <2>6. CASE IsScalar(At(r, p))
    BY <2>2, <2>5, <2>6, ScalarCounted DEF Seen
  <2>7. CASE ~IsScalar(At(r, p)) /\ IsArray(At(r, p)) /\ Len(p) = 1
    <3>1. st.paths[p] = ClassifyTopLevelArray(At(r, p).items)
      BY <2>2, <2>7 DEF Seen
    <3>2. Counted(ClassifyTopLevelArray(At(r, p).items), {r}, p)
      BY <2>4, <2>5, <2>7, ArrayCounted
    <3> QED
      BY <3>1, <3>2
  <2>8. CASE ~IsScalar(At(r, p)) /\ ~(IsArray(At(r, p)) /\ Len(p) = 1)
    BY <2>2, <2>5, <2>8, NonroleCounted DEF Seen
  <2> QED
    BY <2>6, <2>7, <2>8
<1> QED
  BY <1>3, <1>5, <1>6 DEF StandsForRows, st, doc

-----------------------------------------------------------------------------
(* Types. *)

TypeOK ==
  /\ call \in Calls
  /\ argument \in [Row -> Arguments[call.kind]]
  /\ held = [s \in Node |-> held[s]]
  /\ gone \subseteq Node
  /\ reached \in [Node -> SUBSET Row]
  /\ aborted \in BOOLEAN

LEMMA InitType == GroupInit => TypeOK
BY DEF GroupInit, TypeOK

LEMMA NextType == TypeOK /\ [GroupNext]_aggregate => TypeOK'
<1> SUFFICES ASSUME TypeOK, [GroupNext]_aggregate
             PROVE  TypeOK'
  OBVIOUS
<1> USE DEF TypeOK
<1>1. ASSUME NEW s \in Node, NEW r \in Row, Update(s, r)
      PROVE  TypeOK'
  BY <1>1 DEF Update, Holding, calls
<1>2. ASSUME NEW source \in Node, NEW target \in Node, CombineStates(source, target)
      PROVE  TypeOK'
  BY <1>2 DEF CombineStates, Holding, calls
<1>3. ASSUME Throw
      PROVE  TypeOK'
  BY <1>3 DEF Throw, calls, state
<1>4. ASSUME NEW s \in Node, Destroy(s)
      PROVE  TypeOK'
  BY <1>4 DEF Destroy, calls
<1>5. CASE UNCHANGED aggregate
  BY <1>5 DEF aggregate, calls, state
<1> QED
  BY <1>1, <1>2, <1>3, <1>4, <1>5 DEF GroupNext, UpdateThrows, CombineThrows

-----------------------------------------------------------------------------
(* The cells of min and max. *)

TextsOf(s) == {argument[r] : r \in RowsOf(s)}

OthersOwn(s) == UNION {Own(held[t]) : t \in (Node \ gone) \ {s}}

SoundState(st) ==
  st \in ExtremaState /\ (st.numeric_mode \/ ~st.has_value => st.buffer = Inline)

\* What is allocated is owned by one state each, and a state that is not
\* destroyed stands for the texts of its rows.
ExtremaInv ==
  /\ live = UNION {Own(held[s]) : s \in Node \ gone}
  /\ \A s, t \in Node \ gone : s # t => Own(held[s]) \cap Own(held[t]) = {}
  /\ \A s \in Node \ gone : SoundState(held[s]) /\ StandsFor(held[s], call.kind, TextsOf(s))

LEMMA OwnIsBuffer ==
  ASSUME NEW st, SoundState(st)
  PROVE  Own(st) \subseteq Buffers
BY DEF SoundState, ExtremaState, Own, OwnsText

LEMMA CellIsSound ==
  ASSUME ExtremaInv, NEW s \in Node \ gone
  PROVE  SoundCell(Cell(s), OthersOwn(s))
<1>1. OthersOwn(s) \subseteq Buffers
  BY OwnIsBuffer DEF OthersOwn, ExtremaInv
<1>2. Own(held[s]) \cap OthersOwn(s) = {}
  BY DEF ExtremaInv, OthersOwn
<1>3. live = OthersOwn(s) \cup Own(held[s])
  BY DEF ExtremaInv, OthersOwn
<1>4. SoundState(held[s])
  BY DEF ExtremaInv
<1> QED
  BY <1>1, <1>2, <1>3, <1>4 DEF SoundCell, SoundState, Cell

\* One state owns one buffer at most, so the others leave one.
LEMMA RoomLeft ==
  ASSUME EnoughBuffers, NEW s \in Node \ gone
  PROVE  Room(OthersOwn(s))
<1> DEFINE others == Node \ {s}
<1>1. PICK f \in [Node -> Buffers] : \A x, y \in Node : f[x] = f[y] => x = y
  BY DEF EnoughBuffers
<1>2. SUFFICES ASSUME \A x \in Node : f[x] \in OthersOwn(s)
               PROVE  FALSE
  BY <1>1 DEF Room
<1>3. \A x \in Node : \E t \in others : f[x] = held[t].buffer
  BY <1>2 DEF OthersOwn, Own
<1> DEFINE g == [x \in Node |-> CHOOSE t \in others : f[x] = held[t].buffer]
<1>4. g \in [Node -> others] /\ \A x \in Node : f[x] = held[g[x]].buffer
  <2>1. ASSUME NEW x \in Node
        PROVE  g[x] \in others /\ f[x] = held[g[x]].buffer
    <3> DEFINE t == CHOOSE t \in others : f[x] = held[t].buffer
    <3>1. g[x] = t
      OBVIOUS
    <3>2. t \in others /\ f[x] = held[t].buffer
      <4> HIDE DEF others
      <4> QED
        BY <1>3
    <3> HIDE DEF g, t
    <3> QED
      BY <3>1, <3>2
  <2>2. g = [x \in Node |-> g[x]]
    OBVIOUS
  <2> HIDE DEF g, others
  <2> QED
    BY <2>1, <2>2
<1>5. /\ IsFiniteSet(Node) /\ IsFiniteSet(others)
      /\ Cardinality(others) < Cardinality(Node)
  <2>1. IsFiniteSet(Node) /\ Cardinality(Node) \in Nat
    BY FS_CardinalityType DEF EnoughBuffers
  <2>2. IsFiniteSet(others) /\ Cardinality(others) = Cardinality(Node) - 1
    BY <2>1, FS_RemoveElement
  <2> QED
    BY <2>1, <2>2
<1> HIDE DEF g, others
<1>6. \E x, y \in Node : x # y /\ g[x] = g[y]
  BY <1>4, <1>5, FS_PigeonHole
<1> QED
  BY <1>1, <1>4, <1>6

NonNull(R) == {r \in R : argument[r] # SqlNull}
TextsIn(R) == {argument[r] : r \in NonNull(R)}

LEMMA HoldingCorrect ==
  ASSUME TypeOK, ExtremaInv, NEW s \in Node \ gone, NEW cell, SoundCell(cell, OthersOwn(s)),
         Holding(s, cell), NEW R, reached' = [reached EXCEPT ![s] = R],
         StandsFor(cell.state, call.kind, TextsIn(R))
  PROVE  ExtremaInv'
<1>1. /\ held' = [held EXCEPT ![s] = cell.state] /\ live' = cell.live
      /\ gone' = gone /\ call' = call /\ argument' = argument
  BY DEF Holding, calls
<1>2. held'[s] = cell.state /\ \A t \in Node \ {s} : held'[t] = held[t]
  BY <1>1 DEF TypeOK
<1>3. /\ cell.live = OthersOwn(s) \cup Own(cell.state)
      /\ Own(cell.state) \cap OthersOwn(s) = {}
      /\ SoundState(cell.state)
  BY DEF SoundCell, SoundState
<1>4. live' = UNION {Own(held'[t]) : t \in Node \ gone'}
  <2>1. OthersOwn(s) = UNION {Own(held'[t]) : t \in (Node \ gone) \ {s}}
    BY <1>2 DEF OthersOwn
  <2>2. UNION {Own(held'[t]) : t \in Node \ gone}
          = Own(held'[s]) \cup UNION {Own(held'[t]) : t \in (Node \ gone) \ {s}}
    OBVIOUS
  <2> QED
    BY <1>1, <1>2, <1>3, <2>1, <2>2
<1>5. ASSUME NEW t \in Node \ gone', NEW u \in Node \ gone', t # u
      PROVE  Own(held'[t]) \cap Own(held'[u]) = {}
  <2>1. \A x \in (Node \ gone) \ {s} : Own(held[x]) \subseteq OthersOwn(s)
    BY DEF OthersOwn
  <2>2. t \in Node \ gone /\ u \in Node \ gone
    BY <1>1
  <2>3. CASE t = s
    <3>1. Own(held'[t]) = Own(cell.state) /\ Own(held'[u]) \subseteq OthersOwn(s)
      BY <1>2, <1>5, <2>1, <2>2, <2>3
    <3> QED
      BY <1>3, <3>1
  <2>4. CASE u = s
    <3>1. Own(held'[u]) = Own(cell.state) /\ Own(held'[t]) \subseteq OthersOwn(s)
      BY <1>2, <1>5, <2>1, <2>2, <2>4
    <3> QED
      BY <1>3, <3>1
  <2>5. CASE t # s /\ u # s
    <3>1. held'[t] = held[t] /\ held'[u] = held[u]
      BY <1>2, <2>2, <2>5
    <3> QED
      BY <1>5, <2>2, <3>1 DEF ExtremaInv
  <2> QED
    BY <2>3, <2>4, <2>5
<1>6. ASSUME NEW t \in Node \ gone'
      PROVE  SoundState(held'[t]) /\ StandsFor(held'[t], call'.kind, TextsOf(t)')
  <2>1. CASE t = s
    <3>1. TextsOf(t)' = TextsIn(R)
      BY <1>1, <2>1 DEF TypeOK, TextsOf, TextsIn, NonNull, RowsOf
    <3> QED
      BY <1>1, <1>2, <1>3, <2>1, <3>1
  <2>2. CASE t # s
    <3>1. TextsOf(t)' = TextsOf(t)
      BY <1>1, <2>2 DEF TypeOK, TextsOf, RowsOf
    <3> QED
      BY <1>1, <1>2, <2>2, <3>1 DEF ExtremaInv
  <2> QED
    BY <2>1, <2>2
<1> QED
  BY <1>4, <1>5, <1>6 DEF ExtremaInv

LEMMA TextsAreBytes ==
  ASSUME TypeOK, IsExtremum, TextArguments
  PROVE  /\ \A s \in Node : TextsOf(s) \in SUBSET Bytes
         /\ \A r \in Row : argument[r] # SqlNull => argument[r] \in Bytes
BY DEF TypeOK, IsExtremum, TextArguments, TextsOf, RowsOf

LEMMA ExtremaUpdate ==
  ASSUME ExtremaAssumption, EnoughBuffers, TextArguments, TypeOK, IsExtremum, ExtremaInv,
         NEW s \in Node, NEW r \in Row, Update(s, r)
  PROVE  ExtremaInv'
<1> DEFINE cell == Folded(s, argument[r])
           R == reached[s] \cup {r}
<1>1. /\ s \in Node \ gone /\ Holding(s, cell)
      /\ reached' = [reached EXCEPT ![s] = R]
  BY DEF Update, InUse
<1>2. SoundCell(Cell(s), OthersOwn(s)) /\ Room(OthersOwn(s))
  BY <1>1, CellIsSound, RoomLeft
<1>3. StandsFor(Cell(s).state, call.kind, TextsOf(s))
  BY <1>1 DEF ExtremaInv, Cell
<1>4. SoundCell(cell, OthersOwn(s)) /\ StandsFor(cell.state, call.kind, TextsIn(R))
  <2>1. CASE argument[r] = SqlNull
    <3>1. TextsIn(R) = TextsOf(s)
      BY <2>1 DEF TextsIn, NonNull, TextsOf, RowsOf
    <3>2. cell = Cell(s)
      BY <2>1 DEF Folded
    <3> QED
      BY <1>2, <1>3, <3>1, <3>2
  <2>2. CASE argument[r] # SqlNull
    <3> DEFINE text == argument[r]
               S == TextsOf(s)
               others == OthersOwn(s)
               kind == call.kind
               old == Cell(s)
    <3>1. TextsIn(R) = S \cup {text}
      BY <2>2 DEF TextsIn, NonNull, TextsOf, RowsOf
    <3>2. cell = FoldVarcharExtrema(old, kind, text)
      BY <2>2 DEF Folded
    <3>3. text \in Bytes /\ S \in SUBSET Bytes
      BY <2>2, TextsAreBytes
    <3>4. SoundCell(old, others) /\ Room(others) /\ StandsFor(old.state, kind, S)
      BY <1>2, <1>3
    <3> HIDE DEF text, S, others, kind, old, cell
    <3>5. /\ SoundCell(FoldVarcharExtrema(old, kind, text), others)
          /\ StandsFor(FoldVarcharExtrema(old, kind, text).state, kind, S \cup {text})
      BY <3>3, <3>4, TextFolded
    <3> QED
      BY <3>1, <3>2, <3>5 DEF others, kind
  <2> QED
    BY <2>1, <2>2
<1> HIDE DEF cell, R
<1> QED
  BY <1>1, <1>4, HoldingCorrect

LEMMA ExtremaCombine ==
  ASSUME ExtremaAssumption, EnoughBuffers, TextArguments, TypeOK, IsExtremum, ExtremaInv,
         NEW source \in Node, NEW target \in Node, CombineStates(source, target)
  PROVE  ExtremaInv'
<1> DEFINE cell == Combined(target, source)
           R == reached[target] \cup reached[source]
<1>1. /\ target \in Node \ gone /\ source \in Node \ gone /\ Holding(target, cell)
      /\ reached' = [reached EXCEPT ![target] = R]
  BY DEF CombineStates, InUse
<1>2. SoundCell(cell, OthersOwn(target)) /\ StandsFor(cell.state, call.kind, TextsIn(R))
  <2> DEFINE S == TextsOf(target)
             T == TextsOf(source)
             others == OthersOwn(target)
             kind == call.kind
             old == Cell(target)
             from == held[source]
  <2>1. TextsIn(R) = S \cup T
    BY DEF TextsIn, NonNull, TextsOf, RowsOf
  <2>2. cell = FoldStateExtrema(old, from, kind)
    BY DEF Combined
  <2>3. S \in SUBSET Bytes /\ T \in SUBSET Bytes
    BY TextsAreBytes
  <2>4. /\ SoundCell(old, others) /\ Room(others)
        /\ StandsFor(old.state, kind, S) /\ StandsFor(from, kind, T)
    BY <1>1, CellIsSound, RoomLeft DEF ExtremaInv, Cell
  <2> HIDE DEF S, T, others, kind, old, cell, from
  <2>5. /\ SoundCell(FoldStateExtrema(old, from, kind), others)
        /\ StandsFor(FoldStateExtrema(old, from, kind).state, kind, S \cup T)
    BY <2>3, <2>4, StateFolded
  <2> QED
    BY <2>1, <2>2, <2>5 DEF others, kind
<1> HIDE DEF cell, R
<1> QED
  BY <1>1, <1>2, HoldingCorrect

LEMMA ExtremaDestroy ==
  ASSUME TypeOK, IsExtremum, ExtremaInv, NEW s \in Node, Destroy(s)
  PROVE  ExtremaInv'
<1>1. /\ gone' = gone \cup {s} /\ s \notin gone /\ held' = held /\ argument' = argument
      /\ reached' = reached /\ call' = call
      /\ live' = DestroyText(Cell(s)).live
  BY DEF Destroy, calls
<1>2. live' = live \ Own(held[s])
  BY <1>1 DEF DestroyText, Cell, Own
<1>3. Node \ gone' = (Node \ gone) \ {s} /\ s \in Node \ gone
  BY <1>1
<1>4. live' = OthersOwn(s)
  <2>1. live = OthersOwn(s) \cup Own(held[s]) /\ Own(held[s]) \cap OthersOwn(s) = {}
    BY <1>3 DEF ExtremaInv, OthersOwn
  <2> QED
    BY <1>2, <2>1
<1>5. \A t \in Node : TextsOf(t)' = TextsOf(t)
  BY <1>1 DEF TextsOf, RowsOf
<1> QED
  BY <1>1, <1>3, <1>4, <1>5 DEF ExtremaInv, OthersOwn

LEMMA ExtremaInit ==
  ASSUME ExtremaAssumption, GroupInit, IsExtremum
  PROVE  ExtremaInv
<1>1. /\ live = {} /\ gone = {} /\ \A s \in Node : held[s] = EmptyExtrema
      /\ \A s \in Node : reached[s] = {}
  BY DEF GroupInit, Initialized
<1>2. \A s \in Node : TextsOf(s) = {}
  BY <1>1 DEF TextsOf, RowsOf
<1>3. SoundState(EmptyExtrema) /\ Own(EmptyExtrema) = {}
  <2>1. <<>> \in Bytes /\ 0 \in 0 .. MaxNumber
    BY DEF Bytes, ExtremaAssumption
  <2> QED
    BY <2>1 DEF SoundState, EmptyExtrema, ExtremaState, Own, OwnsText
<1>4. StandsFor(EmptyExtrema, call.kind, {})
  BY DEF StandsFor, EmptyExtrema
<1> QED
  BY <1>1, <1>2, <1>3, <1>4 DEF ExtremaInv

LEMMA ExtremaNext ==
  ASSUME ExtremaAssumption, EnoughBuffers, TextArguments, TypeOK, IsExtremum, ExtremaInv,
         [GroupNext]_aggregate
  PROVE  ExtremaInv'
<1>1. ASSUME UNCHANGED state, UNCHANGED calls
      PROVE  ExtremaInv'
  <2>1. \A t \in Node : TextsOf(t)' = TextsOf(t)
    BY <1>1 DEF TextsOf, RowsOf, state, calls
  <2> QED
    BY <1>1, <2>1 DEF ExtremaInv, state, calls
<1>2. ASSUME Throw
      PROVE  ExtremaInv'
  BY <1>1, <1>2 DEF Throw
<1>3. CASE UNCHANGED aggregate
  BY <1>1, <1>3 DEF aggregate
<1> QED
  BY <1>2, <1>3, ExtremaUpdate, ExtremaCombine, ExtremaDestroy DEF GroupNext, UpdateThrows, CombineThrows

\* No min or max fails.
LEMMA ExtremaThrowNot ==
  ASSUME IsExtremum, GroupNext
  PROVE  ~aborted => ~aborted'
BY DEF GroupNext, Update, UpdateThrows, CombineStates, CombineThrows, Destroy, Holding, Admissible

-----------------------------------------------------------------------------
(* The cap. *)

LEMMA PathsFinite ==
  ASSUME IsFiniteSet(Keys), NEW d \in Nat
  PROVE  IsFiniteSet(PathsOf(d))
<1> DEFINE B == {n \in 0 .. d : ~IsFiniteSet(PathsOf(n))}
<1>1. SUFFICES ASSUME B # {}
               PROVE  FALSE
  <2>1. d \in B \/ IsFiniteSet(PathsOf(d))
    OBVIOUS
  <2> QED
    BY <2>1
<1>2. PICK m \in B : \A i \in B : m <= i
  <2>1. B \subseteq 0 .. d
    OBVIOUS
  <2> HIDE DEF B
  <2> QED
    BY <1>1, <2>1, Least
<1>3. CASE m = 0
  <2>1. PathsOf(0) \subseteq {<<>>}
    <3>1. ASSUME NEW p \in PathsOf(0)
          PROVE  p = <<>>
      <4>1. p \in Seq(Names) /\ Len(p) = 0
        BY PathIsSeq
      <4> QED
        BY <4>1
    <3> QED
      BY <3>1
  <2>2. IsFiniteSet({<<>>})
    BY FS_Singleton
  <2>3. IsFiniteSet(PathsOf(0))
    BY <2>1, <2>2, FS_Subset
  <2> QED
    BY <1>3, <2>3
<1>4. CASE m # 0
  <2> DEFINE n == m - 1
             P == PathsOf(n) \X Names
             f == [x \in P |-> Append(x[1], x[2])]
             T == {Append(x[1], x[2]) : x \in P}
  <2>1. n \in Nat /\ n + 1 = m /\ n \notin B /\ n \in 0 .. d
    BY <1>2, <1>4
  <2>2. IsFiniteSet(PathsOf(n))
    BY <2>1
  <2>3. IsFiniteSet(Names)
    BY FS_Subset DEF Names
  <2>4. IsFiniteSet(P)
    <3> DEFINE A == PathsOf(n)
    <3> HIDE DEF A
    <3>1. IsFiniteSet(A)
      BY <2>2 DEF A
    <3>2. IsFiniteSet(A \X Names)
      BY <3>1, <2>3, FS_Product
    <3> QED
      BY <3>2 DEF A
  <2>5. f \in Surjection(P, T)
    BY DEF Surjection
  <2>6. PathsOf(n + 1) \subseteq T
    <3>1. ASSUME NEW q \in PathsOf(n + 1)
          PROVE  q \in T
      <4>1. PICK p \in PathsOf(n), k \in Names : q = Append(p, k)
        BY <2>1, PathSplit
      <4>2. <<p, k>> \in P /\ q = Append(<<p, k>>[1], <<p, k>>[2])
        BY <4>1
      <4> HIDE DEF P
      <4> QED
        BY <4>2
    <3> QED
      BY <3>1
  <2> HIDE DEF f, T, P
  <2>7. IsFiniteSet(T)
    BY <2>4, <2>5, FS_Surjection
  <2>8. IsFiniteSet(PathsOf(n + 1))
    BY <2>6, <2>7, FS_Subset
  <2> QED
    BY <2>1, <2>8
<1> QED
  BY <1>3, <1>4

LEMMA LanePathsFinite ==
  ASSUME IsFiniteSet(Keys), MaxDepth \in Nat
  PROVE  IsFiniteSet(LanePaths)
<1> DEFINE I == 1 .. MaxDepth
           All == {PathsOf(n) : n \in I}
           f == [n \in I |-> PathsOf(n)]
<1>1. IsFiniteSet(I)
  BY FS_Interval
<1>2. f \in Surjection(I, All)
  BY DEF Surjection
<1>3. \A T \in All : IsFiniteSet(T)
  BY PathsFinite
<1>4. LanePaths = UNION All
  BY DEF LanePaths, PathsOf, Names
<1> HIDE DEF f, All, I
<1>5. IsFiniteSet(All)
  BY <1>1, <1>2, FS_Surjection
<1> QED
  BY <1>3, <1>4, <1>5, FS_UNION

Met(R) == {p \in LanePaths : Having(R, p) # {}}

LEMMA TooManyIs ==
  ASSUME NEW R
  PROVE  TooMany(R) <=> \/ Cardinality(Met(R)) > MaxPaths
                        \/ \E k \in Names : Cardinality(Subfields(R, <<k>>)) > MaxPaths
BY DEF TooMany, Count, Met, Names

LEMMA Smaller ==
  ASSUME NEW S, NEW T, S \subseteq T, IsFiniteSet(T)
  PROVE  /\ IsFiniteSet(S) /\ Cardinality(S) <= Cardinality(T)
         /\ Cardinality(S) \in Nat /\ Cardinality(T) \in Nat
BY FS_Subset, FS_CardinalityType

\* More rows never bring a group back under the cap.
LEMMA MoreIsMore ==
  ASSUME IsFiniteSet(Keys), MaxDepth \in Nat, MaxPaths \in Nat, NEW R, NEW Q, R \subseteq Q, TooMany(R)
  PROVE  TooMany(Q)
<1>1. \A p : Having(R, p) \subseteq Having(Q, p)
  BY DEF Having
<1>2. \A p : Elements(R, p) \subseteq Elements(Q, p)
  <2>1. \A X, e, p : e \in Elements(X, p) <=>
                  \E r \in X : Has(argument[r], p) /\ IsObjectArray(At(r, p))
                               /\ \E i \in DOMAIN At(r, p).items : e = <<r, i>>
    BY ElementIs
  <2> QED
    BY <2>1
<1>3. \A p, k : With(R, p, k) \subseteq With(Q, p, k)
  BY <1>2 DEF With
<1>4. \A p : Subfields(R, p) \subseteq Subfields(Q, p) /\ Subfields(Q, p) \subseteq Keys
  BY <1>3 DEF Subfields
<1>5. Met(R) \subseteq Met(Q) /\ Met(Q) \subseteq LanePaths
  BY <1>1 DEF Met
<1>6. Cardinality(Met(R)) <= Cardinality(Met(Q)) /\ Cardinality(Met(R)) \in Nat /\ Cardinality(Met(Q)) \in Nat
  BY <1>5, LanePathsFinite, Smaller
<1>7. \A p : /\ Cardinality(Subfields(R, p)) <= Cardinality(Subfields(Q, p))
             /\ Cardinality(Subfields(R, p)) \in Nat /\ Cardinality(Subfields(Q, p)) \in Nat
  BY <1>4, Smaller
<1>8. CASE Cardinality(Met(R)) > MaxPaths
  <2>1. Cardinality(Met(Q)) > MaxPaths
    BY <1>6, <1>8
  <2> QED
    BY <2>1, TooManyIs
<1>9. ASSUME NEW k \in Names, Cardinality(Subfields(R, <<k>>)) > MaxPaths
      PROVE  TooMany(Q)
  <2>1. Cardinality(Subfields(Q, <<k>>)) > MaxPaths
    BY <1>7, <1>9
  <2> QED
    BY <2>1, TooManyIs
<1> QED
  BY <1>8, <1>9, TooManyIs

\* What a state checks of its two maps is whether its rows pass the cap.
LEMMA CapIs ==
  ASSUME IsFiniteSet(Keys), MaxDepth \in Nat \ {0}, MaxPaths \in Nat, NEW R, NEW st, StandsForRows(st, R)
  PROVE  WithinCap(st) <=> ~TooMany(R)
<1>1. DOMAIN st.paths = Met(R)
  BY DEF StandsForRows, Met
<1>2. Cardinality(Met(R)) \in Nat
  <2>1. Met(R) \subseteq LanePaths
    BY DEF Met
  <2> QED
    BY <2>1, LanePathsFinite, Smaller
<1>3. \A p : Cardinality(Subfields(R, p)) \in Nat
  <2>1. \A p : Subfields(R, p) \subseteq Keys
    BY DEF Subfields
  <2> QED
    BY <2>1, Smaller
<1>4. ASSUME NEW p \in Met(R), Cardinality(DOMAIN st.paths[p].subfields) > MaxPaths
      PROVE  \E k \in Names : p = <<k>> /\ Cardinality(Subfields(R, <<k>>)) > MaxPaths
  <2>1. Counted(st.paths[p], R, p)
    BY <1>1 DEF StandsForRows
  <2>2. Len(p) = 1
    <3>1. Cardinality({}) = 0
      BY FS_EmptySet
    <3>2. DOMAIN st.paths[p].subfields # {}
      BY <1>4, <3>1
    <3> QED
      BY <2>1, <3>2 DEF Counted
  <2>3. DOMAIN st.paths[p].subfields = Subfields(R, p)
    BY <2>1, <2>2 DEF Counted, ElementsCounted
  <2>4. p \in PathsOf(Len(p))
    BY PathLength DEF Met
  <2>5. p \in Seq(Names) /\ Len(p) = 1
    BY <2>2, <2>4, PathIsSeq
  <2>6. p[1] \in Names
    BY <2>5
  <2>7. p = <<p[1]>>
    <3> DEFINE q == <<p[1]>>
    <3>1. q \in Seq(Names) /\ Len(q) = 1 /\ q[1] = p[1]
      BY <2>6
    <3> HIDE DEF q
    <3>2. p = q
      BY <2>5, <3>1, SeqEqual
    <3> QED
      BY <3>2 DEF q
  <2> QED
    BY <1>4, <2>3, <2>6, <2>7
<1>5. ASSUME NEW k \in Names, Cardinality(Subfields(R, <<k>>)) > MaxPaths
      PROVE  /\ <<k>> \in Met(R)
             /\ Cardinality(DOMAIN st.paths[<<k>>].subfields) > MaxPaths
  <2> DEFINE p == <<k>>
  <2>1. p \in LanePaths
    <3>1. p \in PathsOf(1)
      BY DEF PathsOf
    <3>2. 1 \in 1 .. MaxDepth
      OBVIOUS
    <3> QED
      BY <3>1, <3>2 DEF LanePaths, PathsOf, Names
  <2>2. Len(p) = 1
    OBVIOUS
  <2> HIDE DEF p
  <2>3. Subfields(R, p) # {}
    <3>1. Cardinality({}) = 0
      BY FS_EmptySet
    <3> QED
      BY <1>5, <3>1 DEF p
  <2>4. Having(R, p) # {}
    <3>1. PICK j : With(R, p, j) # {}
      BY <2>3 DEF Subfields
    <3>2. PICK e : e \in Elements(R, p)
      BY <3>1 DEF With
    <3>3. \E r \in R : Has(argument[r], p)
      BY <3>2, ElementIs
    <3> QED
      BY <3>3 DEF Having
  <2>5. p \in Met(R)
    BY <2>1, <2>4 DEF Met
  <2>6. Counted(st.paths[p], R, p)
    BY <1>1, <2>5 DEF StandsForRows
  <2>7. DOMAIN st.paths[p].subfields = Subfields(R, p)
    BY <2>2, <2>6 DEF Counted, ElementsCounted
  <2> QED
    BY <1>5, <2>5, <2>7 DEF p
<1>6. ASSUME NEW p \in Met(R)
      PROVE  Cardinality(DOMAIN st.paths[p].subfields) \in Nat
  <2>1. Counted(st.paths[p], R, p)
    BY <1>1 DEF StandsForRows
  <2>2. DOMAIN st.paths[p].subfields = Subfields(R, p) \/ DOMAIN st.paths[p].subfields = {}
    BY <2>1 DEF Counted, ElementsCounted
  <2>3. Cardinality({}) = 0
    BY FS_EmptySet
  <2> QED
    BY <2>2, <2>3, <1>3
<1>7. WithinCap(st) <=>
        /\ ~(Cardinality(Met(R)) > MaxPaths)
        /\ \A p \in Met(R) : ~(Cardinality(DOMAIN st.paths[p].subfields) > MaxPaths)
  <2>1. WithinCap(st) <=>
        /\ Cardinality(Met(R)) <= MaxPaths
        /\ \A p \in Met(R) : Cardinality(DOMAIN st.paths[p].subfields) <= MaxPaths
    BY <1>1 DEF WithinCap
  <2>2. Cardinality(Met(R)) <= MaxPaths <=> ~(Cardinality(Met(R)) > MaxPaths)
    BY <1>2
  <2>3. \A p \in Met(R) : Cardinality(DOMAIN st.paths[p].subfields) <= MaxPaths
                          <=> ~(Cardinality(DOMAIN st.paths[p].subfields) > MaxPaths)
    BY <1>6
  <2> QED
    BY <2>1, <2>2, <2>3
<1> QED
  BY <1>4, <1>5, <1>7, TooManyIs

-----------------------------------------------------------------------------
(* The advisor. *)

\* Every state stands for its rows and is within the cap, and the query failed
\* only if all rows together are not.
AdviceInv ==
  /\ \A s \in Node : StandsForRows(held[s], NonNull(reached[s])) /\ WithinCap(held[s])
  /\ aborted => TooMany(NonNull(Row))

\* What is said of rows depends on their documents, which do not change.
LEMMA Rigid ==
  ASSUME argument' = argument
  PROVE  /\ \A c, R : StandsForRows(c, R)' <=> StandsForRows(c, R)
         /\ \A R : TooMany(R)' <=> TooMany(R)
         /\ \A R : NonNull(R)' = NonNull(R)
<1>1. \A r, p : At(r, p)' = At(r, p)
  BY DEF At
<1>2. \A R, p : Having(R, p)' = Having(R, p)
  BY DEF Having
<1>3. \A R, p : Scalars(R, p)' = Scalars(R, p)
  BY <1>1, <1>2 DEF Scalars
<1>4. \A R, p : Arrays(R, p)' = Arrays(R, p)
  BY <1>1, <1>2 DEF Arrays
<1>5. \A R, p : Roleless(R, p)' = Roleless(R, p)
  BY <1>1, <1>2 DEF Roleless
<1>6. \A R, p : ObjectArrays(R, p)' = ObjectArrays(R, p)
  BY <1>1, <1>4 DEF ObjectArrays
<1>7. \A R, p, x : Fitting(R, p, x)' = Fitting(R, p, x)
  BY <1>1, <1>2 DEF Fitting
<1>8. \A R, p, x : FittingArrays(R, p, x)' = FittingArrays(R, p, x)
  BY <1>1, <1>4 DEF FittingArrays
<1>9. \A R, p : Elements(R, p)' = Elements(R, p)
  BY <1>1, <1>2 DEF Elements
<1>10. \A e, p : ElementAt(e, p)' = ElementAt(e, p)
  BY <1>1 DEF ElementAt
<1>11. \A R, p, k : With(R, p, k)' = With(R, p, k)
  BY <1>9, <1>10 DEF With
<1>12. \A R, p : Subfields(R, p)' = Subfields(R, p)
  BY <1>11 DEF Subfields
<1>13. \A R, p, k, x : FittingElements(R, p, k, x)' = FittingElements(R, p, k, x)
  BY <1>10, <1>11 DEF FittingElements
<1>14. \A c, R, p : RowsCounted(c, R, p)' <=> RowsCounted(c, R, p)
  BY <1>3, <1>4, <1>5, <1>6, <1>7, <1>8 DEF RowsCounted
<1>15. \A c, R, p, k : SubfieldCounted(c, R, p, k)' <=> SubfieldCounted(c, R, p, k)
  BY <1>11, <1>13 DEF SubfieldCounted
<1>16. \A c, R, p : ElementsCounted(c, R, p)' <=> ElementsCounted(c, R, p)
  BY <1>9, <1>12, <1>15 DEF ElementsCounted
<1>17. \A c, R, p : Counted(c, R, p)' <=> Counted(c, R, p)
  BY <1>14, <1>16 DEF Counted
<1>18. \A c, R : StandsForRows(c, R)' <=> StandsForRows(c, R)
  <2>1. \A R : {p \in LanePaths : Having(R, p)' # {}} = {p \in LanePaths : Having(R, p) # {}}
    BY <1>2
  <2> QED
    BY <1>17, <2>1 DEF StandsForRows
<1>19. \A R : TooMany(R)' <=> TooMany(R)
  <2>1. \A R : Met(R)' = Met(R)
    BY <1>2 DEF Met
  <2>2. \A R : TooMany(R) <=> \/ Cardinality(Met(R)) > MaxPaths
                              \/ \E k \in Names : Cardinality(Subfields(R, <<k>>)) > MaxPaths
    BY TooManyIs
  <2>3. (\A R : TooMany(R) <=> \/ Cardinality(Met(R)) > MaxPaths
                               \/ \E k \in Names : Cardinality(Subfields(R, <<k>>)) > MaxPaths)'
    BY DEF TooMany, Count, Met, Names
  <2> QED
    BY <1>12, <2>1, <2>2, <2>3
<1>20. \A R : NonNull(R)' = NonNull(R)
  BY DEF NonNull
<1> QED
  BY <1>18, <1>19, <1>20

LEMMA AdvisedRows ==
  ASSUME NEW D, AdvisorAssumption(D), TypeOK, ~IsExtremum
  PROVE  /\ call.kind = "suggest" /\ call.min_presence \in Nat /\ call.min_fit \in Nat
         /\ \A r \in Row : argument[r] = SqlNull \/ argument[r] \in D
BY DEF AdvisorAssumption, TypeOK, IsExtremum

LEMMA RowsAreFinite ==
  ASSUME NEW D, AdvisorAssumption(D), TypeOK, ~IsExtremum, NEW R \in SUBSET Row
  PROVE  IsFiniteSet(NonNull(R)) /\ \A r \in NonNull(R) : argument[r] \in D
<1>1. NonNull(R) \subseteq Row
  BY DEF NonNull
<1>2. IsFiniteSet(Row)
  BY DEF AdvisorAssumption
<1>3. IsFiniteSet(NonNull(R))
  BY <1>1, <1>2, FS_Subset
<1>4. \A r \in NonNull(R) : argument[r] \in D
  BY AdvisedRows DEF NonNull
<1> QED
  BY <1>3, <1>4

\* A state that takes a row in, and one that takes in another state.
LEMMA RowFolded ==
  ASSUME NEW D, AdvisorAssumption(D), TypeOK, ~IsExtremum, NEW s \in Node,
         StandsForRows(held[s], NonNull(reached[s])), WithinCap(held[s]),
         NEW r \in Row, r \notin reached[s]
  PROVE  /\ StandsForRows(Folded(s, argument[r]).state, NonNull(reached[s] \cup {r}))
         /\ argument[r] = SqlNull => WithinCap(Folded(s, argument[r]).state)
<1> DEFINE cell == Folded(s, argument[r])
           R == NonNull(reached[s])
           U == NonNull(reached[s] \cup {r})
           doc == argument[r]
<1>1. CASE doc = SqlNull
  <2>1. U = R
    BY <1>1 DEF NonNull
  <2>2. cell.state = held[s]
    BY <1>1 DEF Folded, Cell
  <2> HIDE DEF cell, R, U
  <2>3. StandsForRows(held[s], R)
    BY DEF R
  <2>4. StandsForRows(cell.state, U) /\ WithinCap(cell.state)
    BY <2>1, <2>2, <2>3
  <2> QED
    BY <2>4 DEF cell, U
<1>2. CASE doc # SqlNull
  <2>1. U = R \cup {r} /\ R \cap {r} = {}
    BY <1>2 DEF NonNull
  <2>2. cell.state = MergeSuggest(held[s], SuggestOf(doc))
    BY <1>2 DEF Folded, Cell
  <2>3. doc \in D
    BY <1>2, AdvisedRows
  <2>4. reached[s] \in SUBSET Row
    BY DEF TypeOK
  <2>5. IsFiniteSet(R) /\ \A x \in R : argument[x] \in D
    BY <2>4, RowsAreFinite
  <2>6. MaxDepth \in Nat /\ IsClosed(D)
    BY DEF AdvisorAssumption
  <2>7. StandsForRows(SuggestOf(argument[r]), {r})
    BY <2>3, <2>6, DocumentStands
  <2>8. StandsForRows(held[s], R)
    OBVIOUS
  <2>9. IsFiniteSet({r})
    BY FS_Singleton
  <2>10. \A x \in U : argument[x] \in D
    BY <2>1, <2>3, <2>5
  <2> DEFINE Q == {r}
             a == held[s]
             b == SuggestOf(argument[r])
  <2> HIDE DEF cell, R, U, Q, a, b
  <2>11. /\ U = R \cup Q /\ R \cap Q = {} /\ IsFiniteSet(R) /\ IsFiniteSet(Q)
         /\ StandsForRows(a, R) /\ StandsForRows(b, Q)
    BY <2>1, <2>5, <2>7, <2>8, <2>9 DEF Q, a, b
  <2>12. StandsForRows(MergeSuggest(a, b), U)
    BY <2>6, <2>10, <2>11, MergedStands
  <2> QED
    BY <1>2, <2>2, <2>12 DEF cell, U, a, b
<1> QED
  BY <1>1, <1>2

LEMMA StatesFolded ==
  ASSUME NEW D, AdvisorAssumption(D), TypeOK, ~IsExtremum, NEW source \in Node, NEW target \in Node,
         StandsForRows(held[source], NonNull(reached[source])),
         StandsForRows(held[target], NonNull(reached[target])),
         reached[source] \cap reached[target] = {}
  PROVE  StandsForRows(Combined(target, source).state, NonNull(reached[target] \cup reached[source]))
<1> DEFINE R == NonNull(reached[target])
           Q == NonNull(reached[source])
           U == NonNull(reached[target] \cup reached[source])
           a == held[target]
           b == held[source]
<1>1. Combined(target, source).state = MergeSuggest(a, b)
  BY DEF Combined, Cell
<1>2. U = R \cup Q /\ R \cap Q = {}
  BY DEF NonNull
<1>3. reached[source] \in SUBSET Row /\ reached[target] \in SUBSET Row
  BY DEF TypeOK
<1>4. IsFiniteSet(R) /\ \A x \in R : argument[x] \in D
  BY <1>3, RowsAreFinite
<1>5. IsFiniteSet(Q) /\ \A x \in Q : argument[x] \in D
  BY <1>3, RowsAreFinite
<1>6. IsClosed(D)
  BY DEF AdvisorAssumption
<1>7. StandsForRows(a, R) /\ StandsForRows(b, Q)
  OBVIOUS
<1>8. \A x \in U : argument[x] \in D
  BY <1>2, <1>4, <1>5
<1> HIDE DEF R, Q, U, a, b
<1>9. StandsForRows(MergeSuggest(a, b), U)
  BY <1>2, <1>4, <1>5, <1>6, <1>7, <1>8, MergedStands
<1> QED
  BY <1>1, <1>9 DEF U

LEMMA AdviceHolding ==
  ASSUME TypeOK, AdviceInv, NEW s \in Node, NEW cell, ~IsExtremum, Holding(s, cell),
         NEW R, reached' = [reached EXCEPT ![s] = R], StandsForRows(cell.state, NonNull(R))
  PROVE  AdviceInv'
<1>1. /\ held' = [held EXCEPT ![s] = cell.state] /\ argument' = argument /\ aborted' = aborted
      /\ WithinCap(cell.state)
  BY DEF Holding, calls, Admissible
<1>2. /\ held'[s] = cell.state /\ reached'[s] = R
      /\ \A t \in Node \ {s} : held'[t] = held[t] /\ reached'[t] = reached[t]
  BY <1>1 DEF TypeOK
<1>3. \A t \in Node : StandsForRows(held'[t], NonNull(reached'[t])) /\ WithinCap(held'[t])
  BY <1>1, <1>2 DEF AdviceInv
<1>4. \A t \in Node : NonNull(reached[t])' = NonNull(reached'[t])
  BY <1>1 DEF NonNull
<1>5. \A t \in Node : StandsForRows(held[t], NonNull(reached[t]))'
  BY <1>1, <1>3, <1>4, Rigid
<1>6. aborted' => TooMany(NonNull(Row))'
  BY <1>1, Rigid DEF AdviceInv
<1>7. \A t \in Node : WithinCap(held[t])'
  BY <1>3
<1> QED
  BY <1>5, <1>6, <1>7 DEF AdviceInv

LEMMA AdviceThrows ==
  ASSUME NEW D, AdvisorAssumption(D), TypeOK, AdviceInv, ~IsExtremum, Throw,
         NEW R \in SUBSET Row, TooMany(NonNull(R))
  PROVE  AdviceInv'
<1>1. held' = held /\ argument' = argument /\ reached' = reached
  BY DEF Throw, calls, state
<1>2. NonNull(R) \subseteq NonNull(Row)
  BY DEF NonNull
<1>3. TooMany(NonNull(Row))
  BY <1>2, MoreIsMore DEF AdvisorAssumption
<1>4. TooMany(NonNull(Row))'
  BY <1>1, <1>3, Rigid
<1>5. \A t \in Node : StandsForRows(held[t], NonNull(reached[t]))'
  BY <1>1, Rigid DEF AdviceInv
<1>6. \A t \in Node : WithinCap(held[t])'
  BY <1>1 DEF AdviceInv
<1> QED
  BY <1>4, <1>5, <1>6 DEF AdviceInv

LEMMA NotWithinCap ==
  ASSUME NEW D, AdvisorAssumption(D), NEW st, NEW R, StandsForRows(st, R), ~WithinCap(st)
  PROVE  TooMany(R)
BY CapIs DEF AdvisorAssumption

LEMMA AdviceNext ==
  ASSUME NEW D, AdvisorAssumption(D), TypeOK, ~IsExtremum, AdviceInv, [GroupNext]_aggregate
  PROVE  AdviceInv'
<1>1. ASSUME UNCHANGED <<held, reached, argument, aborted>>
      PROVE  AdviceInv'
  <2>1. \A t \in Node : StandsForRows(held[t], NonNull(reached[t]))'
    BY <1>1, Rigid DEF AdviceInv
  <2>2. aborted' => TooMany(NonNull(Row))'
    BY <1>1, Rigid DEF AdviceInv
  <2>3. \A t \in Node : WithinCap(held[t])'
    BY <1>1 DEF AdviceInv
  <2> QED
    BY <2>1, <2>2, <2>3 DEF AdviceInv
<1>2. ASSUME NEW s \in Node, NEW r \in Row, Update(s, r)
      PROVE  AdviceInv'
  <2> DEFINE cell == Folded(s, argument[r])
             R == reached[s] \cup {r}
  <2>1. r \notin reached[s] /\ Holding(s, cell) /\ reached' = [reached EXCEPT ![s] = R]
    BY <1>2 DEF Update
  <2>2. StandsForRows(cell.state, NonNull(R))
    BY <2>1, RowFolded DEF AdviceInv
  <2> HIDE DEF cell, R
  <2> QED
    BY <2>1, <2>2, AdviceHolding
<1>3. ASSUME NEW s \in Node, NEW r \in Row, UpdateThrows(s, r)
      PROVE  AdviceInv'
  <2> DEFINE cell == Folded(s, argument[r])
             R == reached[s] \cup {r}
  <2>1. r \notin reached[s] /\ ~WithinCap(cell.state) /\ Throw
    BY <1>3 DEF UpdateThrows, Admissible
  <2>2. StandsForRows(cell.state, NonNull(R))
    BY <2>1, RowFolded DEF AdviceInv
  <2>3. R \in SUBSET Row
    BY DEF TypeOK
  <2> HIDE DEF cell, R
  <2>4. TooMany(NonNull(R))
    BY <2>1, <2>2, NotWithinCap
  <2> QED
    BY <2>1, <2>3, <2>4, AdviceThrows
<1>4. ASSUME NEW source \in Node, NEW target \in Node, CombineStates(source, target)
      PROVE  AdviceInv'
  <2> DEFINE cell == Combined(target, source)
             R == reached[target] \cup reached[source]
  <2>1. reached[source] \cap reached[target] = {} /\ Holding(target, cell)
        /\ reached' = [reached EXCEPT ![target] = R]
    BY <1>4 DEF CombineStates
  <2>2. StandsForRows(cell.state, NonNull(R))
    BY <2>1, StatesFolded DEF AdviceInv
  <2> HIDE DEF cell, R
  <2> QED
    BY <2>1, <2>2, AdviceHolding
<1>5. ASSUME NEW source \in Node, NEW target \in Node, CombineThrows(source, target)
      PROVE  AdviceInv'
  <2> DEFINE cell == Combined(target, source)
             R == reached[target] \cup reached[source]
  <2>1. reached[source] \cap reached[target] = {} /\ ~WithinCap(cell.state) /\ Throw
    BY <1>5 DEF CombineThrows, Admissible
  <2>2. StandsForRows(cell.state, NonNull(R))
    BY <2>1, StatesFolded DEF AdviceInv
  <2>3. R \in SUBSET Row
    BY DEF TypeOK
  <2> HIDE DEF cell, R
  <2>4. TooMany(NonNull(R))
    BY <2>1, <2>2, NotWithinCap
  <2> QED
    BY <2>1, <2>3, <2>4, AdviceThrows
<1>6. ASSUME NEW s \in Node, Destroy(s)
      PROVE  AdviceInv'
  BY <1>1, <1>6 DEF Destroy, calls
<1>7. CASE UNCHANGED aggregate
  BY <1>1, <1>7 DEF aggregate, calls, state
<1> QED
  BY <1>2, <1>3, <1>4, <1>5, <1>6, <1>7 DEF GroupNext

LEMMA AdviceInit ==
  ASSUME NEW D, AdvisorAssumption(D), GroupInit, ~IsExtremum
  PROVE  AdviceInv
<1>1. \A s \in Node : held[s] = EmptySuggest /\ NonNull(reached[s]) = {}
  BY DEF GroupInit, Initialized, NonNull
<1>2. StandsForRows(EmptySuggest, {})
  <2>1. \A p : Having({}, p) = {}
    BY DEF Having
  <2>2. {p \in LanePaths : Having({}, p) # {}} = {}
    BY <2>1
  <2>3. EmptySuggest.non_null_rows = 0 /\ DOMAIN EmptySuggest.paths = {}
    BY DEF EmptySuggest
  <2>4. Cardinality({}) = 0
    BY FS_EmptySet
  <2> QED
    BY <2>2, <2>3, <2>4 DEF StandsForRows
<1>3. WithinCap(EmptySuggest)
  <2>1. DOMAIN EmptySuggest.paths = {}
    BY DEF EmptySuggest
  <2>2. Cardinality({}) = 0 /\ MaxPaths \in Nat
    BY FS_EmptySet DEF AdvisorAssumption
  <2> QED
    BY <2>1, <2>2 DEF WithinCap
<1>4. aborted = FALSE
  BY DEF GroupInit
<1> QED
  BY <1>1, <1>2, <1>3, <1>4 DEF AdviceInv

-----------------------------------------------------------------------------
(* What the counters say of a suggestion. *)

LEMMA TimesMore ==
  ASSUME NEW a \in Nat, NEW b \in Nat, NEW n \in Nat, a <= b
  PROVE  a * n <= b * n
<1>1. PICK d \in Nat : b = a + d
  <2>1. b - a \in Nat /\ b = a + (b - a)
    OBVIOUS
  <2> QED
    BY <2>1
<1>2. b * n = a * n + d * n
  BY <1>1
<1>3. d * n \in Nat /\ a * n \in Nat
  OBVIOUS
<1> QED
  BY <1>2, <1>3

LEMMA TimesLess ==
  ASSUME NEW a \in Nat, NEW b \in Nat, NEW n \in Nat \ {0}, a * n >= n * b
  PROVE  a >= b
<1>1. SUFFICES ASSUME a < b
               PROVE  FALSE
  OBVIOUS
<1>2. a + 1 \in Nat /\ a + 1 <= b
  BY <1>1
<1>3. (a + 1) * n <= b * n
  BY <1>2, TimesMore
<1>4. (a + 1) * n = a * n + n /\ b * n = n * b
  OBVIOUS
<1>5. a * n \in Nat /\ n * b \in Nat
  OBVIOUS
<1> QED
  BY <1>3, <1>4, <1>5

LEMMA ReachesMore ==
  ASSUME Scale \in Nat, NEW a \in Nat, NEW b \in Nat, a <= b, NEW f \in Nat, NEW t \in Nat, Reaches(a, f, t)
  PROVE  Reaches(b, f, t)
<1>1. a * Scale <= b * Scale
  BY TimesMore
<1>2. a * Scale \in Nat /\ b * Scale \in Nat /\ f * t \in Nat
  OBVIOUS
<1> QED
  BY <1>1, <1>2 DEF Reaches

\* The primitive that is picked holds the share that is asked for.
LEMMA PickedReaches ==
  ASSUME NEW fit, NEW present, NEW min_fit,
         PickLanePrimitive(fit, present, min_fit) # "none"
  PROVE  LET x == PickLanePrimitive(fit, present, min_fit)
         IN x \in Primitive /\ Reaches(fit[x], min_fit, present)
<1> DEFINE enough == {i \in DOMAIN kPrimitivePreference :
                        Reaches(fit[kPrimitivePreference[i]], min_fit, present)}
           least == CHOOSE i \in enough : \A j \in enough : i <= j
<1>1. /\ PickLanePrimitive(fit, present, min_fit) = kPrimitivePreference[least]
      /\ enough # {}
  BY DEF PickLanePrimitive
<1>2. DOMAIN kPrimitivePreference = 1 .. 5
  BY DEF kPrimitivePreference
<1>3. \E i \in enough : \A j \in enough : i <= j
  <2>1. enough \subseteq 0 .. 5
    BY <1>2
  <2> HIDE DEF enough
  <2> QED
    BY <1>1, <2>1, Least
<1>4. least \in enough
  <2> HIDE DEF enough
  <2> QED
    BY <1>3
<1>5. least \in DOMAIN kPrimitivePreference
      /\ Reaches(fit[kPrimitivePreference[least]], min_fit, present)
  BY <1>4
<1>6. kPrimitivePreference[least] \in Primitive
  BY <1>5 DEF Primitive, Range
<1> QED
  BY <1>1, <1>5, <1>6

\* The rows that have a path: those with a scalar, an array that could be a lane,
\* and neither.
LEMMA HavingParts ==
  ASSUME NEW R, IsFiniteSet(R), NEW p, NEW c, RowsCounted(c, R, p)
  PROVE  /\ c.scalar_present + c.array_rows + c.nonrole_present = Cardinality(Having(R, p))
         /\ c.scalar_present \in Nat /\ c.array_rows \in Nat /\ c.nonrole_present \in Nat
         /\ Cardinality(Having(R, p)) \in Nat
<1> DEFINE A == Scalars(R, p)
           B == Arrays(R, p)
           C == Roleless(R, p)
           H == Having(R, p)
           AB == A \cup B
<1>1. A \subseteq R /\ B \subseteq R /\ C \subseteq R /\ H \subseteq R
  BY CountedOfRows
<1>2. H = AB \cup C /\ AB \cap C = {} /\ A \cap B = {}
  BY DEF Scalars, Arrays, Roleless, IsScalar, IsArray
<1>3. c.scalar_present = Cardinality(A) /\ c.array_rows = Cardinality(B) /\ c.nonrole_present = Cardinality(C)
  BY DEF RowsCounted
<1> HIDE DEF A, B, C, H
<1>4. IsFiniteSet(A) /\ IsFiniteSet(B) /\ IsFiniteSet(C) /\ IsFiniteSet(H)
  BY <1>1, FS_Subset
<1>5. AB = A \cup B
  OBVIOUS
<1> HIDE DEF AB
<1>6. IsFiniteSet(AB)
  BY <1>4, <1>5, FS_Union
<1>7. Cardinality(AB) = Cardinality(A) + Cardinality(B)
  BY <1>2, <1>4, <1>5, Adds
<1>8. Cardinality(H) = Cardinality(AB) + Cardinality(C)
  BY <1>2, <1>4, <1>6, Adds
<1>9. /\ Cardinality(A) \in Nat /\ Cardinality(B) \in Nat /\ Cardinality(C) \in Nat
      /\ Cardinality(H) \in Nat
  BY <1>4, FS_CardinalityType
<1> QED
  BY <1>3, <1>7, <1>8, <1>9 DEF H

HeldRows(type, R, p) == {r \in Having(R, p) : Holds(type, At(r, p))}

\* What a type that is chosen says of the rows.
LEMMA ChosenReaches ==
  ASSUME NEW D, AdvisorAssumption(D), TypeOK, ~IsExtremum, NEW R, IsFiniteSet(R), NEW p,
         NEW c, Counted(c, R, p), NEW type,
         type = ChooseShredType(c, Cardinality(R), call), type # NoType
  PROVE  /\ type.kind \in {"scalar", "list", "struct"}
         /\ Reaches(Cardinality(HeldRows(type, R, p)), call.min_fit, Cardinality(Having(R, p)))
         /\ Reaches(Cardinality(Having(R, p)), call.min_presence, Cardinality(R))
         /\ type.kind = "struct" =>
              Len(p) = 1 /\ type = BuildObjectArrayType(c, call) /\ type # NoType
<1> DEFINE rows == Cardinality(R)
           total == c.scalar_present + c.array_rows + c.nonrole_present
           scalar == PickLanePrimitive(c.scalar_fit, total, call.min_fit)
           isScalar == /\ c.scalar_present > 0
                       /\ Reaches(c.scalar_present, call.min_presence, rows)
                       /\ scalar # "none"
           arrays == /\ c.array_rows > IF isScalar THEN c.scalar_present ELSE 0
                     /\ Reaches(c.array_rows, call.min_presence, rows)
           element == PickLanePrimitive(c.sarray_fit, total, call.min_fit)
           isScalarArray == arrays /\ c.saw_scalar_element /\ element # "none"
           struct == BuildObjectArrayType(c, call)
           isObjectArray == /\ arrays
                            /\ ~isScalarArray
                            /\ c.saw_object_element
                            /\ Reaches(c.oarray_object_rows, call.min_fit, total)
                            /\ struct # NoType
<1>1. type = IF isObjectArray THEN struct
             ELSE IF isScalarArray THEN [kind |-> "list", primitive |-> element]
             ELSE IF isScalar THEN [kind |-> "scalar", primitive |-> scalar]
             ELSE NoType
  BY DEF ChooseShredType
<1>2. RowsCounted(c, R, p)
  BY DEF Counted
<1>3. /\ total = Cardinality(Having(R, p)) /\ total \in Nat
      /\ c.scalar_present \in Nat /\ c.array_rows \in Nat /\ c.nonrole_present \in Nat
  BY <1>2, HavingParts
<1>4. rows \in Nat
  BY FS_CardinalityType
<1>5. Scale \in Nat /\ call.min_fit \in Nat /\ call.min_presence \in Nat
  BY AdvisedRows DEF AdvisorAssumption
<1>6. c.scalar_present <= total /\ c.array_rows <= total
  BY <1>3
<1>7. ASSUME Reaches(c.scalar_present, call.min_presence, rows)
             \/ Reaches(c.array_rows, call.min_presence, rows)
      PROVE  Reaches(Cardinality(Having(R, p)), call.min_presence, Cardinality(R))
  <2> HIDE DEF total
  <2>1. Reaches(total, call.min_presence, rows)
    BY <1>3, <1>4, <1>5, <1>6, <1>7, ReachesMore
  <2> QED
    BY <1>3, <2>1
<1>8. ASSUME NEW n, NEW S, Reaches(n, call.min_fit, total), n = Cardinality(S), S \subseteq HeldRows(type, R, p)
      PROVE  Reaches(Cardinality(HeldRows(type, R, p)), call.min_fit, Cardinality(Having(R, p)))
  <2> DEFINE H == HeldRows(type, R, p)
  <2>1. H \subseteq R
    BY CountedOfRows DEF HeldRows
  <2> HIDE DEF total, H
  <2>2. IsFiniteSet(H)
    BY <2>1, FS_Subset
  <2>3. Cardinality(S) <= Cardinality(H) /\ Cardinality(S) \in Nat /\ Cardinality(H) \in Nat
    BY <1>8, <2>2, Smaller DEF H
  <2>4. Reaches(Cardinality(H), call.min_fit, total)
    BY <1>3, <1>5, <1>8, <2>3, ReachesMore
  <2> QED
    BY <1>3, <2>4 DEF H
<1>9. ASSUME arrays
      PROVE  Len(p) = 1
  <2>1. c.array_rows > 0
    BY <1>3, <1>9
  <2>2. Arrays(R, p) # {}
    BY <1>2, <2>1, FS_EmptySet DEF RowsCounted
  <2> QED
    BY <2>2 DEF Arrays
<1>10. CASE isObjectArray
  <2>1. type = struct /\ struct # NoType /\ Reaches(c.oarray_object_rows, call.min_fit, total)
    BY <1>1, <1>10
  <2>2. struct.kind = "struct"
    BY <2>1 DEF BuildObjectArrayType
  <2>3. Reaches(c.array_rows, call.min_presence, rows)
    BY <1>10
  <2>4. Len(p) = 1
    BY <1>9, <1>10
  <2>5. c.oarray_object_rows = Cardinality(ObjectArrays(R, p))
    BY <1>2 DEF RowsCounted
  <2>6. ObjectArrays(R, p) \subseteq HeldRows(type, R, p)
    BY <2>1, <2>2 DEF ObjectArrays, Arrays, HeldRows, Holds
  <2> HIDE DEF isObjectArray, struct, total, rows
  <2>7. Reaches(Cardinality(HeldRows(type, R, p)), call.min_fit, Cardinality(Having(R, p)))
    BY <1>8, <2>1, <2>5, <2>6
  <2>8. Reaches(Cardinality(Having(R, p)), call.min_presence, Cardinality(R))
    BY <1>7, <2>3
  <2> QED
    BY <2>1, <2>2, <2>4, <2>7, <2>8 DEF struct
<1>11. CASE ~isObjectArray /\ isScalarArray
  <2>1. type = [kind |-> "list", primitive |-> element]
    BY <1>1, <1>11
  <2>2. element # "none" /\ Reaches(c.array_rows, call.min_presence, rows)
    BY <1>11
  <2>3. element \in Primitive /\ Reaches(c.sarray_fit[element], call.min_fit, total)
    BY <2>2, PickedReaches
  <2> HIDE DEF element, isObjectArray, isScalarArray, total, rows
  <2>4. c.sarray_fit[element] = Cardinality(FittingArrays(R, p, element))
    BY <1>2, <2>3 DEF RowsCounted
  <2>5. FittingArrays(R, p, element) \subseteq HeldRows(type, R, p)
    BY <2>1 DEF FittingArrays, Arrays, HeldRows, Holds
  <2>6. Reaches(Cardinality(HeldRows(type, R, p)), call.min_fit, Cardinality(Having(R, p)))
    BY <1>8, <2>3, <2>4, <2>5
  <2>7. Reaches(Cardinality(Having(R, p)), call.min_presence, Cardinality(R))
    BY <1>7, <2>2
  <2> QED
    BY <2>1, <2>6, <2>7
<1>12. CASE ~isObjectArray /\ ~isScalarArray /\ isScalar
  <2>1. type = [kind |-> "scalar", primitive |-> scalar]
    BY <1>1, <1>12
  <2>2. scalar # "none" /\ Reaches(c.scalar_present, call.min_presence, rows)
    BY <1>12
  <2>3. scalar \in Primitive /\ Reaches(c.scalar_fit[scalar], call.min_fit, total)
    BY <2>2, PickedReaches
  <2> HIDE DEF scalar, isObjectArray, isScalarArray, isScalar, total, rows
  <2>4. c.scalar_fit[scalar] = Cardinality(Fitting(R, p, scalar))
    BY <1>2, <2>3 DEF RowsCounted
  <2>5. Fitting(R, p, scalar) \subseteq HeldRows(type, R, p)
    BY <2>1 DEF Fitting, HeldRows, Holds
  <2>6. Reaches(Cardinality(HeldRows(type, R, p)), call.min_fit, Cardinality(Having(R, p)))
    BY <1>8, <2>3, <2>4, <2>5
  <2>7. Reaches(Cardinality(Having(R, p)), call.min_presence, Cardinality(R))
    BY <1>7, <2>2
  <2> QED
    BY <2>1, <2>6, <2>7
<1>13. ~(~isObjectArray /\ ~isScalarArray /\ ~isScalar)
  BY <1>1
<1> HIDE DEF isObjectArray, isScalarArray, isScalar
<1> QED
  BY <1>10, <1>11, <1>12, <1>13

LEMMA SubfieldsReach ==
  ASSUME NEW R, NEW p, NEW c, ElementsCounted(c, R, p), NEW type,
         type = BuildObjectArrayType(c, call), type # NoType
  PROVE  HoldsSubfields(type, R, p)
<1> DEFINE lane(k) == PickLanePrimitive(c.subfields[k].fit, c.subfields[k].present, call.min_fit)
           kept == {k \in DOMAIN c.subfields :
                      /\ Reaches(c.subfields[k].present, call.min_presence, c.object_elements)
                      /\ lane(k) # "none"}
<1>1. type.fields = [k \in kept |-> lane(k)]
  BY DEF BuildObjectArrayType
<1>2. ASSUME NEW k \in DOMAIN type.fields
      PROVE  Reaches(Cardinality(FittingElements(R, p, k, type.fields[k])), call.min_fit,
                     Cardinality(With(R, p, k)))
  <2>1. k \in kept /\ type.fields[k] = lane(k)
    BY <1>1
  <2>2. k \in DOMAIN c.subfields /\ lane(k) # "none"
    BY <2>1
  <2>3. lane(k) \in Primitive /\ Reaches(c.subfields[k].fit[lane(k)], call.min_fit, c.subfields[k].present)
    BY <2>2, PickedReaches
  <2> DEFINE x == lane(k)
  <2> HIDE DEF lane
  <2>4. SubfieldCounted(c.subfields[k], R, p, k)
    BY <2>2 DEF ElementsCounted
  <2>5. /\ c.subfields[k].fit[x] = Cardinality(FittingElements(R, p, k, x))
        /\ c.subfields[k].present = Cardinality(With(R, p, k))
    BY <2>3, <2>4 DEF SubfieldCounted
  <2> QED
    BY <2>1, <2>3, <2>5
<1> HIDE DEF kept, lane
<1> QED
  BY <1>2 DEF HoldsSubfields, FittingElements

\* What a path goes through is an object.
LEMMA PrefixIsObject ==
  ASSUME NEW p \in Seq(Names), NEW q \in Seq(Names), IsStrictPrefix(p, q), NEW doc, Has(doc, q)
  PROVE  IsObject(ValueAt(doc, p)) /\ Has(doc, p)
<1> DEFINE f == Descent(doc, q)
           m == Len(p)
           n == Len(q)
<1>1. m \in Nat /\ n \in Nat /\ m <= n /\ \A i \in 1 .. m : p[i] = q[i]
  <2>1. m \in Nat /\ n \in Nat /\ m <= n
    BY DEF IsStrictPrefix, IsPrefix
  <2>2. ASSUME NEW i \in 1 .. m
        PROVE  p[i] = q[i]
    <3> DEFINE a == SubSeq(p, 1, m)
               b == SubSeq(q, 1, m)
    <3>1. a = b
      BY DEF IsStrictPrefix, IsPrefix
    <3>2. a[i] = p[i] /\ b[i] = q[i]
      BY <2>1
    <3> HIDE DEF a, b
    <3> QED
      BY <3>1, <3>2
  <2> QED
    BY <2>1, <2>2
<1>2. m < n
  <2>1. SUFFICES ASSUME m = n
                 PROVE  p = q
    BY <1>1 DEF IsStrictPrefix
  <2> QED
    BY <1>1, <2>1, SeqEqual
<1>3. f[0] = doc /\ \A i \in 1 .. n : f[i] = Below(f[i - 1], q[i])
  BY <1>1, DescentSteps
<1>4. ValueAt(doc, p) = f[m]
  <2>1. Descent(doc, p)[m] = Descent(doc, q)[m]
    BY <1>1, DescentPrefix
  <2> QED
    BY <2>1 DEF ValueAt
<1>5. f[n] # Nowhere
  BY DEF Has, ValueAt
<1> DEFINE B == {i \in m + 1 .. n : f[i] # Nowhere}
<1> HIDE DEF f, m, n
<1>6. ASSUME ~IsObject(f[m])
      PROVE  FALSE
  <2>1. n \in B
    BY <1>1, <1>2, <1>5
  <2>2. PICK k \in B : \A i \in B : k <= i
    <3>1. B \subseteq 0 .. n
      BY <1>1
    <3> HIDE DEF B
    <3> QED
      BY <1>1, <2>1, <3>1, Least
  <2>3. k \in m + 1 .. n /\ f[k] = Below(f[k - 1], q[k]) /\ f[k] # Nowhere
    BY <1>1, <1>3, <2>2
  <2>4. CASE k = m + 1
    BY <1>1, <1>6, <2>3, <2>4 DEF Below
  <2>5. CASE k # m + 1
    <3>1. k - 1 \in m + 1 .. n /\ ~(k <= k - 1)
      BY <1>1, <2>3, <2>5
    <3>2. f[k - 1] = Nowhere
      BY <2>2, <3>1
    <3> QED
      BY <2>3, <3>2 DEF Below, Nowhere, IsObject
  <2> QED
    BY <2>4, <2>5
<1>7. IsObject(f[m])
  BY <1>6
<1> QED
  BY <1>4, <1>7 DEF Has, Nowhere, IsObject

-----------------------------------------------------------------------------
(* Every state of a group. *)

Inv ==
  /\ TypeOK
  /\ IsExtremum => ExtremaInv /\ ~aborted
  /\ ~IsExtremum => AdviceInv

LEMMA InvInit ==
  ASSUME NEW D, GroupAssumption(D), GroupInit
  PROVE  Inv
<1>1. ~aborted
  BY DEF GroupInit
<1> QED
  BY <1>1, InitType, ExtremaInit, AdviceInit DEF Inv, GroupAssumption

LEMMA InvNext ==
  ASSUME NEW D, GroupAssumption(D), Inv, [GroupNext]_aggregate
  PROVE  Inv'
<1>1. TypeOK'
  BY NextType DEF Inv
<1>2. call' = call
  BY DEF GroupNext, Update, UpdateThrows, CombineStates, CombineThrows, Destroy, Holding, Throw, aggregate, calls
<1>3. IsExtremum' <=> IsExtremum
  BY <1>2 DEF IsExtremum
<1>4. CASE IsExtremum
  <2>1. ExtremaInv'
    BY <1>4, ExtremaNext DEF Inv, GroupAssumption
  <2>2. ~aborted'
    <3>1. CASE UNCHANGED aggregate
      BY <1>4, <3>1 DEF Inv, aggregate
    <3>2. CASE GroupNext
      BY <1>4, <3>2, ExtremaThrowNot DEF Inv
    <3> QED
      BY <3>1, <3>2
  <2> QED
    BY <1>1, <1>3, <1>4, <2>1, <2>2 DEF Inv
<1>5. CASE ~IsExtremum
  <2>1. AdviceInv'
    BY <1>5, AdviceNext DEF Inv, GroupAssumption
  <2> QED
    BY <1>1, <1>3, <1>5, <2>1 DEF Inv
<1> QED
  BY <1>4, <1>5

\* What a group of rows holds always has the invariant, whatever the order of
\* updates, combinations and destructions.
THEOREM Invariance ==
  ASSUME NEW D, GroupAssumption(D)
  PROVE  GroupSpec => []Inv
<1>1. GroupInit => Inv
  BY InvInit
<1>2. Inv /\ [GroupNext]_aggregate => Inv'
  BY InvNext
<1> QED
  BY <1>1, <1>2, PTL DEF GroupSpec

\* The call, its arguments and the rows of each state stay what they are.
THEOREM TypeCorrect ==
  ASSUME NEW D, GroupAssumption(D)
  PROVE  GroupSpec => []TypeOK
<1>1. Inv => TypeOK
  BY DEF Inv
<1> QED
  BY <1>1, Invariance, PTL

-----------------------------------------------------------------------------
(* Buffers. *)

LEMMA BuffersApart ==
  ASSUME Inv
  PROVE  BuffersBelongToOneState
<1> SUFFICES ASSUME IsExtremum
             PROVE  LET owners == {s \in Node \ gone : OwnsText(held[s])}
                    IN /\ live = {held[s].buffer : s \in owners}
                       /\ \A s, t \in owners : held[s].buffer = held[t].buffer => s = t
  BY DEF BuffersBelongToOneState
<1> DEFINE owners == {s \in Node \ gone : OwnsText(held[s])}
<1>1. /\ live = UNION {Own(held[s]) : s \in Node \ gone}
      /\ \A s, t \in Node \ gone : s # t => Own(held[s]) \cap Own(held[t]) = {}
  BY DEF Inv, ExtremaInv
<1>2. \A s : Own(held[s]) = IF OwnsText(held[s]) THEN {held[s].buffer} ELSE {}
  BY DEF Own
<1>3. live = {held[s].buffer : s \in owners}
  <2>1. \A b : b \in live <=> \E s \in Node \ gone : b \in Own(held[s])
    BY <1>1
  <2>2. \A b : b \in live <=> \E s \in owners : b = held[s].buffer
    <3>1. \A s, b : b \in Own(held[s]) <=> OwnsText(held[s]) /\ b = held[s].buffer
      BY <1>2
    <3>2. \A s : s \in owners <=> s \in Node \ gone /\ OwnsText(held[s])
      OBVIOUS
    <3> HIDE DEF owners
    <3> QED
      BY <2>1, <3>1, <3>2
  <2> HIDE DEF owners
  <2> QED
    BY <2>2
<1>4. \A s, t \in owners : held[s].buffer = held[t].buffer => s = t
  <2>1. \A s \in owners : Own(held[s]) = {held[s].buffer}
    BY <1>2
  <2> QED
    BY <1>1, <2>1
<1> QED
  BY <1>3, <1>4

\* Every buffer that min and max allocated belongs to one state that is not
\* destroyed: a fold never leaves a state with a buffer of another one, frees one
\* that is still read or forgets one.
THEOREM BuffersOfOneState ==
  ASSUME NEW D, GroupAssumption(D)
  PROVE  GroupSpec => []BuffersBelongToOneState
<1>1. Inv => BuffersBelongToOneState
  BY BuffersApart
<1> QED
  BY <1>1, Invariance, PTL

-----------------------------------------------------------------------------
(* States and their rows. *)

LEMMA CountedIsCounts ==
  ASSUME NEW R, IsFiniteSet(R), NEW p, NEW c, Counted(c, R, p)
  PROVE  CountsItsRows(c, R, p)
<1>1. RowsCounted(c, R, p)
  BY DEF Counted
<1>2. c.scalar_present = Cardinality({r \in Having(R, p) : IsScalar(At(r, p))})
  BY <1>1 DEF RowsCounted, Scalars
<1>3. c.array_rows = IF Len(p) = 1 THEN Cardinality({r \in Having(R, p) : IsArray(At(r, p))}) ELSE 0
  <2>1. CASE Len(p) = 1
    <3>1. Arrays(R, p) = {r \in Having(R, p) : IsArray(At(r, p))}
      BY <2>1 DEF Arrays
    <3> QED
      BY <1>1, <2>1, <3>1 DEF RowsCounted
  <2>2. CASE Len(p) # 1
    <3>1. Arrays(R, p) = {}
      BY <2>2 DEF Arrays
    <3> QED
      BY <1>1, <2>2, <3>1, FS_EmptySet DEF RowsCounted
  <2> QED
    BY <2>1, <2>2
<1>4. c.scalar_present + c.array_rows + c.nonrole_present = Cardinality(Having(R, p))
  BY <1>1, HavingParts
<1>5. \A x \in Primitive : c.scalar_fit[x] = Cardinality({r \in Having(R, p) : FitsPrimitive(At(r, p), x)})
  BY <1>1 DEF RowsCounted, Fitting
<1>6. Len(p) = 1 => /\ c.object_elements = Cardinality(Elements(R, p))
                    /\ DOMAIN c.subfields = Subfields(R, p)
                    /\ \A k \in DOMAIN c.subfields : c.subfields[k].present = Cardinality(With(R, p, k))
  BY DEF Counted, ElementsCounted, SubfieldCounted
<1> QED
  BY <1>2, <1>3, <1>4, <1>5, <1>6 DEF CountsItsRows, Count

LEMMA RowsAre ==
  ASSUME NEW s
  PROVE  RowsOf(s) = NonNull(reached[s])
BY DEF RowsOf, NonNull

LEMMA StatesStand ==
  ASSUME NEW D, GroupAssumption(D), Inv
  PROVE  StatesStandForTheirRows
<1> SUFFICES ASSUME NEW s \in Node \ gone
             PROVE  IF IsExtremum
                    THEN IF RowsOf(s) = {} THEN Result(s) = SqlNull ELSE IsExtremeText(Result(s), s)
                    ELSE /\ held[s].non_null_rows = Cardinality(RowsOf(s))
                         /\ DOMAIN held[s].paths = {p \in LanePaths : Having(RowsOf(s), p) # {}}
                         /\ \A p \in DOMAIN held[s].paths : CountsItsRows(held[s].paths[p], RowsOf(s), p)
  BY DEF StatesStandForTheirRows
<1>1. CASE IsExtremum
  <2>1. StandsFor(held[s], call.kind, TextsOf(s))
    BY <1>1 DEF Inv, ExtremaInv
  <2>2. Result(s) = IF ~held[s].has_value THEN SqlNull ELSE Shown(held[s])
    BY <1>1 DEF Result, FinalizeExtrema, Shown
  <2>3. TextsOf(s) = {} <=> RowsOf(s) = {}
    BY DEF TextsOf
  <2>4. CASE RowsOf(s) = {}
    BY <1>1, <2>1, <2>2, <2>3, <2>4 DEF StandsFor
  <2>5. CASE RowsOf(s) # {}
    <3>1. TextsOf(s) \in SUBSET Bytes
      BY <1>1, TextsAreBytes DEF Inv, GroupAssumption
    <3>2. held[s].has_value /\ IsExtremeOf(call.kind, Shown(held[s]), TextsOf(s))
      BY <2>1, <2>3, <2>5, <3>1, ShownIsExtreme DEF GroupAssumption
    <3>3. Result(s) = Shown(held[s])
      BY <2>2, <3>2
    <3>4. IsExtremeText(Shown(held[s]), s)
      BY <3>2 DEF IsExtremeOf, IsExtremeText, TextsOf
    <3> QED
      BY <1>1, <2>5, <3>3, <3>4
  <2> QED
    BY <2>4, <2>5
<1>2. CASE ~IsExtremum
  <2>1. StandsForRows(held[s], RowsOf(s))
    BY <1>2, RowsAre DEF Inv, AdviceInv
  <2>2. IsFiniteSet(RowsOf(s))
    <3>1. reached[s] \in SUBSET Row
      BY DEF Inv, TypeOK
    <3> QED
      BY <1>2, <3>1, RowsAreFinite, RowsAre DEF Inv, GroupAssumption
  <2>3. \A p \in DOMAIN held[s].paths : CountsItsRows(held[s].paths[p], RowsOf(s), p)
    BY <2>1, <2>2, CountedIsCounts DEF StandsForRows
  <2> QED
    BY <1>2, <2>1, <2>3 DEF StandsForRows
<1> QED
  BY <1>1, <1>2

\* min and max give the text of the group that is first or last in the order of
\* bytes, although a state compares numbers while it can; and the counters of the
\* advisor are those of the rows, in whatever order they came.
THEOREM StatesOfTheirRows ==
  ASSUME NEW D, GroupAssumption(D)
  PROVE  GroupSpec => []StatesStandForTheirRows
<1>1. Inv => StatesStandForTheirRows
  BY StatesStand
<1> QED
  BY <1>1, Invariance, PTL

-----------------------------------------------------------------------------
(* The cap. *)

LEMMA CapHolds ==
  ASSUME NEW D, GroupAssumption(D), Inv
  PROVE  FailsOnlyOverTheCap
<1>1. aborted => ~IsExtremum /\ TooMany({r \in Row : argument[r] # SqlNull})
  BY DEF Inv, AdviceInv, NonNull
<1>2. ASSUME NEW s \in Node, ~IsExtremum
      PROVE  ~TooMany(RowsOf(s))
  <2>1. StandsForRows(held[s], RowsOf(s)) /\ WithinCap(held[s])
    BY <1>2, RowsAre DEF Inv, AdviceInv
  <2> QED
    BY <2>1, CapIs DEF GroupAssumption, AdvisorAssumption
<1> QED
  BY <1>1, <1>2 DEF FailsOnlyOverTheCap

\* The advice fails only if the documents of the group have too many paths or
\* subfields together, and no state holds rows that have.
THEOREM FailureIsOverTheCap ==
  ASSUME NEW D, GroupAssumption(D)
  PROVE  GroupSpec => []FailsOnlyOverTheCap
<1>1. Inv => FailsOnlyOverTheCap
  BY CapHolds
<1> QED
  BY <1>1, Invariance, PTL

-----------------------------------------------------------------------------
(* The suggestion. *)

\* A lane that must hold every value holds every value.
LEMMA LanesHoldAll ==
  ASSUME NEW D, AdvisorAssumption(D), call.min_fit = Scale, NEW R, IsFiniteSet(R), NEW p, NEW type,
         Reaches(Cardinality(HeldRows(type, R, p)), call.min_fit, Cardinality(Having(R, p)))
  PROVE  HeldRows(type, R, p) = Having(R, p)
<1> DEFINE S == HeldRows(type, R, p)
           T == Having(R, p)
<1>1. S \subseteq T /\ T \subseteq R
  BY CountedOfRows DEF HeldRows
<1>2. Reaches(Cardinality(S), Scale, Cardinality(T)) /\ Scale \in Nat \ {0}
  BY DEF AdvisorAssumption
<1> HIDE DEF S, T
<1>3. IsFiniteSet(T)
  BY <1>1, FS_Subset
<1>4. Cardinality(S) <= Cardinality(T) /\ Cardinality(S) \in Nat /\ Cardinality(T) \in Nat
  BY <1>1, <1>3, Smaller
<1>5. Cardinality(S) >= Cardinality(T)
  <2>1. Cardinality(S) * Scale >= Scale * Cardinality(T)
    BY <1>2 DEF Reaches
  <2> DEFINE a == Cardinality(S)
             b == Cardinality(T)
  <2> HIDE DEF a, b
  <2>2. a \in Nat /\ b \in Nat /\ a * Scale >= Scale * b
    BY <1>4, <2>1 DEF a, b
  <2>3. a >= b
    BY <1>2, <2>2, TimesLess
  <2> QED
    BY <2>3 DEF a, b
<1>6. Cardinality(S) = Cardinality(T)
  BY <1>4, <1>5
<1>7. S = T
  BY <1>1, <1>3, <1>6, FS_Subset
<1> QED
  BY <1>7 DEF S, T

LEMMA LanesHold ==
  ASSUME NEW D, GroupAssumption(D), Inv
  PROVE  SuggestedLanesHoldTheirShare
<1> SUFFICES ASSUME NEW s \in Node \ gone, ~IsExtremum, Result(s) # SqlNull
             PROVE  LET lanes == Result(s)
                        having(p) == Having(RowsOf(s), p)
                        held_by(p) == Count(having(p), LAMBDA r : Holds(lanes[p], At(r, p)))
                    IN /\ \A p \in DOMAIN lanes :
                            /\ Reaches(held_by(p), call.min_fit, Cardinality(having(p)))
                            /\ Reaches(Cardinality(having(p)), call.min_presence, Cardinality(RowsOf(s)))
                            /\ lanes[p].kind = "struct" => HoldsSubfields(lanes[p], RowsOf(s), p)
                       /\ call.min_fit = Scale =>
                            \A p, q \in DOMAIN lanes : ~IsStrictPrefix(p, q)
  BY DEF SuggestedLanesHoldTheirShare
<1> DEFINE R == RowsOf(s)
           st == held[s]
           lanes == Result(s)
           chosen(p) == ChooseShredType(st.paths[p], st.non_null_rows, call)
           kept == {p \in DOMAIN st.paths : chosen(p) # NoType}
<1>1. lanes = [p \in kept |-> chosen(p)]
  BY DEF Result, FinalizeSuggest
<1>2. /\ DOMAIN lanes = kept /\ \A p \in kept : lanes[p] = chosen(p)
  <2> HIDE DEF lanes, kept, chosen
  <2> QED
    BY <1>1
<1>3. StandsForRows(st, R)
  BY RowsAre DEF Inv, AdviceInv
<1>4. IsFiniteSet(R) /\ AdvisorAssumption(D) /\ TypeOK
  <2>1. reached[s] \in SUBSET Row
    BY DEF Inv, TypeOK
  <2> QED
    BY <2>1, RowsAreFinite, RowsAre DEF Inv, GroupAssumption
<1>5. ASSUME NEW p \in DOMAIN lanes
      PROVE  /\ p \in LanePaths /\ Having(R, p) # {}
             /\ lanes[p].kind \in {"scalar", "list", "struct"}
             /\ Reaches(Cardinality(HeldRows(lanes[p], R, p)), call.min_fit, Cardinality(Having(R, p)))
             /\ Reaches(Cardinality(Having(R, p)), call.min_presence, Cardinality(R))
             /\ lanes[p].kind = "struct" => HoldsSubfields(lanes[p], R, p)
  <2>1. p \in DOMAIN st.paths /\ chosen(p) # NoType /\ lanes[p] = chosen(p)
    BY <1>2
  <2>2. /\ p \in LanePaths /\ Having(R, p) # {} /\ Counted(st.paths[p], R, p)
        /\ st.non_null_rows = Cardinality(R)
    BY <1>3, <2>1 DEF StandsForRows
  <2> DEFINE c == st.paths[p]
             type == lanes[p]
  <2>3. type = ChooseShredType(c, Cardinality(R), call) /\ type # NoType /\ Counted(c, R, p)
    BY <2>1, <2>2
  <2> HIDE DEF c, type, R, st, lanes, chosen, kept
  <2>4. /\ type.kind \in {"scalar", "list", "struct"}
        /\ Reaches(Cardinality(HeldRows(type, R, p)), call.min_fit, Cardinality(Having(R, p)))
        /\ Reaches(Cardinality(Having(R, p)), call.min_presence, Cardinality(R))
        /\ type.kind = "struct" =>
             Len(p) = 1 /\ type = BuildObjectArrayType(c, call) /\ type # NoType
    BY <1>4, <2>3, ChosenReaches
  <2>5. type.kind = "struct" => HoldsSubfields(type, R, p)
    <3>1. Len(p) = 1 => ElementsCounted(c, R, p)
      BY <2>3 DEF Counted
    <3> QED
      BY <2>4, <3>1, SubfieldsReach
  <2> QED
    BY <2>2, <2>4, <2>5 DEF type
<1> HIDE DEF R, st, lanes, chosen, kept
<1>6. ASSUME call.min_fit = Scale, NEW p \in DOMAIN lanes, NEW q \in DOMAIN lanes, IsStrictPrefix(p, q)
      PROVE  FALSE
  <2>1. HeldRows(lanes[p], R, p) = Having(R, p)
    BY <1>4, <1>5, <1>6, LanesHoldAll
  <2>2. PICK r \in R : Has(argument[r], q)
    BY <1>5 DEF Having
  <2>3. p \in Seq(Names) /\ q \in Seq(Names)
    <3>1. p \in LanePaths /\ q \in LanePaths
      BY <1>5
    <3> QED
      BY <3>1, PathLength, PathIsSeq
  <2>4. IsObject(At(r, p)) /\ Has(argument[r], p)
    BY <1>6, <2>2, <2>3, PrefixIsObject DEF At
  <2>5. Holds(lanes[p], At(r, p))
    BY <2>1, <2>2, <2>4 DEF Having, HeldRows
  <2>6. lanes[p].kind \in {"scalar", "list", "struct"}
    BY <1>5
  <2> QED
    BY <2>4, <2>5, <2>6 DEF Holds, IsObject, IsObjectArray, FitsPrimitive, IsScalar, IsArray
<1> QED
  BY <1>5, <1>6 DEF HeldRows, Count, R, lanes

\* A lane that is suggested holds the share of values that the call asks for, on
\* the share of rows that it asks for, and so does every subfield of it; if it asks
\* for all values no suggested lane lies inside another one.
THEOREM LanesOfTheirShare ==
  ASSUME NEW D, GroupAssumption(D)
  PROVE  GroupSpec => []SuggestedLanesHoldTheirShare
<1>1. Inv => SuggestedLanesHoldTheirShare
  BY LanesHold
<1> QED
  BY <1>1, Invariance, PTL
=============================================================================
