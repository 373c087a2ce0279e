---------------------------- MODULE CollectProofs ----------------------------
(* Theorems about Collect, for any states, rows, addresses and bounds. *)
EXTENDS Collect, SequenceTheorems, FiniteSetsExt, FiniteSetTheorems, WellFoundedInduction, TLAPS

-----------------------------------------------------------------------------
(* The sum of a function over its finite domain, as the folds of the         *)
(* community modules compute it, does not depend on the order in which they  *)
(* choose the elements.  Induction is by a smallest counterexample among the *)
(* subsets of the domain.                                                    *)

SumOf(f) == MapThenSumSet(LAMBDA x : f[x], DOMAIN f)

-----------------------------------------------------------------------------

\* A set of subsets of a finite set has a member that is least under inclusion.
LEMMA SmallestSubset ==
  ASSUME NEW D, IsFiniteSet(D), NEW B, B \subseteq SUBSET D, B # {}
  PROVE  \E S \in B : \A T \in SUBSET S : T # S => T \notin B
<1> DEFINE R == StrictSubsetOrdering(D)
<1>1. IsWellFoundedOn(R, SUBSET D)
  BY FS_StrictSubsetOrderingWellFounded, FS_FiniteSubsetsOfFinite
<1>2. \A S \in B, T \in B : T \subseteq S /\ T # S => <<T, S>> \in R
  BY DEF StrictSubsetOrdering
<1> HIDE DEF R
<1>3. \E S \in B : \A T \in B : <<T, S>> \notin R
  BY <1>1, WFMin
<1> QED
  BY <1>2, <1>3

-----------------------------------------------------------------------------
(* The recursion of the fold: a function from the subsets of the domain.   *)

Pick(S) == CHOOSE x \in S : TRUE

IsFold(it, f, D) ==
  it = [S \in SUBSET D |-> IF S = {} THEN 0 ELSE f[Pick(S)] + it[S \ {Pick(S)}]]

\* What the fold computes of a set.
SumOver(f, D) == (CHOOSE it : IsFold(it, f, D))[D]

LEMMA SumIsFold ==
  ASSUME NEW f
  PROVE  SumOf(f) = SumOver(f, DOMAIN f)
  BY DEF SumOf, MapThenSumSet, MapThenFoldSet, SumOver, IsFold, Pick

LEMMA PickIn ==
  ASSUME NEW S, S # {}
  PROVE  Pick(S) \in S
  BY DEF Pick

LEMMA FoldStep ==
  ASSUME NEW it, NEW f, NEW D, IsFold(it, f, D), NEW S \in SUBSET D
  PROVE  it[S] = IF S = {} THEN 0 ELSE f[Pick(S)] + it[S \ {Pick(S)}]
  BY DEF IsFold

LEMMA FoldUnique ==
  ASSUME NEW f, NEW D, IsFiniteSet(D),
         NEW E, D \subseteq E, NEW it, IsFold(it, f, D), NEW at, IsFold(at, f, E)
  PROVE  it[D] = at[D]
<1> DEFINE B == {S \in SUBSET D : it[S] # at[S]}
<1>1. SUFFICES ASSUME B # {}
               PROVE  FALSE
  OBVIOUS
<1>2. PICK S \in B : \A T \in SUBSET S : T # S => T \notin B
  <2> HIDE DEF B
  <2> B \subseteq SUBSET D
    BY DEF B
  <2> QED
    BY <1>1, SmallestSubset
<1>3. it[S] = IF S = {} THEN 0 ELSE f[Pick(S)] + it[S \ {Pick(S)}]
  BY FoldStep
<1>4. at[S] = IF S = {} THEN 0 ELSE f[Pick(S)] + at[S \ {Pick(S)}]
  BY FoldStep
<1>5. S # {} => it[S \ {Pick(S)}] = at[S \ {Pick(S)}]
  BY <1>2, PickIn
<1> QED
  BY <1>3, <1>4, <1>5

\* The recursion has a solution over every finite set, so that CHOOSE finds it.
LEMMA FoldExists ==
  ASSUME NEW f, NEW D, IsFiniteSet(D)
  PROVE  \E it : IsFold(it, f, D)
<1> DEFINE B == {S \in SUBSET D : ~IsFold([T \in SUBSET S |-> SumOver(f, T)], f, S)}
<1>1. SUFFICES ASSUME B # {}
               PROVE  FALSE
  OBVIOUS
<1>2. PICK S \in B : \A T \in SUBSET S : T # S => T \notin B
  <2> HIDE DEF B
  <2> B \subseteq SUBSET D
    BY DEF B
  <2> QED
    BY <1>1, SmallestSubset
<1>3. IsFiniteSet(S)
  BY FS_Subset
<1> DEFINE step(T) == IF T = {} THEN 0 ELSE f[Pick(T)] + SumOver(f, T \ {Pick(T)})
           it == [T \in SUBSET S |-> IF T = S THEN step(S) ELSE SumOver(f, T)]
<1>4. ASSUME NEW T \in SUBSET S, T # S
      PROVE  SumOver(f, T) = step(T)
  <2>1. IsFold([U \in SUBSET T |-> SumOver(f, U)], f, T)
    BY <1>2, <1>4
  <2>2. [U \in SUBSET T |-> SumOver(f, U)][T] =
          IF T = {} THEN 0
          ELSE f[Pick(T)] + [U \in SUBSET T |-> SumOver(f, U)][T \ {Pick(T)}]
    BY <2>1, FoldStep
  <2> QED
    BY <2>2
<1>5. IsFold(it, f, S)
  <2>1. ASSUME NEW T \in SUBSET S
        PROVE  it[T] = IF T = {} THEN 0 ELSE f[Pick(T)] + it[T \ {Pick(T)}]
    <3>1. T # {} => T \ {Pick(T)} \in SUBSET S /\ T \ {Pick(T)} # S
      BY PickIn
    <3>2. T # {} => it[T \ {Pick(T)}] = SumOver(f, T \ {Pick(T)})
      BY <3>1
    <3>3. it[T] = step(T)
      BY <1>4
    <3> HIDE DEF it
    <3> QED
      BY <3>2, <3>3
  <2>2. it = [T \in SUBSET S |-> it[T]]
    OBVIOUS
  <2> HIDE DEF it
  <2>3. [T \in SUBSET S |-> it[T]]
          = [T \in SUBSET S |-> IF T = {} THEN 0 ELSE f[Pick(T)] + it[T \ {Pick(T)}]]
    BY <2>1
  <2> QED
    BY <2>2, <2>3 DEF IsFold
<1>6. SumOver(f, S) = step(S)
  <2> DEFINE at == CHOOSE a : IsFold(a, f, S)
  <2>1. IsFold(at, f, S)
    BY <1>5
  <2>2. it[S] = step(S)
    OBVIOUS
  <2> HIDE DEF it, at
  <2>3. at[S] = it[S]
    BY <1>3, <1>5, <2>1, FoldUnique
  <2> QED
    BY <2>2, <2>3 DEF SumOver, at
<1>7. [T \in SUBSET S |-> SumOver(f, T)] = it
  BY <1>6
<1> QED
  BY <1>5, <1>7

LEMMA SumOverSubset ==
  ASSUME NEW f, NEW D, IsFiniteSet(D), NEW S \in SUBSET D, NEW it, IsFold(it, f, D)
  PROVE  SumOver(f, S) = it[S]
<1>1. IsFiniteSet(S)
  BY FS_Subset
<1> DEFINE at == CHOOSE a : IsFold(a, f, S)
<1>2. IsFold(at, f, S)
  BY <1>1, FoldExists
<1> HIDE DEF at
<1>3. at[S] = it[S]
  BY <1>1, <1>2, FoldUnique
<1> QED
  BY <1>3 DEF SumOver, at

-----------------------------------------------------------------------------
(* Sums of natural numbers.                                                *)

LEMMA SumEmpty ==
  ASSUME NEW f
  PROVE  SumOver(f, {}) = 0
<1>1. PICK it : IsFold(it, f, {})
  BY FoldExists, FS_EmptySet
<1>2. SumOver(f, {}) = it[{}]
  BY <1>1, SumOverSubset, FS_EmptySet
<1>3. it[{}] = 0
  BY <1>1, FoldStep
<1> QED
  BY <1>2, <1>3

\* The order of the elements does not matter: any may be taken first.
LEMMA SumRemove ==
  ASSUME NEW f, NEW D, IsFiniteSet(D), \A x \in D : f[x] \in Nat
  PROVE  /\ SumOver(f, D) \in Nat
         /\ \A x \in D : SumOver(f, D) = f[x] + SumOver(f, D \ {x})
<1>1. PICK it : IsFold(it, f, D)
  BY FoldExists
<1>2. \A S \in SUBSET D : SumOver(f, S) = it[S]
  BY <1>1, SumOverSubset
<1> DEFINE Good(S) == it[S] \in Nat /\ \A x \in S : it[S] = f[x] + it[S \ {x}]
           B == {S \in SUBSET D : ~Good(S)}
<1>3. ASSUME B # {}
      PROVE  FALSE
  <2>1. PICK S \in B : \A T \in SUBSET S : T # S => T \notin B
    <3> HIDE DEF B
    <3> B \subseteq SUBSET D
      BY DEF B
    <3> QED
      BY <1>3, SmallestSubset
  <2>2. S \in SUBSET D /\ \A T \in SUBSET S : T # S => Good(T)
    BY <2>1
  <2>3. it[S] = IF S = {} THEN 0 ELSE f[Pick(S)] + it[S \ {Pick(S)}]
    BY <1>1, <2>2, FoldStep
  <2>4. CASE S = {}
    BY <2>1, <2>3, <2>4
  <2>5. CASE S # {}
    <3> DEFINE y == Pick(S)
    <3>1. y \in S
      BY <2>5, PickIn
    <3> HIDE DEF y
    <3>2. it[S] = f[y] + it[S \ {y}]
      BY <2>3, <2>5 DEF y
    <3>3. it[S] \in Nat
      BY <2>2, <3>1, <3>2
    <3>4. ASSUME NEW x \in S, x # y
          PROVE  it[S] = f[x] + it[S \ {x}]
      <4>1. it[S \ {y}] = f[x] + it[(S \ {y}) \ {x}]
        BY <2>2, <3>1, <3>4
      <4>2. it[S \ {x}] = f[y] + it[(S \ {x}) \ {y}]
        BY <2>2, <3>1, <3>4
      <4>3. (S \ {y}) \ {x} = (S \ {x}) \ {y}
        OBVIOUS
      <4>4. it[(S \ {x}) \ {y}] \in Nat /\ f[x] \in Nat /\ f[y] \in Nat
        BY <2>2, <3>1, <3>4
      <4> QED
        BY <3>2, <4>1, <4>2, <4>3, <4>4
    <3> QED
      BY <2>1, <3>2, <3>3, <3>4
  <2> QED
    BY <2>4, <2>5
<1>4. Good(D)
  BY <1>3
<1> QED
  BY <1>2, <1>4

\* A sum depends on what it sums only.
LEMMA SumAgree ==
  ASSUME NEW f, NEW g, NEW D, \A x \in D : f[x] = g[x]
  PROVE  SumOver(f, D) = SumOver(g, D)
<1>1. ASSUME NEW it
      PROVE  IsFold(it, f, D) <=> IsFold(it, g, D)
  <2>1. \A S \in SUBSET D : S # {} => f[Pick(S)] = g[Pick(S)]
    BY PickIn
  <2> QED
    BY <2>1 DEF IsFold
<1> QED
  BY <1>1 DEF SumOver

\* One summand changes.
LEMMA SumUpdate ==
  ASSUME NEW f, NEW g, NEW D, IsFiniteSet(D), NEW x \in D,
         \A y \in D : f[y] \in Nat /\ g[y] \in Nat,
         \A y \in D \ {x} : f[y] = g[y]
  PROVE  SumOver(g, D) + f[x] = SumOver(f, D) + g[x]
<1>1. SumOver(f, D) = f[x] + SumOver(f, D \ {x})
  BY SumRemove
<1>2. SumOver(g, D) = g[x] + SumOver(g, D \ {x})
  BY SumRemove
<1>3. SumOver(f, D \ {x}) = SumOver(g, D \ {x})
  BY SumAgree
<1>4. SumOver(f, D \ {x}) \in Nat
  BY SumRemove, FS_RemoveElement
<1> QED
  BY <1>1, <1>2, <1>3, <1>4

\* A sum splits along any subset of the domain.
LEMMA SumSplit ==
  ASSUME NEW f, NEW D, IsFiniteSet(D), \A x \in D : f[x] \in Nat, NEW S \in SUBSET D
  PROVE  SumOver(f, D) = SumOver(f, S) + SumOver(f, D \ S)
<1> DEFINE B == {T \in SUBSET D : SumOver(f, T) # SumOver(f, T \cap S) + SumOver(f, T \ S)}
<1>1. ASSUME B # {}
      PROVE  FALSE
  <2>1. PICK T \in B : \A U \in SUBSET T : U # T => U \notin B
    <3> HIDE DEF B
    <3> B \subseteq SUBSET D
      BY DEF B
    <3> QED
      BY <1>1, SmallestSubset
  <2>2. /\ IsFiniteSet(T) /\ IsFiniteSet(T \cap S) /\ IsFiniteSet(T \ S)
        /\ \A x \in T : f[x] \in Nat
    BY <2>1, FS_Subset
  <2>3. CASE T = {}
    <3>1. T \cap S = {} /\ T \ S = {}
      BY <2>3
    <3> QED
      BY <2>1, <2>3, <3>1, SumEmpty
  <2>4. ASSUME NEW x \in T
        PROVE  FALSE
    <3>1. SumOver(f, T) = f[x] + SumOver(f, T \ {x})
      BY <2>2, SumRemove
    <3>2. SumOver(f, T \ {x}) = SumOver(f, (T \ {x}) \cap S) + SumOver(f, (T \ {x}) \ S)
      BY <2>1
    <3>3. SumOver(f, T \cap S) \in Nat /\ SumOver(f, T \ S) \in Nat /\ f[x] \in Nat
      BY <2>2, SumRemove
    <3>4. /\ SumOver(f, (T \ {x}) \cap S) \in Nat /\ SumOver(f, (T \ {x}) \ S) \in Nat
      <4>1. IsFiniteSet((T \ {x}) \cap S) /\ IsFiniteSet((T \ {x}) \ S)
        BY <2>2, FS_Subset
      <4> QED
        BY <2>2, <4>1, SumRemove
    <3>5. CASE x \in S
      <4>1. SumOver(f, T \cap S) = f[x] + SumOver(f, (T \cap S) \ {x})
        BY <2>2, <3>5, SumRemove
      <4>2. (T \cap S) \ {x} = (T \ {x}) \cap S /\ (T \ {x}) \ S = T \ S
        BY <3>5
      <4>3. SumOver(f, T \ {x}) = SumOver(f, (T \ {x}) \cap S) + SumOver(f, T \ S)
        BY <3>2, <4>2
      <4>4. SumOver(f, T \cap S) = f[x] + SumOver(f, (T \ {x}) \cap S)
        BY <4>1, <4>2
      <4>5. SumOver(f, T) = SumOver(f, T \cap S) + SumOver(f, T \ S)
        BY <3>1, <3>3, <3>4, <4>3, <4>4
      <4> QED
        BY <2>1, <4>5
    <3>6. CASE x \notin S
      <4>1. SumOver(f, T \ S) = f[x] + SumOver(f, (T \ S) \ {x})
        BY <2>2, <3>6, SumRemove
      <4>2. (T \ S) \ {x} = (T \ {x}) \ S /\ (T \ {x}) \cap S = T \cap S
        BY <3>6
      <4>3. SumOver(f, T \ {x}) = SumOver(f, T \cap S) + SumOver(f, (T \ {x}) \ S)
        BY <3>2, <4>2
      <4>4. SumOver(f, T \ S) = f[x] + SumOver(f, (T \ {x}) \ S)
        BY <4>1, <4>2
      <4>5. SumOver(f, T) = SumOver(f, T \cap S) + SumOver(f, T \ S)
        BY <3>1, <3>3, <3>4, <4>3, <4>4
      <4> QED
        BY <2>1, <4>5
    <3> QED
      BY <3>5, <3>6
  <2> QED
    BY <2>3, <2>4
<1>2. D \cap S = S
  OBVIOUS
<1> QED
  BY <1>1, <1>2

LEMMA Distributes ==
  ASSUME NEW c \in Nat, NEW a \in Nat, NEW b \in Nat
  PROVE  c * (a + b) = c * a + c * b /\ c * a \in Nat
  BY SMT

LEMMA Regroup ==
  ASSUME NEW a \in Nat, NEW b \in Nat, NEW g \in Nat, NEW k \in Nat,
         NEW p \in Nat, NEW q \in Nat, NEW u \in Nat, NEW v \in Nat,
         a + b = g + k, p + q = u + v
  PROVE  (a + p) + (b + q) = (g + u) + (k + v)
  BY SMT

Balanced(c, a, b, g, k) ==
  a \in Nat /\ b \in Nat /\ g \in Nat /\ k \in Nat /\ a + c * b = g + c * k

\* What holds of every summand, holds of the sums.
LEMMA SumLinear ==
  ASSUME NEW c \in Nat, NEW D, IsFiniteSet(D), NEW f, NEW g, NEW h, NEW k,
         \A x \in D : Balanced(c, f[x], h[x], g[x], k[x])
  PROVE  SumOver(f, D) + c * SumOver(h, D) = SumOver(g, D) + c * SumOver(k, D)
<1> DEFINE Good(T) == SumOver(f, T) + c * SumOver(h, T) = SumOver(g, T) + c * SumOver(k, T)
           B == {T \in SUBSET D : ~Good(T)}
<1>1. ASSUME B # {}
      PROVE  FALSE
  <2>1. PICK T \in B : \A U \in SUBSET T : U # T => U \notin B
    <3> HIDE DEF B
    <3> B \subseteq SUBSET D
      BY DEF B
    <3> QED
      BY <1>1, SmallestSubset
  <2>2. IsFiniteSet(T)
    BY <2>1, FS_Subset
  <2>3. CASE T = {}
    <3>1. Good(T)
      BY <2>3, SumEmpty
    <3> QED
      BY <2>1, <3>1
  <2>4. ASSUME NEW x \in T
        PROVE  FALSE
    <3> DEFINE R == T \ {x}
    <3>1. IsFiniteSet(R) /\ R \in SUBSET D /\ R \in SUBSET T /\ R # T
      BY <2>2, FS_RemoveElement
    <3>2. Good(R)
      BY <2>1, <3>1
    <3>3. /\ SumOver(f, T) = f[x] + SumOver(f, R) /\ SumOver(g, T) = g[x] + SumOver(g, R)
          /\ SumOver(h, T) = h[x] + SumOver(h, R) /\ SumOver(k, T) = k[x] + SumOver(k, R)
      <4>1. SumOver(f, T) = f[x] + SumOver(f, R)
        <5>1. \A y \in T : f[y] \in Nat
          BY <2>1 DEF Balanced
        <5>2. \A y \in T : SumOver(f, T) = f[y] + SumOver(f, T \ {y})
          <6> HIDE DEF Good, B, R
          <6> QED
            BY <2>2, <5>1, SumRemove, Zenon
        <5> QED
          BY <5>2
      <4>2. SumOver(g, T) = g[x] + SumOver(g, R)
        <5>1. \A y \in T : g[y] \in Nat
          BY <2>1 DEF Balanced
        <5>2. \A y \in T : SumOver(g, T) = g[y] + SumOver(g, T \ {y})
          <6> HIDE DEF Good, B, R
          <6> QED
            BY <2>2, <5>1, SumRemove, Zenon
        <5> QED
          BY <5>2
      <4>3. SumOver(h, T) = h[x] + SumOver(h, R)
        <5>1. \A y \in T : h[y] \in Nat
          BY <2>1 DEF Balanced
        <5>2. \A y \in T : SumOver(h, T) = h[y] + SumOver(h, T \ {y})
          <6> HIDE DEF Good, B, R
          <6> QED
            BY <2>2, <5>1, SumRemove, Zenon
        <5> QED
          BY <5>2
      <4>4. SumOver(k, T) = k[x] + SumOver(k, R)
        <5>1. \A y \in T : k[y] \in Nat
          BY <2>1 DEF Balanced
        <5>2. \A y \in T : SumOver(k, T) = k[y] + SumOver(k, T \ {y})
          <6> HIDE DEF Good, B, R
          <6> QED
            BY <2>2, <5>1, SumRemove, Zenon
        <5> QED
          BY <5>2
      <4> QED
        BY <4>1, <4>2, <4>3, <4>4
    <3>4. /\ SumOver(f, R) \in Nat /\ SumOver(g, R) \in Nat
          /\ SumOver(h, R) \in Nat /\ SumOver(k, R) \in Nat
      <4>1. /\ \A y \in R : f[y] \in Nat
            /\ \A y \in R : g[y] \in Nat
            /\ \A y \in R : h[y] \in Nat
            /\ \A y \in R : k[y] \in Nat
        BY <3>1 DEF Balanced
      <4> QED
        BY <3>1, <4>1, SumRemove
    <3>5. /\ f[x] \in Nat /\ g[x] \in Nat /\ h[x] \in Nat /\ k[x] \in Nat
          /\ f[x] + c * h[x] = g[x] + c * k[x]
      BY <2>1 DEF Balanced
    <3> HIDE DEF R
    <3>6. /\ c * SumOver(h, T) = c * h[x] + c * SumOver(h, R)
          /\ c * SumOver(k, T) = c * k[x] + c * SumOver(k, R)
          /\ c * h[x] \in Nat /\ c * SumOver(h, R) \in Nat
          /\ c * k[x] \in Nat /\ c * SumOver(k, R) \in Nat
      BY <3>3, <3>4, <3>5, Distributes
    <3> DEFINE ch == c * h[x]  chR == c * SumOver(h, R)
               ck == c * k[x]  ckR == c * SumOver(k, R)
    <3>7. ch \in Nat /\ chR \in Nat /\ ck \in Nat /\ ckR \in Nat
      BY <3>6
    <3>8. f[x] \in Nat /\ g[x] \in Nat /\ f[x] + ch = g[x] + ck
      BY <3>5
    <3>9. SumOver(f, R) + chR = SumOver(g, R) + ckR
      BY <3>2
    <3>10. c * SumOver(h, T) = ch + chR /\ c * SumOver(k, T) = ck + ckR
      BY <3>6
    <3>11. SumOver(f, T) = f[x] + SumOver(f, R) /\ SumOver(g, T) = g[x] + SumOver(g, R)
      BY <3>3
    <3>12. SumOver(f, R) \in Nat /\ SumOver(g, R) \in Nat
      BY <3>4
    <3> HIDE DEF ch, chR, ck, ckR
    <3>13. SumOver(f, T) + (ch + chR) = SumOver(g, T) + (ck + ckR)
      <4>1. (f[x] + SumOver(f, R)) + (ch + chR) = (g[x] + SumOver(g, R)) + (ck + ckR)
        BY <3>7, <3>8, <3>9, <3>12, Regroup
      <4> QED
        BY <3>11, <4>1
    <3>14. Good(T)
      BY <3>10, <3>13
    <3> QED
      BY <2>1, <3>14
  <2> QED
    BY <2>3, <2>4
<1>2. Good(D)
  BY <1>1
<1> QED
  BY <1>2

\* Counting a finite set by what its members map to.
LEMMA SumOfFibers ==
  ASSUME NEW D, IsFiniteSet(D), NEW H, IsFiniteSet(H), NEW own, NEW f,
         \A s \in D : f[s] = Cardinality({e \in H : own[e] = s})
  PROVE  SumOver(f, D) = Cardinality({e \in H : own[e] \in D})
<1> DEFINE Fiber(T) == {e \in H : own[e] \in T}
           B == {T \in SUBSET D : SumOver(f, T) # Cardinality(Fiber(T))}
<1>1. ASSUME B # {}
      PROVE  FALSE
  <2>1. PICK T \in B : \A U \in SUBSET T : U # T => U \notin B
    <3> HIDE DEF B
    <3> B \subseteq SUBSET D
      BY DEF B
    <3> QED
      BY <1>1, SmallestSubset
  <2>2. IsFiniteSet(T)
    BY <2>1, FS_Subset
  <2>3. CASE T = {}
    <3>1. Fiber(T) = {}
      BY <2>3
    <3>2. SumOver(f, T) = 0
      BY <2>3, SumEmpty
    <3> HIDE DEF Fiber
    <3>3. SumOver(f, T) = Cardinality(Fiber(T))
      BY <3>1, <3>2, FS_EmptySet
    <3> QED
      BY <2>1, <3>3
  <2>4. ASSUME NEW x \in T
        PROVE  FALSE
    <3> DEFINE R == T \ {x}
               X == {e \in H : own[e] = x}
    <3>1. R \in SUBSET D /\ R \in SUBSET T /\ R # T
      BY <2>1
    <3>2. SumOver(f, R) = Cardinality(Fiber(R))
      BY <2>1, <3>1
    <3>3. \A s \in T : f[s] \in Nat
      <4>1. \A s \in T : f[s] = Cardinality({e \in H : own[e] = s}) /\ {e \in H : own[e] = s} \in SUBSET H
        BY <2>1
      <4> QED
        BY <4>1, FS_Subset, FS_CardinalityType
    <3>4. SumOver(f, T) = f[x] + SumOver(f, R)
      BY <2>2, <3>3, SumRemove
    <3>5. Fiber(T) = X \cup Fiber(R) /\ X \cap Fiber(R) = {}
      OBVIOUS
    <3>6. /\ X \in SUBSET H /\ Fiber(R) \in SUBSET H
      OBVIOUS
    <3> HIDE DEF X, R, Fiber
    <3>7. /\ IsFiniteSet(X) /\ Cardinality(X) \in Nat
          /\ IsFiniteSet(Fiber(R)) /\ Cardinality(Fiber(R)) \in Nat
      BY <3>6, FS_Subset, FS_CardinalityType
    <3>8. Cardinality(Fiber(T)) = Cardinality(X) + Cardinality(Fiber(R)) - Cardinality({})
      BY <3>5, <3>7, FS_Union
    <3>9. f[x] = Cardinality(X)
      BY <2>1 DEF X
    <3>10. SumOver(f, T) = Cardinality(Fiber(T))
      BY <3>2, <3>4, <3>7, <3>8, <3>9, FS_EmptySet
    <3> QED
      BY <2>1, <3>10
  <2> QED
    BY <2>3, <2>4
<1>2. SumOver(f, D) = Cardinality(Fiber(D))
  BY <1>1
<1> QED
  BY <1>2

\* Counting a finite set one by one.
LEMMA SumOfOnes ==
  ASSUME NEW D, IsFiniteSet(D), NEW f, \A x \in D : f[x] = 1
  PROVE  SumOver(f, D) = Cardinality(D)
<1> DEFINE own == [x \in D |-> x]
<1>1. ASSUME NEW s \in D
      PROVE  f[s] = Cardinality({e \in D : own[e] = s})
  <2>1. {e \in D : own[e] = s} = {s}
    OBVIOUS
  <2> QED
    BY <2>1, FS_Singleton
<1> HIDE DEF own
<1>2. SumOver(f, D) = Cardinality({e \in D : own[e] \in D})
  BY <1>1, SumOfFibers
<1>3. {e \in D : own[e] \in D} = D
  BY DEF own
<1> QED
  BY <1>2, <1>3

LEMMA SumOfZeros ==
  ASSUME NEW D, IsFiniteSet(D), NEW f, \A x \in D : f[x] = 0
  PROVE  SumOver(f, D) = 0
<1> DEFINE own == [e \in {} |-> e]
<1>1. \A x \in D : {e \in {} : own[e] = x} = {}
  OBVIOUS
<1>2. \A x \in D : f[x] = Cardinality({e \in {} : own[e] = x})
  BY <1>1, FS_EmptySet
<1> HIDE DEF own
<1>3. SumOver(f, D) = Cardinality({e \in {} : own[e] \in D})
  BY <1>2, SumOfFibers, FS_EmptySet
<1>4. {e \in {} : own[e] \in D} = {}
  OBVIOUS
<1> QED
  BY <1>3, <1>4, FS_EmptySet

-----------------------------------------------------------------------------
(* Sequences of references and what they read as. *)

Read(e, h) == [key |-> h[e].key, value |-> h[e].value]

LEMMA ReadSeq ==
  ASSUME NEW S, NEW refs \in Seq(S), NEW h
  PROVE  /\ ReadRefs(refs, h) \in Seq({Read(e, h) : e \in S})
         /\ Len(ReadRefs(refs, h)) = Len(refs)
         /\ \A i \in 1 .. Len(refs) : ReadRefs(refs, h)[i] = Read(refs[i], h)
<1>1. Len(refs) \in Nat /\ \A i \in 1 .. Len(refs) : refs[i] \in S
  OBVIOUS
<1>2. ReadRefs(refs, h) \in [1 .. Len(refs) -> {Read(e, h) : e \in S}]
  BY <1>1 DEF ReadRefs, Read
<1>3. ReadRefs(refs, h) \in Seq({Read(e, h) : e \in S})
  BY <1>1, <1>2
<1> QED
  BY <1>1, <1>2, <1>3 DEF ReadRefs, Read

LEMMA ReadAppend ==
  ASSUME NEW S, NEW refs \in Seq(S), NEW e, NEW h
  PROVE  ReadRefs(Append(refs, e), h) = Append(ReadRefs(refs, h), Read(e, h))
<1> DEFINE T == S \cup {e}
           new == ReadRefs(Append(refs, e), h)
           old == ReadRefs(refs, h)
           R == {Read(x, h) : x \in T}
<1>1. /\ refs \in Seq(T) /\ Append(refs, e) \in Seq(T)
      /\ Len(Append(refs, e)) = Len(refs) + 1
  OBVIOUS
<1>2. /\ new \in Seq(R)
      /\ Len(new) = Len(refs) + 1
      /\ \A i \in 1 .. Len(refs) + 1 : new[i] = Read(Append(refs, e)[i], h)
  BY <1>1, ReadSeq
<1>3. /\ old \in Seq(R)
      /\ Len(old) = Len(refs)
      /\ \A i \in 1 .. Len(refs) : old[i] = Read(refs[i], h)
  BY <1>1, ReadSeq
<1>4. Read(e, h) \in R
  OBVIOUS
<1> HIDE DEF new, old, R, T
<1>5. Append(old, Read(e, h)) \in Seq(R) /\ Len(Append(old, Read(e, h))) = Len(new)
  BY <1>2, <1>3, <1>4
<1>6. \A i \in 1 .. Len(new) : new[i] = Append(old, Read(e, h))[i]
  BY <1>2, <1>3, <1>4
<1>7. new = Append(old, Read(e, h))
  BY <1>2, <1>5, <1>6, SeqEqual
<1> QED
  BY <1>7 DEF new, old

LEMMA ReadConcat ==
  ASSUME NEW S, NEW refs \in Seq(S), NEW more \in Seq(S), NEW h
  PROVE  ReadRefs(refs \o more, h) = ReadRefs(refs, h) \o ReadRefs(more, h)
<1> DEFINE both == ReadRefs(refs \o more, h)
           a == ReadRefs(refs, h)
           b == ReadRefs(more, h)
           R == {Read(x, h) : x \in S}
<1>1. both \in Seq(R) /\ Len(both) = Len(refs) + Len(more)
      /\ \A i \in 1 .. Len(refs) + Len(more) : both[i] = Read((refs \o more)[i], h)
  <2>1. refs \o more \in Seq(S) /\ Len(refs \o more) = Len(refs) + Len(more)
    OBVIOUS
  <2> QED BY <2>1, ReadSeq
<1>2. /\ a \in Seq(R) /\ Len(a) = Len(refs)
      /\ \A i \in 1 .. Len(refs) : a[i] = Read(refs[i], h)
  BY ReadSeq
<1>3. /\ b \in Seq(R) /\ Len(b) = Len(more)
      /\ \A i \in 1 .. Len(more) : b[i] = Read(more[i], h)
  BY ReadSeq
<1> HIDE DEF both, a, b, R
<1>4. /\ a \o b \in Seq(R) /\ Len(a \o b) = Len(both)
      /\ \A i \in 1 .. Len(a) + Len(b) : (a \o b)[i] = IF i <= Len(a) THEN a[i] ELSE b[i - Len(a)]
  <2>1. a \in Seq(R) /\ b \in Seq(R)
    BY <1>2, <1>3
  <2>2. /\ a \o b \in Seq(R) /\ Len(a \o b) = Len(a) + Len(b)
        /\ \A i \in 1 .. Len(a) + Len(b) : (a \o b)[i] = IF i <= Len(a) THEN a[i] ELSE b[i - Len(a)]
    BY <2>1, ConcatProperties
  <2> QED
    BY <1>1, <1>2, <1>3, <2>2
<1>5. ASSUME NEW i \in 1 .. Len(both)
      PROVE  both[i] = (a \o b)[i]
  <2> Len(refs) \in Nat /\ Len(more) \in Nat
    BY LenProperties
  <2> i \in 1 .. Len(refs) + Len(more)
    BY <1>1
  <2>1. /\ Len(refs) \in Nat /\ Len(more) \in Nat
        /\ i \in 1 .. Len(refs) + Len(more)
        /\ (refs \o more)[i] = IF i <= Len(refs) THEN refs[i] ELSE more[i - Len(refs)]
    BY <1>1, ConcatProperties, LenProperties
  <2>2. CASE i <= Len(refs)
    BY <1>1, <1>2, <1>3, <1>4, <2>1, <2>2
  <2>3. CASE ~(i <= Len(refs))
    <3>1. i - Len(refs) \in 1 .. Len(more)
      BY <2>1, <2>3
    <3> QED
      BY <1>1, <1>2, <1>3, <1>4, <2>1, <2>3, <3>1
  <2> QED
    BY <2>2, <2>3
<1>6. both = a \o b
  BY <1>1, <1>4, <1>5, SeqEqual
<1> QED
  BY <1>6 DEF both, a, b

LEMMA ReadNothing ==
  ASSUME NEW h
  PROVE  ReadRefs(<< >>, h) = << >>
<1>1. << >> \in Seq({}) /\ Len(<< >>) = 0
  BY EmptySeq
<1>2. Len(ReadRefs(<< >>, h)) = 0 /\ ReadRefs(<< >>, h) \in Seq({Read(e, h) : e \in {}})
  BY <1>1, ReadSeq
<1> QED
  BY <1>2, EmptySeq

\* A list reads the same while its elements stay what they are.
LEMMA ReadSame ==
  ASSUME NEW S, NEW refs \in Seq(S), NEW h, NEW g, \A x \in S : g[x] = h[x]
  PROVE  ReadRefs(refs, g) = ReadRefs(refs, h)
<1>1. \A i \in 1 .. Len(refs) : refs[i] \in S
  OBVIOUS
<1> QED
  BY <1>1 DEF ReadRefs

----------------------------------------------------------------------------
(* The inductive invariant.  A state that does not exist holds nothing, as   *)
(* the promise has it of one that begins; a list is allocated exactly for    *)
(* references, until an exception leaves an empty one.                       *)

StatesInv ==
  \A s \in State :
    /\ phase[s] = "none" => elements[s] = << >>
    /\ ~failed /\ phase[s] = "live" => (container[s] <=> elements[s] # << >>)

IInv == TypeOK /\ StatesInv

LEMMA FreshElement ==
  ASSUME Element \ DOMAIN heap # {}
  PROVE  Fresh \in Element \ DOMAIN heap
<1>1. \E e \in Element : e \notin DOMAIN heap
  OBVIOUS
<1> QED
  BY <1>1 DEF Fresh

LEMMA ListsWiden ==
  ASSUME TypeOK, NEW T, DOMAIN heap \subseteq T
  PROVE  elements \in [State -> Seq(T)]
<1>1. \A s \in State : elements[s] \in Seq(T)
  BY SeqMonotonic DEF TypeOK
<1> QED
  BY <1>1 DEF TypeOK

\* What a state refers to is not freed with another.
LEMMA KeptWhileHeld ==
  ASSUME TypeOK, NEW s \in State, NEW t \in State, s # t
  PROVE  elements[t] \in Seq(DOMAIN heap \cap HeldByOthers(s))
<1>1. /\ elements[t] \in Seq(DOMAIN heap)
      /\ \A i \in 1 .. Len(elements[t]) : elements[t][i] \in DOMAIN heap
  BY DEF TypeOK
<1>2. Held(t) \subseteq HeldByOthers(s)
  BY DEF HeldByOthers
<1>3. \A i \in 1 .. Len(elements[t]) : elements[t][i] \in DOMAIN heap \cap HeldByOthers(s)
  BY <1>1, <1>2 DEF Held
<1>4. elements[t] \in [1 .. Len(elements[t]) -> DOMAIN heap \cap HeldByOthers(s)]
  BY <1>1, <1>3, LenProperties
<1> HIDE DEF HeldByOthers
<1> QED
  BY <1>1, <1>4

LEMMA InitInv == Init => IInv
<1> SUFFICES ASSUME Init PROVE IInv
  OBVIOUS
<1>1. DOMAIN heap = {}
  <2>1. << >> \in Seq({}) /\ Len(<< >>) = 0
    BY EmptySeq
  <2>2. DOMAIN << >> = 1 .. 0
    BY <2>1, LenProperties
  <2> QED
    BY <2>2 DEF Init
<1>2. elements \in [State -> Seq(DOMAIN heap)]
  BY EmptySeq DEF Init
<1> QED
  BY <1>1, <1>2 DEF Init, IInv, TypeOK, StatesInv

LEMMA NextInv ==
  ASSUME IInv, [Next]_vars
  PROVE  IInv'
<1> USE DEF IInv
<1>1. ASSUME NEW s \in State, Initialize(s) PROVE IInv'
  BY <1>1 DEF Initialize, TypeOK, StatesInv
<1>2. ASSUME NEW s \in State, NEW r \in Row, AppendElement(s, r) PROVE IInv'
  <2>1. Fresh \in Element \ DOMAIN heap
    BY <1>2, FreshElement DEF AppendElement
  <2>2. DOMAIN heap' = DOMAIN heap \cup {Fresh}
    BY <1>2 DEF AppendElement
  <2>3. elements \in [State -> Seq(DOMAIN heap')]
    BY <2>2, ListsWiden
  <2>4. /\ elements' \in [State -> Seq(DOMAIN heap')]
        /\ elements'[s] # << >>
        /\ \A t \in State \ {s} : elements'[t] = elements[t]
    <3>1. Append(elements[s], Fresh) \in Seq(DOMAIN heap') /\ Append(elements[s], Fresh) # << >>
      BY <2>2, <2>3
    <3> QED
      BY <1>2, <2>3, <3>1 DEF AppendElement
  <2>5. ElementBytes(r) \in Nat
    BY CollectAssumption DEF ElementBytes
  <2>6. \A e \in DOMAIN heap' : heap'[e].reserved \in Nat
    BY <1>2, <2>5 DEF AppendElement, TypeOK
  <2>7. TypeOK'
    BY <1>2, <2>1, <2>2, <2>4, <2>6 DEF AppendElement, TypeOK
  <2>8. StatesInv'
    BY <1>2, <2>4 DEF AppendElement, TypeOK, StatesInv
  <2> QED
    BY <2>7, <2>8
<1>3. ASSUME NEW s \in State, AppendRefused(s) PROVE IInv'
  BY <1>3 DEF AppendRefused, TypeOK, StatesInv
<1>4. ASSUME NEW s \in State, NEW r \in Row, RefuseNullKey(s, r) PROVE IInv'
  BY <1>4 DEF RefuseNullKey, TypeOK, StatesInv
<1>5. ASSUME NEW s \in State, NEW t \in State, CombineDestructive(s, t) PROVE IInv'
  <2>1. CASE elements[s] = << >>
    BY <1>5, <2>1 DEF CombineDestructive, CanCombine, TypeOK, StatesInv
  <2>2. CASE elements[s] # << >>
    <3>1. /\ elements' = [elements EXCEPT ![t] = @ \o elements[s], ![s] = << >>]
          /\ mem' = [mem EXCEPT ![t] = @ + mem[s], ![s] = 0]
          /\ container' = [container EXCEPT ![t] = TRUE]
          /\ phase' = [phase EXCEPT ![s] = "moved"]
          /\ UNCHANGED <<heap, reserved, failed>>
          /\ s # t
      BY <1>5, <2>2 DEF CombineDestructive, CanCombine
    <3>2. /\ elements[t] \o elements[s] \in Seq(DOMAIN heap)
          /\ elements[t] \o elements[s] # << >>
      BY <2>2, ConcatEqualIffEmpty DEF TypeOK
    <3>3. elements' \in [State -> Seq(DOMAIN heap)]
      BY <3>1, <3>2, EmptySeq DEF TypeOK
    <3>4. /\ mem' \in [State -> Nat]
          /\ container' \in [State -> BOOLEAN]
          /\ phase' \in [State -> {"none", "live", "moved"}]
      <4>1. mem[t] + mem[s] \in Nat
        BY DEF TypeOK
      <4> QED
        BY <3>1, <4>1 DEF TypeOK
    <3>5. TypeOK'
      <4>1. heap' = heap /\ failed' = failed
        BY <3>1
      <4> QED
        BY <3>3, <3>4, <4>1 DEF TypeOK
    <3>6. StatesInv'
      BY <1>5, <3>1, <3>2 DEF TypeOK, StatesInv, CombineDestructive, CanCombine
    <3> QED
      BY <3>5, <3>6
  <2> QED
    BY <2>1, <2>2
<1>6. ASSUME NEW s \in State, NEW t \in State, CombinePreserving(s, t) PROVE IInv'
  <2>1. /\ elements[t] \o elements[s] \in Seq(DOMAIN heap)
        /\ elements[t] \o elements[s] # << >>
    BY <1>6, ConcatEqualIffEmpty DEF TypeOK, CombinePreserving
  <2>2. elements' = [elements EXCEPT ![t] = @ \o elements[s]]
    BY <1>6 DEF CombinePreserving
  <2>3. /\ elements' \in [State -> Seq(DOMAIN heap)]
        /\ elements'[t] # << >>
        /\ \A u \in State \ {t} : elements'[u] = elements[u]
    BY <2>1, <2>2 DEF TypeOK
  <2>4. Len(elements[s]) * RefBytes \in Nat
    BY CollectAssumption DEF TypeOK
  <2>5. TypeOK'
    BY <1>6, <2>3, <2>4 DEF CombinePreserving, TypeOK
  <2>6. StatesInv'
    BY <1>6, <2>3 DEF CombinePreserving, CanCombine, TypeOK, StatesInv
  <2> QED
    BY <2>5, <2>6
<1>7. ASSUME NEW s \in State, NEW t \in State, CombineRefused(s, t) PROVE IInv'
  BY <1>7 DEF CombineRefused, TypeOK, StatesInv
<1>8. ASSUME NEW s \in State, Destroy(s) PROVE IInv'
  <2>1. DOMAIN heap' = DOMAIN heap \cap HeldByOthers(s)
    BY <1>8 DEF Destroy
  <2>2. \A t \in State \ {s} : elements[t] \in Seq(DOMAIN heap')
    BY <2>1, KeptWhileHeld
  <2>3. elements' \in [State -> Seq(DOMAIN heap')]
    BY <1>8, <2>2, EmptySeq DEF Destroy, TypeOK
  <2>4. \A e \in DOMAIN heap' : heap'[e].reserved \in Nat
    BY <1>8 DEF Destroy, TypeOK
  <2>5. TypeOK'
    BY <1>8, <2>1, <2>3, <2>4 DEF Destroy, TypeOK
  <2>6. StatesInv'
    BY <1>8 DEF Destroy, TypeOK, StatesInv
  <2> QED
    BY <2>5, <2>6
<1>9. CASE UNCHANGED vars
  BY <1>9 DEF vars, TypeOK, StatesInv
<1> QED
  BY <1>1, <1>2, <1>3, <1>4, <1>5, <1>6, <1>7, <1>8, <1>9 DEF Next

\* The invariant holds in every state.
THEOREM Invariance == Spec => []IInv
<1>1. IInv /\ [Next]_vars => IInv'
  BY NextInv
<1> QED
  BY <1>1, InitInv, PTL DEF Spec

\* No reference outlives its element, whoever created it and whoever is gone.
THEOREM TypeCorrect == Spec => []TypeOK
BY Invariance, PTL DEF IInv

----------------------------------------------------------------------------
(* The refinement.                                                          *)

\* A state whose list stays, and stays what it is, stands for the same rows.
LEMMA FoldedSame ==
  ASSUME TypeOK, NEW s \in State, elements'[s] = elements[s],
         NEW T, elements[s] \in Seq(T), \A e \in T : heap'[e] = heap[e]
  PROVE  Folded'[s] = Folded[s]
<1>1. ReadRefs(elements[s], heap') = ReadRefs(elements[s], heap)
  BY ReadSame
<1> QED
  BY <1>1 DEF Folded

LEMMA InitImplements == Init => Promise!Init
<1> SUFFICES ASSUME Init PROVE Promise!Init
  OBVIOUS
<1>1. ReadRefs(<< >>, heap) = << >>
  BY ReadNothing
<1> QED
  BY <1>1 DEF Init, Promise!Init, Folded

\* Before and after, the states stand for sequences, one for each state.
LEMMA FoldedIs ==
  /\ Folded = [s \in State |-> Folded[s]]
  /\ Folded' = [s \in State |-> Folded'[s]]
  /\ \A s \in State : Folded[s] = ReadRefs(elements[s], heap)
  /\ \A s \in State : Folded'[s] = ReadRefs(elements'[s], heap')
BY DEF Folded

\* The states a step leaves alone.
LEMMA FoldedUnchanged ==
  ASSUME TypeOK, UNCHANGED <<elements, heap>>
  PROVE  Folded' = Folded
BY DEF Folded

LEMMA AppendImplements ==
  ASSUME TypeOK, NEW s \in State, NEW r \in Row, AppendElement(s, r)
  PROVE  Promise!Fold(s, r)
<1>1. Fresh \in Element \ DOMAIN heap
  BY FreshElement DEF AppendElement
<1>2. /\ heap'[Fresh].key = r.key
      /\ heap'[Fresh].value = SerializeRowValue(r)
      /\ \A e \in DOMAIN heap : heap'[e] = heap[e]
  BY <1>1 DEF AppendElement
<1>3. /\ elements'[s] = Append(elements[s], Fresh)
      /\ \A t \in State \ {s} : elements'[t] = elements[t]
      /\ \A t \in State : elements[t] \in Seq(DOMAIN heap)
  BY DEF AppendElement, TypeOK
<1>4. Read(Fresh, heap') = Promise!Member(r)
  BY <1>2 DEF Read, Promise!Member, SerializeRowValue
<1>5. Folded'[s] = Append(Folded[s], Promise!Member(r))
  <2> elements[s] \in Seq(DOMAIN heap)
    BY <1>3
  <2> \A e \in DOMAIN heap : heap'[e] = heap[e]
    BY <1>2
  <2>1. ReadRefs(Append(elements[s], Fresh), heap')
          = Append(ReadRefs(elements[s], heap'), Read(Fresh, heap'))
    BY ReadAppend
  <2>2. ReadRefs(elements[s], heap') = ReadRefs(elements[s], heap)
    BY ReadSame
  <2> QED
    BY <1>3, <1>4, <2>1, <2>2, FoldedIs
<1>6. \A t \in State \ {s} : Folded'[t] = Folded[t]
  BY <1>2, <1>3, FoldedSame
<1>7. Folded' = [Folded EXCEPT ![s] = Append(@, Promise!Member(r))]
  BY <1>5, <1>6, FoldedIs
<1> QED
  BY <1>7 DEF AppendElement, Promise!Fold

LEMMA CombineReads ==
  ASSUME TypeOK, NEW s \in State, NEW t \in State
  PROVE  ReadRefs(elements[t] \o elements[s], heap) = Folded[t] \o Folded[s]
<1>1. elements[t] \in Seq(DOMAIN heap) /\ elements[s] \in Seq(DOMAIN heap)
  BY DEF TypeOK
<1>2. ReadRefs(elements[t] \o elements[s], heap)
        = ReadRefs(elements[t], heap) \o ReadRefs(elements[s], heap)
  BY <1>1, ReadConcat
<1>3. ReadRefs(elements[t], heap) = Folded[t] /\ ReadRefs(elements[s], heap) = Folded[s]
  BY FoldedIs
<1> QED
  BY <1>2, <1>3

LEMMA DestructiveImplements ==
  ASSUME TypeOK, NEW s \in State, NEW t \in State, CombineDestructive(s, t)
  PROVE  Promise!Move(s, t)
<1> s # t
  BY DEF CombineDestructive, CanCombine
<1>1. /\ elements'[t] = elements[t] \o elements[s]
      /\ elements'[s] = << >>
      /\ \A u \in State \ {s, t} : elements'[u] = elements[u]
  <2>1. CASE elements[s] = << >>
    <3>1. elements' = elements
      BY <2>1 DEF CombineDestructive
    <3>2. elements[t] \o << >> = elements[t]
      BY ConcatEmptySeq DEF TypeOK
    <3> QED
      BY <2>1, <3>1, <3>2
  <2>2. CASE elements[s] # << >>
    BY <2>2 DEF CombineDestructive, TypeOK
  <2> QED
    BY <2>1, <2>2
<1>2. heap' = heap
  BY DEF CombineDestructive
<1>3. /\ Folded'[t] = Folded[t] \o Folded[s]
      /\ Folded'[s] = << >>
      /\ \A u \in State \ {s, t} : Folded'[u] = Folded[u]
  <2>1. /\ Folded'[t] = ReadRefs(elements[t] \o elements[s], heap)
        /\ Folded'[s] = ReadRefs(<< >>, heap)
        /\ \A u \in State \ {s, t} : Folded'[u] = Folded[u]
    BY <1>1, <1>2, FoldedIs
  <2>2. ReadRefs(elements[t] \o elements[s], heap) = Folded[t] \o Folded[s]
    BY CombineReads
  <2> QED
    BY <2>1, <2>2, ReadNothing
<1>4. Folded' = [Folded EXCEPT ![t] = @ \o Folded[s], ![s] = << >>]
  BY <1>3, FoldedIs
<1> QED
  BY <1>4 DEF CombineDestructive, CanCombine, Promise!Move

LEMMA PreservingImplements ==
  ASSUME TypeOK, NEW s \in State, NEW t \in State, CombinePreserving(s, t)
  PROVE  Promise!Share(s, t)
<1>1. /\ elements'[t] = elements[t] \o elements[s]
      /\ \A u \in State \ {t} : elements'[u] = elements[u]
      /\ heap' = heap
  BY DEF CombinePreserving, TypeOK
<1>2. /\ Folded'[t] = Folded[t] \o Folded[s]
      /\ \A u \in State \ {t} : Folded'[u] = Folded[u]
  <2>1. /\ Folded'[t] = ReadRefs(elements[t] \o elements[s], heap)
        /\ \A u \in State \ {t} : Folded'[u] = Folded[u]
    BY <1>1, FoldedIs
  <2>2. ReadRefs(elements[t] \o elements[s], heap) = Folded[t] \o Folded[s]
    BY CombineReads
  <2> QED
    BY <2>1, <2>2
<1>3. Folded' = [Folded EXCEPT ![t] = @ \o Folded[s]]
  BY <1>2, FoldedIs
<1> QED
  BY <1>3 DEF CombinePreserving, CanCombine, Promise!Share

LEMMA DestroyImplements ==
  ASSUME TypeOK, NEW s \in State, Destroy(s)
  PROVE  Promise!End(s)
<1>1. /\ elements'[s] = << >>
      /\ \A t \in State \ {s} : elements'[t] = elements[t]
  BY DEF Destroy, TypeOK
<1>2. \A e \in DOMAIN heap \cap HeldByOthers(s) : heap'[e] = heap[e]
  BY DEF Destroy
<1>3. \A t \in State \ {s} : Folded'[t] = Folded[t]
  BY <1>1, <1>2, KeptWhileHeld, FoldedSame
<1>4. Folded'[s] = << >>
  BY <1>1, ReadNothing, FoldedIs
<1>5. Folded' = [Folded EXCEPT ![s] = << >>]
  BY <1>3, <1>4, FoldedIs
<1> QED
  BY <1>5 DEF Destroy, Promise!End

LEMMA NextImplements ==
  ASSUME IInv, [Next]_vars
  PROVE  [Promise!Next]_<<phase, Folded, failed>>
<1> TypeOK
  BY DEF IInv
<1>1. ASSUME NEW s \in State, Initialize(s) PROVE Promise!Begin(s)
  <2>1. elements' = elements
    BY <1>1 DEF Initialize, IInv, TypeOK, StatesInv
  <2> QED
    BY <1>1, <2>1, FoldedUnchanged DEF Initialize, Promise!Begin
<1>2. ASSUME NEW s \in State, AppendRefused(s) PROVE Promise!Fail
  BY <1>2, FoldedUnchanged DEF AppendRefused, Promise!Fail
<1>3. ASSUME NEW s \in State, NEW r \in Row, RefuseNullKey(s, r) PROVE Promise!Fail
  BY <1>3, FoldedUnchanged DEF RefuseNullKey, Promise!Fail
<1>4. ASSUME NEW s \in State, NEW t \in State, CombineRefused(s, t) PROVE Promise!Fail
  BY <1>4, FoldedUnchanged DEF CombineRefused, CanCombine, Promise!Fail
<1>5. CASE UNCHANGED vars
  BY <1>5, FoldedUnchanged DEF vars
<1> QED
  BY <1>1, <1>2, <1>3, <1>4, <1>5, AppendImplements, DestructiveImplements,
     PreservingImplements, DestroyImplements DEF Next, Promise!Next

\* However states are fed, shared, moved and destroyed, each stands for the
\* rows the promise gives it.
THEOREM Implementation == Spec => ImplementsPromise
<1>1. IInv /\ [Next]_vars => [Promise!Next]_<<phase, Folded, failed>>
  BY NextImplements
<1> QED
  BY <1>1, InitImplements, Invariance, PTL DEF Spec, ImplementsPromise, Promise!Spec

----------------------------------------------------------------------------
(* Results, and sources that are kept.                                      *)

\* An array's result is the group's values in order, NULL for a group without any.
THEOREM ArrayResults == Spec => []ArraysAreThePromised
<1>1. IInv => ArraysAreThePromised
  <2> SUFFICES ASSUME IInv, ~failed, NEW s \in State, phase[s] = "live"
               PROVE  FinalizeArray(s) = Promise!ArrayOf(s)
    BY DEF ArraysAreThePromised
  <2>1. elements[s] \in Seq(DOMAIN heap)
    BY DEF IInv, TypeOK
  <2>2. /\ Folded[s] \in Seq({Read(e, heap) : e \in DOMAIN heap})
        /\ Len(Folded[s]) = Len(elements[s])
        /\ \A i \in 1 .. Len(elements[s]) : Folded[s][i] = Read(elements[s][i], heap)
    BY <2>1, ReadSeq, FoldedIs
  <2>3. Folded[s] = << >> <=> elements[s] = << >>
    BY <2>1, <2>2, EmptySeq
  <2>4. Folded[s] = << >> <=> ~container[s]
    BY <2>3 DEF IInv, StatesInv
  <2>5. \A i \in 1 .. Len(elements[s]) : Folded[s][i].value = heap[elements[s][i]].value
    <3>1. \A e : Read(e, heap).value = heap[e].value
      BY DEF Read
    <3> QED
      BY <2>2, <3>1
  <2>6. (~container[s]) = (Folded[s] = << >>)
    BY <2>4
  <2> QED
    BY <2>2, <2>5, <2>6 DEF FinalizeArray, Promise!ArrayOf
<1> QED
  BY <1>1, Invariance, PTL

LEMMA PrefixOfConcat ==
  ASSUME NEW S, NEW s \in Seq(S), NEW t \in Seq(S)
  PROVE  IsPrefix(s, s) /\ IsPrefix(s, s \o t)
<1>1. Len(s) \in Nat /\ Len(t) \in Nat /\ Len(s \o t) = Len(s) + Len(t)
  BY ConcatProperties, LenProperties
<1>2. SubSeq(s \o t, 1, Len(s)) = SubSeq(s, 1, Len(s))
  <2>1. CASE Len(s) = 0
    BY <2>1, SubSeqEmpty
  <2>2. CASE Len(s) # 0
    <3>1. 1 \in 1 .. Len(s) /\ Len(s) \in 1 .. Len(s)
      BY <1>1, <2>2
    <3> QED
      BY <3>1, SubSeqOfConcat1
  <2> QED
    BY <2>1, <2>2
<1> QED
  BY <1>1, <1>2 DEF IsPrefix

\* A list only grows, unless its state is moved from or destroyed: a source that
\* is to be kept is never emptied.
THEOREM KeptSources == Spec => KeptSourcesKeepTheirElements
<1>1. ASSUME IInv, Next, NEW s \in State, phase[s] = "live", phase'[s] = "live"
      PROVE  IsPrefix(elements[s], elements'[s])
  <2> elements[s] \in Seq(DOMAIN heap)
    BY <1>1 DEF IInv, TypeOK
  <2>1. CASE elements'[s] = elements[s]
    BY <2>1, PrefixOfConcat
  <2>2. CASE \E t \in State : elements'[s] = elements[s] \o elements[t]
    BY <1>1, <2>2, PrefixOfConcat DEF IInv, TypeOK
  <2>3. CASE \E r \in Row : AppendElement(s, r)
    <3>1. elements'[s] = elements[s] \o << Fresh >>
      BY <1>1, <2>3 DEF AppendElement, IInv, TypeOK
    <3>2. elements[s] \in Seq(DOMAIN heap \cup {Fresh}) /\ << Fresh >> \in Seq(DOMAIN heap \cup {Fresh})
      BY SeqMonotonic
    <3> QED
      BY <3>1, <3>2, PrefixOfConcat
  <2>4. ASSUME NEW u \in State, NEW t \in State, CombineDestructive(u, t)
        PROVE  elements'[s] = elements[s] \/ \E v \in State : elements'[s] = elements[s] \o elements[v]
    BY <1>1, <2>4 DEF CombineDestructive, CanCombine, IInv, TypeOK
  <2>5. ASSUME NEW u \in State, NEW t \in State, CombinePreserving(u, t)
        PROVE  elements'[s] = elements[s] \/ \E v \in State : elements'[s] = elements[s] \o elements[v]
    BY <1>1, <2>5 DEF CombinePreserving, CanCombine, IInv, TypeOK
  <2>6. ASSUME NEW u \in State, Initialize(u) \/ Destroy(u)
        PROVE  elements'[s] = elements[s]
    BY <1>1, <2>6 DEF Initialize, Destroy, IInv, TypeOK
  <2>7. ASSUME NEW u \in State, NEW r \in Row, u # s, AppendElement(u, r)
        PROVE  elements'[s] = elements[s]
    BY <1>1, <2>7 DEF AppendElement, IInv, TypeOK
  <2>8. ASSUME NEW u \in State, AppendRefused(u)
        PROVE  elements'[s] = elements[s]
    BY <2>8 DEF AppendRefused
  <2>9. ASSUME NEW u \in State, NEW r \in Row, RefuseNullKey(u, r)
        PROVE  elements'[s] = elements[s]
    BY <2>9 DEF RefuseNullKey
  <2>10. ASSUME NEW u \in State, NEW t \in State, CombineRefused(u, t)
         PROVE  elements'[s] = elements[s]
    BY <2>10 DEF CombineRefused
  <2>11. \/ elements'[s] = elements[s]
         \/ \E v \in State : elements'[s] = elements[s] \o elements[v]
         \/ \E r \in Row : AppendElement(s, r)
    BY <1>1, <2>4, <2>5, <2>6, <2>7, <2>8, <2>9, <2>10 DEF Next
  <2> QED
    BY <2>1, <2>2, <2>3, <2>11
<1>2. IInv /\ [Next]_vars =>
        [\A s \in State : phase[s] = "live" /\ phase'[s] = "live" =>
           IsPrefix(elements[s], elements'[s])]_vars
  BY <1>1
<1> QED
  BY <1>2, Invariance, PTL DEF Spec, KeptSourcesKeepTheirElements

----------------------------------------------------------------------------
(* Objects.  A fold of a sequence that puts one member after the other takes  *)
(* from each set of indices the greatest; what it leaves of any set is the    *)
(* last member of each key.                                                   *)

PutMember(o, m) ==
  [k \in DOMAIN o \cup {m.key} |-> IF k = m.key THEN m.value ELSE o[k]]

IsPutting(it, q) ==
  it = [S \in SUBSET DOMAIN q |->
          IF S = {} THEN << >> ELSE PutMember(it[S \ {Max(S)}], q[Max(S)])]

IsLast(q, S, k, i) == i \in S /\ q[i].key = k /\ \A j \in S : j > i => q[j].key # k

LastIn(q, S, k) == CHOOSE i : IsLast(q, S, k, i)

KeysOf(q, S) == {q[i].key : i \in S}

LastOfEach(q, S) == [k \in KeysOf(q, S) |-> q[LastIn(q, S, k)].value]

LEMMA FoldPuts ==
  ASSUME NEW q
  PROVE  FoldLeft(PutMember, << >>, q) = (CHOOSE it : IsPutting(it, q))[DOMAIN q]
BY DEF FoldLeft, MapThenFoldSet, IsPutting

LEMMA Greatest ==
  ASSUME NEW n \in Nat, NEW S, S \subseteq 1 .. n, S # {}
  PROVE  Max(S) \in S /\ \A i \in S : i <= Max(S)
<1> DEFINE B == {T \in SUBSET (1 .. n) : T # {} /\ ~\E x \in T : \A y \in T : x >= y}
<1>1. ASSUME B # {}
      PROVE  FALSE
  <2>1. PICK T \in B : \A U \in SUBSET T : U # T => U \notin B
    <3>1. IsFiniteSet(1 .. n)
      BY FS_Interval
    <3>2. B \subseteq SUBSET (1 .. n)
      OBVIOUS
    <3> HIDE DEF B
    <3> QED
      BY <1>1, <3>1, <3>2, SmallestSubset
  <2>2. PICK x \in T : TRUE
    OBVIOUS
  <2>3. /\ T \subseteq 1 .. n /\ ~\E a \in T : \A y \in T : a >= y
        /\ \A U \in SUBSET T : U # T /\ U # {} => \E a \in U : \A y \in U : a >= y
    BY <2>1
  <2>4. CASE T \ {x} = {}
    <3>1. \A y \in T : x >= y
      BY <2>2, <2>3, <2>4
    <3> QED
      BY <2>2, <2>3, <3>1
  <2>5. CASE T \ {x} # {}
    <3>1. PICK a \in T \ {x} : \A y \in T \ {x} : a >= y
      BY <2>2, <2>3, <2>5
    <3>2. CASE a >= x
      <4>1. \A y \in T : a >= y
        BY <3>1, <3>2
      <4> QED
        BY <2>3, <3>1, <4>1
    <3>3. CASE ~(a >= x)
      <4>1. \A y \in T : x >= y
        BY <2>2, <2>3, <3>1, <3>3
      <4> QED
        BY <2>2, <2>3, <4>1
    <3> QED
      BY <3>2, <3>3
  <2> QED
    BY <2>4, <2>5
<1>2. PICK x \in S : \A y \in S : x >= y
  BY <1>1
<1>3. Max(S) \in S /\ \A y \in S : Max(S) >= y
  BY <1>2 DEF Max
<1> QED
  BY <1>3

\* A key of the set has one last index.
LEMMA LastIs ==
  ASSUME NEW q, NEW n \in Nat, NEW S, S \subseteq 1 .. n, NEW k \in KeysOf(q, S)
  PROVE  /\ IsLast(q, S, k, LastIn(q, S, k))
         /\ \A i : IsLast(q, S, k, i) => i = LastIn(q, S, k)
<1> DEFINE T == {i \in S : q[i].key = k}
<1>1. T # {} /\ T \subseteq 1 .. n
  BY DEF KeysOf
<1>2. Max(T) \in T /\ \A i \in T : i <= Max(T)
  BY <1>1, Greatest
<1> DEFINE m == Max(T)
<1>3. IsLast(q, S, k, m)
  <2>1. m \in S /\ q[m].key = k /\ m \in 1 .. n
    BY <1>1, <1>2
  <2>2. \A j \in S : q[j].key = k => j <= m
    BY <1>2
  <2> HIDE DEF m
  <2> QED
    BY <2>1, <2>2 DEF IsLast
<1>4. IsLast(q, S, k, LastIn(q, S, k))
  BY <1>3 DEF LastIn
<1>5. ASSUME NEW i, IsLast(q, S, k, i), NEW j, IsLast(q, S, k, j)
      PROVE  i = j
  BY <1>5 DEF IsLast
<1> QED
  BY <1>4, <1>5

LEMMA LastStep ==
  ASSUME NEW q, NEW n \in Nat, NEW S, S \subseteq 1 .. n, S # {}
  PROVE  LastOfEach(q, S) = PutMember(LastOfEach(q, S \ {Max(S)}), q[Max(S)])
<1> DEFINE m == Max(S)
           R == S \ {m}
           old == LastOfEach(q, R)
           new == LastOfEach(q, S)
<1>1. m \in S /\ \A i \in S : i <= m
  BY Greatest
<1> HIDE DEF m
<1>2. KeysOf(q, S) = KeysOf(q, R) \cup {q[m].key}
  BY <1>1 DEF KeysOf
<1>3. R \subseteq 1 .. n
  OBVIOUS
<1>4. ASSUME NEW k \in KeysOf(q, S)
      PROVE  q[LastIn(q, S, k)].value = IF k = q[m].key THEN q[m].value ELSE old[k]
  <2>1. CASE k = q[m].key
    <3>1. IsLast(q, S, k, m)
      BY <1>1, <2>1 DEF IsLast
    <3>2. m = LastIn(q, S, k)
      BY <3>1, LastIs
    <3> QED
      BY <2>1, <3>2
  <2>2. CASE k # q[m].key
    <3>1. k \in KeysOf(q, R)
      BY <1>2, <2>2
    <3>2. IsLast(q, R, k, LastIn(q, R, k))
      BY <1>3, <3>1, LastIs
    <3>3. IsLast(q, S, k, LastIn(q, R, k))
      BY <2>2, <3>2 DEF IsLast
    <3>4. LastIn(q, R, k) = LastIn(q, S, k)
      BY <3>3, LastIs
    <3>5. old[k] = q[LastIn(q, R, k)].value
      BY <3>1 DEF LastOfEach
    <3> QED
      BY <2>2, <3>4, <3>5
  <2> QED
    BY <2>1, <2>2
<1>5. DOMAIN old = KeysOf(q, R)
  BY DEF LastOfEach
<1>6. PutMember(old, q[m])
        = [k \in KeysOf(q, S) |-> IF k = q[m].key THEN q[m].value ELSE old[k]]
  BY <1>2, <1>5 DEF PutMember
<1>7. new = [k \in KeysOf(q, S) |-> q[LastIn(q, S, k)].value]
  BY DEF LastOfEach
<1> HIDE DEF old, new
<1>8. new = PutMember(old, q[m])
  BY <1>4, <1>6, <1>7
<1> QED
  BY <1>8 DEF old, new, m

LEMMA LastOfNone ==
  ASSUME NEW q
  PROVE  LastOfEach(q, {}) = << >>
<1>1. << >> \in Seq({}) /\ Len(<< >>) = 0
  BY EmptySeq
<1>2. << >> \in [1 .. 0 -> {}]
  BY <1>1, LenProperties
<1>3. 1 .. 0 = {}
  OBVIOUS
<1>4. << >> \in [{} -> {}]
  BY <1>2, <1>3
<1>5. KeysOf(q, {}) = {}
  BY DEF KeysOf
<1>6. LastOfEach(q, {}) = [k \in {} |-> q[LastIn(q, {}, k)].value]
  BY <1>5 DEF LastOfEach
<1>7. << >> = [k \in {} |-> << >>[k]]
  BY <1>4
<1> QED
  BY <1>6, <1>7

\* The fold exists, and leaves the last member of each key.
LEMMA FoldLeavesTheLast ==
  ASSUME NEW T, NEW q \in Seq(T)
  PROVE  FoldLeft(PutMember, << >>, q) = LastOfEach(q, 1 .. Len(q))
<1> DEFINE D == DOMAIN q
           it == CHOOSE at : IsPutting(at, q)
           c == [S \in SUBSET D |-> LastOfEach(q, S)]
<1>1. D = 1 .. Len(q) /\ Len(q) \in Nat /\ IsFiniteSet(D)
  BY LenProperties, FS_Interval
<1>2. IsPutting(c, q)
  <2>1. ASSUME NEW S \in SUBSET D, S # {}
        PROVE  LastOfEach(q, S) = PutMember(c[S \ {Max(S)}], q[Max(S)])
    <3>1. c[S \ {Max(S)}] = LastOfEach(q, S \ {Max(S)})
      OBVIOUS
    <3>2. LastOfEach(q, S) = PutMember(LastOfEach(q, S \ {Max(S)}), q[Max(S)])
      BY <1>1, <2>1, LastStep
    <3> QED
      BY <3>1, <3>2
  <2>2. \A S \in SUBSET D : c[S] =
          IF S = {} THEN << >> ELSE PutMember(c[S \ {Max(S)}], q[Max(S)])
    <3>1. \A S \in SUBSET D : c[S] = LastOfEach(q, S)
      OBVIOUS
    <3> HIDE DEF c
    <3> QED
      BY <2>1, <3>1, LastOfNone
  <2>3. c = [S \in SUBSET D |-> c[S]]
    OBVIOUS
  <2> HIDE DEF c
  <2> QED
    BY <2>2, <2>3 DEF IsPutting
<1>3. IsPutting(it, q)
  BY <1>2
<1> HIDE DEF it, c
<1>4. \A S \in SUBSET D : it[S] =
        IF S = {} THEN << >> ELSE PutMember(it[S \ {Max(S)}], q[Max(S)])
  BY <1>3 DEF IsPutting
<1> DEFINE B == {S \in SUBSET D : it[S] # LastOfEach(q, S)}
<1>5. ASSUME B # {}
      PROVE  FALSE
  <2>1. PICK S \in B : \A U \in SUBSET S : U # S => U \notin B
    <3>1. B \subseteq SUBSET D
      OBVIOUS
    <3> HIDE DEF B
    <3> QED
      BY <1>1, <1>5, <3>1, SmallestSubset
  <2>2. S \in SUBSET D /\ it[S] # LastOfEach(q, S)
    OBVIOUS
  <2>3. CASE S = {}
    BY <1>4, <2>2, <2>3, LastOfNone
  <2>4. CASE S # {}
    <3>1. Max(S) \in S
      BY <1>1, <2>2, <2>4, Greatest
    <3>2. it[S \ {Max(S)}] = LastOfEach(q, S \ {Max(S)})
      BY <2>1, <2>2, <3>1
    <3>3. LastOfEach(q, S) = PutMember(LastOfEach(q, S \ {Max(S)}), q[Max(S)])
      BY <1>1, <2>2, <2>4, LastStep
    <3> QED
      BY <1>4, <2>2, <2>4, <3>2, <3>3
  <2> QED
    BY <2>3, <2>4
<1>6. it[D] = LastOfEach(q, D)
  BY <1>5
<1>7. FoldLeft(PutMember, << >>, q) = it[D]
  BY FoldPuts DEF it
<1> QED
  BY <1>1, <1>6, <1>7

\* An object's result has for each key the value that its rows, put in one by one,
\* would leave there; NULL for a group without any.
THEOREM ObjectResults == Spec => []ObjectsAreThePromised
<1>1. IInv => ObjectsAreThePromised
  <2> SUFFICES ASSUME IInv, ~failed, NEW s \in State, phase[s] = "live"
               PROVE  FinalizeObject(s) = Promise!ObjectOf(s)
    BY DEF ObjectsAreThePromised
  <2> DEFINE refs == elements[s]
             q == Folded[s]
             n == Len(refs)
             rows == {Read(e, heap) : e \in DOMAIN heap}
  <2>1. refs \in Seq(DOMAIN heap) /\ n \in Nat
    BY LenProperties DEF IInv, TypeOK
  <2>2. /\ q \in Seq(rows) /\ Len(q) = n
        /\ \A i \in 1 .. n : q[i] = Read(refs[i], heap)
    BY <2>1, ReadSeq, FoldedIs
  <2>3. (~container[s]) = (q = << >>)
    <3>1. q = << >> <=> refs = << >>
      BY <2>1, <2>2, EmptySeq
    <3>2. q = << >> <=> ~container[s]
      BY <3>1 DEF IInv, StatesInv
    <3> QED
      BY <3>2
  <2>4. \A i \in 1 .. n : /\ q[i].key = heap[refs[i]].key
                          /\ q[i].value = heap[refs[i]].value
    <3>1. \A e : Read(e, heap).value = heap[e].value /\ Read(e, heap).key = heap[e].key
      BY DEF Read
    <3> QED
      BY <2>2, <3>1
  <2>5. Held(s) = {refs[i] : i \in 1 .. n}
    BY DEF Held
  <2> HIDE DEF q, rows
  <2>6. {heap[e].key : e \in Held(s)} = KeysOf(q, 1 .. n)
    BY <2>4, <2>5 DEF KeysOf
  <2>7. ASSUME NEW k \in KeysOf(q, 1 .. n)
        PROVE  LastByKey(s)[k] = LastIn(q, 1 .. n, k)
    <3> DEFINE last == LastIn(q, 1 .. n, k)
               P(i) == /\ heap[refs[i]].key = k
                       /\ \A j \in i + 1 .. n : heap[refs[j]].key # k
    <3>1. IsLast(q, 1 .. n, k, last) /\ \A i : IsLast(q, 1 .. n, k, i) => i = last
      BY <2>1, LastIs
    <3>2. \A i \in 1 .. n : P(i) <=> IsLast(q, 1 .. n, k, i)
      BY <2>1, <2>4 DEF IsLast
    <3>3. last \in 1 .. n
      BY <3>1 DEF IsLast
    <3>4. LastByKey(s)[k] = CHOOSE i \in 1 .. n : P(i)
      BY <2>6 DEF LastByKey
    <3> HIDE DEF P, last
    <3>5. (CHOOSE i \in 1 .. n : P(i)) = last
      BY <3>1, <3>2, <3>3
    <3> QED
      BY <3>4, <3>5 DEF last
  <2>8. DOMAIN LastByKey(s) = KeysOf(q, 1 .. n)
    BY <2>6 DEF LastByKey
  <2>9. ASSUME NEW k \in KeysOf(q, 1 .. n)
        PROVE  heap[refs[LastByKey(s)[k]]].value = q[LastIn(q, 1 .. n, k)].value
    <3>1. LastIn(q, 1 .. n, k) \in 1 .. n
      BY <2>1, LastIs DEF IsLast
    <3> QED
      BY <2>4, <2>7, <3>1
  <2>10. FinalizeObject(s).value = LastOfEach(q, 1 .. n)
    <3>1. FinalizeObject(s).value
            = [k \in KeysOf(q, 1 .. n) |-> heap[refs[LastByKey(s)[k]]].value]
      BY <2>8 DEF FinalizeObject
    <3> QED
      BY <2>9, <3>1 DEF LastOfEach
  <2>11. Promise!ObjectOf(s).value = FoldLeft(PutMember, << >>, q)
    BY DEF Promise!ObjectOf, PutMember, q, FoldLeft, MapThenFoldSet,
           Promise!FoldLeft, Promise!MapThenFoldSet, Max, Promise!Max
  <2>12. FoldLeft(PutMember, << >>, q) = LastOfEach(q, 1 .. n)
    BY <2>2, FoldLeavesTheLast
  <2>13. FinalizeObject(s).value = Promise!ObjectOf(s).value
    BY <2>10, <2>11, <2>12
  <2> QED
    BY <2>3, <2>13 DEF FinalizeObject, Promise!ObjectOf, q
<1> QED
  BY <1>1, Invariance, PTL

----------------------------------------------------------------------------
(* The memory.  Of the references to an element its creator's is paid for by *)
(* the element: Creators says that each state has paid for all its           *)
(* references but those to the elements that it, or a state it absorbed,     *)
(* created, and that no element is created by two states.                    *)

HeapOK ==
  \A e \in DOMAIN heap :
    heap[e].bytes \in Nat /\ heap[e].reserved = heap[e].bytes + RefBytes

AllHeld == \A e \in DOMAIN heap : \E s \in State : e \in Held(s)

Paid(m, refs, created) == m + RefBytes * Cardinality(created) = RefBytes * Len(refs)

Creates(O) ==
  /\ \A s \in State : O[s] \subseteq Held(s) /\ Paid(mem[s], elements[s], O[s])
  /\ \A s \in State, t \in State : s # t => O[s] \cap O[t] = {}

Creators == \E O \in [State -> SUBSET DOMAIN heap] : Creates(O)

MemInv == HeapOK /\ AllHeld /\ ReservationsAddUp /\ Creators

ReservedOf(h) == [e \in DOMAIN h |-> h[e].reserved]

Members(q) == {q[i] : i \in 1 .. Len(q)}

LEMMA HeldIs == \A s : Held(s) = Members(elements[s])
  BY DEF Held, Members

LEMMA MembersAppend ==
  ASSUME NEW S, NEW q \in Seq(S), NEW e
  PROVE  Members(Append(q, e)) = Members(q) \cup {e}
<1>1. q \in Seq(S \cup {e})
  BY SeqMonotonic
<1>2. /\ Len(q) \in Nat /\ Len(Append(q, e)) = Len(q) + 1
      /\ \A i \in 1 .. Len(q) : Append(q, e)[i] = q[i]
      /\ Append(q, e)[Len(q) + 1] = e
  BY <1>1, AppendProperties, LenProperties
<1>3. 1 .. Len(q) + 1 = 1 .. Len(q) \cup {Len(q) + 1}
  BY <1>2
<1> QED
  BY <1>2, <1>3 DEF Members

LEMMA MembersConcat ==
  ASSUME NEW S, NEW q \in Seq(S), NEW r \in Seq(S)
  PROVE  Members(q \o r) = Members(q) \cup Members(r)
<1>1. /\ Len(q) \in Nat /\ Len(r) \in Nat /\ Len(q \o r) = Len(q) + Len(r)
      /\ \A i \in 1 .. Len(q) + Len(r) :
            (q \o r)[i] = IF i <= Len(q) THEN q[i] ELSE r[i - Len(q)]
  BY ConcatProperties, LenProperties
<1>2. ASSUME NEW i \in 1 .. Len(q) + Len(r)
      PROVE  (q \o r)[i] \in Members(q) \cup Members(r)
  <2>1. CASE i <= Len(q)
    <3>1. i \in 1 .. Len(q)
      BY <1>1, <2>1
    <3> QED
      BY <1>1, <2>1, <3>1 DEF Members
  <2>2. CASE ~(i <= Len(q))
    <3>1. i - Len(q) \in 1 .. Len(r)
      BY <1>1, <2>2
    <3> QED
      BY <1>1, <2>2, <3>1 DEF Members
  <2> QED
    BY <2>1, <2>2
<1>3. ASSUME NEW i \in 1 .. Len(q)
      PROVE  q[i] \in Members(q \o r)
  <2>1. i \in 1 .. Len(q) + Len(r) /\ (q \o r)[i] = q[i]
    BY <1>1
  <2> QED
    BY <1>1, <2>1 DEF Members
<1>4. ASSUME NEW i \in 1 .. Len(r)
      PROVE  r[i] \in Members(q \o r)
  <2>1. i + Len(q) \in 1 .. Len(q) + Len(r) /\ (i + Len(q)) - Len(q) = i /\ ~(i + Len(q) <= Len(q))
    BY <1>1
  <2>2. (q \o r)[i + Len(q)] = r[i]
    BY <1>1, <2>1
  <2> QED
    BY <1>1, <2>1, <2>2 DEF Members
<1> QED
  BY <1>1, <1>2, <1>3, <1>4 DEF Members

LEMMA MembersNone == Members(<< >>) = {}
<1>1. Len(<< >>) = 0
  BY EmptySeq
<1> QED
  BY <1>1 DEF Members

LEMMA SumIsOver ==
  ASSUME NEW f
  PROVE  Sum(f) = SumOver(f, DOMAIN f)
<1>1. Sum(f) = SumOf(f)
  BY DEF Sum, SumOf
<1> QED
  BY <1>1, SumIsFold

\* What the memory lemmas need of the constants and the heap.
LEMMA MemFacts ==
  ASSUME TypeOK, HeapOK
  PROVE  /\ IsFiniteSet(State) /\ IsFiniteSet(DOMAIN heap) /\ RefBytes \in Nat
         /\ \A s \in State : mem[s] \in Nat
         /\ \A e \in DOMAIN heap : ReservedOf(heap)[e] \in Nat
         /\ Sum(mem) = SumOver(mem, State)
         /\ \A S \in SUBSET DOMAIN heap : ReservedBy(S) = SumOver(ReservedOf(heap), S)
<1>1. IsFiniteSet(State) /\ IsFiniteSet(DOMAIN heap) /\ RefBytes \in Nat
  BY CollectAssumption, FS_Subset DEF TypeOK
<1>2. \A e \in DOMAIN heap : ReservedOf(heap)[e] \in Nat
  BY <1>1 DEF HeapOK, ReservedOf
<1>3. DOMAIN mem = State /\ \A s \in State : mem[s] \in Nat
  BY DEF TypeOK
<1>4. Sum(mem) = SumOver(mem, State)
  BY <1>3, SumIsOver
<1>5. ASSUME NEW S \in SUBSET DOMAIN heap
      PROVE  ReservedBy(S) = SumOver(ReservedOf(heap), S)
  <2> DEFINE g == [e \in S |-> heap[e].reserved]
  <2>1. DOMAIN g = S /\ \A e \in S : g[e] = ReservedOf(heap)[e]
    BY DEF ReservedOf
  <2>2. ReservedBy(S) = Sum(g)
    BY DEF ReservedBy
  <2> HIDE DEF g
  <2>3. Sum(g) = SumOver(g, S)
    BY <2>1, SumIsOver
  <2>4. SumOver(g, S) = SumOver(ReservedOf(heap), S)
    BY <2>1, SumAgree
  <2> QED
    BY <2>2, <2>3, <2>4
<1> QED
  BY <1>1, <1>2, <1>3, <1>4, <1>5

\* The invariant in terms of sums over the states and over the heap.
LEMMA AddsUp ==
  ASSUME TypeOK, HeapOK
  PROVE  ReservationsAddUp <=>
           reserved = SumOver(mem, State) + SumOver(ReservedOf(heap), DOMAIN heap)
<1>1. DOMAIN heap \in SUBSET DOMAIN heap
  OBVIOUS
<1> QED
  BY <1>1, MemFacts DEF ReservationsAddUp

LEMMA AddsUpNext ==
  ASSUME TypeOK', HeapOK'
  PROVE  ReservationsAddUp' <=>
           reserved' = SumOver(mem', State) + SumOver(ReservedOf(heap'), DOMAIN heap')
<1>1. (TypeOK /\ HeapOK =>
         (ReservationsAddUp <=>
            reserved = SumOver(mem, State) + SumOver(ReservedOf(heap), DOMAIN heap)))'
  BY AddsUp, PTL
<1> QED
  BY <1>1

LEMMA HeldNext ==
  ASSUME \A e \in DOMAIN heap' : \E s \in State : e \in Members(elements'[s])
  PROVE  AllHeld'
  BY DEF AllHeld, Held, Members

LEMMA CreatorsNext ==
  ASSUME NEW P \in [State -> SUBSET DOMAIN heap'],
         \A s \in State : P[s] \subseteq Members(elements'[s]),
         \A s \in State : Paid(mem'[s], elements'[s], P[s]),
         \A s \in State, t \in State : s # t => P[s] \cap P[t] = {}
  PROVE  Creators'
<1>1. Creates(P)'
  BY DEF Creates, Held, Members, Paid
<1> QED
  BY <1>1 DEF Creators

\* What a state has paid for, in the arithmetic of the numbers involved.
LEMMA PaidMore ==
  ASSUME NEW m \in Nat, NEW refs, NEW new, Len(refs) \in Nat,
         NEW n \in Nat, NEW k \in Nat, NEW j \in Nat, Len(new) = Len(refs) + n,
         NEW O, NEW P, IsFiniteSet(O), Cardinality(P) = Cardinality(O) + k,
         Paid(m, refs, O), n = j + k
  PROVE  Paid(m + RefBytes * j, new, P)
<1> DEFINE c == RefBytes
           o == Cardinality(O)
           l == Len(refs)
<1>1. c \in Nat /\ o \in Nat /\ l \in Nat
  BY CollectAssumption, FS_CardinalityType
<1>2. m + c * o = c * l
  BY DEF Paid
<1>3. c * (o + k) = c * o + c * k /\ c * o \in Nat /\ c * k \in Nat
  <2> HIDE DEF c, o, l
  <2> QED
    BY <1>1, Distributes
<1>4. c * (l + n) = c * l + c * n /\ c * l \in Nat
  <2> HIDE DEF c, o, l
  <2> QED
    BY <1>1, Distributes
<1>5. c * (j + k) = c * j + c * k /\ c * j \in Nat
  <2> HIDE DEF c, o, l
  <2> QED
    BY <1>1, Distributes
<1> DEFINE co == c * o  ck == c * k  cl == c * l  cn == c * n  cj == c * j
<1>6. co \in Nat /\ ck \in Nat /\ cl \in Nat /\ cj \in Nat
  BY <1>3, <1>4, <1>5
<1>7. m + co = cl /\ cn = cj + ck
  BY <1>2, <1>5
<1>8. c * (o + k) = co + ck /\ c * (l + n) = cl + cn
  BY <1>3, <1>4
<1> HIDE DEF co, ck, cl, cn, cj
<1>9. (m + cj) + (co + ck) = cl + cn
  BY <1>6, <1>7
<1>10. (m + c * j) + c * (o + k) = c * (l + n)
  BY <1>8, <1>9 DEF cj
<1> QED
  BY <1>10 DEF Paid

LEMMA InitMem == Init => MemInv
<1> SUFFICES ASSUME Init PROVE MemInv
  OBVIOUS
<1> TypeOK
  BY InitInv DEF IInv
<1>1. DOMAIN heap = {}
  <2>1. << >> \in Seq({}) /\ Len(<< >>) = 0
    BY EmptySeq
  <2>2. DOMAIN << >> = 1 .. 0
    BY <2>1, LenProperties
  <2> QED
    BY <2>2 DEF Init
<1>2. HeapOK /\ AllHeld
  BY <1>1 DEF HeapOK, AllHeld
<1>3. ReservationsAddUp
  <2>1. IsFiniteSet(State)
    BY CollectAssumption
  <2>2. \A s \in State : mem[s] = 0
    BY DEF Init
  <2>3. SumOver(mem, State) = 0
    BY <2>1, <2>2, SumOfZeros
  <2>4. SumOver(ReservedOf(heap), DOMAIN heap) = 0
    BY <1>1, SumEmpty
  <2> QED
    BY <1>2, <2>3, <2>4, AddsUp DEF Init
<1>4. Creators
  <2> DEFINE O == [s \in State |-> {}]
  <2>1. O \in [State -> SUBSET DOMAIN heap]
    OBVIOUS
  <2>2. RefBytes \in Nat /\ Cardinality({}) = 0 /\ Len(<< >>) = 0
    BY CollectAssumption, FS_EmptySet, EmptySeq
  <2>3. \A s \in State : Paid(mem[s], elements[s], O[s])
    BY <2>2 DEF Init, Paid
  <2>4. Creates(O)
    BY <2>3 DEF Creates
  <2> QED
    BY <2>1, <2>4 DEF Creators
<1> QED
  BY <1>2, <1>3, <1>4 DEF MemInv

LEMMA MemSame ==
  ASSUME MemInv, UNCHANGED <<elements, mem, heap, reserved>>
  PROVE  MemInv'
<1>1. HeapOK' /\ AllHeld'
  BY DEF MemInv, HeapOK, AllHeld, Held
<1>2. ReservationsAddUp'
  BY DEF MemInv, ReservationsAddUp, ReservedBy
<1>3. Creators'
  BY DEF MemInv, Creators, Creates, Held, Paid
<1> QED
  BY <1>1, <1>2, <1>3 DEF MemInv

LEMMA InitializeMem ==
  ASSUME IInv, MemInv, NEW s \in State, Initialize(s)
  PROVE  MemInv'
<1>1. elements[s] = << >>
  BY DEF Initialize, IInv, StatesInv
<1>2. mem[s] = 0
  <2>1. PICK O \in [State -> SUBSET DOMAIN heap] : Creates(O)
    BY DEF MemInv, Creators
  <2>2. mem[s] + RefBytes * Cardinality(O[s]) = RefBytes * 0
    BY <1>1, <2>1, EmptySeq DEF Creates, Paid
  <2>3. IsFiniteSet(O[s])
    BY MemFacts, FS_Subset DEF IInv, MemInv
  <2>4. /\ Cardinality(O[s]) \in Nat /\ RefBytes \in Nat /\ mem[s] \in Nat
    BY <2>3, FS_CardinalityType, MemFacts DEF IInv, MemInv
  <2>5. RefBytes * Cardinality(O[s]) \in Nat /\ RefBytes * 0 = 0
    BY <2>4, SMT
  <2> QED
    BY <2>2, <2>4, <2>5
<1>3. elements' = elements /\ mem' = mem
  BY <1>1, <1>2 DEF Initialize, IInv, TypeOK
<1> QED
  BY <1>3, MemSame DEF Initialize

\* Who creates an element pays for its first reference with it.
LEMMA AppendMem ==
  ASSUME IInv, IInv', MemInv, NEW s \in State, NEW r \in Row, AppendElement(s, r)
  PROVE  MemInv'
<1> DEFINE D == DOMAIN heap
<1>1. TypeOK /\ TypeOK' /\ HeapOK
  BY DEF IInv, MemInv
<1>2. Fresh \in Element \ D
  BY FreshElement DEF AppendElement
<1>3. /\ DOMAIN heap' = D \cup {Fresh}
      /\ \A e \in D : heap'[e] = heap[e]
      /\ heap'[Fresh].bytes = r.bytes /\ heap'[Fresh].reserved = r.bytes + RefBytes
      /\ reserved' = reserved + (r.bytes + RefBytes)
      /\ mem' = mem
  BY <1>2 DEF AppendElement, ElementBytes
<1>4. /\ elements'[s] = Append(elements[s], Fresh)
      /\ \A t \in State \ {s} : elements'[t] = elements[t]
      /\ \A t \in State : elements[t] \in Seq(D)
  BY <1>1 DEF AppendElement, TypeOK
<1>5. r.bytes \in Nat /\ RefBytes \in Nat
  BY CollectAssumption
<1>6. HeapOK'
  BY <1>1, <1>3, <1>5 DEF HeapOK
<1>7. /\ Members(elements'[s]) = Members(elements[s]) \cup {Fresh}
      /\ \A t \in State \ {s} : Members(elements'[t]) = Members(elements[t])
  BY <1>4, MembersAppend
<1>8. AllHeld'
  <2>1. \A e \in D : \E t \in State : e \in Members(elements[t])
    BY HeldIs DEF AllHeld, MemInv
  <2>2. \A t \in State : Members(elements[t]) \subseteq Members(elements'[t])
    BY <1>7
  <2>3. Fresh \in Members(elements'[s])
    BY <1>7
  <2> QED
    BY <1>3, <2>1, <2>2, <2>3, HeldNext
<1>9. ReservationsAddUp'
  <2> DEFINE new == ReservedOf(heap')
             old == ReservedOf(heap)
  <2>1. /\ IsFiniteSet(D) /\ \A e \in D : old[e] \in Nat
        /\ \A t \in State : mem[t] \in Nat /\ IsFiniteSet(State)
    BY <1>1, MemFacts
  <2>2. /\ new[Fresh] = r.bytes + RefBytes
        /\ \A e \in D : new[e] = old[e]
    BY <1>3 DEF ReservedOf
  <2> HIDE DEF new, old
  <2>3. /\ IsFiniteSet(D \cup {Fresh})
        /\ \A e \in D \cup {Fresh} : new[e] \in Nat
        /\ (D \cup {Fresh}) \ {Fresh} = D
    <3>1. IsFiniteSet(D \cup {Fresh})
      BY <2>1, FS_AddElement
    <3>2. new[Fresh] \in Nat
      BY <1>5, <2>2
    <3>3. \A e \in D \cup {Fresh} : new[e] \in Nat
      BY <2>1, <2>2, <3>2
    <3>4. (D \cup {Fresh}) \ {Fresh} = D
      BY <1>2
    <3> QED
      BY <3>1, <3>3, <3>4
  <2>4. SumOver(new, D \cup {Fresh}) = new[Fresh] + SumOver(new, (D \cup {Fresh}) \ {Fresh})
    BY <2>3, SumRemove
  <2>5. SumOver(new, D) = SumOver(old, D)
    BY <2>2, SumAgree
  <2>6. reserved = SumOver(mem, State) + SumOver(old, D)
    BY <1>1, AddsUp DEF MemInv, old
  <2>7. SumOver(mem, State) \in Nat /\ SumOver(old, D) \in Nat
    BY <2>1, SumRemove
  <2>8. SumOver(new, D \cup {Fresh}) = (r.bytes + RefBytes) + SumOver(old, D)
    BY <2>2, <2>3, <2>4, <2>5
  <2>9. reserved' = SumOver(mem', State) + SumOver(new, DOMAIN heap')
    BY <1>3, <1>5, <2>6, <2>7, <2>8
  <2> QED
    BY <1>1, <1>6, <2>9, AddsUpNext DEF new
<1>10. Creators'
  <2>1. PICK O \in [State -> SUBSET D] : Creates(O)
    BY DEF MemInv, Creators
  <2> DEFINE P == [O EXCEPT ![s] = @ \cup {Fresh}]
  <2>2. P \in [State -> SUBSET (D \cup {Fresh})]
    BY <2>1
  <2>3. /\ P[s] = O[s] \cup {Fresh}
        /\ \A t \in State \ {s} : P[t] = O[t]
        /\ \A t \in State : Fresh \notin O[t]
    BY <1>2, <2>1
  <2> HIDE DEF P
  <2>4. \A t \in State : P[t] \subseteq Members(elements'[t])
    BY <1>7, <2>1, <2>3, HeldIs DEF Creates
  <2>5. \A t \in State \ {s} : Paid(mem'[t], elements'[t], P[t])
    BY <1>3, <1>4, <2>1, <2>3 DEF Creates
  <2>6. Paid(mem'[s], elements'[s], P[s])
    <3>1. IsFiniteSet(O[s]) /\ mem[s] \in Nat
      BY <1>1, <2>1, MemFacts, FS_Subset
    <3>2. Cardinality(P[s]) = Cardinality(O[s]) + 1
      BY <2>3, <3>1, FS_AddElement
    <3>3. Len(elements'[s]) = Len(elements[s]) + 1 /\ Len(elements[s]) \in Nat
      BY <1>4, AppendProperties, LenProperties
    <3>4. Paid(mem[s], elements[s], O[s])
      BY <2>1 DEF Creates
    <3>5. Paid(mem[s] + RefBytes * 0, elements'[s], P[s])
      <4>1. 1 \in Nat /\ 0 \in Nat /\ 1 = 0 + 1
        OBVIOUS
      <4> QED
        BY <3>1, <3>2, <3>3, <3>4, <4>1, PaidMore
    <3>6. mem[s] + RefBytes * 0 = mem[s]
      BY <1>5, <3>1
    <3> QED
      BY <1>3, <3>5, <3>6
  <2>7. \A t \in State, u \in State : t # u => P[t] \cap P[u] = {}
    BY <2>1, <2>3 DEF Creates
  <2>8. \A t \in State : Paid(mem'[t], elements'[t], P[t])
    BY <2>5, <2>6
  <2>9. P \in [State -> SUBSET DOMAIN heap']
    BY <1>3, <2>2
  <2> QED
    BY <2>4, <2>7, <2>8, <2>9, CreatorsNext
<1> QED
  BY <1>6, <1>8, <1>9, <1>10 DEF MemInv

\* References that move take with them what was paid for them.
LEMMA DestructiveMem ==
  ASSUME IInv, IInv', MemInv, NEW s \in State, NEW t \in State, CombineDestructive(s, t)
  PROVE  MemInv'
<1>1. TypeOK /\ TypeOK' /\ HeapOK
  BY DEF IInv, MemInv
<1>2. s # t /\ heap' = heap /\ reserved' = reserved
  BY DEF CombineDestructive, CanCombine
<1>3. CASE elements[s] = << >>
  BY <1>2, <1>3, MemSame DEF CombineDestructive
<1>4. CASE elements[s] # << >>
  <2>1. /\ elements'[t] = elements[t] \o elements[s] /\ elements'[s] = << >>
        /\ \A u \in State \ {s, t} : elements'[u] = elements[u]
        /\ mem'[t] = mem[t] + mem[s] /\ mem'[s] = 0
        /\ \A u \in State \ {s, t} : mem'[u] = mem[u]
        /\ \A u \in State : elements[u] \in Seq(DOMAIN heap)
    BY <1>1, <1>2, <1>4 DEF CombineDestructive, TypeOK
  <2>2. /\ IsFiniteSet(State) /\ IsFiniteSet(DOMAIN heap) /\ RefBytes \in Nat
        /\ \A u \in State : mem[u] \in Nat /\ mem'[u] \in Nat
        /\ \A e \in DOMAIN heap : ReservedOf(heap)[e] \in Nat
    BY <1>1, MemFacts DEF TypeOK
  <2>3. HeapOK'
    BY <1>1, <1>2 DEF HeapOK
  <2>4. /\ Members(elements'[t]) = Members(elements[t]) \cup Members(elements[s])
        /\ Members(elements'[s]) = {}
        /\ \A u \in State \ {s, t} : Members(elements'[u]) = Members(elements[u])
    BY <2>1, MembersConcat, MembersNone
  <2>5. AllHeld'
    <3>1. \A e \in DOMAIN heap : \E u \in State : e \in Members(elements[u])
      BY HeldIs DEF AllHeld, MemInv
    <3> QED
      BY <1>2, <2>4, <3>1, HeldNext
  <2>6. ReservationsAddUp'
    <3> DEFINE m == [mem EXCEPT ![t] = mem[t] + mem[s]]
    <3>1. /\ m[t] = mem[t] + mem[s] /\ m[s] = mem[s]
          /\ \A u \in State \ {t} : mem[u] = m[u]
          /\ \A u \in State \ {s} : m[u] = mem'[u]
          /\ \A u \in State : m[u] \in Nat
      BY <1>1, <1>2, <2>1, <2>2 DEF TypeOK
    <3> HIDE DEF m
    <3>2. SumOver(m, State) + mem[t] = SumOver(mem, State) + m[t]
      BY <2>2, <3>1, SumUpdate
    <3>3. SumOver(mem', State) + m[s] = SumOver(m, State) + mem'[s]
      <4> DEFINE n == mem'
      <4>1. /\ \A u \in State : m[u] \in Nat /\ n[u] \in Nat
            /\ \A u \in State \ {s} : m[u] = n[u]
        BY <2>2, <3>1
      <4> HIDE DEF n
      <4>2. SumOver(n, State) + m[s] = SumOver(m, State) + n[s]
        BY <2>2, <4>1, SumUpdate
      <4> QED
        BY <4>2 DEF n
    <3>4. SumOver(m, State) \in Nat
      BY <2>2, <3>1, SumRemove
    <3>5. SumOver(mem, State) \in Nat
      BY <2>2, SumRemove
    <3>6. SumOver(mem', State) \in Nat
      BY <2>2, SumRemove
    <3>7. SumOver(mem', State) = SumOver(mem, State)
      BY <2>1, <2>2, <3>1, <3>2, <3>3, <3>4, <3>5, <3>6
    <3>8. reserved = SumOver(mem, State) + SumOver(ReservedOf(heap), DOMAIN heap)
      BY <1>1, AddsUp DEF MemInv
    <3>9. reserved' = SumOver(mem', State) + SumOver(ReservedOf(heap'), DOMAIN heap')
      BY <1>2, <3>7, <3>8
    <3> QED
      BY <1>1, <2>3, <3>9, AddsUpNext
  <2>7. Creators'
    <3>1. PICK O \in [State -> SUBSET DOMAIN heap] : Creates(O)
      BY DEF MemInv, Creators
    <3> DEFINE P == [O EXCEPT ![t] = O[t] \cup O[s], ![s] = {}]
    <3>2. P \in [State -> SUBSET DOMAIN heap']
      BY <1>2, <3>1
    <3>3. /\ P[t] = O[t] \cup O[s] /\ P[s] = {}
          /\ \A u \in State \ {s, t} : P[u] = O[u]
      BY <1>2, <3>1
    <3> HIDE DEF P
    <3>4. /\ \A u \in State : O[u] \subseteq Members(elements[u])
          /\ \A u \in State : Paid(mem[u], elements[u], O[u])
          /\ \A u \in State, v \in State : u # v => O[u] \cap O[v] = {}
      BY <3>1, HeldIs DEF Creates
    <3>5. \A u \in State : P[u] \subseteq Members(elements'[u])
      BY <2>4, <3>3, <3>4
    <3>6. \A u \in State, v \in State : u # v => P[u] \cap P[v] = {}
      BY <3>3, <3>4
    <3>7. /\ IsFiniteSet(O[s]) /\ Cardinality(O[s]) \in Nat
          /\ IsFiniteSet(O[t]) /\ Cardinality(O[t]) \in Nat
      BY <2>2, <3>1, FS_Subset, FS_CardinalityType
    <3>8. /\ Len(elements[s]) \in Nat /\ Len(elements[t]) \in Nat
          /\ Len(elements'[t]) = Len(elements[t]) + Len(elements[s])
      BY <2>1, ConcatProperties, LenProperties
    <3>9. Paid(mem'[t], elements'[t], P[t])
      <4>1. Cardinality(P[t]) = Cardinality(O[t]) + Cardinality(O[s])
        <5>1. Cardinality(O[t] \cap O[s]) = 0
          <6>1. O[t] \cap O[s] = {}
            BY <1>2, <3>4
          <6> QED
            BY <6>1, FS_EmptySet
        <5>2. Cardinality(O[t] \cup O[s])
                = Cardinality(O[t]) + Cardinality(O[s]) - Cardinality(O[t] \cap O[s])
          BY <3>7, FS_Union
        <5> QED
          BY <3>3, <3>7, <5>1, <5>2
      <4>2. /\ mem[t] + RefBytes * Cardinality(O[t]) = RefBytes * Len(elements[t])
            /\ mem[s] + RefBytes * Cardinality(O[s]) = RefBytes * Len(elements[s])
        BY <3>4 DEF Paid
      <4>3. RefBytes * (Cardinality(O[t]) + Cardinality(O[s]))
              = RefBytes * Cardinality(O[t]) + RefBytes * Cardinality(O[s])
        BY <2>2, <3>7, Distributes
      <4>4. RefBytes * (Len(elements[t]) + Len(elements[s]))
              = RefBytes * Len(elements[t]) + RefBytes * Len(elements[s])
        BY <2>2, <3>8, Distributes
      <4>5. RefBytes * Cardinality(O[t]) \in Nat /\ RefBytes * Cardinality(O[s]) \in Nat
        BY <2>2, <3>7, Distributes
      <4>6. RefBytes * Len(elements[t]) \in Nat /\ RefBytes * Len(elements[s]) \in Nat
        BY <2>2, <3>8, Distributes
      <4> DEFINE ct == RefBytes * Cardinality(O[t])  cs == RefBytes * Cardinality(O[s])
                 lt == RefBytes * Len(elements[t])   ls == RefBytes * Len(elements[s])
      <4>7. /\ ct \in Nat /\ cs \in Nat /\ lt \in Nat /\ ls \in Nat
            /\ mem[t] + ct = lt /\ mem[s] + cs = ls
            /\ mem[t] \in Nat /\ mem[s] \in Nat
        BY <2>2, <4>2, <4>5, <4>6
      <4>8. /\ RefBytes * Cardinality(P[t]) = ct + cs
            /\ RefBytes * Len(elements'[t]) = lt + ls
        BY <3>8, <4>1, <4>3, <4>4
      <4> HIDE DEF ct, cs, lt, ls
      <4>9. (mem[t] + mem[s]) + (ct + cs) = lt + ls
        BY <4>7
      <4> QED
        BY <2>1, <4>8, <4>9 DEF Paid
    <3>10. Paid(mem'[s], elements'[s], P[s])
      BY <2>1, <2>2, <3>3, FS_EmptySet, EmptySeq DEF Paid
    <3>11. \A u \in State : Paid(mem'[u], elements'[u], P[u])
      BY <2>1, <3>3, <3>4, <3>9, <3>10
    <3> QED
      BY <3>2, <3>5, <3>6, <3>11, CreatorsNext
  <2> QED
    BY <2>3, <2>5, <2>6, <2>7 DEF MemInv
<1> QED
  BY <1>3, <1>4

\* A copy of the references of a source that is kept is paid for by its target.
LEMMA PreservingMem ==
  ASSUME IInv, IInv', MemInv, NEW s \in State, NEW t \in State, CombinePreserving(s, t)
  PROVE  MemInv'
<1> DEFINE bytes == Len(elements[s]) * RefBytes
<1>1. TypeOK /\ TypeOK' /\ HeapOK
  BY DEF IInv, MemInv
<1>2. /\ heap' = heap /\ reserved' = reserved + bytes
      /\ elements'[t] = elements[t] \o elements[s]
      /\ \A u \in State \ {t} : elements'[u] = elements[u]
      /\ mem'[t] = mem[t] + bytes
      /\ \A u \in State \ {t} : mem'[u] = mem[u]
      /\ \A u \in State : elements[u] \in Seq(DOMAIN heap)
  BY <1>1 DEF CombinePreserving, TypeOK
<1>3. /\ IsFiniteSet(State) /\ IsFiniteSet(DOMAIN heap) /\ RefBytes \in Nat
      /\ \A u \in State : mem[u] \in Nat /\ mem'[u] \in Nat
      /\ \A e \in DOMAIN heap : ReservedOf(heap)[e] \in Nat
  BY <1>1, MemFacts DEF TypeOK
<1>4. /\ Len(elements[s]) \in Nat /\ Len(elements[t]) \in Nat
      /\ Len(elements'[t]) = Len(elements[t]) + Len(elements[s])
  BY <1>2, ConcatProperties, LenProperties
<1>5. bytes \in Nat /\ bytes = RefBytes * Len(elements[s])
  <2> DEFINE l == Len(elements[s])
  <2> HIDE DEF l
  <2>1. l \in Nat
    BY <1>4 DEF l
  <2>2. l * RefBytes \in Nat /\ l * RefBytes = RefBytes * l
    BY <1>3, <2>1, SMT
  <2> QED
    BY <2>2 DEF l
<1> HIDE DEF bytes
<1>6. HeapOK'
  BY <1>1, <1>2 DEF HeapOK
<1>7. /\ Members(elements'[t]) = Members(elements[t]) \cup Members(elements[s])
      /\ \A u \in State \ {t} : Members(elements'[u]) = Members(elements[u])
  BY <1>2, MembersConcat
<1>8. AllHeld'
  <2>1. \A e \in DOMAIN heap : \E u \in State : e \in Members(elements[u])
    BY HeldIs DEF AllHeld, MemInv
  <2> QED
    BY <1>2, <1>7, <2>1, HeldNext
<1>9. ReservationsAddUp'
  <2> DEFINE n == mem'
  <2>1. /\ \A u \in State : mem[u] \in Nat /\ n[u] \in Nat
        /\ \A u \in State \ {t} : mem[u] = n[u]
        /\ n[t] = mem[t] + bytes
    BY <1>2, <1>3
  <2> HIDE DEF n
  <2>2. SumOver(n, State) + mem[t] = SumOver(mem, State) + n[t]
    BY <1>3, <2>1, SumUpdate
  <2>3. SumOver(n, State) \in Nat /\ SumOver(mem, State) \in Nat
    BY <1>3, <2>1, SumRemove
  <2>4. SumOver(n, State) = SumOver(mem, State) + bytes
    <3>1. bytes \in Nat /\ mem[t] \in Nat
      BY <1>5, <2>1
    <3>2. SumOver(n, State) + mem[t] = SumOver(mem, State) + (mem[t] + bytes)
      BY <2>1, <2>2
    <3> QED
      BY <2>3, <3>1, <3>2
  <2>5. reserved = SumOver(mem, State) + SumOver(ReservedOf(heap), DOMAIN heap)
    BY <1>1, AddsUp DEF MemInv
  <2>6. SumOver(ReservedOf(heap), DOMAIN heap) \in Nat
    BY <1>3, SumRemove
  <2>7. reserved' = SumOver(n, State) + SumOver(ReservedOf(heap), DOMAIN heap)
    BY <1>2, <1>5, <2>3, <2>4, <2>5, <2>6
  <2>8. reserved' = SumOver(mem', State) + SumOver(ReservedOf(heap'), DOMAIN heap')
    BY <1>2, <2>7 DEF n
  <2> QED
    BY <1>1, <1>6, <2>8, AddsUpNext
<1>10. Creators'
  <2>1. PICK O \in [State -> SUBSET DOMAIN heap] : Creates(O)
    BY DEF MemInv, Creators
  <2>2. /\ \A u \in State : O[u] \subseteq Members(elements[u])
        /\ \A u \in State : Paid(mem[u], elements[u], O[u])
        /\ \A u \in State, v \in State : u # v => O[u] \cap O[v] = {}
    BY <2>1, HeldIs DEF Creates
  <2>3. O \in [State -> SUBSET DOMAIN heap']
    BY <1>2, <2>1
  <2>4. \A u \in State : O[u] \subseteq Members(elements'[u])
    BY <1>7, <2>2
  <2>5. Paid(mem'[t], elements'[t], O[t])
    <3> DEFINE n == Len(elements[s])
               refs == elements[t]
               new == elements'[t]
               made == O[t]
               m == mem[t]
    <3>1. /\ IsFiniteSet(made) /\ m \in Nat /\ Paid(m, refs, made)
          /\ n \in Nat /\ Len(refs) \in Nat /\ Len(new) = Len(refs) + n
      BY <1>3, <1>4, <2>1, <2>2, FS_Subset
    <3>2. Cardinality(made) = Cardinality(made) + 0 /\ n = n + 0 /\ 0 \in Nat
      BY <3>1, FS_CardinalityType
    <3> HIDE DEF n, refs, new, made, m
    <3>3. Paid(m + RefBytes * n, new, made)
      BY <3>1, <3>2, PaidMore
    <3> QED
      BY <1>2, <1>5, <3>3 DEF n, new, made, m
  <2>6. \A u \in State : Paid(mem'[u], elements'[u], O[u])
    BY <1>2, <2>2, <2>5
  <2> QED
    BY <2>2, <2>3, <2>4, <2>6, CreatorsNext
<1> QED
  BY <1>6, <1>8, <1>9, <1>10 DEF MemInv

\* A destroyed state gives back what it paid; its elements that nobody else holds
\* give back their own, and a state that holds an element keeps it alive.
LEMMA DestroyMem ==
  ASSUME IInv, IInv', MemInv, NEW s \in State, Destroy(s)
  PROVE  MemInv'
<1> DEFINE D == DOMAIN heap
           freed == D \ HeldByOthers(s)
           old == ReservedOf(heap)
           new == ReservedOf(heap')
<1>1. TypeOK /\ TypeOK' /\ HeapOK
  BY DEF IInv, MemInv
<1>2. /\ DOMAIN heap' = D \ freed
      /\ \A e \in D \ freed : heap'[e] = heap[e]
      /\ reserved' = reserved - mem[s] - ReservedBy(freed)
      /\ elements'[s] = << >> /\ mem'[s] = 0
      /\ \A u \in State \ {s} : elements'[u] = elements[u] /\ mem'[u] = mem[u]
  BY <1>1 DEF Destroy, TypeOK
<1>3. /\ IsFiniteSet(State) /\ IsFiniteSet(D)
      /\ \A u \in State : mem[u] \in Nat /\ mem'[u] \in Nat
      /\ \A e \in D : old[e] \in Nat
      /\ ReservedBy(freed) = SumOver(old, freed)
      /\ RefBytes \in Nat
  BY <1>1, MemFacts DEF TypeOK
<1>4. \A u \in State \ {s} : Members(elements[u]) \cap D \subseteq D \ freed
  BY HeldIs DEF HeldByOthers
<1>5. /\ Members(elements'[s]) = {}
      /\ \A u \in State \ {s} : Members(elements'[u]) = Members(elements[u])
  BY <1>2, MembersNone
<1>6. HeapOK'
  BY <1>1, <1>2 DEF HeapOK
<1>7. AllHeld'
  <2>1. \A e \in D \ freed : \E u \in State \ {s} : e \in Members(elements[u])
    BY HeldIs DEF HeldByOthers
  <2> QED
    BY <1>2, <1>5, <2>1, HeldNext
<1>8. ReservationsAddUp'
  <2> DEFINE n == mem'
             all == SumOver(mem, State)
             left == SumOver(n, State)
             back == SumOver(old, freed)
             kept == SumOver(old, D \ freed)
  <2>1. /\ \A u \in State : mem[u] \in Nat /\ n[u] \in Nat
        /\ \A u \in State \ {s} : mem[u] = n[u]
        /\ n[s] = 0
    BY <1>2, <1>3
  <2> HIDE DEF n
  <2>2. left + mem[s] = all + n[s]
    BY <1>3, <2>1, SumUpdate
  <2>3. left \in Nat /\ all \in Nat
    BY <1>3, <2>1, SumRemove
  <2>4. SumOver(old, D) = back + kept
    <3> HIDE DEF old
    <3>1. freed \in SUBSET D
      OBVIOUS
    <3> HIDE DEF freed
    <3> QED
      BY <1>3, <3>1, SumSplit
  <2>5. SumOver(new, DOMAIN heap') = kept
    <3>1. \A e \in D \ freed : new[e] = old[e]
      BY <1>2 DEF ReservedOf
    <3> HIDE DEF new, old, freed
    <3>2. SumOver(new, D \ freed) = SumOver(old, D \ freed)
      BY <3>1, SumAgree
    <3> QED
      BY <1>2, <3>2
  <2>6. back \in Nat /\ kept \in Nat
    <3>1. IsFiniteSet(freed) /\ IsFiniteSet(D \ freed)
      BY <1>3, FS_Subset, FS_Difference
    <3>2. \A e \in freed : old[e] \in Nat
      BY <1>3
    <3>3. \A e \in D \ freed : old[e] \in Nat
      BY <1>3
    <3> HIDE DEF old, freed
    <3>4. back \in Nat
      BY <3>1, <3>2, SumRemove
    <3>5. kept \in Nat
      BY <3>1, <3>3, SumRemove
    <3> QED
      BY <3>4, <3>5
  <2>7. reserved = all + SumOver(old, D)
    BY <1>1, AddsUp DEF MemInv
  <2>8. mem[s] \in Nat /\ n[s] = 0
    BY <2>1
  <2>9. reserved' = reserved - mem[s] - back
    BY <1>2, <1>3
  <2>10. reserved' = left + kept
    <3> HIDE DEF left, all, back, kept
    <3> QED
      BY <2>2, <2>3, <2>4, <2>6, <2>7, <2>8, <2>9
  <2>11. reserved' = SumOver(mem', State) + SumOver(ReservedOf(heap'), DOMAIN heap')
    BY <2>5, <2>10 DEF n
  <2> QED
    BY <1>1, <1>6, <2>11, AddsUpNext
<1>9. Creators'
  <2>1. PICK O \in [State -> SUBSET D] : Creates(O)
    BY DEF MemInv, Creators
  <2>2. /\ \A u \in State : O[u] \subseteq Members(elements[u])
        /\ \A u \in State : Paid(mem[u], elements[u], O[u])
        /\ \A u \in State, v \in State : u # v => O[u] \cap O[v] = {}
    BY <2>1, HeldIs DEF Creates
  <2> DEFINE P == [O EXCEPT ![s] = {}]
  <2>3. P[s] = {} /\ \A u \in State \ {s} : P[u] = O[u]
    BY <2>1
  <2>4. P \in [State -> SUBSET DOMAIN heap']
    <3>1. \A u \in State \ {s} : O[u] \subseteq D \ freed
      BY <1>4, <2>1, <2>2
    <3> QED
      BY <1>2, <2>1, <3>1
  <2> HIDE DEF P
  <2>5. \A u \in State : P[u] \subseteq Members(elements'[u])
    BY <1>5, <2>2, <2>3
  <2>6. Paid(mem'[s], elements'[s], P[s])
    BY <1>2, <1>3, <2>3, FS_EmptySet, EmptySeq DEF Paid
  <2>7. \A u \in State : Paid(mem'[u], elements'[u], P[u])
    BY <1>2, <2>2, <2>3, <2>6
  <2>8. \A u \in State, v \in State : u # v => P[u] \cap P[v] = {}
    BY <2>2, <2>3
  <2> QED
    BY <2>4, <2>5, <2>7, <2>8, CreatorsNext
<1> QED
  BY <1>6, <1>7, <1>8, <1>9 DEF MemInv

LEMMA NextMem == IInv /\ IInv' /\ MemInv /\ [Next]_vars => MemInv'
<1> SUFFICES ASSUME IInv, IInv', MemInv, [Next]_vars
             PROVE  MemInv'
  OBVIOUS
<1>1. CASE UNCHANGED vars
  BY <1>1, MemSame DEF vars
<1>2. ASSUME NEW s \in State, Initialize(s)
      PROVE  MemInv'
  BY <1>2, InitializeMem
<1>3. ASSUME NEW s \in State, AppendRefused(s)
      PROVE  MemInv'
  BY <1>3, MemSame DEF AppendRefused
<1>4. ASSUME NEW s \in State, Destroy(s)
      PROVE  MemInv'
  BY <1>4, DestroyMem
<1>5. ASSUME NEW s \in State, NEW r \in Row, AppendElement(s, r)
      PROVE  MemInv'
  BY <1>5, AppendMem
<1>6. ASSUME NEW s \in State, NEW r \in Row, RefuseNullKey(s, r)
      PROVE  MemInv'
  BY <1>6, MemSame DEF RefuseNullKey
<1>7. ASSUME NEW s \in State, NEW t \in State, CombineDestructive(s, t)
      PROVE  MemInv'
  BY <1>7, DestructiveMem
<1>8. ASSUME NEW s \in State, NEW t \in State, CombinePreserving(s, t)
      PROVE  MemInv'
  BY <1>8, PreservingMem
<1>9. ASSUME NEW s \in State, NEW t \in State, CombineRefused(s, t)
      PROVE  MemInv'
  BY <1>9, MemSame DEF CombineRefused
<1> QED
  BY <1>1, <1>2, <1>3, <1>4, <1>5, <1>6, <1>7, <1>8, <1>9 DEF Next

\* Throughout, the reservations add up, every living element is held by a state,
\* and each state has paid for every reference it holds but those its elements
\* paid for.
THEOREM MemInvariance == Spec => [](IInv /\ MemInv)
<1>1. Init => MemInv
  BY InitMem
<1>2. IInv /\ IInv' /\ MemInv /\ [Next]_vars => MemInv'
  BY NextMem
<1> QED
  BY <1>1, <1>2, Invariance, PTL DEF Spec

\* What the states have reserved and what the elements have reserved, in terms of
\* the references and the documents alive.
LEMMA LiveIsAccounted ==
  ASSUME IInv, MemInv
  PROVE  LiveBytesAreAccounted
<1> DEFINE D == DOMAIN heap
           len == [s \in State |-> Len(elements[s])]
           bytes == [e \in D |-> heap[e].bytes]
           one == [e \in D |-> 1]
           zeroD == [e \in D |-> 0]
           zeroS == [s \in State |-> 0]
<1>1. TypeOK /\ HeapOK
  BY DEF IInv, MemInv
<1>2. /\ IsFiniteSet(State) /\ IsFiniteSet(D) /\ RefBytes \in Nat
      /\ \A s \in State : mem[s] \in Nat
      /\ \A e \in D : ReservedOf(heap)[e] \in Nat
  BY <1>1, MemFacts
<1>3. PICK O \in [State -> SUBSET D] : Creates(O)
  BY DEF MemInv, Creators
<1> DEFINE made == [s \in State |-> Cardinality(O[s])]
<1>4. \A s \in State : IsFiniteSet(O[s]) /\ Cardinality(O[s]) \in Nat
  BY <1>2, <1>3, FS_Subset, FS_CardinalityType
<1>5. \A s \in State : Len(elements[s]) \in Nat
  BY <1>1, LenProperties DEF TypeOK
<1> DEFINE memSum == SumOver(mem, State)
           madeSum == SumOver(made, State)
           lenSum == SumOver(len, State)
           docSum == SumOver(bytes, D)
           oneSum == SumOver(one, D)
           resSum == SumOver(ReservedOf(heap), D)
<1>6. memSum + RefBytes * madeSum = SumOver(zeroS, State) + RefBytes * lenSum
  <2>1. \A s \in State : Balanced(RefBytes, mem[s], made[s], zeroS[s], len[s])
    <3>1. \A s \in State : mem[s] + RefBytes * Cardinality(O[s]) = RefBytes * Len(elements[s])
      BY <1>3 DEF Creates, Paid
    <3> QED
      <4> SUFFICES ASSUME NEW s \in State
                   PROVE  Balanced(RefBytes, mem[s], made[s], zeroS[s], len[s])
        OBVIOUS
      <4>1. made[s] = Cardinality(O[s]) /\ zeroS[s] = 0 /\ len[s] = Len(elements[s])
        OBVIOUS
      <4> HIDE DEF made, zeroS, len
      <4>2. RefBytes * len[s] \in Nat
        BY <1>2, <1>5, <4>1, Distributes
      <4>3. mem[s] + RefBytes * made[s] = 0 + RefBytes * len[s]
        <5> DEFINE p == RefBytes * len[s]  q == RefBytes * made[s]
        <5>1. mem[s] + q = p /\ p \in Nat
          BY <3>1, <4>1, <4>2
        <5> HIDE DEF p, q
        <5>2. mem[s] + q = 0 + p
          BY <5>1
        <5> QED
          BY <5>2 DEF p, q
      <4> QED
        BY <1>2, <1>4, <1>5, <4>1, <4>3 DEF Balanced
  <2> HIDE DEF made, zeroS, len
  <2> QED
    BY <1>2, <2>1, SumLinear
<1>7. resSum + RefBytes * SumOver(zeroD, D) = docSum + RefBytes * oneSum
  <2>1. \A e \in D : Balanced(RefBytes, ReservedOf(heap)[e], zeroD[e], bytes[e], one[e])
    <3> SUFFICES ASSUME NEW e \in D
                 PROVE  Balanced(RefBytes, ReservedOf(heap)[e], zeroD[e], bytes[e], one[e])
      OBVIOUS
    <3>1. /\ heap[e].bytes \in Nat /\ ReservedOf(heap)[e] = heap[e].bytes + RefBytes
          /\ zeroD[e] = 0 /\ bytes[e] = heap[e].bytes /\ one[e] = 1
      BY <1>1 DEF HeapOK, ReservedOf
    <3>2. RefBytes * 0 = 0 /\ RefBytes * 1 = RefBytes
      BY <1>2, SMT
    <3> HIDE DEF zeroD, bytes, one
    <3> QED
      BY <1>2, <3>1, <3>2 DEF Balanced
  <2> HIDE DEF zeroD, bytes, one
  <2> QED
    BY <1>2, <2>1, SumLinear
<1>8. SumOver(zeroS, State) = 0 /\ SumOver(zeroD, D) = 0
  BY <1>2, SumOfZeros
<1>9. oneSum = Cardinality(D)
  BY <1>2, SumOfOnes
<1>10. madeSum \in Nat /\ madeSum <= Cardinality(D)
  <2> DEFINE H == UNION {O[s] : s \in State}
             own == [e \in H |-> CHOOSE s \in State : e \in O[s]]
  <2>1. H \subseteq D /\ IsFiniteSet(H)
    <3>1. H \subseteq D
      BY <1>3
    <3> QED
      BY <1>2, <3>1, FS_Subset
  <2>2. \A e \in H : own[e] \in State /\ e \in O[own[e]]
    OBVIOUS
  <2>3. ASSUME NEW s \in State
        PROVE  made[s] = Cardinality({e \in H : own[e] = s})
    <3>1. \A e \in O[s] : e \in H /\ own[e] = s
      BY <1>3, <2>2 DEF Creates
    <3>2. \A e \in H : own[e] = s => e \in O[s]
      BY <2>2
    <3> HIDE DEF H, own
    <3>3. {e \in H : own[e] = s} = O[s]
      BY <3>1, <3>2
    <3> QED
      BY <3>3
  <2> HIDE DEF made, H, own
  <2>4. madeSum = Cardinality({e \in H : own[e] \in State})
    <3>1. IsFiniteSet(State) /\ IsFiniteSet(H)
      BY <1>2, <2>1
    <3>2. \A s \in State : made[s] = Cardinality({e \in H : own[e] = s})
      BY <2>3
    <3> QED
      BY <3>1, <3>2, SumOfFibers
  <2>5. {e \in H : own[e] \in State} = H
    BY <2>2
  <2>6. Cardinality(H) \in Nat /\ Cardinality(H) <= Cardinality(D)
    BY <1>2, <2>1, FS_Subset, FS_CardinalityType
  <2> QED
    BY <2>4, <2>5, <2>6
<1>11. memSum \in Nat /\ lenSum \in Nat /\ docSum \in Nat /\ resSum \in Nat
  <2>1. \A s \in State : len[s] \in Nat
    BY <1>5
  <2>2. \A e \in D : bytes[e] \in Nat
    BY <1>1 DEF HeapOK
  <2> HIDE DEF len, bytes
  <2> QED
    BY <1>2, <2>1, <2>2, SumRemove
<1>12. /\ reserved = memSum + resSum
       /\ Sum(len) = lenSum /\ Sum(bytes) = docSum
  <2>1. DOMAIN len = State /\ DOMAIN bytes = D
    OBVIOUS
  <2> HIDE DEF len, bytes
  <2> QED
    BY <1>1, <2>1, AddsUp, SumIsOver DEF MemInv
<1> DEFINE card == Cardinality(D)
           madeBytes == RefBytes * madeSum
           lenBytes == RefBytes * lenSum
           oneBytes == RefBytes * card
<1>13. card \in Nat
  BY <1>2, FS_CardinalityType
<1>14. /\ madeBytes \in Nat /\ lenBytes \in Nat /\ oneBytes \in Nat /\ RefBytes * 0 = 0
       /\ madeBytes <= oneBytes
  <2> HIDE DEF card, madeSum, lenSum
  <2>1. card - madeSum \in Nat /\ card = madeSum + (card - madeSum)
    BY <1>10, <1>13 DEF card
  <2>2. /\ RefBytes * (madeSum + (card - madeSum)) = madeBytes + RefBytes * (card - madeSum)
        /\ RefBytes * (card - madeSum) \in Nat
    BY <1>2, <1>10, <2>1, Distributes
  <2>3. madeBytes \in Nat /\ lenBytes \in Nat /\ oneBytes \in Nat
    BY <1>2, <1>10, <1>11, <1>13, Distributes DEF lenSum
  <2>4. RefBytes * 0 = 0
    BY <1>2, SMT
  <2> DEFINE rest == RefBytes * (card - madeSum)
  <2>5. oneBytes = madeBytes + rest /\ rest \in Nat
    BY <2>1, <2>2
  <2> HIDE DEF rest, madeBytes, oneBytes
  <2>6. madeBytes <= oneBytes
    BY <2>3, <2>5
  <2> QED
    BY <2>3, <2>4, <2>6
<1>15. memSum + madeBytes = lenBytes /\ resSum = docSum + oneBytes
  <2>1. memSum + madeBytes = 0 + lenBytes
    BY <1>6, <1>8
  <2>2. resSum + 0 = docSum + oneBytes
    BY <1>7, <1>8, <1>9, <1>14
  <2> HIDE DEF memSum, madeBytes, lenBytes, resSum, docSum, oneBytes
  <2> QED
    BY <1>11, <1>14, <2>1, <2>2
<1>16. /\ docSum + lenBytes <= reserved
       /\ reserved <= docSum + lenBytes + oneBytes
  <2> HIDE DEF memSum, madeBytes, lenBytes, resSum, docSum, oneBytes
  <2> QED
    BY <1>11, <1>12, <1>14, <1>15
<1>17. References = lenSum
  BY <1>12 DEF References
<1> QED
  BY <1>12, <1>16, <1>17 DEF LiveBytesAreAccounted

\* With every state gone no element is held, and no state has anything reserved.
LEMMA NothingLeft ==
  ASSUME IInv, MemInv
  PROVE  NothingIsLeftBehind
<1> SUFFICES ASSUME \A s \in State : phase[s] = "none"
             PROVE  reserved = 0 /\ DOMAIN heap = {}
  BY DEF NothingIsLeftBehind
<1>1. \A s \in State : elements[s] = << >>
  BY DEF IInv, StatesInv
<1>2. DOMAIN heap = {}
  <2>1. \A s \in State : Held(s) = {}
    BY <1>1, HeldIs, MembersNone
  <2> QED
    BY <2>1 DEF MemInv, AllHeld
<1>3. TypeOK /\ HeapOK
  BY DEF IInv, MemInv
<1>4. IsFiniteSet(State) /\ RefBytes \in Nat /\ \A s \in State : mem[s] \in Nat
  BY <1>3, MemFacts
<1>5. PICK O \in [State -> SUBSET DOMAIN heap] : Creates(O)
  BY DEF MemInv, Creators
<1>6. \A s \in State : mem[s] = 0
  <2> SUFFICES ASSUME NEW s \in State
               PROVE  mem[s] = 0
    OBVIOUS
  <2>1. Cardinality(O[s]) = 0 /\ Len(elements[s]) = 0
    BY <1>1, <1>2, <1>5, FS_EmptySet, EmptySeq
  <2>2. mem[s] + RefBytes * 0 = RefBytes * 0
    BY <1>5, <2>1 DEF Creates, Paid
  <2>3. RefBytes * 0 = 0
    BY <1>4, SMT
  <2> QED
    BY <1>4, <2>2, <2>3
<1>7. SumOver(mem, State) = 0
  BY <1>4, <1>6, SumOfZeros
<1>8. SumOver(ReservedOf(heap), DOMAIN heap) = 0
  BY <1>2, SumEmpty
<1>9. reserved = 0
  BY <1>3, <1>7, <1>8, AddsUp DEF MemInv
<1> QED
  BY <1>2, <1>9

\* Whatever states are combined, kept, refused memory and destroyed, what is
\* reserved is what states and elements will give back, is no less than what is
\* alive and no more than that and a reference per element, and in the end nothing.
THEOREM MemoryAccounted == Spec => []MemoryIsAccounted
<1>1. IInv /\ MemInv => MemoryIsAccounted
  BY LiveIsAccounted, NothingLeft DEF MemoryIsAccounted, MemInv
<1> QED
  BY <1>1, MemInvariance, PTL

=============================================================================
