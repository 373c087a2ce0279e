--------------------------- MODULE PathLocateProofs ---------------------------
(* Theorems about PathLocate, for any rows, any shape hashes and any indexing *)
(* of the two caches.                                                         *)
EXTENDS PathLocate, TLAPS

(***************************************************************************)
(* The inductive invariant.                                                *)
(***************************************************************************)

\* The announced row is the row at hand, and both caches have their shape.
CachesInv ==
  /\ row \in Row \cup {NoObject}
  /\ generation \in Nat
  /\ row # NoObject => generation > 0
  /\ layouts = [s \in LayoutSlot |-> layouts[s]]
  /\ ranks = [s \in RankSlot |-> ranks[s]]
  /\ \A s \in LayoutSlot : layouts[s].generation \in 0 .. generation
  /\ \A s \in RankSlot :
       ranks[s].valid => ranks[s].rank \in Nat /\ ranks[s].found \in BOOLEAN

\* Whatever the layout cache holds of this generation is this row's.
LayoutsInv ==
  row # NoObject =>
    \A s \in LayoutSlot :
      layouts[s].generation = generation /\ layouts[s].pos \in Pos =>
        /\ row[layouts[s].pos] # NoObject
        /\ layouts[s].layout = ReadObjectLayout(layouts[s].pos)

\* A lookup works on an object of this row.
CallInv ==
  /\ pc \in {"idle", "search", "move"}
  /\ pc # "idle" =>
       /\ row # NoObject
       /\ layout.pos \in Pos
       /\ row[layout.pos] # NoObject
       /\ layout = ReadObjectLayout(layout.pos)
       /\ call.key \in Key
       /\ call.cached \in BOOLEAN
       /\ call.cached => call.step \in Step

\* The search's window holds the place of the key.
SearchInv ==
  pc = "search" =>
    /\ lo \in Nat /\ hi \in Nat
    /\ lo <= hi /\ hi <= row[layout.pos].count
    /\ \A k \in 0 .. lo - 1 : row[layout.pos].key[k] < call.key
    /\ \A k \in hi .. row[layout.pos].count - 1 : call.key <= row[layout.pos].key[k]

\* The rank is the key's, and the cursor is on its way there.
MoveInv ==
  pc = "move" =>
    /\ rank \in 0 .. row[layout.pos].count - 1
    /\ row[layout.pos].key[rank] = call.key
    /\ cursor = [rank |-> cursor.rank, at |-> cursor.at]
    /\ cursor.rank \in 0 .. rank
    /\ cursor.at = row[layout.pos].value[cursor.rank]

AnswerInv ==
  /\ answer.known => row # NoObject /\ answer.pos \in Pos
  /\ answer.known \in BOOLEAN
  /\ LookupsAreExact

IInv == CachesInv /\ LayoutsInv /\ CallInv /\ SearchInv /\ MoveInv /\ AnswerInv /\ RepeatsHit

----------------------------------------------------------------------------
(* Facts about objects.                                                    *)

LEMMA ObjectFacts ==
  ASSUME row \in Row \cup {NoObject}, row # NoObject,
         NEW p \in Pos, row[p] # NoObject
  PROVE  IsObject(row[p])
BY LocateAssumption

\* The keys of an object tell its ranks apart.
LEMMA KeysDiffer ==
  ASSUME NEW o, IsObject(o), NEW j \in 0 .. o.count - 1, NEW k \in 0 .. o.count - 1,
         o.key[j] = o.key[k]
  PROVE  j = k
<1> o.key[j] \in Int /\ o.key[k] \in Int
  BY LocateAssumption DEF IsObject
<1>1. ~(j < k) /\ ~(k < j)
  BY DEF IsObject
<1> QED
  BY <1>1 DEF IsObject

\* So do the offsets of its values.
LEMMA OffsetsDiffer ==
  ASSUME NEW o, IsObject(o), NEW j \in 0 .. o.count, NEW k \in 0 .. o.count,
         o.value[j] = o.value[k]
  PROVE  j = k
<1> o.value[j] \in Nat /\ o.value[k] \in Nat
  BY DEF IsObject
<1>1. ~(j < k) /\ ~(k < j)
  BY DEF IsObject
<1> QED
  BY <1>1 DEF IsObject

\* A validated miss is one: nothing of a sorted block lies between two neighbours.
LEMMA ValidatedMiss ==
  ASSUME NEW o, IsObject(o), NEW key \in Key, NEW r \in Nat, r <= o.count,
         r > 0 => o.key[r - 1] < key,
         r < o.count => key < o.key[r],
         NEW k \in 0 .. o.count - 1
  PROVE  o.key[k] # key
<1> o.count \in Nat /\ \A i \in 0 .. o.count - 1 : o.key[i] \in Int
  BY LocateAssumption DEF IsObject
<1> key \in Int
  BY LocateAssumption
<1>1. CASE k < r
  <2>1. r - 1 \in 0 .. o.count - 1 /\ (k < r - 1 \/ k = r - 1)
    BY <1>1
  <2>2. o.key[k] < o.key[r - 1] \/ k = r - 1
    BY <2>1 DEF IsObject
  <2> QED
    BY <1>1, <2>1, <2>2
<1>2. CASE k >= r
  <2>1. r \in 0 .. o.count - 1 /\ (r < k \/ k = r)
    BY <1>2
  <2>2. o.key[r] < o.key[k] \/ k = r
    BY <2>1 DEF IsObject
  <2> QED
    BY <1>2, <2>1, <2>2
<1> QED
  BY <1>1, <1>2

\* Rounding a rank down to a multiple of the stride and dividing gives it back.
LEMMA RoundDown ==
  ASSUME NEW r \in Nat, NEW s \in Nat \ {0}
  PROVE  /\ r - (r % s) \in 0 .. r
         /\ (((r - (r % s)) \div s) - 1 + 1) * s = r - (r % s)
<1> DEFINE q == r \div s
           c == r - (r % s)
           d == c \div s
<1>1. q \in Int /\ r = s * q + (r % s) /\ r % s \in 0 .. s - 1
  BY Z3
<1>2. c \in 0 .. r /\ c = s * q
  BY <1>1
<1>3. d \in Int /\ c = s * d + (c % s) /\ c % s \in 0 .. s - 1
  BY <1>2, Z3
<1> QED
  BY <1>2, <1>3

----------------------------------------------------------------------------
(* The steps.                                                              *)

LEMMA InitCorrect == Init => IInv
BY LocateAssumption DEF Init, IInv, CachesInv, LayoutsInv, CallInv, SearchInv, MoveInv,
   AnswerInv, LookupsAreExact, RepeatsHit, NoEntry, NoAnswer, NoLayout, NoCall, BlockStart

LEMMA NextRowCorrect ==
  ASSUME IInv, NEW r \in Row, NextRow(r)
  PROVE  IInv'
<1> USE DEF NextRow, Locals
<1>1. CachesInv'
  <2> QED BY DEF IInv, CachesInv
<1>2. LayoutsInv'
  BY DEF IInv, CachesInv, LayoutsInv
<1>3. (CallInv /\ SearchInv /\ MoveInv /\ AnswerInv /\ RepeatsHit)'
  BY DEF IInv, CallInv, SearchInv, MoveInv, AnswerInv, LookupsAreExact, RepeatsHit, NoAnswer
<1> QED
  BY <1>1, <1>2, <1>3 DEF IInv

\* What EnterObject learns about the layout it works on.
LEMMA LayoutIsExact ==
  ASSUME IInv, NEW p \in Pos, row # NoObject, Cached(p) \/ row[p] # NoObject
  PROVE  row[p] # NoObject /\ LayoutAt(p) = ReadObjectLayout(p)
BY LocateAssumption DEF IInv, LayoutsInv, Cached, LayoutAt

LEMMA EnterObjectCorrect ==
  ASSUME IInv, NEW p \in Pos, EnterObject(p)
  PROVE  /\ CachesInv' /\ LayoutsInv'
         /\ row[p] # NoObject /\ LayoutAt(p) = ReadObjectLayout(p)
<1>1. row # NoObject /\ row[p] # NoObject /\ LayoutAt(p) = ReadObjectLayout(p)
  BY LayoutIsExact DEF EnterObject
<1>2. CachesInv'
  BY LocateAssumption DEF IInv, CachesInv, EnterObject
<1>3. ASSUME NEW s \in LayoutSlot,
             layouts'[s].generation = generation, layouts'[s].pos \in Pos
      PROVE  /\ row[layouts'[s].pos] # NoObject
             /\ layouts'[s].layout = ReadObjectLayout(layouts'[s].pos)
  <2>1. CASE s = LayoutCacheIndex(p)
    <3>1. layouts'[s] = [generation |-> generation, pos |-> p, layout |-> LayoutAt(p)]
      BY <2>1 DEF EnterObject, IInv, CachesInv
    <3> QED
      BY <3>1, <1>1
  <2>2. CASE s # LayoutCacheIndex(p)
    <3>1. layouts'[s] = layouts[s]
      BY <2>2 DEF EnterObject, IInv, CachesInv
    <3> QED
      BY <3>1, <1>1, <1>3 DEF IInv, LayoutsInv
  <2> QED
    BY <2>1, <2>2
<1>4. LayoutsInv'
  BY <1>3 DEF LayoutsInv, EnterObject, ReadObjectLayout
<1> QED
  BY <1>1, <1>2, <1>4

\* A search that begins has the whole object for its window.
LEMMA BeginSearchCorrect ==
  ASSUME IInv, NEW p \in Pos, NEW key \in Key, row # NoObject, row[p] # NoObject,
         UNCHANGED row,
         BeginSearch(ReadObjectLayout(p)),
         call'.key = key, call'.cached \in BOOLEAN, call'.cached => call'.step \in Step
  PROVE  (CallInv /\ SearchInv /\ MoveInv /\ AnswerInv /\ RepeatsHit)'
<1>1. IsObject(row[p])
  BY ObjectFacts DEF IInv, CachesInv
<1>2. layout' = ReadObjectLayout(p) /\ layout'.pos = p /\ layout'.count = row[p].count
  BY DEF BeginSearch, ReadObjectLayout
<1>3. CallInv'
  BY <1>2 DEF CallInv, BeginSearch, ReadObjectLayout
<1>4. SearchInv'
  BY <1>1, <1>2 DEF SearchInv, BeginSearch, ReadObjectLayout, IsObject
<1>5. (MoveInv /\ AnswerInv /\ RepeatsHit)'
  BY DEF MoveInv, AnswerInv, LookupsAreExact, RepeatsHit, BeginSearch, NoAnswer
<1> QED
  BY <1>3, <1>4, <1>5

\* A lookup that returns leaves nothing behind but its answer.
LEMMA ReturnCorrect ==
  ASSUME NEW p \in Pos, NEW key, NEW found, NEW at, Return(p, key, found, at),
         row # NoObject, UNCHANGED row, LookupsAreExact'
  PROVE  (CallInv /\ SearchInv /\ MoveInv /\ AnswerInv /\ RepeatsHit)'
BY DEF Return, CallInv, SearchInv, MoveInv, AnswerInv, RepeatsHit

LEMMA LocateNoObjectCorrect ==
  ASSUME IInv, NEW p \in Pos, NEW key \in Key, LocateNoObject(p, key)
  PROVE  IInv'
<1>1. CachesInv' /\ LayoutsInv'
  BY DEF LocateNoObject, IInv, CachesInv, LayoutsInv, ReadObjectLayout
<1>2. LookupsAreExact'
  BY DEF LocateNoObject, Return, LookupsAreExact
<1> QED
  BY <1>1, <1>2, ReturnCorrect DEF LocateNoObject, IInv

LEMMA LocateSearchedCorrect ==
  ASSUME IInv, NEW p \in Pos, NEW step \in Step, NEW key \in Key,
         LocateSearched(p, step, key)
  PROVE  IInv'
<1>1. /\ CachesInv' /\ LayoutsInv'
      /\ row[p] # NoObject /\ LayoutAt(p) = ReadObjectLayout(p)
  BY EnterObjectCorrect DEF LocateSearched
<1>2. (CallInv /\ SearchInv /\ MoveInv /\ AnswerInv /\ RepeatsHit)'
  BY <1>1, BeginSearchCorrect DEF LocateSearched, EnterObject
<1> QED
  BY <1>1, <1>2 DEF IInv

LEMMA LocateHitCorrect ==
  ASSUME IInv, NEW p \in Pos, NEW step \in Step, NEW key \in Key,
         LocateHit(p, step, key)
  PROVE  IInv'
<1> DEFINE l == ReadObjectLayout(p)
           e == ranks[RankCacheIndex(step, l.count)]
<1>1. /\ CachesInv' /\ LayoutsInv'
      /\ row # NoObject /\ row[p] # NoObject /\ LayoutAt(p) = l
  BY EnterObjectCorrect DEF LocateHit, EnterObject
<1>2. IsObject(row[p])
  BY <1>1, ObjectFacts DEF IInv, CachesInv
<1>3. /\ l.pos = p /\ l.count = row[p].count
      /\ l.count \in Nat
  BY <1>2 DEF ReadObjectLayout, IsObject
<1>4. e.valid /\ e.found /\ Hit(e, step, l, key)
  BY <1>1 DEF LocateHit, Hit
<1>5. e.rank \in Nat
  BY <1>1, <1>3, <1>4, LocateAssumption DEF IInv, CachesInv
<1>6. e.rank \in 0 .. row[p].count - 1 /\ row[p].key[e.rank] = key
  BY <1>3, <1>4, <1>5 DEF Hit, ValidateCachedObjectRank, ObjectKeyAtRank
<1>7. /\ row' = row /\ ranks' = ranks /\ layout' = l /\ rank' = e.rank
      /\ pc' = "move" /\ cursor' = BlockStart /\ answer' = NoAnswer
      /\ call' = [cached |-> TRUE, step |-> step, key |-> key]
  BY <1>1 DEF LocateHit, EnterObject, Enter
<1>8. CallInv'
  BY <1>1, <1>3, <1>7 DEF CallInv, ReadObjectLayout
<1>9. MoveInv'
  BY <1>2, <1>3, <1>6, <1>7 DEF MoveInv, BlockStart, IsObject
<1>10. (SearchInv /\ AnswerInv)'
  BY <1>7 DEF SearchInv, AnswerInv, LookupsAreExact, NoAnswer
<1>11. RepeatsHit'
  BY <1>4, <1>7 DEF RepeatsHit, Hit, ValidateCachedObjectRank, ObjectKeyAtRank
<1> QED
  BY <1>1, <1>8, <1>9, <1>10, <1>11 DEF IInv

LEMMA LocateMissCorrect ==
  ASSUME IInv, NEW p \in Pos, NEW step \in Step, NEW key \in Key,
         LocateMiss(p, step, key)
  PROVE  IInv'
<1> DEFINE l == ReadObjectLayout(p)
           e == ranks[RankCacheIndex(step, l.count)]
<1>1. /\ CachesInv' /\ LayoutsInv'
      /\ row # NoObject /\ row[p] # NoObject /\ LayoutAt(p) = l
      /\ row' = row
  BY EnterObjectCorrect DEF LocateMiss, EnterObject
<1>2. IsObject(row[p])
  BY <1>1, ObjectFacts DEF IInv, CachesInv
<1>3. /\ l.pos = p /\ l.count = row[p].count
      /\ l.count \in Nat
  BY <1>2 DEF ReadObjectLayout, IsObject
<1>4. e.valid /\ ~e.found /\ Hit(e, step, l, key)
  BY <1>1 DEF LocateMiss, Hit
<1>5. e.rank \in Nat
  BY <1>1, <1>3, <1>4, LocateAssumption DEF IInv, CachesInv
<1>6. /\ e.rank <= row[p].count
      /\ e.rank > 0 => row[p].key[e.rank - 1] < key
      /\ e.rank < row[p].count => key < row[p].key[e.rank]
  BY <1>3, <1>4 DEF Hit, ValidateCachedObjectRank, ObjectKeyAtRank
<1>7. \A k \in 0 .. row[p].count - 1 : row[p].key[k] # key
  BY <1>2, <1>5, <1>6, ValidatedMiss
<1>8. Return(p, key, FALSE, 0)
  BY DEF LocateMiss
<1>9. LookupsAreExact'
  BY <1>1, <1>7, <1>8 DEF LookupsAreExact, Return
<1> QED
  BY <1>1, <1>8, <1>9, ReturnCorrect DEF IInv

LEMMA LocateOnceCorrect ==
  ASSUME IInv, NEW p \in Pos, NEW key \in Key, LocateOnce(p, key)
  PROVE  IInv'
<1>1. CachesInv' /\ LayoutsInv'
  BY DEF LocateOnce, IInv, CachesInv, LayoutsInv, ReadObjectLayout
<1>2. (CallInv /\ SearchInv /\ MoveInv /\ AnswerInv /\ RepeatsHit)'
  BY BeginSearchCorrect DEF LocateOnce
<1> QED
  BY <1>1, <1>2 DEF IInv

\* The caches do not change while a lookup searches or moves.
LEMMA CachesKept ==
  ASSUME IInv, UNCHANGED <<row, generation, layouts, ranks>>
  PROVE  CachesInv' /\ LayoutsInv'
BY DEF IInv, CachesInv, LayoutsInv, ReadObjectLayout

LEMMA ProbeCorrect ==
  ASSUME IInv, Probe
  PROVE  IInv'
<1> DEFINE o == row[layout.pos]
           mid == lo + ((hi - lo) \div 2)
<1>1. /\ pc = "search" /\ row # NoObject /\ layout.pos \in Pos /\ o # NoObject
      /\ layout = ReadObjectLayout(layout.pos) /\ call.key \in Key /\ call.key \in Int
  BY LocateAssumption DEF Probe, IInv, CallInv
<1>2. IsObject(o)
  BY <1>1, ObjectFacts DEF IInv, CachesInv
<1>3. /\ o.count \in Nat /\ \A k \in 0 .. o.count - 1 : o.key[k] \in Int
      /\ \A j, k \in 0 .. o.count - 1 : j < k => o.key[j] < o.key[k]
  BY <1>2, LocateAssumption DEF IsObject
<1>4. /\ lo \in Nat /\ hi \in Nat /\ lo < hi /\ hi <= o.count
      /\ \A k \in 0 .. lo - 1 : o.key[k] < call.key
      /\ \A k \in hi .. o.count - 1 : call.key <= o.key[k]
  BY <1>1 DEF Probe, IInv, SearchInv
<1>5. mid \in lo .. hi - 1
  BY <1>4
<1>6. mid \in 0 .. o.count - 1
  BY <1>3, <1>4, <1>5
<1>7. UNCHANGED <<row, generation, layouts, ranks, pc, call, layout, rank, cursor, answer>>
  BY DEF Probe
<1>8. SearchInv'
  <2>1. CASE o.key[mid] < call.key
    <3>1. lo' = mid + 1 /\ hi' = hi
      BY <2>1 DEF Probe, ObjectKeyAtRank
    <3>2. \A k \in 0 .. mid : o.key[k] < call.key
      <4> TAKE k \in 0 .. mid
      <4>1. k = mid \/ (k \in 0 .. o.count - 1 /\ o.key[k] < o.key[mid])
        BY <1>3, <1>6
      <4> QED
        BY <4>1, <2>1, <1>1, <1>3, <1>6
    <3> QED
      BY <3>1, <3>2, <1>4, <1>5, <1>7 DEF SearchInv
  <2>2. CASE ~(o.key[mid] < call.key)
    <3>1. lo' = lo /\ hi' = mid
      BY <2>2 DEF Probe, ObjectKeyAtRank
    <3>2. \A k \in mid .. o.count - 1 : call.key <= o.key[k]
      <4> TAKE k \in mid .. o.count - 1
      <4>1. k = mid \/ (k \in 0 .. o.count - 1 /\ o.key[mid] < o.key[k])
        BY <1>3, <1>6
      <4> QED
        BY <4>1, <2>2, <1>1, <1>3, <1>6
    <3> QED
      BY <3>1, <3>2, <1>3, <1>4, <1>6, <1>7 DEF SearchInv
  <2> QED
    BY <2>1, <2>2
<1>9. (CallInv /\ MoveInv /\ AnswerInv /\ RepeatsHit)'
  BY <1>1, <1>7 DEF IInv, CallInv, MoveInv, AnswerInv, LookupsAreExact, RepeatsHit,
     ReadObjectLayout
<1> QED
  BY <1>7, <1>8, <1>9, CachesKept DEF IInv

LEMMA EndSearchCorrect ==
  ASSUME IInv, EndSearch
  PROVE  IInv'
<1> DEFINE p == layout.pos
           o == row[p]
           found == lo < layout.count /\ ObjectKeyAtRank(layout, lo) = call.key
<1>1. /\ pc = "search" /\ row # NoObject /\ p \in Pos /\ o # NoObject
      /\ layout = ReadObjectLayout(p) /\ call.key \in Key /\ call.key \in Int
      /\ call.cached \in BOOLEAN /\ (call.cached => call.step \in Step)
  BY LocateAssumption DEF EndSearch, IInv, CallInv
<1>2. IsObject(o)
  BY <1>1, ObjectFacts DEF IInv, CachesInv
<1>3. /\ layout.count = o.count /\ o.count \in Nat
      /\ \A k \in 0 .. o.count - 1 : o.key[k] \in Int
      /\ \A j, k \in 0 .. o.count - 1 : j < k => o.key[j] < o.key[k]
  BY <1>1, <1>2, LocateAssumption DEF IsObject, ReadObjectLayout
<1>4. /\ lo \in Nat /\ lo <= o.count
      /\ \A k \in 0 .. lo - 1 : o.key[k] < call.key
      /\ \A k \in lo .. o.count - 1 : call.key <= o.key[k]
  BY <1>1, <1>3 DEF EndSearch, IInv, SearchInv
<1>5. UNCHANGED <<row, generation, layouts>>
  BY DEF EndSearch
<1>6. found \in BOOLEAN /\ (found <=> lo < o.count /\ o.key[lo] = call.key)
  BY <1>3 DEF ObjectKeyAtRank
<1>7. LayoutsInv'
  BY <1>5 DEF IInv, LayoutsInv, ReadObjectLayout
<1>8. /\ ranks' = IF call.cached
                    THEN [ranks EXCEPT ![RankCacheIndex(call.step, layout.count)] =
                            FilledEntry(call.step, layout, call.key, lo, found)]
                    ELSE ranks
      /\ call.cached => RankCacheIndex(call.step, layout.count) \in RankSlot
  BY <1>1, <1>3, LocateAssumption DEF EndSearch, IInv, CachesInv
<1>9. CachesInv'
  <2>1. \A s \in RankSlot :
          ranks'[s].valid => ranks'[s].rank \in Nat /\ ranks'[s].found \in BOOLEAN
    <3> SUFFICES ASSUME NEW s \in RankSlot, ranks'[s].valid
                 PROVE  ranks'[s].rank \in Nat /\ ranks'[s].found \in BOOLEAN
      OBVIOUS
    <3>1. CASE call.cached /\ s = RankCacheIndex(call.step, layout.count)
      <4>1. ranks'[s] = FilledEntry(call.step, layout, call.key, lo, found)
        BY <3>1, <1>8 DEF IInv, CachesInv
      <4> QED
        BY <4>1, <1>4, <1>6 DEF FilledEntry
    <3>2. CASE ~(call.cached /\ s = RankCacheIndex(call.step, layout.count))
      <4>1. ranks'[s] = ranks[s]
        BY <3>2, <1>8 DEF IInv, CachesInv
      <4> QED
        BY <4>1 DEF IInv, CachesInv
    <3> QED
      BY <3>1, <3>2
  <2>2. ranks' = [s \in RankSlot |-> ranks'[s]]
    BY <1>8 DEF IInv, CachesInv
  <2> QED
    BY <2>1, <2>2, <1>5 DEF IInv, CachesInv
<1>10. CASE found
  <2>1. Enter(lo) /\ UNCHANGED <<call, layout>>
    BY <1>10 DEF EndSearch
  <2>2. MoveInv'
    BY <2>1, <1>2, <1>3, <1>4, <1>5, <1>6, <1>10 DEF MoveInv, Enter, BlockStart, IsObject
  <2>3. (CallInv /\ SearchInv /\ AnswerInv)'
    BY <2>1, <1>1, <1>5 DEF CallInv, SearchInv, AnswerInv, LookupsAreExact, Enter, NoAnswer,
       ReadObjectLayout
  <2>4. RepeatsHit'
    <3> SUFFICES ASSUME call.cached
                 PROVE  Hit(ranks[RankCacheIndex(call.step, layout.count)],
                            call.step, layout, call.key)'
      BY <2>1 DEF RepeatsHit
    <3> DEFINE e == ranks'[RankCacheIndex(call.step, layout.count)]
    <3>1. e = FilledEntry(call.step, layout, call.key, lo, TRUE)
      BY <1>8, <1>6, <1>10 DEF IInv, CachesInv
    <3>2. lo \in Nat /\ lo < layout.count /\ row[layout.pos].key[lo] = call.key
      BY <1>3, <1>4, <1>6, <1>10
    <3>3. /\ e.valid /\ e.step = call.step /\ e.count = layout.count
          /\ e.key = call.key /\ e.hash = layout.hash /\ e.rank = lo /\ e.found
      BY <3>1 DEF FilledEntry
    <3> HIDE DEF e
    <3>4. Hit(e, call.step, layout, call.key)
      BY <3>2, <3>3, <1>3 DEF Hit, ValidateCachedObjectRank, ObjectKeyAtRank
    <3> QED
      BY <3>4, <2>1, <1>5 DEF e, Hit, ValidateCachedObjectRank, ObjectKeyAtRank
  <2> QED
    BY <2>2, <2>3, <2>4, <1>7, <1>9 DEF IInv
<1>11. CASE ~found
  <2>1. Return(p, call.key, FALSE, 0)
    BY <1>11 DEF EndSearch
  <2>2. \A k \in 0 .. o.count - 1 : o.key[k] # call.key
    <3> TAKE k \in 0 .. o.count - 1
    <3>1. CASE k < lo
      BY <3>1, <1>1, <1>3, <1>4
    <3>2. CASE k = lo
      <4>1. lo < o.count
        BY <3>2, <1>3
      <4> QED
        BY <4>1, <3>2, <1>6, <1>11
    <3>3. CASE k > lo
      BY <3>3, <1>1, <1>3, <1>4
    <3> QED
      BY <3>1, <3>2, <3>3, <1>4
  <2>3. LookupsAreExact'
    BY <2>1, <2>2, <1>5 DEF LookupsAreExact, Return
  <2> QED
    BY <2>1, <2>3, <1>1, <1>5, <1>7, <1>9, ReturnCorrect DEF IInv
<1> QED
  BY <1>10, <1>11

LEMMA MovesCorrect ==
  ASSUME IInv, JumpToCheckpoint \/ SkipValue
  PROVE  IInv'
<1> DEFINE o == row[layout.pos]
<1>1. /\ pc = "move" /\ row # NoObject /\ layout.pos \in Pos /\ o # NoObject
      /\ layout = ReadObjectLayout(layout.pos)
  BY DEF JumpToCheckpoint, SkipValue, IInv, CallInv
<1>2. IsObject(o) /\ o.count \in Nat
  BY <1>1, ObjectFacts DEF IInv, CachesInv, IsObject
<1>3. /\ rank \in 0 .. o.count - 1 /\ o.key[rank] = call.key
      /\ cursor = [rank |-> cursor.rank, at |-> cursor.at]
      /\ cursor.rank \in 0 .. rank /\ cursor.at = o.value[cursor.rank]
  BY <1>1 DEF IInv, MoveInv
<1>4. UNCHANGED <<row, generation, layouts, ranks, pc, call, layout, lo, hi, rank, answer>>
  BY DEF JumpToCheckpoint, SkipValue
<1>5. MoveInv'
  <2>1. CASE JumpToCheckpoint
    <3> DEFINE c == CheckpointRank
    <3>1. c \in 0 .. rank /\ (((c \div Stride) - 1) + 1) * Stride = c
      BY <1>2, <1>3, RoundDown, LocateAssumption DEF CheckpointRank
    <3>2. cursor' = [rank |-> c, at |-> o.value[c]]
      BY <2>1, <3>1 DEF JumpToCheckpoint, ObjectCheckpointAt
    <3> QED
      BY <3>1, <3>2, <1>3, <1>4 DEF MoveInv
  <2>2. CASE SkipValue
    <3> DEFINE k == CHOOSE i \in 0 .. o.count - 1 : o.value[i] = cursor.at
    <3>1. k \in 0 .. o.count - 1 /\ o.value[k] = o.value[cursor.rank]
      BY <1>2, <1>3
    <3>2. k \in 0 .. o.count /\ cursor.rank \in 0 .. o.count
      BY <3>1, <1>2, <1>3
    <3>3. k = cursor.rank
      BY <3>1, <3>2, <1>2, OffsetsDiffer
    <3>4. SkipValueFast(layout, cursor.at) = o.value[1 + k]
      BY DEF SkipValueFast
    <3> HIDE DEF k
    <3>5. 1 + k = cursor.rank + 1
      BY <3>2, <3>3, <1>2
    <3>6. cursor' = [rank |-> cursor.rank + 1, at |-> o.value[cursor.rank + 1]]
      BY <2>2, <3>4, <3>5 DEF SkipValue
    <3>7. cursor.rank + 1 \in 0 .. rank
      BY <2>2, <1>2, <1>3 DEF SkipValue
    <3> QED
      BY <3>6, <3>7, <1>3, <1>4 DEF MoveInv
  <2> QED
    BY <2>1, <2>2
<1>6. (CallInv /\ SearchInv /\ AnswerInv /\ RepeatsHit)'
  BY <1>1, <1>4 DEF IInv, CallInv, SearchInv, AnswerInv, LookupsAreExact, RepeatsHit,
     ReadObjectLayout, Hit, ValidateCachedObjectRank, ObjectKeyAtRank
<1> QED
  BY <1>4, <1>5, <1>6, CachesKept DEF IInv

LEMMA EndMoveCorrect ==
  ASSUME IInv, EndMove
  PROVE  IInv'
<1>1. /\ pc = "move" /\ row # NoObject /\ layout.pos \in Pos
      /\ row[layout.pos] # NoObject
  BY DEF EndMove, IInv, CallInv
<1>2. IsObject(row[layout.pos])
  BY <1>1, ObjectFacts DEF IInv, CachesInv
<1>3. /\ rank \in 0 .. row[layout.pos].count - 1
      /\ row[layout.pos].key[rank] = call.key
      /\ cursor.at = row[layout.pos].value[rank]
  BY <1>1, <1>2 DEF EndMove, IInv, MoveInv, IsObject
<1>4. Return(layout.pos, call.key, TRUE, cursor.at) /\ UNCHANGED <<row, generation, layouts, ranks>>
  BY DEF EndMove
<1>5. LookupsAreExact'
  BY <1>1, <1>3, <1>4 DEF LookupsAreExact, Return
<1> QED
  BY <1>1, <1>4, <1>5, ReturnCorrect, CachesKept DEF IInv

LEMMA StepCorrect == IInv /\ [Next]_vars => IInv'
<1> SUFFICES ASSUME IInv, [Next]_vars
             PROVE  IInv'
  OBVIOUS
<1>1. ASSUME NEW r \in Row, NextRow(r)
      PROVE  IInv'
  BY <1>1, NextRowCorrect
<1>2. ASSUME NEW p \in Pos, NEW key \in Key, LocateNoObject(p, key) \/ LocateOnce(p, key)
      PROVE  IInv'
  BY <1>2, LocateNoObjectCorrect, LocateOnceCorrect
<1>3. ASSUME NEW p \in Pos, NEW step \in Step, NEW key \in Key,
             \/ LocateSearched(p, step, key)
             \/ LocateHit(p, step, key)
             \/ LocateMiss(p, step, key)
      PROVE  IInv'
  BY <1>3, LocateSearchedCorrect, LocateHitCorrect, LocateMissCorrect
<1>4. CASE Continue
  BY <1>4, ProbeCorrect, EndSearchCorrect, MovesCorrect, EndMoveCorrect DEF Continue
<1>5. CASE UNCHANGED vars
  BY <1>5 DEF vars, IInv, CachesInv, LayoutsInv, CallInv, SearchInv, MoveInv, AnswerInv,
     LookupsAreExact, RepeatsHit, ReadObjectLayout, Hit, ValidateCachedObjectRank,
     ObjectKeyAtRank
<1> QED
  BY <1>1, <1>2, <1>3, <1>4, <1>5 DEF Next

(***************************************************************************)
(* The theorems.                                                           *)
(***************************************************************************)

\* Every behaviour keeps the invariant: the caches' entries of this generation
\* are this row's, the search's window holds the key's place, the cursor
\* stands where it counts.
THEOREM Invariance == Spec => []IInv
<1>1. IInv /\ [Next]_vars => IInv'
  BY StepCorrect
<1> QED
  BY InitCorrect, <1>1, PTL DEF Spec

\* The variables keep their types: windows and ranks stay within the object
\* that LocateObjectKeyCached works on.
THEOREM TypeCorrect == Spec => []TypeOK
<1>1. IInv => TypeOK
  <2> SUFFICES ASSUME IInv PROVE TypeOK
    OBVIOUS
  <2>1. pc # "idle" => row[layout.pos].count \in Nat
    BY ObjectFacts DEF IInv, CallInv, CachesInv, IsObject
  <2> QED
    BY <2>1 DEF IInv, CachesInv, CallInv, SearchInv, MoveInv, TypeOK
<1> QED
  BY Invariance, <1>1, PTL

\* A lookup through the caches returns the value of the key in the row at hand,
\* or that it has none, for any rows, colliding hashes and colliding entries.
THEOREM ExactLookups == Spec => []LookupsAreExact
<1>1. IInv => LookupsAreExact
  BY DEF IInv, AnswerInv
<1> QED
  BY Invariance, <1>1, PTL

\* The layout cache never returns a layout of an earlier row.
THEOREM ThisRowsLayouts == Spec => []LayoutsAreThisRows
<1>1. IInv => LayoutsAreThisRows
  BY LayoutIsExact DEF LayoutsAreThisRows
<1> QED
  BY Invariance, <1>1, PTL

\* Jumping to a checkpoint and skipping value by value come to the same place.
THEOREM CursorStands == Spec => []CursorStandsAtItsRank
<1>1. IInv => CursorStandsAtItsRank
  BY DEF IInv, MoveInv, CursorStandsAtItsRank
<1> QED
  BY Invariance, <1>1, PTL

\* What a lookup found, the rank cache would find again.
THEOREM RepeatedHits == Spec => []RepeatsHit
<1>1. IInv => RepeatsHit
  BY DEF IInv
<1> QED
  BY Invariance, <1>1, PTL
=============================================================================
