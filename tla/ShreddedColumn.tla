---------------------------- MODULE ShreddedColumn ----------------------------
(***************************************************************************)
(* Tables whose column holds shredded JSONO values, the writers that fill  *)
(* them, and the reads the optimizer emits over them: when is a bare read  *)
(* of a lane, with no fallback to the residual, still the right answer?    *)
(*                                                                         *)
(* A value is a document spread over a residual and one lane per shredded  *)
(* path.  Three redundant records say how it was spread: the marker (the   *)
(* hash of the shred set, its lowest bit flipped on a row where a value    *)
(* was diverted into the residual), the spill words (one bit per diverted  *)
(* lane) and the manifest (the paths stripped from the residual).  The     *)
(* optimizer proves lanes total from the minimum and maximum of the first  *)
(* two; readers use the third to refuse a row that a raw struct cast has   *)
(* deprived of a lane.                                                     *)
(*                                                                         *)
(* Paths are independent leaves here (nested documents are the subject of  *)
(* ShreddedRow); a mask word is the set of its bits; a lane keeps its type *)
(* (casts that retype a lane are not modelled).                            *)
(***************************************************************************)
EXTENDS Integers, FiniteSets

CONSTANTS
  Path, ArrayPath,           \* the paths; those shredded as arrays
  Value, Fits, Doc,          \* JSON values, those a lane holds, documents
  Absent, JsonNull,          \* no such key, an explicit JSON null
  Skeleton,                  \* what a lifted array leaves in the residual
  Null, Failure,             \* SQL NULL, a read that throws
  Order, WordBits, MaskOf,   \* name order, bits per word, a word's number
  Hash,                      \* the layout hash of a shred set
  Table, Lanes, Scans,       \* tables, their shred sets, the scans read
  MaxRows                    \* bound on the rows stored

VARIABLE rows

Flip(h) == IF h % 2 = 0 THEN h + 1 ELSE h - 1
Bits == 0 .. WordBits - 1

ASSUME PathAssumption ==
  /\ IsFiniteSet(Path) /\ ArrayPath \subseteq Path
  /\ Fits \in [Path -> SUBSET Value]
  /\ Doc \subseteq [Path -> Value \union {Absent, JsonNull}]
ASSUME SentinelAssumption ==
  /\ {Absent, JsonNull, Skeleton, Null, Failure} \cap Value = {}
  /\ Absent # JsonNull /\ Skeleton \notin {Absent, JsonNull}
  /\ Null \notin {Absent, JsonNull, Skeleton} /\ Failure # Null
  /\ Null \notin Nat /\ \A B \in SUBSET Bits : B # Null
  /\ \A d \in Doc : d # Null
ASSUME WordAssumption ==
  /\ Order \in [Path -> Nat] /\ WordBits \in Nat \ {0}
  /\ \A p \in Path, q \in Path : Order[p] = Order[q] => p = q
  /\ MaskOf \in [SUBSET Bits -> Nat]
  /\ \A B \in SUBSET Bits, C \in SUBSET Bits : MaskOf[B] = MaskOf[C] => B = C
  /\ \A B \in SUBSET Bits : \A b \in B : MaskOf[{b}] <= MaskOf[B]
ASSUME HashAssumption ==      \* no two shred sets collide, flipped or not
  /\ Hash \in [SUBSET Path -> Nat]
  /\ \A L, M \in SUBSET Path :
       Hash[L] = Hash[M] \/ Hash[L] = Flip(Hash[M]) => L = M
ASSUME TableAssumption ==
  /\ Lanes \in [Table -> SUBSET Path]
  /\ Scans \subseteq SUBSET Table
-----------------------------------------------------------------------------
(* The numbering of a shred set: a lane's rank is its place among the      *)
(* sorted lane names, and every WordBits ranks share a spill column.       *)
Rank(L, p) == Cardinality({q \in L : Order[q] < Order[p]})
WordOf(L, p) == Rank(L, p) \div WordBits
BitOf(L, p) == Rank(L, p) % WordBits
Columns(L) == (Cardinality(L) + WordBits - 1) \div WordBits
Words(L) == 0 .. Columns(L) - 1
Word == Words(Path)
UsedBits(L, w) == {BitOf(L, p) : p \in {q \in L : WordOf(L, q) = w}}

Clean(L) == Hash[L]
Dirty(L) == Flip(Hash[L])

(* The marker and spill words of a row whose lanes in spilled diverted.    *)
Marker(L, spilled) == IF spilled = {} THEN Clean(L) ELSE Dirty(L)
MasksOfDirtyWords(L, spilled) ==      \* mutant: a word without bits stays NULL
  [w \in Word |->
     LET bits == {BitOf(L, p) : p \in {q \in spilled : WordOf(L, q) = w}}
     IN IF bits = {} THEN Null ELSE bits]
Masks(L, spilled) ==
  [w \in Word |-> IF spilled = {} \/ w \notin Words(L) THEN Null
                  ELSE {BitOf(L, p) : p \in {q \in spilled : WordOf(L, q) = w}}]

Row == [table : Table,
        doc : {Null} \union Doc,                       \* what was written
        lane : [Path -> Value \union {Null}],
        residual : [Path -> Value \union {Absent, JsonNull, Skeleton}],
        set : Nat \union {Null},
        spill : [Word -> {Null} \union SUBSET Bits],
        manifest : SUBSET Path,
        written : SUBSET Path,    \* history: the shred set it was written under
        lost : SUBSET Path]       \* history: lanes of it a raw cast dropped

NullRow(t) ==
  [table |-> t, doc |-> Null, lane |-> [p \in Path |-> Null],
   residual |-> [p \in Path |-> Absent], set |-> Null,
   spill |-> [w \in Word |-> Null], manifest |-> {}, written |-> {}, lost |-> {}]

(* What a lifted value leaves behind: nothing, or an array's skeleton.     *)
Stripped(p) == IF p \in ArrayPath THEN Skeleton ELSE Absent

(* jsono(value, shredding := L): the values that fit go to their lanes, a  *)
(* present value that does not fit a scalar lane is a spill.               *)
SpilledNulls(L, d) ==                 \* mutant: an explicit null is a spill
  {p \in L \ ArrayPath : d[p] # Absent /\ d[p] \notin Fits[p]}
Spilled(L, d) == {p \in L \ ArrayPath : d[p] \in Value \ Fits[p]}
Shredded(t, L, d) ==
  LET fitting == {p \in L : d[p] \in Fits[p]}
      spilled == Spilled(L, d)
  IN [table |-> t, doc |-> d,
      lane |-> [p \in Path |-> IF p \in fitting THEN d[p] ELSE Null],
      residual |-> [p \in Path |-> IF p \in fitting THEN Stripped(p) ELSE d[p]],
      set |-> Marker(L, spilled), spill |-> Masks(L, spilled),
      manifest |-> fitting, written |-> L, lost |-> {}]
-----------------------------------------------------------------------------
(* Reconstruction, given the lanes K the type carries: the residual wins,  *)
(* a stripped path is filled from its lane.                                *)
Overlay(K, r) ==
  [p \in Path |-> IF r.residual[p] \in {Absent, Skeleton} /\ p \in K /\ r.lane[p] # Null
                  THEN r.lane[p] ELSE r.residual[p]]

(* The whole-document check: every stripped path still has its lane.       *)
Carried(K, r) == r.manifest \subseteq K

(* Does the stamp of r follow the numbering of the type it is read at?     *)
Identity(K, r) == r.set \in {Clean(K), Dirty(K)}

(* The spill bit of lane p, kept from type K: translated when the stamp is *)
(* of K, else found again by probing the residual.                         *)
KeptSpillUnchecked(K, r, p) ==        \* mutant: a foreign stamp is trusted
  r.spill[WordOf(K, p)] # Null /\ BitOf(K, p) \in r.spill[WordOf(K, p)]
KeptSpill(K, r, p) ==
  IF Identity(K, r) /\ WordOf(K, p) \in Words(K)
  THEN r.spill[WordOf(K, p)] # Null /\ BitOf(K, p) \in r.spill[WordOf(K, p)]
  ELSE r.lane[p] = Null /\ r.residual[p] \in Value

(* The residual with the lanes that L drops folded back, and the manifest  *)
(* entries of the lanes it keeps.                                          *)
FoldedNothing(L, K, r) == r.residual  \* mutant: dropped lanes are forgotten
Folded(L, K, r) == Overlay(K \ L, r)
CarriedNothing(L, r) == {}            \* mutant: a fresh manifest only
CarriedManifest(L, r) == r.manifest \cap L

(* Reshred from K to L.  Kept lanes are copied, dropped ones folded back   *)
(* into the residual, new ones extracted from it.  A change of array lanes *)
(* goes through the plain value instead.                                   *)
Reshredded(t, L, K, r) ==
  IF L \cap ArrayPath # K \cap ArrayPath THEN [Shredded(t, L, Overlay(K, r)) EXCEPT !.doc = r.doc]
  ELSE
  LET merged == Folded(L, K, r)
      kept == L \cap K
      new == {p \in L \ K : merged[p] \in Fits[p]}
      spilled == {p \in kept \ ArrayPath : KeptSpill(K, r, p)}
                   \union Spilled(L \ K, merged)
  IN [table |-> t, doc |-> r.doc,
      lane |-> [p \in Path |-> IF p \in new THEN merged[p]
                               ELSE IF p \in kept THEN r.lane[p] ELSE Null],
      residual |-> [p \in Path |-> IF p \in new THEN Absent ELSE merged[p]],
      set |-> Marker(L, spilled), spill |-> Masks(L, spilled),
      manifest |-> CarriedManifest(L, r) \union new, written |-> L, lost |-> {}]

(* A raw by-name struct cast from K to L: fields the target lacks vanish,  *)
(* fields it adds are NULL, the residual and its manifest are untouched.   *)
RawCast(t, L, K, r) ==
  [r EXCEPT !.table = t,
            !.lane = [p \in Path |-> IF p \in L THEN r.lane[p] ELSE Null],
            !.spill = [w \in Word |-> IF w \in Words(L) THEN r.spill[w] ELSE Null],
            !.lost = @ \union (r.written \ L)]
-----------------------------------------------------------------------------
Regained(K, r) == r.lost \cap K # {}

Init == rows = {}

Room == Cardinality(rows) < MaxRows

(* INSERT of parsed text under the table's shred set.                      *)
Insert(t) ==
  /\ Room
  /\ \E d \in Doc : rows' = rows \union {Shredded(t, Lanes[t], d)}

InsertNull(t) == Room /\ rows' = rows \union {NullRow(t)}

(* INSERT ... SELECT with the extension optimizer on: the same shred set   *)
(* moves as it is, another is reshredded, and a narrowed row fails the     *)
(* query.  Bound: what becomes of a row whose lost lane came back, which   *)
(* already answers wrongly, is not followed.                               *)
InsertSelect(t) ==
  /\ Room
  /\ \E r \in rows :
       LET K == Lanes[r.table] IN
       /\ ~Regained(K, r)
       /\ IF Lanes[t] = K \/ r.doc = Null
          THEN rows' = rows \union {[r EXCEPT !.table = t]}
          ELSE Carried(K, r) /\ rows' = rows \union {Reshredded(t, Lanes[t], K, r)}

(* INSERT ... SELECT with the extension optimizer disabled.                *)
RawInsertSelect(t) ==
  /\ Room
  /\ \E r \in rows :
       rows' = rows \union {RawCast(t, Lanes[t], Lanes[r.table], r)}

Next == \E t \in Table :
          Insert(t) \/ InsertNull(t) \/ InsertSelect(t) \/ RawInsertSelect(t)

Spec == Init /\ [][Next]_rows
-----------------------------------------------------------------------------
(* Column statistics: the minimum lo and the maximum hi of a set of        *)
(* numbers, when it has any.                                               *)
Spans(N, lo, hi) == lo \in N /\ hi \in N /\ \A n \in N : lo <= n /\ n <= hi

InScan(S) == {r \in rows : r.table \in S}
Markers(S) == {r.set : r \in InScan(S)} \ {Null}
MaskStats(S, w) ==
  {MaskOf[r.spill[w]] : r \in {q \in InScan(S) : q.spill[w] # Null}}

(* The lanes and spill columns of the type a scan reads: the by-name union *)
(* of its tables'.  The statistics of a column some table lacks are        *)
(* unknown.                                                                *)
ScanLanes(S) == UNION {Lanes[t] : t \in S}
KnownWords(S) == {w \in Word : \A t \in S : w \in Words(Lanes[t])}

AllClean(L, S) == Spans(Markers(S), Clean(L), Clean(L))
SameSet(L, S) ==
  \E lo \in {Clean(L), Dirty(L)}, hi \in {Clean(L), Dirty(L)} : Spans(Markers(S), lo, hi)

(* The spill statistics show the bit of lane p clear on every dirty row:   *)
(* one uniform in-domain mask without it, or a maximum below it.           *)
BitClear(L, S, p) ==
  LET w == WordOf(L, p)
      N == MaskStats(S, w)
  IN /\ w \in KnownWords(S)
     /\ \E lo \in N, hi \in N :
          /\ Spans(N, lo, hi)
          /\ \/ /\ lo = hi
                /\ \E B \in SUBSET UsedBits(L, w) : MaskOf[B] = lo /\ BitOf(L, p) \notin B
             \/ hi < MaskOf[{BitOf(L, p)}]

SpillProven(L, S, p) ==
  /\ p \in L \ ArrayPath
  /\ AllClean(L, S) \/ (SameSet(L, S) /\ BitClear(L, S, p))

NoNull(S, p) ==
  /\ p \notin ArrayPath
  /\ \A t \in S : p \in Lanes[t]
  /\ \A r \in InScan(S) : r.lane[p] # Null

EachFileProven(S, p) ==
  \A t \in S : p \in Lanes[t] /\ SpillProven(Lanes[t], {t}, p)

(* The lanes of a scan served by a bare struct_extract.                    *)
Total(S, p) ==
  /\ p \in ScanLanes(S) \ ArrayPath
  /\ SpillProven(ScanLanes(S), S, p) \/ NoNull(S, p) \/ EachFileProven(S, p)
-----------------------------------------------------------------------------
(* The ->> text of a residual or document entry.                           *)
Text(x) == IF x \in {Absent, JsonNull} THEN Null ELSE x

(* A read of one path of the residual, guarded by the manifest: only a     *)
(* miss on a stripped path fails.                                          *)
PointRead(r, p) ==
  IF r.residual[p] = Absent /\ p \in r.manifest THEN Failure ELSE Text(r.residual[p])

WholeRead(K, r, p) == IF Carried(K, r) THEN Text(Overlay(K, r)[p]) ELSE Failure

(* r ->> p over scan S, as the optimizer rewrites it.                      *)
Read(S, r, p) ==
  IF r.doc = Null THEN Null
  ELSE IF p \notin ScanLanes(S) THEN PointRead(r, p)
  ELSE IF p \in ArrayPath THEN WholeRead(ScanLanes(S), r, p)
  ELSE IF Total(S, p) \/ r.lane[p] # Null THEN r.lane[p]
  ELSE Text(r.residual[p])

Answer(r, p) == IF r.doc = Null THEN Null ELSE Text(r.doc[p])
-----------------------------------------------------------------------------
(* Every stored row has the shape of a row of its table's type.            *)
TypeOK == rows \subseteq Row

(* A row no raw cast has narrowed answers every read of every scan that    *)
(* covers its table, whether the lane is read bare (CollectShredTotality   *)
(* proved it total), through its residual fallback, or reconstructed.      *)
IntactRowsAnswer ==
  \A S \in Scans : \A r \in InScan(S) :
    r.lost = {} => \A p \in Path : Read(S, r, p) = Answer(r, p)

(* ... and reconstructs to the document it was written from.               *)
IntactRowsReconstruct ==
  \A S \in Scans : \A r \in InScan(S) :
    r.lost = {} /\ r.doc # Null
      => Carried(ScanLanes(S), r) /\ Overlay(ScanLanes(S), r) = r.doc

(* A row a raw cast has narrowed gives the right answer or fails: no read  *)
(* of it is silently partial, as long as the lane it lost stays lost.      *)
NarrowedRowsAnswerOrFail ==
  \A S \in Scans : \A r \in InScan(S) :
    ~Regained(ScanLanes(S), r) =>
      \A p \in Path \ (ArrayPath \cap r.lost) :
        Read(S, r, p) \in {Answer(r, p), Failure}

(* The discipline jsono_validate checks: on a row stamped under its own    *)
(* type, the bit of a scalar lane is set exactly when the lane is NULL and *)
(* the residual holds a value at its path.                                 *)
SpillDiscipline ==
  \A r \in rows :
    LET L == Lanes[r.table] IN
    Identity(L, r) /\ r.lost = {} =>
      \A p \in L \ ArrayPath :
        (r.lane[p] = Null /\ r.residual[p] \in Value)
          <=> (r.set = Dirty(L) /\ BitOf(L, p) \in r.spill[WordOf(L, p)])

(* When every diverting row of a table diverts the same lanes, no other    *)
(* lane is demoted: it is still read bare.                                 *)
UniformDivertSparesTheRest ==
  \A t \in Table : \A D \in SUBSET Lanes[t] :
    LET here == InScan({t})
        diverted(r) == {p \in Lanes[t] \ ArrayPath : r.residual[p] \in Value}
    IN (/\ \E r \in here : r.doc # Null
        /\ \A r \in here : r.doc # Null =>
             r.written = Lanes[t] /\ r.lost = {} /\ diverted(r) \in {{}, D})
       => \A p \in Lanes[t] \ (ArrayPath \union D) : Total({t}, p)

(* What the manifest promises without condition: whatever raw casts did to *)
(* a row, a read of a path the scan has no lane for is right, or fails.    *)
DroppedLanesFail ==
  \A S \in Scans : \A r \in InScan(S), p \in Path \ ScanLanes(S) :
    Read(S, r, p) \in {Answer(r, p), Failure}
=============================================================================
