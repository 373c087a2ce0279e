------------------------------ MODULE PathLocate ------------------------------
(***************************************************************************)
(* The lookup of an object key by a point reader: the layout cache of one  *)
(* row, the cache of key ranks kept over all rows of an expression, the    *)
(* binary search behind them, and the walk to the value with its           *)
(* checkpoints (src/src/include/jsono_locate.hpp, jsono_reader.hpp).       *)
(*                                                                         *)
(* A row is its objects by slot position.  An object is its sorted key     *)
(* block, the offset at which each value begins (and at `count`, where the *)
(* block of values ends), and the span that may be stored with it, whose   *)
(* shape hash may collide or be left zero.  A caller may ask at any        *)
(* position for any key under any step number, in any order.               *)
(***************************************************************************)
EXTENDS Integers

CONSTANTS
  Key,                    \* object keys, in the order of CompareJsonoKeys
  Pos,                    \* slot positions
  Row,                    \* the rows a scan may deliver
  NoObject,               \* what a position holds that no object begins at
  Step,                   \* step numbers of the compiled paths
  RankSlot,               \* the entries of the rank cache
  RankCacheIndex(_, _),   \* the entry of a step number and a key count
  LayoutSlot,             \* the entries of the layout cache
  LayoutCacheIndex(_),    \* the entry of a position
  Stride,                 \* OBJECT_CHECKPOINT_STRIDE
  MaxRows                 \* bound: rows read

IsObject(o) ==
  /\ o.count \in Nat
  /\ o.key \in [0 .. o.count - 1 -> Key]
  /\ \A j, k \in 0 .. o.count - 1 : j < k => o.key[j] < o.key[k]
  /\ o.value \in [0 .. o.count -> Nat]
  /\ o.value[0] = 0
  /\ \A j, k \in 0 .. o.count : j < k => o.value[j] < o.value[k]
  /\ o.span \in BOOLEAN

ASSUME LocateAssumption ==
  /\ Key \subseteq Int
  /\ \A r \in Row : /\ DOMAIN r = Pos
                    /\ \A p \in Pos : r[p] # NoObject => IsObject(r[p])
  /\ \A r \in Row, p \in Pos, s \in Step :
       r[p] # NoObject => RankCacheIndex(s, r[p].count) \in RankSlot
  /\ \A p \in Pos : LayoutCacheIndex(p) \in LayoutSlot
  /\ Stride \in Nat \ {0}
  /\ MaxRows \in Nat

VARIABLES
  row,         \* the row being read, NoObject before the first
  generation,  \* how many rows NextRow has announced
  layouts,     \* the layout cache
  ranks,       \* the rank cache
  pc,          \* idle, or inside a lookup: search, move
  call,        \* the lookup: its step, its key, and whether it uses the caches
  layout,      \* the layout it works on
  lo, hi,      \* the window of the binary search
  rank,        \* the rank it has come to
  cursor,      \* the value cursor: a rank and the offset it stands at
  answer       \* what the last lookup of this row returned

vars == <<row, generation, layouts, ranks, pc, call, layout, lo, hi, rank,
          cursor, answer>>

NoEntry == [valid |-> FALSE]
NoAnswer == [known |-> FALSE]
NoCall == [cached |-> FALSE]
BlockStart == [rank |-> 0, at |-> 0]
NoLayout == [pos |-> 0, count |-> 0, span |-> FALSE, hash |-> 0, checkpoints |-> FALSE]

----------------------------------------------------------------------------
(* Reading an object.                                                      *)

\* A layout records where the object lies, not its keys: these are read from
\* the row at hand.
ReadObjectLayout(p) ==
  [pos |-> p, count |-> row[p].count, span |-> row[p].span, hash |-> row[p].hash,
   checkpoints |-> row[p].count > Stride]

ObjectKeyAtRank(l, k) == row[l.pos].key[k]

ObjectCheckpointFromFirst(l, i) ==           \* mutant: a checkpoint for rank 0
  row[l.pos].value[i * Stride]
\* What the writer stored: where each value begins whose rank is a multiple of
\* the stride, from the second on.
ObjectCheckpointAt(l, i) == row[l.pos].value[(i + 1) * Stride]

\* From where one value begins to where the next one does.
SkipValueFast(l, at) ==
  LET value == row[l.pos].value
  IN value[1 + CHOOSE k \in 0 .. row[l.pos].count - 1 : value[k] = at]

----------------------------------------------------------------------------
(* The caches.                                                             *)

ValidateFoundRankOnly(l, key, k, found) ==   \* mutant: a miss looks at one side
  /\ k <= l.count
  /\ found => k < l.count /\ ObjectKeyAtRank(l, k) = key
  /\ ~found /\ k > 0 => ObjectKeyAtRank(l, k - 1) < key
\* A found rank is confirmed by the key that is there, a miss by the keys at
\* either side.
ValidateCachedObjectRank(l, key, k, found) ==
  /\ k <= l.count
  /\ found => k < l.count /\ ObjectKeyAtRank(l, k) = key
  /\ ~found => /\ k > 0 => ObjectKeyAtRank(l, k - 1) < key
               /\ k < l.count => key < ObjectKeyAtRank(l, k)

Hit(e, step, l, key) ==
  /\ e.valid
  /\ e.step = step
  /\ e.count = l.count
  /\ e.key = key
  /\ l.span /\ e.span => e.hash = l.hash
  /\ ValidateCachedObjectRank(l, key, e.rank, e.found)

FilledEntry(step, l, key, k, found) ==
  [valid |-> TRUE, step |-> step, count |-> l.count, span |-> l.span,
   hash |-> l.hash, key |-> key, rank |-> k, found |-> found]

CachedByGeneration(p) ==                     \* mutant: a position's entry is its own
  layouts[LayoutCacheIndex(p)].generation = generation
\* The layout cache holds this position's layout in this row.
Cached(p) ==
  /\ layouts[LayoutCacheIndex(p)].generation = generation
  /\ layouts[LayoutCacheIndex(p)].pos = p

LayoutAt(p) ==
  IF Cached(p) THEN layouts[LayoutCacheIndex(p)].layout ELSE ReadObjectLayout(p)

----------------------------------------------------------------------------
Init ==
  /\ row = NoObject
  /\ generation = 0
  /\ layouts = [s \in LayoutSlot |-> [generation |-> 0, pos |-> 0, layout |-> NoLayout]]
  /\ ranks = [s \in RankSlot |-> NoEntry]
  /\ pc = "idle"
  /\ call = NoCall
  /\ layout = NoLayout
  /\ lo = 0 /\ hi = 0 /\ rank = 0
  /\ cursor = BlockStart
  /\ answer = NoAnswer

Locals == <<call, layout, lo, hi, rank, cursor>>

\* A reader goes on to its next row and announces it to its caches.
NextRow(r) ==
  /\ pc = "idle"
  /\ generation < MaxRows
  /\ row' = r
  /\ generation' = generation + 1
  /\ answer' = NoAnswer
  /\ UNCHANGED <<layouts, ranks, pc, Locals>>

\* A lookup returns.
Return(p, key, found, at) ==
  /\ pc' = "idle"
  /\ answer' = [known |-> TRUE, pos |-> p, key |-> key, found |-> found, at |-> at]
  /\ call' = NoCall
  /\ layout' = NoLayout
  /\ lo' = 0 /\ hi' = 0 /\ rank' = 0
  /\ cursor' = BlockStart

\* A rank is found: the cursor enters the object's values.
Enter(k) ==
  /\ pc' = "move"
  /\ rank' = k
  /\ cursor' = BlockStart
  /\ lo' = 0 /\ hi' = 0
  /\ answer' = NoAnswer

\* A rank is not known: the binary search begins.
BeginSearch(l) ==
  /\ pc' = "search"
  /\ layout' = l
  /\ lo' = 0
  /\ hi' = l.count
  /\ answer' = NoAnswer
  /\ UNCHANGED <<rank, cursor>>

\* No object begins at the position.
LocateNoObject(p, key) ==
  /\ pc = "idle"
  /\ row # NoObject
  /\ ~Cached(p)
  /\ row[p] = NoObject
  /\ Return(p, key, FALSE, 0)
  /\ UNCHANGED <<row, generation, layouts, ranks>>

\* An object does, or the layout cache says so: its layout is cached ...
EnterObject(p) ==
  /\ pc = "idle"
  /\ row # NoObject
  /\ Cached(p) \/ row[p] # NoObject
  /\ layouts' = [layouts EXCEPT ![LayoutCacheIndex(p)] =
                   [generation |-> generation, pos |-> p, layout |-> LayoutAt(p)]]
  /\ UNCHANGED <<row, generation, ranks>>

\* ... the rank cache is asked, and what it does not know is searched ...
LocateSearched(p, step, key) ==
  LET l == LayoutAt(p) IN
  /\ EnterObject(p)
  /\ ~Hit(ranks[RankCacheIndex(step, l.count)], step, l, key)
  /\ call' = [cached |-> TRUE, step |-> step, key |-> key]
  /\ BeginSearch(l)

\* ... or it knows the rank ...
LocateHit(p, step, key) ==
  LET l == LayoutAt(p)
      e == ranks[RankCacheIndex(step, l.count)]
  IN /\ EnterObject(p)
     /\ Hit(e, step, l, key)
     /\ e.found
     /\ call' = [cached |-> TRUE, step |-> step, key |-> key]
     /\ layout' = l
     /\ Enter(e.rank)

\* ... or that there is none.
LocateMiss(p, step, key) ==
  LET l == LayoutAt(p)
      e == ranks[RankCacheIndex(step, l.count)]
  IN /\ EnterObject(p)
     /\ Hit(e, step, l, key)
     /\ ~e.found
     /\ Return(p, key, FALSE, 0)

\* A one-shot walker has no caches.
LocateOnce(p, key) ==
  /\ pc = "idle"
  /\ row # NoObject
  /\ row[p] # NoObject
  /\ call' = [cached |-> FALSE, key |-> key]
  /\ BeginSearch(ReadObjectLayout(p))
  /\ UNCHANGED <<row, generation, layouts, ranks>>

ProbeClosed ==                               \* mutant: the window taken as closed
  /\ pc = "search"
  /\ lo < hi
  /\ LET mid == lo + ((hi - lo) \div 2)
     IN IF ObjectKeyAtRank(layout, mid) < call.key
          THEN lo' = mid + 1 /\ hi' = hi
          ELSE lo' = lo /\ hi' = mid - 1
  /\ UNCHANGED <<row, generation, layouts, ranks, pc, call, layout, rank, cursor, answer>>
ProbeKeepingMid ==                           \* mutant: the probed rank stays inside
  /\ pc = "search"
  /\ lo < hi
  /\ LET mid == lo + ((hi - lo) \div 2)
     IN IF ObjectKeyAtRank(layout, mid) < call.key
          THEN lo' = mid /\ hi' = hi
          ELSE lo' = lo /\ hi' = mid
  /\ UNCHANGED <<row, generation, layouts, ranks, pc, call, layout, rank, cursor, answer>>
\* One turn of the search's loop.
Probe ==
  /\ pc = "search"
  /\ lo < hi
  /\ LET mid == lo + ((hi - lo) \div 2)
     IN IF ObjectKeyAtRank(layout, mid) < call.key
          THEN lo' = mid + 1 /\ hi' = hi
          ELSE lo' = lo /\ hi' = mid
  /\ UNCHANGED <<row, generation, layouts, ranks, pc, call, layout, rank, cursor, answer>>

\* The search's window is empty: it lies at the key's rank, or where that would
\* be, and the rank cache learns it.
EndSearch ==
  /\ pc = "search"
  /\ lo >= hi
  /\ LET found == lo < layout.count /\ ObjectKeyAtRank(layout, lo) = call.key
     IN /\ ranks' = IF call.cached
                      THEN [ranks EXCEPT ![RankCacheIndex(call.step, layout.count)] =
                              FilledEntry(call.step, layout, call.key, lo, found)]
                      ELSE ranks
        /\ \/ found /\ Enter(lo) /\ UNCHANGED <<call, layout>>
           \/ ~found /\ Return(layout.pos, call.key, FALSE, 0)
  /\ UNCHANGED <<row, generation, layouts>>

\* The checkpoint nearest before the rank, if it lies ahead of the cursor.
CheckpointRank == rank - (rank % Stride)
Ahead == layout.checkpoints /\ rank >= Stride /\ CheckpointRank > cursor.rank

JumpToCheckpoint ==
  /\ pc = "move"
  /\ Ahead
  /\ cursor' = [rank |-> CheckpointRank,
                at |-> ObjectCheckpointAt(layout, (CheckpointRank \div Stride) - 1)]
  /\ UNCHANGED <<row, generation, layouts, ranks, pc, call, layout, lo, hi, rank, answer>>

SkipValue ==
  /\ pc = "move"
  /\ ~Ahead
  /\ cursor.rank < rank
  /\ cursor' = [rank |-> cursor.rank + 1, at |-> SkipValueFast(layout, cursor.at)]
  /\ UNCHANGED <<row, generation, layouts, ranks, pc, call, layout, lo, hi, rank, answer>>

EndMove ==
  /\ pc = "move"
  /\ cursor.rank >= rank
  /\ Return(layout.pos, call.key, TRUE, cursor.at)
  /\ UNCHANGED <<row, generation, layouts, ranks>>

Continue == Probe \/ EndSearch \/ JumpToCheckpoint \/ SkipValue \/ EndMove

Next ==
  \/ \E r \in Row : NextRow(r)
  \/ \E p \in Pos, key \in Key : LocateNoObject(p, key) \/ LocateOnce(p, key)
  \/ \E p \in Pos, step \in Step, key \in Key :
       LocateSearched(p, step, key) \/ LocateHit(p, step, key) \/ LocateMiss(p, step, key)
  \/ Continue

\* A lookup is a loop of its caller's thread: it goes on until it returns.
Spec == Init /\ [][Next]_vars /\ WF_vars(Continue)

----------------------------------------------------------------------------
(* Properties.                                                             *)

\* The variables keep their types, and the ranks stay within the object.
TypeOK ==
  /\ row \in Row \cup {NoObject}
  /\ generation \in Nat
  /\ pc \in {"idle", "search", "move"}
  /\ \A s \in LayoutSlot : layouts[s].generation \in 0 .. generation
  /\ pc = "search" => /\ 0 <= lo /\ lo <= hi /\ hi <= row[layout.pos].count
  /\ pc = "move" => /\ 0 <= cursor.rank /\ cursor.rank <= rank
                    /\ rank < row[layout.pos].count

\* A lookup gives what the row says, whatever the caches remember of earlier
\* rows: the value of the key at this position, or that it has none.
LookupsAreExact ==
  answer.known =>
    IF answer.found
      THEN /\ row[answer.pos] # NoObject
           /\ \E k \in 0 .. row[answer.pos].count - 1 :
                /\ row[answer.pos].key[k] = answer.key
                /\ row[answer.pos].value[k] = answer.at
      ELSE row[answer.pos] # NoObject =>
             \A k \in 0 .. row[answer.pos].count - 1 :
               row[answer.pos].key[k] # answer.key

\* A layout is cached by position, for the row it was read from only: what the
\* layout cache would return now is the layout of this row's object.
LayoutsAreThisRows ==
  row # NoObject =>
    \A p \in Pos : Cached(p) =>
      row[p] # NoObject /\ LayoutAt(p) = ReadObjectLayout(p)

\* A cursor inside an object stands at the beginning of the value it counts,
\* whether it jumped or skipped there.
CursorStandsAtItsRank ==
  pc = "move" => cursor.at = row[layout.pos].value[cursor.rank]

\* What a cached lookup has just learned or confirmed, the same lookup would hit:
\* "the per-expression rank cache that amortizes it across rows".
RepeatsHit ==
  pc = "move" /\ call.cached =>
    Hit(ranks[RankCacheIndex(call.step, layout.count)], call.step, layout, call.key)

\* Every lookup returns: the search's window shrinks and the cursor moves on.
LookupsReturn == pc # "idle" ~> pc = "idle"
=============================================================================
