--------------------------- MODULE KeyedMergeDirect ---------------------------
(***************************************************************************)
(* jsono_group_merge_max / _min over shredded JSONO.                       *)
(*                                                                         *)
(* A shredded row is a residual document plus typed lanes for the shredded *)
(* paths.  The direct path folds the residual into the merge tree and each *)
(* lane value into a lane slot of the state, and only Finalize brings the  *)
(* two together: it writes result lanes from the slots and the tree,       *)
(* leaves the rest in the result's residual, and sets the spill bit of a   *)
(* scalar lane whose path holds a value the lane does not.  A chunk with a *)
(* list lane that was not lifted whole is folded as plain documents into   *)
(* the same state.                                                         *)
(***************************************************************************)
EXTENDS KeyedRows

CONSTANTS
  Pending,
  ScalarLane,   \* paths shredded into a scalar lane
  ListLane,     \* root members shredded into a list-of-scalars lane
  Fit,          \* per scalar lane, the values its type holds exactly
  Lifted,       \* arrays a list lane holds whole
  PartLifted    \* arrays some element of which stays behind in the residual

\* "Root '$' paths cannot be shredded"; lists are shredded at the root's members.
ASSUME LaneAssumption ==
  /\ ScalarLane \cup ListLane \subseteq Path \ {<<>>}
  /\ ScalarLane \cap ListLane = {}
  /\ \A l \in ListLane : Len(l) = 1
  /\ Fit \in [ScalarLane -> SUBSET (Val \ {Null, EmptyObject})]
  /\ Lifted \cup PartLifted \subseteq Val \ {Null, EmptyObject}
  /\ Lifted \cap PartLifted = {}

\* A result row: its residual, its lanes, and the lanes that diverted a value.
ValueMap == UNION {[S -> Val] : S \in SUBSET Path}
ResultRow ==
  [obj : BOOLEAN, leaf : ValueMap, lane : ValueMap, spilled : SUBSET ScalarLane]

ASSUME ResultAssumption == Pending \notin ResultRow /\ SqlNull \notin ResultRow

VARIABLES table, state, out, failed, fed

vars == <<table, state, out, failed, fed>>

Lane == ScalarLane \cup ListLane

EmptyState ==
  [has_input |-> FALSE, obj |-> TRUE, leaf |-> [p \in {} |-> 0],
   scalar |-> [l \in {} |-> 0], list |-> [l \in {} |-> 0], lanes_made |-> FALSE]

-----------------------------------------------------------------------------
(* Shredded rows. *)

\* A lane takes a leaf its type holds; everything else stays in the residual,
\* and so does a document whose root is not an object.
ScalarManifest(d) ==
  IF d.obj THEN {l \in ScalarLane \cap DOMAIN d.leaf : d.leaf[l] \in Fit[l]} ELSE {}

ListManifest(d) ==
  IF d.obj
  THEN {l \in ListLane \cap DOMAIN d.leaf : d.leaf[l] \in Lifted \cup PartLifted}
  ELSE {}

CompleteLists(d) == \A l \in ListManifest(d) : d.leaf[l] \in Lifted

LaneValues(row, lanes) ==
  [l \in lanes |-> [key |-> SortKey(row.key), val |-> row.doc.leaf[l]]]

\* The residual without its stripped leaves.  The skeleton a list lane leaves
\* behind is among the root keys the direct fold skips.
Residual(row) ==
  Restrict(Incoming(row),
           Surviving(row.doc) \ (ScalarManifest(row.doc) \cup ListManifest(row.doc)))

-----------------------------------------------------------------------------
(* Folding and combining. *)

AbsorbTree(st, obj, leaf) ==
  IF st.has_input
  THEN [st EXCEPT !.leaf = MergeLeaves(@, leaf)]
  ELSE [st EXCEPT !.has_input = TRUE, !.obj = obj, !.leaf = leaf]

\* Wrong: one lane that has lost is enough to skip them all.
CanSkipAnyLost(st, row) ==
  /\ st.lanes_made
  /\ \E l \in ScalarManifest(row.doc) :
       l \in DOMAIN st.scalar /\ st.scalar[l].key > SortKey(row.key)

\* The scalar lanes of a row are skipped when each has already lost by its key.
CanSkipScalars(st, row) ==
  LET lanes == ScalarManifest(row.doc)
  IN /\ st.lanes_made
     /\ lanes # {}
     /\ \A l \in lanes : l \in DOMAIN st.scalar /\ st.scalar[l].key > SortKey(row.key)

AbsorbDirect(st, row) ==
  LET folded == AbsorbTree(st, row.doc.obj, Residual(row))
  IN [folded EXCEPT
        !.lanes_made = @ \/ Lane # {},
        !.list = MergeLeaves(@, LaneValues(row, ListManifest(row.doc))),
        !.scalar = IF CanSkipScalars(st, row)
                   THEN @
                   ELSE MergeLeaves(@, LaneValues(row, ScalarManifest(row.doc)))]

\* Wrong: the list lanes of the source are left behind.
AbsorbStateScalars(target, source) ==
  [AbsorbTree(target, source.obj, source.leaf) EXCEPT
     !.lanes_made = @ \/ source.lanes_made,
     !.scalar = MergeLeaves(@, source.scalar)]

AbsorbState(target, source) ==
  [AbsorbTree(target, source.obj, source.leaf) EXCEPT
     !.lanes_made = @ \/ source.lanes_made,
     !.scalar = MergeLeaves(@, source.scalar),
     !.list = MergeLeaves(@, source.list)]

-----------------------------------------------------------------------------
(* Finalizing. *)

HoldsObjectAt(st, l) == \E q \in DOMAIN st.leaf : IsStrictPrefix(l, q)
HoldsLeafAbove(st, l) == \E q \in DOMAIN st.leaf : IsStrictPrefix(q, l)

FinalizeConflict(st) ==
  \/ st.lanes_made /\ ~st.obj
  \/ \E l \in DOMAIN st.scalar : HoldsObjectAt(st, l) \/ HoldsLeafAbove(st, l)
  \/ \E l \in DOMAIN st.list : HoldsObjectAt(st, l)

\* A slot wins over the tree's leaf unless that leaf beats it.
Prevails(slots, st, l) ==
  l \in DOMAIN slots /\ (l \in DOMAIN st.leaf => ~Beats(st.leaf[l], slots[l]))

ScalarSlotWins(st) == {l \in ScalarLane : Prevails(st.scalar, st, l)}
ListSlotWins(st) == {l \in ListLane : Prevails(st.list, st, l)}

\* A leaf of the tree that fits its lane moves there, one that does not, and an
\* object, stay in the residual with the lane's spill bit set.
Reshredded(st) ==
  {l \in (ScalarLane \cap DOMAIN st.leaf) \ ScalarSlotWins(st) : st.leaf[l].val \in Fit[l]}

\* Wrong: an object at a lane's path sets no bit.
DivertedLeaves(st) ==
  {l \in ScalarLane \ (ScalarSlotWins(st) \cup Reshredded(st)) :
     l \in DOMAIN st.leaf /\ st.leaf[l].val # Null}

Diverted(st) ==
  {l \in ScalarLane \ (ScalarSlotWins(st) \cup Reshredded(st)) :
     \/ l \in DOMAIN st.leaf /\ st.leaf[l].val # Null
     \/ HoldsObjectAt(st, l)}

ValuesOf(leaves, paths) == [p \in paths |-> leaves[p].val]

\* One map of values laid over another.
Overlay(top, bottom) ==
  [p \in DOMAIN top \cup DOMAIN bottom |-> IF p \in DOMAIN top THEN top[p] ELSE bottom[p]]

\* The result row: residual, lanes, and the lanes whose spill bit is set.
Finalized(st) ==
  IF ~st.has_input
  THEN SqlNull
  ELSE IF ~st.obj
  THEN [obj |-> FALSE, leaf |-> ValuesOf(st.leaf, DOMAIN st.leaf),
        lane |-> [l \in {} |-> 0], spilled |-> {}]
  ELSE [obj |-> TRUE,
        leaf |-> ValuesOf(st.leaf, DOMAIN st.leaf \ (ScalarSlotWins(st)
                                     \cup Reshredded(st) \cup ListSlotWins(st))),
        lane |-> Overlay(ValuesOf(st.scalar, ScalarSlotWins(st)),
                         Overlay(ValuesOf(st.leaf, Reshredded(st)),
                                 ValuesOf(st.list, ListSlotWins(st)))),
        spilled |-> Diverted(st)]

\* What a whole-value read makes of a result row: the lanes are laid over the
\* residual, which is authoritative; of two lanes on one branch, the upper.
Reconstruct(result) ==
  IF result \in {Pending, SqlNull}
  THEN result
  ELSE LET lanes == DOMAIN result.lane
           shown == {l \in lanes : \A q \in DOMAIN result.leaf \cup lanes :
                       /\ ~IsStrictPrefix(q, l)
                       /\ q \in DOMAIN result.leaf =>
                            q # l /\ ~IsStrictPrefix(l, q)}
       IN [obj |-> result.obj, leaf |-> Overlay(result.leaf, Restrict(result.lane, shown))]

-----------------------------------------------------------------------------
(* The aggregate's steps. *)

Running(s) == ~failed /\ out[s] = Pending

Fail ==
  /\ failed' = TRUE
  /\ UNCHANGED <<table, state, out, fed>>

Init ==
  /\ table \in [Row -> TableRow]
  /\ state = [s \in Node |-> EmptyState]
  /\ out = [s \in Node |-> Pending]
  /\ failed = FALSE
  /\ fed = [s \in Node |-> {}]

SkipNullRow(s, r) ==
  /\ Running(s)
  /\ table[r].doc = SqlNull
  /\ fed' = [fed EXCEPT ![s] = @ \cup {r}]
  /\ UNCHANGED <<table, state, out, failed>>

FoldDirect(s, r) ==
  /\ Running(s)
  /\ table[r].doc # SqlNull
  /\ CompleteLists(table[r].doc)
  /\ ~Conflicts(state[s], table[r].doc.obj, Residual(table[r]))
  /\ state' = [state EXCEPT ![s] = AbsorbDirect(@, table[r])]
  /\ fed' = [fed EXCEPT ![s] = @ \cup {r}]
  /\ UNCHANGED <<table, out, failed>>

FoldDirectConflict(s, r) ==
  /\ Running(s)
  /\ table[r].doc # SqlNull
  /\ CompleteLists(table[r].doc)
  /\ Conflicts(state[s], table[r].doc.obj, Residual(table[r]))
  /\ Fail

\* A chunk with an incomplete list lane is reconstructed and folded whole, the
\* complete rows of that chunk included.
FoldReconstructed(s, r) ==
  /\ ListLane # {}
  /\ Running(s)
  /\ table[r].doc # SqlNull
  /\ ~Conflicts(state[s], table[r].doc.obj, Incoming(table[r]))
  /\ state' = [state EXCEPT ![s] = AbsorbTree(@, table[r].doc.obj, Incoming(table[r]))]
  /\ fed' = [fed EXCEPT ![s] = @ \cup {r}]
  /\ UNCHANGED <<table, out, failed>>

FoldReconstructedConflict(s, r) ==
  /\ ListLane # {}
  /\ Running(s)
  /\ table[r].doc # SqlNull
  /\ Conflicts(state[s], table[r].doc.obj, Incoming(table[r]))
  /\ Fail

Combine(source, target, destructive) ==
  /\ Running(source)
  /\ Running(target)
  /\ source # target
  /\ state[source].has_input =>
       ~Conflicts(state[target], state[source].obj, state[source].leaf)
  /\ state' =
       IF state[source].has_input
       THEN [state EXCEPT ![target] = AbsorbState(@, state[source]),
                          ![source] = IF destructive THEN EmptyState ELSE @]
       ELSE state
  /\ fed' = [fed EXCEPT ![target] = @ \cup fed[source],
                        ![source] = IF destructive THEN {} ELSE @]
  /\ UNCHANGED <<table, out, failed>>

CombineConflict(source, target) ==
  /\ Running(source)
  /\ Running(target)
  /\ source # target
  /\ state[source].has_input
  /\ Conflicts(state[target], state[source].obj, state[source].leaf)
  /\ Fail

Finalize(s) ==
  /\ Running(s)
  /\ ~FinalizeConflict(state[s])
  /\ out' = [out EXCEPT ![s] = Finalized(state[s])]
  /\ UNCHANGED <<table, state, failed, fed>>

FinalizeFails(s) ==
  /\ Running(s)
  /\ FinalizeConflict(state[s])
  /\ Fail

Next ==
  \/ \E s \in Node, r \in Row :
       \/ SkipNullRow(s, r)
       \/ FoldDirect(s, r)
       \/ FoldDirectConflict(s, r)
       \/ FoldReconstructed(s, r)
       \/ FoldReconstructedConflict(s, r)
  \/ \E source, target \in Node, destructive \in BOOLEAN :
       Combine(source, target, destructive)
  \/ \E source, target \in Node : CombineConflict(source, target)
  \/ \E s \in Node : Finalize(s) \/ FinalizeFails(s)

Spec == Init /\ [][Next]_vars

-----------------------------------------------------------------------------
(* Properties. *)

LiveRows(s) == {r \in fed[s] : table[r].doc # SqlNull}

\* Between the tree and the lane slots no row's leaf is lost: at every path the
\* better of the two is the winner among all the rows that reached the state,
\* whichever of them took the direct path and whichever was reconstructed.
TreeAndLanesHoldTheWinners ==
  \A s \in Node :
    LET held == MergeLeaves(state[s].leaf,
                            MergeLeaves(state[s].scalar, state[s].list))
    IN /\ DOMAIN held = UNION {Surviving(table[r].doc) : r \in LiveRows(s)}
       /\ \A r \in LiveRows(s) : \A p \in Surviving(table[r].doc) :
            ~Beats(Incoming(table[r])[p], held[p])

\* A spill bit tells the truth of its scalar lane.  Clear, the lane may be read
\* bare: a value in it is the document's there, and an empty one means that the
\* path is absent.  Set, the lane is empty and the residual has the path.
SpillBitsTellTheTruth ==
  \A s \in Node : out[s] \notin {Pending, SqlNull} =>
    LET doc == Reconstruct(out[s])
    IN \A l \in ScalarLane :
         IF l \in out[s].spilled
         THEN /\ l \notin DOMAIN out[s].lane
              /\ \E p \in DOMAIN out[s].leaf : p = l \/ IsStrictPrefix(l, p)
         ELSE IF l \in DOMAIN out[s].lane
         THEN l \in DOMAIN doc.leaf /\ doc.leaf[l] = out[s].lane[l]
         ELSE \A p \in DOMAIN doc.leaf : p # l /\ ~IsStrictPrefix(l, p)

\* "An object<->leaf change at the same path fails loud": no result is produced
\* from rows that disagree on the kind of a path.
MixedKindsFailLoud ==
  \A s \in Node : out[s] # Pending =>
    \A r1, r2 \in fed[s] : ~Clash(table[r1], table[r2])

\* The shredded aggregate keeps the promise of the plain one: its results,
\* reconstructed, are the aggregates of the rows.
Promise == INSTANCE KeyedAggregate
             WITH out <- [s \in Node |-> Reconstruct(out[s])]
ImplementsPromise == Promise!Spec
=============================================================================
