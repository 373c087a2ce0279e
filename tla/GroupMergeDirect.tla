--------------------------- MODULE GroupMergeDirect ---------------------------
(***************************************************************************)
(* jsono_group_merge(value ORDER BY key) over shredded JSONO.              *)
(*                                                                         *)
(* Rows are folded without being reconstructed: a state keeps a residual   *)
(* document and a slot per lane with the latest lane value.  A lane that   *)
(* is adopted deletes its path from the residual; what the residual holds  *)
(* later wins over the slot when the result is written.                    *)
(***************************************************************************)
EXTENDS ShreddedRow

CONSTANTS
  Fit,       \* the row type: per lane, the values it holds
  Doc, MaxRows, Node

Lane == DOMAIN Fit

ASSUME LaneAssumption == RowType(Fit)

ASSUME DocAssumption ==
  /\ \A d \in Doc : IsDocument(d) /\ d = [p \in DOMAIN d |-> d[p]]
  /\ MaxRows \in Nat

VARIABLES
  rows,      \* the ordered rows of the group, as documents
  direct,    \* DirectShreddedAcc per state
  written,   \* the document Finalize would write for a state now
  span       \* history: the run of rows first .. next - 1 a state stands for

vars == <<rows, direct, written, span>>

EmptyAcc == [kind |-> "Empty", residual |-> EmptyObject, slot |-> <<>>]

-----------------------------------------------------------------------------

\* Wrong: the residual keeps what it has.
ShadowDeleteNothing(residual, path) == residual

\* The residual without what would win over a lane just adopted at path: the
\* value there, or the first leaf above it.
DirectShadowDeletePath(residual, path) ==
  LET found == ClassifyResidualPath(residual, path)
  IN IF found.outcome = "Absent"
     THEN residual
     ELSE MergeTwoObjects(residual,
            Chain(SubSeq(path, 1, found.depth), Null), "Patch")

\* The slots take over lane values, each one clearing its path.  What one of the
\* deletions takes away the others do not look at, so their order is no matter.
AdoptLanes(acc, lane) ==
  [kind |-> acc.kind,
   slot |-> [l \in DOMAIN acc.slot \cup DOMAIN lane |->
              IF l \in DOMAIN lane THEN lane[l] ELSE acc.slot[l]],
   residual |-> Restrict(acc.residual,
                  {p \in DOMAIN acc.residual : \A l \in DOMAIN lane :
                     p \in DOMAIN DirectShadowDeletePath(acc.residual, l)})]

\* A value that is not an object takes the place of all before it.
Replaced(residual) ==
  [kind |-> "NonObject", residual |-> residual, slot |-> <<>>]

DirectFoldRow(acc, row) ==
  IF ~IsObject(row.residual)
  THEN Replaced(row.residual)
  ELSE IF acc.kind # "Object"
  THEN AdoptLanes([kind |-> "Object",
                   residual |-> Strip(row.residual, "IgnoreNulls"),
                   slot |-> <<>>], row.lane)
  ELSE AdoptLanes([acc EXCEPT !.residual =
                     MergeTwoObjects(@, row.residual, "IgnoreNulls")], row.lane)

\* Wrong: the lanes of the source are adopted whatever its residual holds.
DirectFoldStateAll(target, source) ==
  IF source.kind = "Empty"
  THEN target
  ELSE IF source.kind = "NonObject" \/ target.kind # "Object"
  THEN source
  ELSE AdoptLanes([target EXCEPT !.residual =
                     MergeTwoObjects(@, source.residual, "IgnoreNulls")], source.slot)

\* A source is folded as one later value.  Its slots count where its own
\* residual leaves their path free.
DirectFoldState(target, source) ==
  IF source.kind = "Empty"
  THEN target
  ELSE IF source.kind = "NonObject" \/ target.kind # "Object"
  THEN source
  ELSE AdoptLanes([target EXCEPT !.residual =
                     MergeTwoObjects(@, source.residual, "IgnoreNulls")],
                  Restrict(source.slot,
                    {l \in DOMAIN source.slot :
                       ClassifyResidualPath(source.residual, l).outcome = "Absent"}))

\* Wrong: a value in the residual sets no bit.
FinalizedUnspilled(acc) ==
  LET at(l) == ClassifyResidualPath(acc.residual, l).outcome
  IN [residual |-> acc.residual,
      lane |-> Restrict(acc.slot, {l \in DOMAIN acc.slot : at(l) = "Absent"}),
      spilled |-> {}]

\* The result row of a state: a slot is written where the residual leaves its
\* path free, a value there sets the spill bit, a leaf above it drops the slot.
Finalized(acc) ==
  LET at(l) == ClassifyResidualPath(acc.residual, l).outcome
  IN [residual |-> acc.residual,
      lane |-> Restrict(acc.slot, {l \in DOMAIN acc.slot : at(l) = "Absent"}),
      spilled |-> {l \in Lane : at(l) = "Present"}]

Value(acc) == IF acc.kind = "Empty" THEN SqlNull ELSE Reconstruct(Finalized(acc))

-----------------------------------------------------------------------------

Init ==
  /\ rows \in UNION {[1 .. n -> Doc \cup {SqlNull}] : n \in 0 .. MaxRows}
  /\ direct = [s \in Node |-> EmptyAcc]
  /\ written = [s \in Node |-> SqlNull]
  /\ \E start \in [Node -> 1 .. Len(rows) + 1] :
       span = [s \in Node |-> [first |-> start[s], next |-> start[s]]]

SkipNullRow(s) ==
  /\ span[s].next <= Len(rows)
  /\ rows[span[s].next] = SqlNull
  /\ span' = [span EXCEPT ![s].next = @ + 1]
  /\ UNCHANGED <<rows, direct, written>>

Update(s) ==
  /\ span[s].next <= Len(rows)
  /\ rows[span[s].next] # SqlNull
  /\ direct' = [direct EXCEPT ![s] = DirectFoldRow(@, Shred(Fit, rows[span[s].next]))]
  /\ written' = [written EXCEPT ![s] = Value(direct'[s])]
  /\ span' = [span EXCEPT ![s].next = @ + 1]
  /\ UNCHANGED rows

Combine(source, target) ==
  /\ source # target
  /\ span[target].next = span[source].first
  /\ direct' = [direct EXCEPT ![target] = DirectFoldState(@, direct[source])]
  /\ written' = [written EXCEPT ![target] = Value(direct'[target])]
  /\ span' = [span EXCEPT ![target].next = span[source].next]
  /\ UNCHANGED rows

Next ==
  \/ \E s \in Node : SkipNullRow(s) \/ Update(s)
  \/ \E source, target \in Node : Combine(source, target)

Spec == Init /\ [][Next]_vars

-----------------------------------------------------------------------------
(* Properties. *)

\* "Finalize decides per lane whether a bare read is the answer": a lane whose
\* spill bit is clear reads bare in the row a state would write, and in every
\* input row, which gives back its document whole.
ClearBitMeansBareReadIsTrue ==
  /\ \A s \in Node : direct[s].kind # "Empty" => ClearBitsAreTrue(Lane, Finalized(direct[s]))
  /\ \A i \in DOMAIN rows : rows[i] # SqlNull =>
       ClearBitsAreTrue(Lane, Shred(Fit, rows[i])) /\ Reconstruct(Shred(Fit, rows[i])) = rows[i]

\* "The direct accumulator must produce byte-identical results to folding the
\* same documents as plain JSONO", step by step and for every combine.
Plain == INSTANCE GroupMerge WITH acc <- written
ImplementsPlain == Plain!Spec

\* Whatever the association of the combines, over objects the result is the fold
\* of the rows in their order, and that is the last value of every path.
ResultsAreTheLastValues == Plain!PartialsMatchTheFold /\ Plain!LastValuePerPath
=============================================================================
