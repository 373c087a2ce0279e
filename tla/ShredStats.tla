----------------------------- MODULE ShredStats -----------------------------
(***************************************************************************)
(* jsono_shred_stats(column): of the rows of a scan, how many hold a lane's *)
(* value in the lane and how many diverted it into the residual.  The      *)
(* counters of states are added, so the order of rows and states is not    *)
(* told apart.                                                             *)
(***************************************************************************)
EXTENDS ShreddedColumn

NonNullRows(S) == {r \in InScan(S) : r.doc # Null}

(* The reader verifies the whole manifest of every row.                    *)
StatsFail(S) == \E r \in NonNullRows(S) : ~Carried(ScanLanes(S), r)

SpillBit(L, r, p) ==
  r.spill[WordOf(L, p)] # Null /\ BitOf(L, p) \in r.spill[WordOf(L, p)]

(* Is there a value at p in the residual?  An explicit null is one for an  *)
(* array lane only.                                                        *)
InResidual(r, p) ==
  r.residual[p] # Absent /\ (p \in ArrayPath \/ r.residual[p] # JsonNull)

(* Wrong: the bit is read whatever shred set numbered it.                  *)
DivertedByBit(L, r, p) ==
  /\ r.lane[p] = Null
  /\ IF p \notin ArrayPath /\ WordOf(L, p) \in Words(L) THEN SpillBit(L, r, p) ELSE InResidual(r, p)

(* The spill bit says so on a row stamped for this type, the residual on   *)
(* any other; an array lane has no bit.                                    *)
Diverted(L, r, p) ==
  /\ r.lane[p] = Null
  /\ IF p \notin ArrayPath /\ Identity(L, r) /\ WordOf(L, p) \in Words(L)
     THEN SpillBit(L, r, p)
     ELSE InResidual(r, p)

LanePresent(S, p) == {r \in NonNullRows(S) : r.lane[p] # Null}
Divert(S, p) == {r \in NonNullRows(S) : Diverted(ScanLanes(S), r, p)}

(* The rows whose document has a value the lane is there for.              *)
Wanting(S, p) ==
  {r \in NonNullRows(S) : r.doc[p] # Absent /\ (p \in ArrayPath \/ r.doc[p] # JsonNull)}

(* A raw cast has dropped the spill column of lane p from a row that kept  *)
(* the lane: the marker is dirty, and the word NULL.                       *)
WordLost(L, r, p) == r.set = Dirty(L) /\ r.spill[WordOf(L, p)] = Null

(* Nothing that counts lane p of row r was lost on the way.                *)
Countable(L, r, p) == p \notin r.lost /\ (p \in ArrayPath \/ ~WordLost(L, r, p))

(* The two counters of a lane divide among them the rows with a value at   *)
(* its path: no value is missed and no row without one is counted,         *)
(* whichever inserts, reshreds and raw casts brought the rows, unless the  *)
(* statistics fail or a raw cast had dropped the lane or its spill column. *)
StatsCountTheDocuments ==
  \A S \in Scans : ~StatsFail(S) =>
    \A p \in ScanLanes(S) :
      (\A r \in NonNullRows(S) : Countable(ScanLanes(S), r, p)) =>
        LanePresent(S, p) \cup Divert(S, p) = Wanting(S, p)
=============================================================================
