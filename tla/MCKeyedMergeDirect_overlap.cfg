CONSTANTS
  Row = {r1, r2}
  Node = {s1, s2}
  Pending = Pending
  SqlNull = SqlNull
  MaxKey = 1
  Direction = "max"
  Null <- MCNull
  EmptyObject <- MCEmptyObject
  Val <- MCVal
  Doc <- OverlapDoc
  ScalarLane <- OverlappingLanes
  ListLane <- NoLanes
  Fit <- FitOverlapping
  Lifted <- MCLifted
  PartLifted <- MCPartLifted
SYMMETRY RowSymmetry
SPECIFICATION Spec
CHECK_DEADLOCK FALSE
INVARIANTS
  MixedKindsFailLoud
