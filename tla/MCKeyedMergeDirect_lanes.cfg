CONSTANTS
  Row = {r1, r2, r3}
  Node = {s1, s2}
  Pending = Pending
  SqlNull = SqlNull
  MaxKey = 1
  Direction = "max"
  Null <- MCNull
  EmptyObject <- MCEmptyObject
  Val <- MCVal
  Doc <- ObjectDoc
  ScalarLane <- SeparateLanes
  ListLane <- ListLanes
  Fit <- FitSeparate
  Lifted <- MCLifted
  PartLifted <- MCPartLifted
SYMMETRY RowSymmetry
SPECIFICATION Spec
CHECK_DEADLOCK FALSE
INVARIANTS
  TreeAndLanesHoldTheWinners
  SpillBitsTellTheTruth
PROPERTY
  ImplementsPromise
