CONSTANTS
  Node = {s1, s2}
  MaxRows = 4
  Null <- MCNull
  SqlNull = SqlNull
  Doc <- StableDoc
  Fit <- FitSeparate
SYMMETRY NodeSymmetry
SPECIFICATION Spec
CHECK_DEADLOCK FALSE
INVARIANTS
  ClearBitMeansBareReadIsTrue
  ResultsAreTheLastValues
PROPERTY
  ImplementsPlain
