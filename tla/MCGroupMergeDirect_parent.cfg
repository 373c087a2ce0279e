CONSTANTS
  Node = {s1, s2}
  MaxRows = 3
  Null <- MCNull
  SqlNull = SqlNull
  Doc <- ParentDoc
  Fit <- FitSeparate
SYMMETRY NodeSymmetry
SPECIFICATION Spec
CHECK_DEADLOCK FALSE
PROPERTY
  ImplementsPlain
