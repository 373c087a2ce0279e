SPECIFICATION AnySpec
CONSTANTS
  Row = {r1, r2, r3}
  Node = {s1, s2}
  Pending = Pending
  SqlNull = SqlNull
  MaxKey = 2
  Direction = "min"
  Null <- MCNull
  EmptyObject <- MCEmptyObject
  Val <- MCVal
  Doc <- MCDoc
  Zero = 1
  Base = 2
  MaxNumber = 5
  InlineLength = 2
  Buffers <- MCBuffers
  Keys <- MCKeys
  EmptyKey = ""
  Fits <- MCFits
  MaxDepth = 2
  MaxPaths = 3
  Scale = 2
  Calls <- MCCalls
  Arguments <- MCArguments
SYMMETRY RowSymmetry
CHECK_DEADLOCK FALSE
INVARIANTS
  LeavesAreTheWinners
  MixedKindsFailAlone
  OrderIndependent
  StatesStandForTheirRows
  BuffersBelongToOneState
  FailsOnlyOverTheCap
  SuggestedLanesHoldTheirShare
PROPERTY
  ImplementsPromise
