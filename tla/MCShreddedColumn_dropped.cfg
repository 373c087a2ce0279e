SPECIFICATION Spec
CONSTANTS
  Path <- MCPath
  ArrayPath <- MCArrayPath
  Value <- MCValue
  Fits <- MCFits
  Doc <- MCDoc
  Absent = Absent
  JsonNull = JsonNull
  Skeleton = Skeleton
  Null = Null
  Failure = Failure
  Order <- MCOrder
  WordBits = 3
  MaskOf <- MCMaskOf
  Hash <- MCHash
  Table <- MCTable
  Lanes <- MCLanes
  Scans <- MCScans
  Plans <- MCPlans
  Rounds = 5
  MaxRows = 4
INVARIANT DroppedLanesFail
CHECK_DEADLOCK FALSE
