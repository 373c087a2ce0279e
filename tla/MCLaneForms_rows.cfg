SPECIFICATION FormsSpec
CONSTANTS
  one = one
  two = two
  Null = Null
  SqlNull = SqlNull
  Pending = Pending
  Absent = Absent
  Unset = Unset
  Collision = Collision
  MULTISET_STRUCTURAL_MAX = 2
  ArgumentLists <- MCArgumentLists
  Arguments <- Followed
  Compared <- MCCompared
  LaneTypes <- MCLaneTypes
INVARIANTS
  MergedRowIsThePatchedDocument
  CopiedLanesReadTrue
  DirectDiffIsThePlainDiff
  ArrayReportsBalance
  PatchingBackGivesTheSecondDocument
CHECK_DEADLOCK FALSE
