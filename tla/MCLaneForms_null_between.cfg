SPECIFICATION FormsSpec
CONSTANTS
  one = one
  two = two
  Null = Null
  SqlNull = SqlNull
  Pending = Pending
  Absent = Absent
  Unset = Unset
  Collision = Collision
  MULTISET_STRUCTURAL_MAX = 2
  ArgumentLists <- ThreeShredded
  Arguments <- Anywhere
  Compared <- NoDocuments
  LaneTypes <- NoTypes
INVARIANT
  MergedRowIsThePatchedDocument
CHECK_DEADLOCK FALSE
