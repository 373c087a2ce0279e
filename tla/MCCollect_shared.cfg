SPECIFICATION Spec
CONSTANTS
  s1 = s1
  s2 = s2
  s3 = s3
  nullKey = nullKey
  sqlNull = sqlNull
  jsonNull = jsonNull
  ka = ka
  kb = kb
  v1 = v1
  State <- MCState
  Row <- MCRow
  Element <- MCElement
  NullKey = nullKey
  SqlNull = sqlNull
  JsonNull = jsonNull
  RefBytes = 1
  MaxRefs = 3
SYMMETRY StateSymmetry
INVARIANTS
  TypeOK
  ArraysAreThePromised
  ObjectsAreThePromised
  MemoryIsAccounted
PROPERTIES
  ImplementsPromise
  KeptSourcesKeepTheirElements
CHECK_DEADLOCK FALSE
