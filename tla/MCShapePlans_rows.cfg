SPECIFICATION Spec
CONSTANTS
  SqlNull = SqlNull
  Nothing = Nothing
  Ways = 2
  Window = 4
  Warmup = 4
  MaxShape = 12
  Casts <- MCCasts
  Queries <- MCQueries
INVARIANTS
  RowsReadAsTheirDocuments
  FailsOnlyOnLostValues
PROPERTIES
  StableTailRecovers
CHECK_DEADLOCK FALSE
