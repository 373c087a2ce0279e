SPECIFICATION Spec
CONSTANTS
  Key <- MCKey
  Pos <- MCPos
  Row <- MCRow
  NoObject = NoObject
  Step = {s1, s2}
  RankSlot = {"only"}
  RankCacheIndex <- MCRankIndex
  LayoutSlot = {"only"}
  LayoutCacheIndex <- MCLayoutIndex
  Stride = 2
  MaxRows = 3
INVARIANTS
  TypeOK
  LookupsAreExact
  LayoutsAreThisRows
  CursorStandsAtItsRank
PROPERTY
  LookupsReturn
