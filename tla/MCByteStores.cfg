SPECIFICATION Spec
CONSTANTS
  Byte <- MCByte
  Stores <- MCStores
  RawSector = 4
  UserSector = 2
  IntMax = 7
  Positions <- MCPositions
  Counts <- MCCounts
INVARIANTS
  TypeOK
  NeverOverruns
  NeverMisplaced
  AnswersWhenItHolds
  IntactRangeHolds
PROPERTIES
  ReadEnds
