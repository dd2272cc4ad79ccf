SPECIFICATION Spec
CONSTANTS
  Byte <- MCByte
  Stores <- MCHoles
  RawSector = 4
  UserSector = 2
  IntMax = 7
  Positions = {0, 1, 2, 3}
  Counts = {1, 2, 4}
INVARIANTS
  RangeHolds
