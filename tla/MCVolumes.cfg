SPECIFICATION Spec
CONSTANTS
  LowerCase <- MCLowerCase
  NameRank <- MCNameRank
  HfsGuard = 6
  Disks <- MCDisks
  VolumeOf <- MCVolumeOf
INVARIANTS
  ListsTheGuest
  ReadsTheGuest
  NothingTwice
  PartsOnTheDisk
PROPERTIES
  WalksEnd
