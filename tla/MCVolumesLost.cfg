SPECIFICATION Spec
CONSTANTS
  LowerCase <- MCLowerCase
  NameRank <- MCNameRank
  HfsGuard = 6
  Disks = {63}
  VolumeOf <- MCLost
INVARIANTS
  ReadsTheGuest
