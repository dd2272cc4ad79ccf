SPECIFICATION Spec
CONSTANTS
  Sector = 2
  Word = 1
  Clusters = {2, 4}
  WideClusters = {4}
  Subclusters = 2
  BitmapBits = 8
  ChunkSectors = 4
  MiB = 4
  Image <- MCImages
  Readers = {r1, r2}
  Slots = 2
  Positions <- MCPositions
  Counts <- MCCounts
  AgeBound = 2
INVARIANTS
  TypeOK
  CachesHoldTheImage
  ReadsTheGuestDisk
  MountedDiskIsMapped
PROPERTIES
  LastUsedTableStays
  ReadsEnd
CHECK_DEADLOCK FALSE
