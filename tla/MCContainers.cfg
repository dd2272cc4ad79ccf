SPECIFICATION Spec
CONSTANTS
  Deflate <- MCDeflate
  Szdd <- MCSzdd
  Shrink <- MCShrink
  Pack <- MCPack
  Pack2 <- MCPack2
  Lzx <- MCLzx
  Xpress <- MCXpress
  Limits <- MCLimits
  Files <- MCFiles
  FileOf <- MCFileOf
INVARIANTS
  ListsTheFile
  ReadsTheMember
  PackedAsWritten
  OpensAsWhatItIs
  ProbeAgrees
PROPERTIES
  OpeningEnds
