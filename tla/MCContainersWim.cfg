SPECIFICATION Spec
CONSTANTS
  Deflate <- MCDeflate
  Szdd <- MCSzdd
  Shrink <- MCShrink
  Pack <- MCPack
  Pack2 <- MCPack2
  Lzx <- MCLzx
  Xpress <- MCXpress
  Limits <- MCLimits
  Files <- MCWimFiles
  FileOf <- MCFileOf
INVARIANTS
  ReadsTheMember
