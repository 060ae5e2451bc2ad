SPECIFICATION FSFairSpec
CONSTANTS
  Cmd = {"read", "write"}
  Media <- MCMedia
  Unwatched = {"disk4"}
  Buckets = 2
  Offsets <- MCOffsets
  FrameCap = 1
  MaxIO = 2
  Sector <- MCSector
  WholeDisk <- MCWholeDisk
  Lines <- MCLines
  MaxLines = 2
INVARIANTS
  FSTypeOK
PROPERTIES
  UsesAccumulator
  AllStops
