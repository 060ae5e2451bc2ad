SPECIFICATION FairSpec
CONSTANTS
  Cmd = {"read", "write"}
  Media <- MCMedia
  Unwatched = {"cd0"}
  Buckets = 2
  Offsets <- MCOffsets
  FrameCap = 2
  MaxIO = 3
INVARIANTS
  TypeOK
  NoTornFrame
  SendNeverBlocks
  EveryIOOnce
PROPERTIES
  ImplementsStream
  StopClosesFrames
  IOIsShown
