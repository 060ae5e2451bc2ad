SPECIFICATION FairSpec
CONSTANTS
  Places <- MCPlaces
  Buckets = 1
  FrameCap = 1
  MaxIO = 2
  MaxTicks = 3
INVARIANTS
  TypeOK
  WholeTicks
PROPERTIES
  ImplementsStream
  NeverStalls
  StopsCleanly
