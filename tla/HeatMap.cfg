SPECIFICATION FairSpec
CONSTANTS
  Buckets = 3
  Watches <- MCWatches
  Frames <- MCFrames
  MaxRate = 16
  Keep <- MCKeep
  Floor = 2
  TrailFull = 3
  TrailKeep <- MCTrailKeep
  TrailFloor = 1
  Thresholds <- MCThresholds
  MaxThreshold = 12
  Shades = 7
  Colors = {"truecolor", "256", "16", "off"}
  MapSizes = {2, 5}
INVARIANTS
  TypeOK
  PeakIsBusiest
  ActivityIsSeen
PROPERTIES
  QuietGoesDark
