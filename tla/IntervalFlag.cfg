SPECIFICATION Spec
CONSTANTS
  CommandLines <- MCCommandLines
  Lines <- MCLines
  Default <- MCDefault
  Good = {"auto", "16", "256", "fixed"}
  Garbage = Garbage
  MinBuckets = 4
  MaxBuckets = 32
  Terminals <- MCTerminals
  MaxLines = 2
INVARIANTS
  IntervalFlagBeatsFile
