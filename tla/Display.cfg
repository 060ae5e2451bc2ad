SPECIFICATION DisplayFairSpec
CONSTANTS
  FrameCap = 2
  MayDrop = TRUE
  MaxIO = 3
INVARIANTS
  TypeOK
  TotalsAddUp
  LetGoBeforeExit
PROPERTIES
  AppliedInOrder
  FailureStays
  EndIsTold
  RunEnds
