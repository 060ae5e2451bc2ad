SPECIFICATION FairSpec
CONSTANTS
  Process = {p1, p2, p3}
  None = None
INVARIANTS
  TypeOK
  NoOrphan
PROPERTIES
  DisplacedLetsGo
  QuitReturns
