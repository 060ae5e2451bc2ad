SPECIFICATION Spec
CONSTANTS
  Process = {p1, p2}
  None = None
PROPERTIES
  TakeoverHolds
