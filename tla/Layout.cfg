SPECIFICATION Spec
CONSTANTS
  Devices = 5
  Widths <- MCWidths
  Heights <- MCHeights
  ColumnsAsked <- MCColumnsAsked
  MinWidth = 6
  MinHeight = 8
  MinPaneWidth = 6
  MinPaneHeight = 5
  HeaderRows <- MCHeaderRows
  HalfBlocks = TRUE
  Buckets = 48
INVARIANTS
  TypeOK
  PanesTile
  EveryDeviceIsDrawn
  MapShowsDevice
