CHECK_DEADLOCK FALSE
SPECIFICATION Spec
CONSTANTS
  Setups <- MCSetups
  ULong = 1024
INVARIANTS
  NextLineReady
  NeverDry
  RowsKeepPace
  PlanesKept
PROPERTY
  PictureEnds
