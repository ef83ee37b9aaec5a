CHECK_DEADLOCK FALSE
SPECIFICATION Spec
CONSTANTS
  Setups <- MCGbrSetups
  ULong = 1024
INVARIANT
  PlanesKept
