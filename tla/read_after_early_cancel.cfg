CHECK_DEADLOCK FALSE
SPECIFICATION FairSpec
CONSTANTS
  Lines = 1
  PipeCap = 2
  MaxScans = 1
  AsyncCancel = {}
PROPERTY
  EveryReadReturns
