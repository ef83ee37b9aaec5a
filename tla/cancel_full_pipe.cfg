CHECK_DEADLOCK FALSE
SPECIFICATION FairSpec
CONSTANTS
  Lines = 2
  PipeCap = 2
  MaxScans = 1
  AsyncCancel = {}
PROPERTY
  CancelReturns
