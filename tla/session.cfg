CHECK_DEADLOCK FALSE
SPECIFICATION EagerSpec
CONSTANTS
  Lines = 2
  PipeCap = 2
  MaxScans = 2
  AsyncCancel = {"read", "start"}
INVARIANTS
  ReaderHoldsDevice
  SessionCleared
PROPERTIES
  CancelSparesOwnGroup
  ImplementsSaneHandle
  CancelReturnsUnlessBlocked
  ReadReturns
  ScanEnds
