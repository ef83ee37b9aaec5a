SPECIFICATION Spec
CHECK_DEADLOCK FALSE
CONSTANTS
  h1 = h1
  h2 = h2
  Places = 3
  Model <- Models
  MaxDevices = 2
  Settings <- Order
  Aliens = {3}
  Configs <- FileConfigs
  Handles = {h1, h2}
  MaxInits = 3
  MaxPlugs = 4
  Faults = {"open", "detect"}
  Shared = FALSE
INVARIANTS
  SlotsAccounted
  OneDevicePerScanner
  NoneLeftOut
