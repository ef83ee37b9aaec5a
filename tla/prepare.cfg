CHECK_DEADLOCK FALSE
SPECIFICATION FairSpec
CONSTANTS
  r = r
  g = g
  Channels = {r, g}
  GainMax = 4
  GainStart = 2
  OffsetLow <- MinusTwo
  OffsetHigh = 1
  LampLow = 0
  LampStart = 1
  LampMax = 4
  LampRounds = 2
  DarkTarget = TRUE
  Types = {"color"}
  Depths = {8, 16}
  MaxDpi = 2
  Devices <- AllDevices
  Faults = {"move", "lamp", "read"}
  MaxScans = 2
  Unsettled = 1
INVARIANTS
  SearchFinds
  RightLight
  EndsHome
  ShadingFits
  FilesAgree
PROPERTIES
  OthersKept
  PrepareEnds
