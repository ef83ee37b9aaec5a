SPECIFICATION FairSpec
CONSTANTS
  h1 = h1
  Handles = {h1}
  None = None
  MaxProcs = 4
  Faults = {}
INVARIANTS
  KnownCalibration
  OneProcess
  ScNamesTheCalibrating
PROPERTY
  StartReturns
