SPECIFICATION FairSpec
CONSTANTS
    p1 = p1
    p2 = p2
    Proc <- TwoProcesses
    Mortal <- OneMortal
    Tries = 2
    EmptyPid = {"other"}
    Uses = {"attach", "button", "shutdown"}
    AlarmAt <- SomeAlarms
    Faults = {"probe", "late", "pipe"}
CHECK_DEADLOCK FALSE
INVARIANTS Exclusion LockIsKept NothingHeldIdle ScanIsLit
PROPERTIES NeverLeftLit CallsReturn
