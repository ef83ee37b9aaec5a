SPECIFICATION Spec
CONSTANTS
    Devices <- ThreeDevices
    AskedDpi <- SomeDpi
    Asked <- SomePositions
    Uses <- SomeUses
    Configured <- SomeSettings
    CarefulClose = TRUE
INVARIANTS ActiveFits ValuesInRange ParamsHold UsedAsShown
PROPERTY ChangesTold
