SPECIFICATION Spec
CONSTANTS
    Devices <- TheLiDE25
    AskedDpi <- SomeDpi
    Asked <- SomePositions
    Uses <- SomeUses
    Configured <- SomeSettings
    CarefulClose = TRUE
INVARIANT SourceThere
