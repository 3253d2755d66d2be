SPECIFICATION Spec
CONSTANTS
    r1 = r1
    r2 = r2
    Slots = {r1, r2}
    NoSlot = none
    Schedule <- TwoKinds
    SharedStore = TRUE
    StoreMayFail = TRUE
    ApplyMayFail = FALSE
    PersistMayFail = TRUE
    MaxBodies = 2
    MaxCrashes = 1
    MaxReboots = 0
PROPERTIES
    SpoolDrains
