SPECIFICATION Spec
CONSTANTS
    r1 = r1
    r2 = r2
    Slots = {r1, r2}
    NoSlot = none
    Schedule <- OneKind
    SharedStore = FALSE
    StoreMayFail = FALSE
    ApplyMayFail = FALSE
    PersistMayFail = FALSE
    MaxBodies = 3
    MaxCrashes = 0
    MaxReboots = 0
PROPERTIES
    NoStaleOverwrite
