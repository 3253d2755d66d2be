SPECIFICATION Spec
CONSTANTS
    r1 = r1
    r2 = r2
    Slots = {r1, r2}
    NoSlot = none
    Schedule <- ThreeKinds
    SharedStore = FALSE
    StoreMayFail = FALSE
    ApplyMayFail = TRUE
    PersistMayFail = FALSE
    MaxBodies = 3
    MaxCrashes = 1
    MaxReboots = 1
SYMMETRY SlotSymmetry
INVARIANTS
    FreshConfirmedStored
    StateFileKeepsUp
PROPERTIES
    ImplementsPushLedger
