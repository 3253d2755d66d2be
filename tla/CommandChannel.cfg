SPECIFICATION Spec
CONSTANTS
    c1 = c1
    c2 = c2
    s1 = s1
    h1 = h1
    h2 = h2
    Commands = {c1}
    Stations = {s1}
    NoStation = none
    Handlers = {h1, h2}
    IssuedKinds = {"plain", "self_restart", "unverifiable"}
    MaxTime = 2
    MaxTTL = 1
    MaxCrashes = 2
    ClockSkew <- Behind
INVARIANTS
    AckedWasHandled
    OncePerBoot
    ExpiredRunsOnceAtMost
PROPERTIES
    SettledRowsStay
    ImplementsLedger
    PendingSettles
