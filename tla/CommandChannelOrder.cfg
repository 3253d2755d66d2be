SPECIFICATION Spec
CONSTANTS
    c1 = c1
    c2 = c2
    s1 = s1
    h1 = h1
    h2 = h2
    Commands = {c1, c2}
    Stations = {s1}
    NoStation = none
    Handlers = {h1}
    IssuedKinds = {"plain"}
    MaxTime = 2
    MaxTTL = 1
    MaxCrashes = 1
    ClockSkew <- Behind
SYMMETRY Symmetry
PROPERTIES
    FirstRunsInOrder
