\* The parts stop at their bounds (file changes, faults, restarts), hence no deadlock check.
SPECIFICATION PipelinesSpec
CONSTANTS
    Meteors = {"m"}
    HotDays = 0
    RepollDays = 0
    BootstrapDays = 1
    MaxErrors = 1
    BackoffFactor = 1
    ReadMayFail = FALSE
    LastDay = 1
    MaxEdits = 2
    MaxStops = 1
    Faults = {"disk"}
    GraceOffline = 2
    ResolveDelay = 2
    Cooldown = 2
    Clients = {"c1", "c2"}
    Reader = "c1"
    Answers = {"busy"}
    MaxListeners = 1
    QueueMax = 1
    OfflineAfter = 2
    ArchivedNights = {"hot", "old"}
    HotNights = {"hot"}
    MaxChanges = 2
    MaxFaults = 1
    MaxRestarts = 1
    Handlers = {"p1", "p2"}
    Stations = {"h1", "h2"}
    Seqs = {0, 1, 2}
INVARIANTS
    RecordedIsIndexed
PROPERTIES
    NightsArrive
    LastingProblemIsHeard
    ViewsCatchUp
    EveryCallReturns
CHECK_DEADLOCK FALSE
