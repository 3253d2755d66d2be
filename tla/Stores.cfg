\* The parts stop at their bounds (calls, changes, faults, restarts), hence no deadlock check.
SPECIFICATION StoresSpec
CONSTANTS
    p1 = p1
    p2 = p2
    p3 = p3
    h1 = h1
    h2 = h2
    Handlers = {p1, p2, p3}
    Stations = {h1, h2}
    Seqs = {0, 1, 2}
    Manifests = {"c"}
    Requests = {"r1", "r2"}
    Builders = {"b1", "b2"}
    Concurrency = 1
    MaxRestarts = 1
    Threads = {"t1", "t3"}
    ProcOf <- ProcessOf
    Rows = {"a", "b"}
    ReadMayFail = FALSE
    MaxWrites = 1
    MaxNews = 2
    MaxExpiries = 1
    Chunks = {"a"}
    MaxFaults = 2
    MaxDeaths = 1
    UpdaterRuns = {"api"}
    MaxVersion = 1
    MaxPatches = 1
    MaxTroubles = 1
    Jumps <- OneJump
    Procs = {"s1", "s2", "s3"}
    MaxStreak = 1
    N = 4
    RetentionCams = {"A", "B"}
    CamOf <- ClipCam
    Time <- ClipTime
    Mag <- ClipMag
    Dur <- ClipDur
    Confirmed = {3}
    Window = 3
    BrightPct = 20
    LongPct = 20
    Cap = 0
    MaxPushes = 1
    PostRuns = {"t", "m"}
    PostStations = {"s"}
    Cams = {"c1", "c2"}
    CamStation <- OneStation
    Chats = {"chat"}
    MaxKills = 1
    Inodes = {"i1", "i2", "i3"}
    MonthInodes = {1, 2, 3}
    Clips = {"c1", "c2", "c3"}
    RemuxSlots = 2
    MaxBytes = 2
    MuteThreshold = 3
    MaxFrames = 1
    Viewers = {"v1", "v2"}
    UserOf <- Oneself
    Streams = {"s1", "s2"}
    DashGlobal = 1
    PerCam = 1
    Global = 1
    MaxLost = 1
    Ips = {"i", "j"}
    Objects = {"o1", "o2", "o3"}
    MaxStreams = 1
    Workers = 1
    StitchSlots = 1
    Files = {"f1", "f2", "f3"}
    Sizes <- ClipSizes
    PerFile = 2
    Total = 4
    Dates = {0, 1}
    Recent = {0}
    MaxInjects = 1
    GridCams = {"a1", "a2", "b"}
    GridStationOf <- GridStation
    GridWindow = 1
    Day = 6
    Merge = 1
    Match = 1
    Bucket = 1
    MaxWindow = 2
    MaxDetections = 3
    Readers = {}
    Patches = {"p", "q"}
    Copies = {"c1", "c2", "c3"}
    Refreshers = {"p1", "p2"}
    MaxNights = 3
INVARIANTS
    OneRacerWins
    CheckedValueIsCurrent
    NoChangeIsLost
    PrefetchedIsCached
    BusyIsBuilt
    MorningCatchesUp
    StationIsWhole
    FewOrphanSsh
    OnlyPassedOverGo
    PostedOnce
    CachedIsWhole
    BudgetsHold
    NothingLeaks
    DomesAreBuilt
    
    EventsAreTrue
PROPERTIES
    ImplementsGuard
    CachedStaysCached
CHECK_DEADLOCK FALSE
