CONSTANTS
    Keys = {k1}
    Files = {f1, f2}
    Procs = {p1, p2}
    None = None
    Torn = Torn
    RootKeys = {r1}
    Builders = {p1, p2}
    NoTree = NoTree
    MaxBoots = 2
    Builds = {c1}
    Shells = {s1}
    MaxMoves = 1
    MaxVisits = 3
    SandboxFaults = TRUE
    Gates = {p1, p2}
    SeriesLen = 2
    MaxGates = 3
    MaxBuilds = 2
    Guids <- MCGuids
    AskedOrders <- MCOrders
SPECIFICATION HostSpec
SYMMETRY HostSymmetry
INVARIANTS HostTypeOK PresentIsComplete HitIsWhole RestoredIsOfKey CompilesInWhatItRecords VerdictIsOfThePin PressedIsDescribed KernelStagesAreHonest
PROPERTIES EntriesOnlyAppearOrShrink ImplementsCache
CHECK_DEADLOCK FALSE
