CONSTANTS
    Sigs = {1, 2, 3}
    Kinds = {"pinned", "kernel", "kmod"}
    Reverts = FALSE
    Faults = {"kill", "ioerror", "refresh"}
    MaxCuts = 2
    MaxFresh = 3
    MaxJobs = 4
    TlsAtOnce = 2
    Segments = {"b", ".", ".."}
    None = None
    Torn = Torn
    Asks <- MCAsks
    BlobDirs = {1, 2}
    MaxRuns = 2
    Users = {"u1", "u2"}
    Packages = {"a"}
    Contents = {1, 2}
    MaxTakes = 2
    Configs <- MCConfigs
    Firsts <- MCFirsts
    Archives <- MCArchives
    Hosts <- MCHosts
    Ids = {1}
    Nil = Nil
    MaxNodes = 2
    Shelf <- MCShelf
    States <- MCStates
    First <- MCFirst
    Lasts = {1, 6}
    MaxCommands = 3
SPECIFICATION NodesSpec
INVARIANTS NodesTypeOK SoundReuse StampMeansSetUp VolumeDataSurvives VerdictIsOfTheImage FetchesAreAnswered UserspaceShipsWhatItAsked HandsOverOneBuild CompilesWithThePinned ServedIsAsked FitToFormat
PROPERTIES WaitsEnd ForecastComesTrue
CHECK_DEADLOCK FALSE
