SPECIFICATION MCSpec
CONSTANTS
    Parts = {"settings", "modules", "faces", "frames", "hub", "lanes", "log"}
    Settings = {now, later}
    Immediate = {now}
    MaxValue = 1
    Default <- MCDefault
    CustomFiles <- MCCustomFiles
    MaxEdits = 1
    NoFile = NoFile
    Unusable = Unusable
    Torn = Torn
    None = None
    preload = preload
    twice = twice
    late = late
    off = off
    Modules <- MCModules
    Messages <- MCMessages
    Preloads = {preload}
    Registered <- MCRegistered
    Listeners <- MCListeners
    PapyrusListeners = {off, preload}
    Disabled = {off}
    Defended = {twice, preload}
    Names = {"one", "two"}
    Plugins = {"light.esl", "gone.esp"}
    LoadOrder <- MCLoadOrder
    FormIDs = {3}
    FullIDs = 4
    LightIDs = 2
    LightBase = 2
    Primaries = {1}
    MaxOutsideEdits = 1
    MaxRepublished = 1
    NoPlugin = NoPlugin
    NoIni = NoIni
    Closed = Closed
    Adding = Adding
    Nobody = Nobody
    RowCapacity = 2
    RecordCapacity = 1
    CountMask = 1
    TotalMask = 1
    Threshold = 1
    Cadence = 2
    MaxClock = 5
    MaxStarts = 1
    ModuleSources = {"load", "twin", "burst", "wrong"}
    RuntimeSources <- MCRuntimeSources
    SchemaOf <- MCSchemaOf
    ValidKeys = {"ws", "faults", "times", "slow"}
    SeriesCapacityOf <- MCSeriesCapacityOf
    SizeMax = 2
    HistoryRows = 2
    FaultSource = "memory"
    FaultWord = 2
    MaxCollections = 4
    MaxFaults = 2
    Fallible = {"memory"}
    LaneThreads = {1, 2, 3}
    LaneCount = 2
    Configurations <- MCConfigurations
    Profiled <- MCProfiled
    LongestTime = 6
    Second = 2
    Frequency = 3
    MaxTicks = 10
    MaxCaptures = 2
    MaxCounted = 2
    LogThreads = {1, 2}
    LogLevels <- MCLogLevels
    Configured = {"info", "Inof"}
    MinuteSeconds = 2
    LineMask = 2
    MaxSecond = 2
    MaxLines = 2
INVARIANTS
    SavesAreAtomic
    ForeignKept
    ValuesFollowTiming
    CommittedWillLoad
    OutcomesAgree
    ExceptionsAreWhole
    RowsAddUp
PROPERTIES
    RefusalIsFinal
    UnsavedChangesKept
