SPECIFICATION MCSpec
CONSTANTS
    Patches = {"audio", "input", "culling", "timing", "table"}
    g1 = g1
    g2 = g2
    d1 = d1
    d2 = d2
    Graphs <- MCGraphs
    Devices <- MCDevices
    Sounds = {"sound"}
    Monitors = {"monitor"}
    Debounce = 0
    DrainTimeout = 1
    RetryBase = 1
    RetryMax = 1
    MaxShift = 0
    MaxNotices = 1
    NoGraph = NoGraph
    NoDevice = NoDevice
    NoRequest = NoRequest
    MaxMessages = 2
    Loaders = {"l1", "l2"}
    Objects = {"o1", "o2", "o3"}
    Bases = {"b"}
    SpecialIndices = {0}
    FileIndices = {1, 2}
    NobodyCulls = NobodyCulls
    NoObject = NoObject
    Callers = {"main", "other"}
    Main = "main"
    LoadSteps = {"papyrus", "end"}
    EndStep = "end"
    MaxTime = 3
    MaxLoads = 2
    Keys = {"a", "b", "c", "d"}
    Values = {1, 2}
    HashOf <- MCHashOf
    HashRange = 16
    FingerRange = 2
    FirstCount = 2
    Counts = {0, 5}
    Containers <- MCContainers
VIEW View
INVARIANTS
    AudioGoesOn
    InputFitsDevice
    CullingFindsLoaded
    TimesAreTrue
    TableIsAMap
