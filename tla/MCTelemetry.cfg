SPECIFICATION MCSpec
CONSTANTS
    s1 = s1
    s2 = s2
    b1 = b1
    b2 = b2
    n1 = n1
    n2 = n2
    Sources <- MCSources
    MaxCaptures = 2
    MaxIntervals = 1
    MaxAccepted = 1
    Bases <- MCBases
    Names <- MCNames
    Nothing = Nothing
    Consumers = {"memory"}
    QueueCapacity = 2
    ImageCapacity = 3
    MaxLoads = 3
    Heap = {"p", "q"}
    Regions = {"R"}
    FirstProbe <- MCFirstProbe
    StripeLength = 3
    MemoryImages = {"i1"}
    MemoryThreads = {m1, m2}
    RegionExtent = 2
    Elsewhere = "elsewhere"
    NoBlock = NoBlock
    MaxMemoryCalls = 4
    Objects = {o1, o2}
    ThreadIds = {1, 2}
    MostSampled = 2
    MinimumCycles = 0
    MaxCycles = 2
    MaxRefreshes = 3
    KindIsGauge <- MCKindIsGauge
    MostImages = 2
    SeriesRoom = 1
    Spans = {1, 2}
    MaxRecorded = 1
SYMMETRY Symmetry
VIEW View
INVARIANTS
    StatusAgrees
    ImagesAreAccounted
PROPERTIES
    SealedForGood
