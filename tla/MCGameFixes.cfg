SPECIFICATION MCSpec
CONSTANTS
    Fixes = {"effects", "archives", "decals", "halves", "handles", "inflate", "crafting", "workshop"}
    t1 = t1
    t2 = t2
    o1 = o1
    o2 = o2
    s1 = s1
    s2 = s2
    r1 = r1
    r2 = r2
    r3 = r3
    z1 = z1
    z2 = z2
    i1 = i1
    i2 = i2
    None = None
    Threads <- MCThreads
    Owners <- MCOwners
    Shaders <- MCShaders
    Byte = 2
    Archives <- MCArchives
    Files = {"f"}
    Dirs = {"d1", "d2"}
    DirOf <- MCDirOf
    TexturePaths <- MCTexturePaths
    DataNames = {"data"}
    Buffers = {"b1"}
    TriShapes = {"t1"}
    DecalShapes <- MCDecalShapes
    SampleHalves <- MCSampleHalves
    Refs <- MCRefs
    IndexBits = 1
    AgeBits = 3
    RefCountBits = 2
    MaxCreations = 4
    Streams <- MCStreams
    StateIds <- MCStateIds
    InputLength = 4
    HeaderLength = 2
    Output <- MCOutput
    Rooms = {1, 4}
    HasWhole = TRUE
    Ahead = 1
    Contents = {"sound", "corrupt", "dictionary"}
    NoStream = NoStream
    NoState = NoState
    Stock = Stock
    AttachPoints = {"grip", "barrel"}
    NoPoint = "none"
    Cobjs = {"c1", "c2", "c3"}
    Omods = {"m1", "m2", "m3"}
    PointOf <- MCPointOf
    Menus <- MCMenus
    Keywords = {"defense", "power", "misc"}
    NoKeyword = "unknown"
    DefaultFilter = "misc"
    Recipes <- MCRecipes
    KeywordsOf <- MCKeywordsOf
    Creates <- MCCreates
    KeywordLimit = 3
    FormLists <- MCFormLists
VIEW View
INVARIANTS
    EffectsAreLive
    LookupsFindAll
    DecalsKeepTheirShapes
    StreamsAreWhole
    HandlesAreWhole
