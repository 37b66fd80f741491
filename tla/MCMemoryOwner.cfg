SPECIFICATION MCSpec
CONSTANTS
    Allocators = {"visper"}
    a1 = a1
    a2 = a2
    BlockSizes <- MCBlockSizes
    BlocksPerPage = 1
    MaxPages = 3
    MaxSize = 5
    Addresses <- MCAddresses
    SizeMax = 2
    GranuleSize = 2
    Space = 9
    MaxRegions = 3
    ProfileSites <- MCProfileSites
    SizeBounds <- MCSizeBounds
    MaxDepth = 2
    PoolThreads <- MCAddresses
    PoolPages = 2
    PageBlocks = 2
    RetainedPages = 1
    CacheCap = 2
    CacheBatch = 1
    SlotThreads <- MCAddresses
    SlotPages <- MCSlotPages
    SlotCount = 2
    KeptSlots = 1
    KeptPages = 5
    Handles <- MCAddresses
    ClassLimits <- MCClassLimits
    BlockMax = 6
    Overhead = 1
INVARIANT FreeBlocksAtHome
