SPECIFICATION MCSpec
CONSTANTS
    Thread = {t1, t2}
    Allocators = {t1}
    SlabPages = 2
    PerPage = 2
    PaThread = {t1, t2}
    BootMap <- TwoExtents
    PAGE_SIZE = 2
    MAX_FREE_PAIRS = 3
    Request = {2, 3}
    PgCpuCounts = {1, 2, 3}
    CpuBits = 3
    PgTouched = {9, 16}
    PgPlans <- RequestPlans
    PgThreads = {1, 2}
    PgFrames = 9
    PgQueue = 1
    ApIds <- MoreCpus
    IoApics <- TwoControllers
    Gsi <- GsiTable
    IrqPlans <- DriverPlans
    MaxMsi = 2
INVARIANTS PagesConserved ExclusiveBlocks   ApicInv
PROPERTY MemProgress
CHECK_DEADLOCK FALSE
