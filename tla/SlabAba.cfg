CONSTANTS
    Thread = {t1, t2}
    Allocators = {t1, t2}
    SlabPages = 1
    PerPage = 3
SPECIFICATION Spec
INVARIANT ExclusiveBlocks
