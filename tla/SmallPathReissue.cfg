\* Two threads, an arena of three blocks carved into slabs of at most two, one block
\* of which may go to another class; ids may coincide.
CONSTANTS
    Caches = {c1, c2}
    Ids = {1, 2}
    Sizes = {1}
    ArenaBlocks = 3
    RefillCount = 2
    LocalLimit = 2
    OtherLimit = 1
SPECIFICATION Spec
SYMMETRY ThreadSymmetry
INVARIANTS
    TypeOK CountersExact HeadersSound StaleFreeRejected DiscardedPagesUnused CacheBounded
PROPERTY ImplementsMalloc
