\* Refills of up to four blocks: drains and remote frees move in batches of two.
CONSTANTS
    Caches = {c1, c2}
    Ids = {1, 2}
    Sizes = {1}
    ArenaBlocks = 3
    RefillCount = 4
    LocalLimit = 2
    OtherLimit = 0

SPECIFICATION FairSpec
INVARIANTS ExclusiveOwnership NothingLost
PROPERTY CallsReturn
