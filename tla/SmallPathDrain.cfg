\* A drain batch of two, and a source of the local cache that has only one block.
CONSTANTS
    Caches = {c1, c2}
    Ids = {1, 2}
    Sizes = {1}
    ArenaBlocks = 4
    RefillCount = 4
    LocalLimit = 2
    OtherLimit = 0
SPECIFICATION Spec
SYMMETRY ThreadSymmetry
INVARIANT OverflowDrainsFullBatch
