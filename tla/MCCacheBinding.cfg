SPECIFICATION Spec
CONSTANTS
    Caches = {c1, c2}
    Allocators = {a1, a2}
    Slots = {s1, s2, s3, s4}
    Configs <- MCConfigs
CHECK_DEADLOCK FALSE
SYMMETRY Symmetry
INVARIANTS BlocksAccounted BoundByOwner LiveMapped
