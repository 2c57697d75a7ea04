SPECIFICATION Spec
CONSTANTS
    Threads = {t1, t2}
    Layouts <- MCLayouts
    MetaLayout <- MCMetaLayout
    RawAddrs = {1216, 1280, 1408}
    ArenaPtrs = {8256, 8448}
    HeaderAlignment = 64
    PrefixSize = 24
    PrefixAlign = 8
    IsizeMax = 512
    MaxLive = 3
SYMMETRY Symmetry
INVARIANTS BlocksBacked MetadataOutside AbortOnlyAfterTeardown
