\* Block 3 is of a slab this cache never gets: it only comes in freed or shared.
CONSTANTS
    ArenaBlocks = 5
    Spans <- MCSpans
    MaxBatch = 2
SPECIFICATION Spec
INVARIANTS VectorsSound
PROPERTIES ImplementsCache
