\* SWEEP_INTERVAL 64, COLD_EPOCHS 4 and SWEEP_SCAN_BUDGET 2 scaled down to what
\* makes sweeps meet every other operation.
CONSTANTS
    ArenaBlocks = 5
    Spans <- MCSpans
    MaxRefill = 2
    MaxBatch = 2
    SweepInterval = 3
    ColdEpochs = 2
    ScanBudget = 2
    Paged = {0, 4}
SPECIFICATION PoolSpec
INVARIANTS BucketsSound LookupRight
PROPERTIES ImplementsContract
