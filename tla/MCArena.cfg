\* Offsets up to 15: a 4-bit machine word, so that sums can pass MaxWord.
CONSTANTS
    Threads = {t1, t2, t3}
    ArenaLen = 12
    Alignment = 2
    MaxWord = 15
    Requests <- MCRequests
SPECIFICATION FairSpec
INVARIANTS TypeOK SpansDisjoint RefusalIsFinal
PROPERTIES ImplementsBump ReservationReturns
