\* Header 1, alignment 2: requests of 1 and of 2 or 3 bytes make blocks of 2 and 4, so
\* a reused block may be larger than asked for.  A request of 5 cannot be encoded.
CONSTANTS
    Threads = {t1, t2}
    Sizes = {1, 2, 3, 5}
    HeaderSize = 1
    Alignment = 2
    ArenaLen = 8
    MaxEncoded = 4
SPECIFICATION Spec
INVARIANTS
    TypeOK BlocksApart PanicUnreachable LiveRecordSound LargeCountersExact
    LeaksOnlyUnencodable
