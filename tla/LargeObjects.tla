---------------------------- MODULE LargeObjects ----------------------------
(***************************************************************************)
(* The large-allocation path (Allocator::allocate_large, release_large and *)
(* src/large_object.rs): blocks above the largest size class, tracked in a *)
(* live registry and reused by best fit.  An allocation takes the registry *)
(* mutex twice: once to look for a reusable block, once to record its      *)
(* block as live.  In between the block is in neither list.                *)
(*                                                                         *)
(* Any thread may free any pointer it was ever given, also one it has no   *)
(* right to any more.  A free reads the header first and asks the registry *)
(* in a later step.                                                        *)
(***************************************************************************)
EXTENDS Integers, FiniteSets, FiniteSetsExt

CONSTANTS
    Threads,
    Sizes,       \* requested sizes, all above the largest class
    HeaderSize,  \* HEADER_SIZE
    Alignment,   \* AllocatorConfig::alignment
    ArenaLen,    \* Arena::len, at most usize::MAX
    MaxEncoded   \* u32::MAX, the largest size a header can hold

ASSUME LargeAssumption ==
    /\ Sizes \subseteq Nat \ {0}
    /\ HeaderSize \in Nat \ {0}
    /\ Alignment \in Nat \ {0}
    /\ ArenaLen \in Nat \ {0}
    /\ MaxEncoded \in Nat

VARIABLES
    next,         \* Arena::next
    live,         \* LargeObjectState::live, by block start
    live_bytes,
    free,         \* LargeObjectState::free
    free_blocks,
    free_bytes,
    hdr,          \* per block start: the header in memory
    pc,           \* per thread: where in a call it is
    want,         \* per thread: requested_size of the allocation under way
    blk,          \* per thread: the block taken and not yet recorded
    seen,         \* per thread: the block it frees and the header it decoded
    issued,       \* block starts whose pointers were returned; not program state
    leaked        \* blocks dropped by a failed allocation; not program state

vars == <<next, live, live_bytes, free, free_blocks, free_bytes, hdr, pc, want, blk,
          seen, issued, leaked>>

Addr == 0 .. ArenaLen - 1

-----------------------------------------------------------------------------
\* FreeLargeBlock
Block == [addr : Addr, size : Nat]

NoBlock == [addr |-> 0, size |-> 0]

\* LargeAllocationRecord; requested 0 stands for no entry.
Record == [size : Nat, requested : Sizes \cup {0}, usable : Int]

NoRecord == [size |-> 0, requested |-> 0, usable |-> 0]

\* The two fields of a large AllocationHeader that vary; requested 0: none written yet.
Header == [requested : Sizes \cup {0}, usable : Int]

NoHeader == [requested |-> 0, usable |-> 0]

NoFree == [addr |-> 0, header |-> NoHeader]

\* align_up_checked
AlignUp(v) == IF v % Alignment = 0 THEN v ELSE v + (Alignment - (v % Alignment))

\* The size a request is rounded up to: header, payload, alignment.
BlockSize(n) == AlignUp(HeaderSize + n)

\* The free blocks that can serve a request for n bytes.
Fitting(n) == {b \in free : b.size >= BlockSize(n)}

\* Mutant of BestFit: the nearest bucket below serves as well.
BestFitAny(n) == free

\* take_best_fit_block: a block of the smallest size that fits.
BestFit(n) == {b \in Fitting(n) : \A o \in Fitting(n) : b.size <= o.size}

\* encode_large_fields, for the block in hand
Encodes(n, usable) == n <= usable /\ n <= MaxEncoded /\ usable <= MaxEncoded

Init ==
    /\ next = 0
    /\ live = [a \in Addr |-> NoRecord]
    /\ live_bytes = 0
    /\ free = {}
    /\ free_blocks = 0
    /\ free_bytes = 0
    /\ hdr = [a \in Addr |-> NoHeader]
    /\ pc = [t \in Threads |-> "idle"]
    /\ want = [t \in Threads |-> 0]
    /\ blk = [t \in Threads |-> NoBlock]
    /\ seen = [t \in Threads |-> NoFree]
    /\ issued = {}
    /\ leaked = {}

-----------------------------------------------------------------------------
\* Mutant of TakeReusable: the block is used where it lies.
TakeReusableKeeps(t, n) ==
    /\ pc[t] = "idle"
    /\ \E b \in BestFit(n) : blk' = [blk EXCEPT ![t] = b]
    /\ want' = [want EXCEPT ![t] = n]
    /\ pc' = [pc EXCEPT ![t] = "write"]
    /\ UNCHANGED <<next, live, live_bytes, free, free_blocks, free_bytes, hdr, seen, issued, leaked>>

\* allocate_large, take_reusable_block returns a block.
TakeReusable(t, n) ==
    /\ pc[t] = "idle"
    /\ \E b \in BestFit(n) :
          /\ free' = free \ {b}
          /\ free_bytes' = free_bytes - b.size
          /\ blk' = [blk EXCEPT ![t] = b]
    /\ free_blocks' = free_blocks - 1
    /\ want' = [want EXCEPT ![t] = n]
    /\ pc' = [pc EXCEPT ![t] = "write"]
    /\ UNCHANGED <<next, live, live_bytes, hdr, seen, issued, leaked>>

\* allocate_large, no free block fits: the arena is next.
MissReusable(t, n) ==
    /\ pc[t] = "idle"
    /\ Fitting(n) = {}
    /\ want' = [want EXCEPT ![t] = n]
    /\ pc' = [pc EXCEPT ![t] = "carve"]
    /\ UNCHANGED <<next, live, live_bytes, free, free_blocks, free_bytes, hdr, blk, seen,
                   issued, leaked>>

\* Mutant of Carve: only the start is compared with the end of the arena.
CarvePastEnd(t) ==
    LET start == AlignUp(next)
        size  == BlockSize(want[t])
    IN  /\ pc[t] = "carve"
        /\ start < ArenaLen
        /\ next' = start + size
        /\ blk' = [blk EXCEPT ![t] = [addr |-> start, size |-> size]]
        /\ pc' = [pc EXCEPT ![t] = "write"]
        /\ UNCHANGED <<live, live_bytes, free, free_blocks, free_bytes, hdr, want, seen,
                       issued, leaked>>

\* Arena::allocate_block
Carve(t) ==
    LET start == AlignUp(next)
        size  == BlockSize(want[t])
    IN  /\ pc[t] = "carve"
        /\ start + size <= ArenaLen
        /\ next' = start + size
        /\ blk' = [blk EXCEPT ![t] = [addr |-> start, size |-> size]]
        /\ pc' = [pc EXCEPT ![t] = "write"]
        /\ UNCHANGED <<live, live_bytes, free, free_blocks, free_bytes, hdr, want, seen,
                       issued, leaked>>

\* Arena::allocate_block fails; so does a request whose size overflows.
OutOfMemory(t) ==
    /\ pc[t] = "carve"
    /\ AlignUp(next) + BlockSize(want[t]) > ArenaLen
    /\ want' = [want EXCEPT ![t] = 0]
    /\ pc' = [pc EXCEPT ![t] = "idle"]
    /\ UNCHANGED <<next, live, live_bytes, free, free_blocks, free_bytes, hdr, blk, seen,
                   issued, leaked>>

Usable(b) == b.size - HeaderSize

\* Mutant of WriteHeader: a reused block keeps the header it has.
WriteHeaderOnce(t) ==
    /\ pc[t] = "write"
    /\ Encodes(want[t], Usable(blk[t]))
    /\ hdr' = IF hdr[blk[t].addr] # NoHeader THEN hdr
              ELSE [hdr EXCEPT ![blk[t].addr] =
                      [requested |-> want[t], usable |-> Usable(blk[t])]]
    /\ pc' = [pc EXCEPT ![t] = "record"]
    /\ UNCHANGED <<next, live, live_bytes, free, free_blocks, free_bytes, want, blk, seen,
                   issued, leaked>>

\* write_large_to_block
WriteHeader(t) ==
    /\ pc[t] = "write"
    /\ Encodes(want[t], Usable(blk[t]))
    /\ hdr' = [hdr EXCEPT ![blk[t].addr] = [requested |-> want[t], usable |-> Usable(blk[t])]]
    /\ pc' = [pc EXCEPT ![t] = "record"]
    /\ UNCHANGED <<next, live, live_bytes, free, free_blocks, free_bytes, want, blk, seen,
                   issued, leaked>>

\* write_large_to_block returns None: OutOfMemory, and the block is dropped.
EncodeFails(t) ==
    /\ pc[t] = "write"
    /\ ~Encodes(want[t], Usable(blk[t]))
    /\ leaked' = leaked \cup {blk[t]}
    /\ blk' = [blk EXCEPT ![t] = NoBlock]
    /\ want' = [want EXCEPT ![t] = 0]
    /\ pc' = [pc EXCEPT ![t] = "idle"]
    /\ UNCHANGED <<next, live, live_bytes, free, free_blocks, free_bytes, hdr, seen, issued>>

\* Mutant of RecordLive: live_bytes counts the requested size.
RecordLiveMiscounts(t) ==
    /\ pc[t] = "record"
    /\ live[blk[t].addr] = NoRecord
    /\ live' = [live EXCEPT ![blk[t].addr] =
                   [size |-> blk[t].size, requested |-> want[t], usable |-> Usable(blk[t])]]
    /\ live_bytes' = live_bytes + want[t]
    /\ issued' = issued \cup {blk[t].addr}
    /\ blk' = [blk EXCEPT ![t] = NoBlock]
    /\ want' = [want EXCEPT ![t] = 0]
    /\ pc' = [pc EXCEPT ![t] = "idle"]
    /\ UNCHANGED <<next, free, free_blocks, free_bytes, hdr, seen, leaked>>

\* record_live_allocation, the entry is vacant: the pointer is returned.  (For an
\* occupied entry the code panics; PanicUnreachable says that never happens.)
RecordLive(t) ==
    /\ pc[t] = "record"
    /\ live[blk[t].addr] = NoRecord
    /\ live' = [live EXCEPT ![blk[t].addr] =
                   [size |-> blk[t].size, requested |-> want[t], usable |-> Usable(blk[t])]]
    /\ live_bytes' = live_bytes + blk[t].size
    /\ issued' = issued \cup {blk[t].addr}
    /\ blk' = [blk EXCEPT ![t] = NoBlock]
    /\ want' = [want EXCEPT ![t] = 0]
    /\ pc' = [pc EXCEPT ![t] = "idle"]
    /\ UNCHANGED <<next, free, free_blocks, free_bytes, hdr, seen, leaked>>

-----------------------------------------------------------------------------
\* deallocate_with_cache: the header is decoded without a lock.  (In
\* deallocate_with_size_checked a wrong size ends the call here.)
DecodeFree(t, a) ==
    /\ pc[t] = "idle"
    /\ a \in issued
    /\ seen' = [seen EXCEPT ![t] = [addr |-> a, header |-> hdr[a]]]
    /\ pc' = [pc EXCEPT ![t] = "release"]
    /\ UNCHANGED <<next, live, live_bytes, free, free_blocks, free_bytes, hdr, want, blk,
                   issued, leaked>>

\* What validate_and_release_live_allocation finds for the decoded header.
Matches(rec, h) ==
    /\ rec # NoRecord
    /\ rec.requested = h.requested
    /\ rec.usable = h.usable

\* Mutant of Release: the block goes to the free list whatever the registry says.
ReleaseUnchecked(t) ==
    LET a   == seen[t].addr
        rec == live[a]
    IN  /\ pc[t] = "release"
        /\ live' = [live EXCEPT ![a] = NoRecord]
        /\ live_bytes' = live_bytes - rec.size
        /\ free' = free \cup {[addr |-> a, size |-> HeaderSize + seen[t].header.usable]}
        /\ free_blocks' = free_blocks + 1
        /\ free_bytes' = free_bytes + rec.size
        /\ seen' = [seen EXCEPT ![t] = NoFree]
        /\ pc' = [pc EXCEPT ![t] = "idle"]
        /\ UNCHANGED <<next, hdr, want, blk, issued, leaked>>

\* validate_and_release_live_allocation and insert_free_block
Release(t) ==
    LET a   == seen[t].addr
        rec == live[a]
    IN  /\ pc[t] = "release"
        /\ Matches(rec, seen[t].header)
        /\ live' = [live EXCEPT ![a] = NoRecord]
        /\ live_bytes' = live_bytes - rec.size
        /\ free' = free \cup {[addr |-> a, size |-> rec.size]}
        /\ free_blocks' = free_blocks + 1
        /\ free_bytes' = free_bytes + rec.size
        /\ seen' = [seen EXCEPT ![t] = NoFree]
        /\ pc' = [pc EXCEPT ![t] = "idle"]
        /\ UNCHANGED <<next, hdr, want, blk, issued, leaked>>

\* AlreadyFreedOrUnknownLarge or CorruptHeader: nothing changes.
ReleaseRejected(t) ==
    /\ pc[t] = "release"
    /\ ~Matches(live[seen[t].addr], seen[t].header)
    /\ seen' = [seen EXCEPT ![t] = NoFree]
    /\ pc' = [pc EXCEPT ![t] = "idle"]
    /\ UNCHANGED <<next, live, live_bytes, free, free_blocks, free_bytes, hdr, want, blk,
                   issued, leaked>>

\* A small class takes arena space: a multiple of the alignment.
ReserveElsewhere ==
    /\ AlignUp(next) + Alignment <= ArenaLen
    /\ next' = AlignUp(next) + Alignment
    /\ UNCHANGED <<live, live_bytes, free, free_blocks, free_bytes, hdr, pc, want, blk, seen,
                   issued, leaked>>

Next ==
    \/ \E t \in Threads :
          \/ \E n \in Sizes : TakeReusable(t, n)
          \/ \E n \in Sizes : MissReusable(t, n)
          \/ Carve(t)
          \/ OutOfMemory(t)
          \/ WriteHeader(t)
          \/ EncodeFails(t)
          \/ RecordLive(t)
          \/ \E a \in Addr : DecodeFree(t, a)
          \/ Release(t)
          \/ ReleaseRejected(t)
    \/ ReserveElsewhere

Spec == Init /\ [][Next]_vars

-----------------------------------------------------------------------------
(***************************************************************************)
(* Properties.                                                             *)
(***************************************************************************)

\* The type invariant.
TypeOK ==
    /\ next \in 0 .. ArenaLen
    /\ live \in [Addr -> Record]
    /\ live_bytes \in Int /\ free_blocks \in Int /\ free_bytes \in Int
    /\ free \subseteq Block
    /\ hdr \in [Addr -> Header]
    /\ pc \in [Threads -> {"idle", "carve", "write", "record", "release"}]
    /\ want \in [Threads -> Sizes \cup {0}]
    /\ blk \in [Threads -> Block]
    /\ seen \in [Threads -> [addr : Addr, header : Header]]
    /\ issued \subseteq Addr
    /\ leaked \subseteq Block

LiveAddr == {a \in Addr : live[a] # NoRecord}

LiveBlocks == {[addr |-> a, size |-> live[a].size] : a \in LiveAddr}

InFlight(t) == pc[t] \in {"write", "record"}

\* Two blocks that share no byte.
Apart(b, c) == b.addr + b.size <= c.addr \/ c.addr + c.size <= b.addr

\* Every block lies below `next`, no two overlap, and none is in two places: live,
\* free, taken by a thread between the two locked sections, or dropped.  A stale free
\* that slips in while the block is being reissued does not change that.
BlocksApart ==
    /\ \A b \in LiveBlocks \cup free \cup leaked :
          /\ b.addr + b.size <= next
          /\ \A c \in LiveBlocks \cup free \cup leaked : b # c => Apart(b, c)
          /\ \A t \in Threads : InFlight(t) => Apart(b, blk[t])
    /\ free \cap LiveBlocks = {}
    /\ leaked \cap (free \cup LiveBlocks) = {}
    /\ \A t \in Threads : InFlight(t) =>
          /\ blk[t].addr + blk[t].size <= next
          /\ \A u \in Threads \ {t} : InFlight(u) => Apart(blk[t], blk[u])

\* The panic of record_live_allocation ("large allocation registered twice for the
\* same user pointer") cannot happen.
PanicUnreachable ==
    \A t \in Threads : pc[t] = "record" => live[blk[t].addr] = NoRecord

\* What the holder of a live block relies on: it has room for what was requested, and
\* the header agrees with the registry, so that the holder's free is accepted.
LiveRecordSound ==
    \A a \in LiveAddr :
        /\ live[a].requested <= live[a].usable
        /\ live[a].usable + HeaderSize <= live[a].size
        /\ hdr[a].requested = live[a].requested
        /\ hdr[a].usable = live[a].usable

SizeOf(b) == b.size

\* The incrementally kept counters that stats() reports are exact.
LargeCountersExact ==
    /\ live_bytes = MapThenSumSet(SizeOf, LiveBlocks)
    /\ free_blocks = Cardinality(free)
    /\ free_bytes = MapThenSumSet(SizeOf, free)

\* An allocation loses its block on the way only if a header could not hold the size.
LeaksOnlyUnencodable ==
    \A b \in leaked : Usable(b) > MaxEncoded
=============================================================================
