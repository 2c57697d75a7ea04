----------------------------- MODULE SmallPath ------------------------------
(***************************************************************************)
(* The small-object path of the allocator for one size class: several      *)
(* threads, each with a ThreadCache, over one central pool and one arena   *)
(* (src/allocator.rs, thread_cache.rs, central_pool.rs, header.rs).  Size  *)
(* classes share nothing but the arena, so one class and "the rest of the  *)
(* arena" is the whole system as far as this class can tell.               *)
(*                                                                         *)
(* One step is what a thread does without giving another thread the chance *)
(* to see or change anything shared: a section under a central mutex, the  *)
(* compare-and-swap that takes arena space, or work on its own cache.  The *)
(* model is of a build with debug_assertions, where a freed block carries  *)
(* the freed marker.                                                       *)
(***************************************************************************)
EXTENDS LocalCache

CONSTANTS
    Caches,       \* threads, each with one ThreadCache
    Ids,          \* values the u32 cache id can take; the counter wraps, so ids may repeat
    Sizes,        \* requested sizes of the class
    RefillCount,  \* AllocatorConfig::refill_count
    LocalLimit,   \* AllocatorConfig::local_limit
    OtherLimit    \* bound: blocks' worth of arena that other classes and large objects take

ASSUME SmallPathAssumption ==
    /\ Ids \subseteq Nat /\ Ids # {}
    /\ Sizes \subseteq Nat \ {0}
    /\ RefillCount \in Nat \ {0}
    /\ LocalLimit \in Nat \ {0, 1}
    /\ OtherLimit \in Nat

\* AllocatorConfig::drain_count
DrainCount == IF RefillCount \div 2 = 0 THEN 1 ELSE RefillCount \div 2

VARIABLES
    next,    \* Arena::next, in blocks
    others,  \* arena blocks reserved by other classes and large objects
    pool,    \* CentralPool::lists[class]
    inbox,   \* CentralPool::remote_inboxes[class]
    cache,   \* per thread: ThreadCache::classes[class]
    remote,  \* per thread: ThreadCache::remote_returns[class]
    id,      \* per thread: ThreadCache::cache_id
    pc,      \* per thread: where in a call it is, "idle" between calls
    want,    \* per thread: requested_size of the allocation under way
    span,    \* per thread: the span reserved and not yet registered
    batch,   \* per thread: the blocks detached from the cache, on their way to the pool
    hdr,     \* per block: its AllocationHeader in memory
    lazy,    \* blocks on pages given to MADV_FREE and not written since
    grant    \* per block: the allocation it backs (size 0: none); not program state

vars == <<next, others, pool, inbox, cache, remote, id, pc, want, span, batch,
          hdr, lazy, grant>>

-----------------------------------------------------------------------------
\* RemoteReturnCache and RemoteReturnInbox: a free list and its length.
PendingList == [pending : SUBSET Addr, pending_len : Int]

NoPending == [pending |-> {}, pending_len |-> 0]

\* Mutant of PushPending: the new batch replaces what was pending.
PushPendingOverwrites(l, B) ==
    [pending |-> B, pending_len |-> l.pending_len + Cardinality(B)]

\* push_block and push_batch of the two.
PushPending(l, B) ==
    [pending |-> l.pending \cup B, pending_len |-> l.pending_len + Cardinality(B)]

Span == [start : Nat, count : Nat]

NoSpan == [start |-> 0, count |-> 0]

Header == [magic : BOOLEAN, requested : Sizes \cup {0}, owner : Ids \cup {0},
           freed : BOOLEAN]

ZeroHeader == [magic |-> FALSE, requested |-> 0, owner |-> 0, freed |-> FALSE]

\* initialize_small_to_block_unchecked
InitializedHeader == [ZeroHeader EXCEPT !.magic = TRUE]

\* LocalSlab::pop_batch initialises the header of every fresh block it takes.
InitializeFresh(h, F) == [b \in Addr |-> IF b \in F THEN InitializedHeader ELSE h[b]]

\* Mutant of StampHeader: a block from the shared list keeps its previous owner.
StampHeaderKeepsOwner(h, reuse, size, owner) ==
    IF reuse = "NeedsHeaderRewrite"
    THEN [magic |-> TRUE, requested |-> size, owner |-> owner, freed |-> FALSE]
    ELSE [h EXCEPT !.freed = FALSE, !.requested = size]

\* clear_small_free_metadata, then the header update that the reuse kind calls for.
StampHeader(h, reuse, size, owner) ==
    CASE reuse = "HotReuseRequestedOnly" ->
           [h EXCEPT !.freed = FALSE, !.requested = size]
      [] reuse = "NeedsOwnerAndRequestedSizeRefresh" ->
           [h EXCEPT !.freed = FALSE, !.requested = size, !.owner = owner]
      [] OTHER ->
           [magic |-> TRUE, requested |-> size, owner |-> owner, freed |-> FALSE]

\* Mutant of FreeVerdict: the freed marker is not looked at.
FreeVerdictIgnoresMarker(h) == IF ~h.magic \/ h.requested = 0 THEN "CorruptHeader" ELSE "Ok"

\* decode_header and validate_small_block_for_free, for a pointer into the arena.
FreeVerdict(h) ==
    CASE ~h.magic \/ h.requested = 0 -> "CorruptHeader"
      [] h.magic /\ h.requested # 0 /\ h.freed -> "DoubleFree"
      [] OTHER -> "Ok"

\* Mutant of MarkFreed: the marker is not written.
MarkFreedNot(h) == h

\* mark_small_block_freed
MarkFreed(h) == [h EXCEPT !.freed = TRUE]

NoGrant == [size |-> 0, owner |-> 0]

PC == {"idle", "pop", "carve", "register", "return", "publish",
       "drain", "drain_publish", "drain_return"}

-----------------------------------------------------------------------------
Init ==
    /\ next = 0
    /\ others = {}
    /\ pool = EmptyPool
    /\ inbox = NoPending
    /\ cache = [c \in Caches |-> NewClassCache]
    /\ remote = [c \in Caches |-> NoPending]
    /\ id \in [Caches -> Ids]
    /\ pc = [c \in Caches |-> "idle"]
    /\ want = [c \in Caches |-> 0]
    /\ span = [c \in Caches |-> NoSpan]
    /\ batch = [c \in Caches |-> {}]
    /\ hdr = [b \in Addr |-> ZeroHeader]
    /\ lazy = {}
    /\ grant = [b \in Addr |-> NoGrant]

\* return_batch on the class pool: nothing for an empty batch, else the blocks are
\* filed and maybe_sweep runs.
Returns(p, B) == IF B = {} THEN {p} ELSE Sweep(ReturnBatch(p, B))

\* Under the class mutex the pool passes from `pool` over `p` (the remote inbox
\* drained) and `q` (the caller's own change) to `r` (after the last sweep).
PoolSection(p, q, r) ==
    /\ pool' = r
    /\ inbox' = NoPending
    /\ lazy' = lazy \cup Discarded(ReturnBatch(pool, inbox.pending), p) \cup Discarded(q, r)

\* drain_remote_inbox: what the pool may look like once the inbox is drained.
Drained == Returns(pool, inbox.pending)

-----------------------------------------------------------------------------
\* The end of allocate_small_with_cache: pop a block and stamp its header.
TakeBlock(c, size) ==
    \E pop \in PopBlock(cache[c]) :
        /\ cache' = [cache EXCEPT ![c] = pop.cache]
        /\ hdr' = [hdr EXCEPT ![pop.block] = StampHeader(@, pop.reuse, size, id[c])]
        /\ lazy' = lazy \ {pop.block}
        /\ grant' = [grant EXCEPT ![pop.block] = [size |-> size, owner |-> id[c]]]

\* allocate_small_with_cache when the local cache has a block.
AllocateHit(c, size) ==
    /\ pc[c] = "idle"
    /\ cache[c].total_len # 0
    /\ TakeBlock(c, size)
    /\ UNCHANGED <<next, others, pool, inbox, remote, id, pc, want, span, batch>>

\* refill_from_central, CentralRefill::Batch
RefillBatch(c, size) ==
    /\ pc[c] = "idle"
    /\ cache[c].total_len = 0
    /\ \E p \in Drained :
       \E s \in BatchSlabs(p) :
       \E B \in Batches(Least(RefillCount, Cardinality(p[s].partial_free)),
                        p[s].partial_free) :
       \E r \in Sweep(TakePartialBatch(p, s, B)) :
            /\ PoolSection(p, TakePartialBatch(p, s, B), r)
            /\ cache' = [cache EXCEPT ![c] = PushSharedBatch(@, B)]
    /\ want' = [want EXCEPT ![c] = size]
    /\ pc' = [pc EXCEPT ![c] = "pop"]
    /\ UNCHANGED <<next, others, remote, id, span, batch, hdr, grant>>

\* refill_from_central, CentralRefill::Slab
RefillSlab(c, size) ==
    /\ pc[c] = "idle"
    /\ cache[c].total_len = 0
    /\ \E p \in Drained :
       \E s \in LoanableSlabs(p) :
       \E r \in Sweep(LoanWholeSlab(p, s)) :
            /\ PoolSection(p, LoanWholeSlab(p, s), r)
            /\ cache' = [cache EXCEPT ![c] = PushOwnedSlab(@, s, p[s].capacity)]
    /\ want' = [want EXCEPT ![c] = size]
    /\ pc' = [pc EXCEPT ![c] = "pop"]
    /\ UNCHANGED <<next, others, remote, id, span, batch, hdr, grant>>

\* refill_from_central, CentralRefill::Empty: the arena is next.
RefillMiss(c, size) ==
    /\ pc[c] = "idle"
    /\ cache[c].total_len = 0
    /\ \E p \in Drained :
            /\ BatchSlabs(p) = {}
            /\ LoanableSlabs(p) = {}
            /\ PoolSection(p, p, p)
    /\ want' = [want EXCEPT ![c] = size]
    /\ pc' = [pc EXCEPT ![c] = "carve"]
    /\ UNCHANGED <<next, others, cache, remote, id, span, batch, hdr, grant>>

\* Mutant of Carve: the span is not cut to what is left of the arena.
CarvePastEnd(c) ==
    /\ pc[c] = "carve"
    /\ next < ArenaBlocks
    /\ span' = [span EXCEPT ![c] = [start |-> next, count |-> RefillCount]]
    /\ next' = next + RefillCount
    /\ pc' = [pc EXCEPT ![c] = "register"]
    /\ UNCHANGED <<others, pool, inbox, cache, remote, id, want, batch, hdr, lazy, grant>>

\* Arena::reserve_block_span: as many blocks as wanted, or as are left.
Carve(c) ==
    LET count == Least(RefillCount, ArenaBlocks - next)
    IN  /\ pc[c] = "carve"
        /\ count # 0
        /\ span' = [span EXCEPT ![c] = [start |-> next, count |-> count]]
        /\ next' = next + count
        /\ pc' = [pc EXCEPT ![c] = "register"]
        /\ UNCHANGED <<others, pool, inbox, cache, remote, id, want, batch, hdr, lazy, grant>>

\* reserve_block_span returns None: the allocation fails with OutOfMemory.
OutOfMemory(c) ==
    /\ pc[c] = "carve"
    /\ next = ArenaBlocks
    /\ want' = [want EXCEPT ![c] = 0]
    /\ pc' = [pc EXCEPT ![c] = "idle"]
    /\ UNCHANGED <<next, others, pool, inbox, cache, remote, id, span, batch, hdr, lazy, grant>>

\* refill_cache_from_arena: register_slab, then push_owned_slab.
Register(c) ==
    LET q == RegisterSlab(pool, span[c].start, span[c].count)
    IN  /\ pc[c] = "register"
        /\ \E r \in Sweep(q) :
              /\ pool' = r
              /\ lazy' = lazy \cup Discarded(q, r)
        /\ cache' = [cache EXCEPT ![c] = PushOwnedSlab(@, span[c].start, span[c].count)]
        /\ span' = [span EXCEPT ![c] = NoSpan]
        /\ pc' = [pc EXCEPT ![c] = "pop"]
        /\ UNCHANGED <<next, others, inbox, remote, id, want, batch, hdr, grant>>

\* The rest of allocate_small_with_cache after a refill.
AllocateRefilled(c) ==
    /\ pc[c] = "pop"
    /\ TakeBlock(c, want[c])
    /\ want' = [want EXCEPT ![c] = 0]
    /\ pc' = [pc EXCEPT ![c] = "idle"]
    /\ UNCHANGED <<next, others, pool, inbox, remote, id, span, batch>>

-----------------------------------------------------------------------------
\* The part every accepted deallocate of a small block shares.  A caller may pass
\* any pointer it was ever given: only the header decides.
Accepted(c, b) ==
    /\ pc[c] = "idle"
    /\ FreeVerdict(hdr[b]) = "Ok"
    /\ grant' = [grant EXCEPT ![b] = NoGrant]

\* route_small_freed_block, the owner frees and the cache stays within its limit.
FreeLocal(c, b) ==
    /\ Accepted(c, b)
    /\ hdr[b].owner = id[c]
    /\ LET pushed == PushBlock(cache[c], b)
       IN  /\ pushed.total_len <= LocalLimit
           /\ cache' = [cache EXCEPT ![c] = pushed]
    /\ hdr' = [hdr EXCEPT ![b] = MarkFreed(@)]
    /\ lazy' = lazy \ {b}
    /\ UNCHANGED <<next, others, pool, inbox, remote, id, pc, want, span, batch>>

\* Mutant of FreeLocalOverflow: the excess is not drained.
FreeLocalOverflowUndrained(c, b) ==
    /\ Accepted(c, b)
    /\ hdr[b].owner = id[c]
    /\ LET pushed == PushBlock(cache[c], b)
       IN  /\ pushed.total_len > LocalLimit
           /\ cache' = [cache EXCEPT ![c] = pushed]
    /\ hdr' = [hdr EXCEPT ![b] = MarkFreed(@)]
    /\ lazy' = lazy \ {b}
    /\ UNCHANGED <<next, others, pool, inbox, remote, id, pc, want, span, batch>>

\* route_small_freed_block over the limit: drain_excess_to_central detaches a batch.
FreeLocalOverflow(c, b) ==
    /\ Accepted(c, b)
    /\ hdr[b].owner = id[c]
    /\ LET pushed == PushBlock(cache[c], b)
       IN  /\ pushed.total_len > LocalLimit
           /\ \E out \in PopBatch(pushed, DrainCount) :
                 /\ cache' = [cache EXCEPT ![c] = out.cache]
                 /\ batch' = [batch EXCEPT ![c] = out.batch]
                 /\ hdr' = InitializeFresh([hdr EXCEPT ![b] = MarkFreed(@)], out.fresh)
                 /\ lazy' = lazy \ (out.fresh \cup {b})
    /\ pc' = [pc EXCEPT ![c] = "return"]
    /\ UNCHANGED <<next, others, pool, inbox, remote, id, want, span>>

\* route_small_freed_block, another cache's block: staged until a batch is full.
FreeRemote(c, b) ==
    LET staged == PushPending(remote[c], {b})
    IN  /\ Accepted(c, b)
        /\ hdr[b].owner # id[c]
        /\ staged.pending_len < DrainCount
        /\ remote' = [remote EXCEPT ![c] = staged]
        /\ hdr' = [hdr EXCEPT ![b] = MarkFreed(@)]
        /\ lazy' = lazy \ {b}
        /\ UNCHANGED <<next, others, pool, inbox, cache, id, pc, want, span, batch>>

\* flush_remote_returns_for_class: the staged batch is detached, to be published.
FreeRemoteFlush(c, b) ==
    LET staged == PushPending(remote[c], {b})
    IN  /\ Accepted(c, b)
        /\ hdr[b].owner # id[c]
        /\ staged.pending_len >= DrainCount
        /\ remote' = [remote EXCEPT ![c] = NoPending]
        /\ batch' = [batch EXCEPT ![c] = staged.pending]
        /\ hdr' = [hdr EXCEPT ![b] = MarkFreed(@)]
        /\ lazy' = lazy \ {b}
        /\ pc' = [pc EXCEPT ![c] = "publish"]
        /\ UNCHANGED <<next, others, pool, inbox, cache, id, want, span>>

\* CentralPool::return_batch, at the end of an overflow drain or in the drain loop.
Return(c) ==
    /\ pc[c] \in {"return", "drain_return"}
    /\ \E p \in Drained :
       \E r \in Returns(p, batch[c]) :
            PoolSection(p, ReturnBatch(p, batch[c]), r)
    /\ batch' = [batch EXCEPT ![c] = {}]
    /\ pc' = [pc EXCEPT ![c] = IF @ = "return" THEN "idle" ELSE "drain"]
    /\ UNCHANGED <<next, others, cache, remote, id, want, span, hdr, grant>>

\* CentralPool::publish_remote_batch: only the inbox mutex is taken.
Publish(c) ==
    /\ pc[c] \in {"publish", "drain_publish"}
    /\ inbox' = PushPending(inbox, batch[c])
    /\ batch' = [batch EXCEPT ![c] = {}]
    /\ pc' = [pc EXCEPT ![c] = IF @ = "publish" THEN "idle" ELSE "drain"]
    /\ UNCHANGED <<next, others, pool, cache, remote, id, want, span, hdr, lazy, grant>>

-----------------------------------------------------------------------------
\* drain_thread_cache (an explicit call, or Drop of the thread's handle): the
\* staged remote frees are published first.
StartDrain(c) ==
    /\ pc[c] = "idle"
    /\ batch' = [batch EXCEPT ![c] = remote[c].pending]
    /\ remote' = [remote EXCEPT ![c] = NoPending]
    /\ pc' = [pc EXCEPT ![c] = IF remote[c].pending_len = 0 THEN "drain" ELSE "drain_publish"]
    /\ UNCHANGED <<next, others, pool, inbox, cache, id, want, span, hdr, lazy, grant>>

\* One round of the loop in drain_all_to_central: pop_batch(len).
DrainPop(c) ==
    /\ pc[c] = "drain"
    /\ cache[c].total_len # 0
    /\ \E out \in PopBatch(cache[c], cache[c].total_len) :
          /\ cache' = [cache EXCEPT ![c] = out.cache]
          /\ batch' = [batch EXCEPT ![c] = out.batch]
          /\ hdr' = InitializeFresh(hdr, out.fresh)
          /\ lazy' = lazy \ out.fresh
    /\ pc' = [pc EXCEPT ![c] = "drain_return"]
    /\ UNCHANGED <<next, others, pool, inbox, remote, id, want, span, grant>>

\* The loop ends; the cache lives on.
DrainDone(c) ==
    /\ pc[c] = "drain"
    /\ cache[c].total_len = 0
    /\ pc' = [pc EXCEPT ![c] = "idle"]
    /\ UNCHANGED <<next, others, pool, inbox, cache, remote, id, want, span, batch,
                   hdr, lazy, grant>>

\* The loop ends in Drop: the thread is gone, a new one starts with ThreadCache::new.
ExitThread(c) ==
    /\ pc[c] = "drain"
    /\ cache[c].total_len = 0
    /\ cache' = [cache EXCEPT ![c] = NewClassCache]
    /\ \E i \in Ids : id' = [id EXCEPT ![c] = i]
    /\ pc' = [pc EXCEPT ![c] = "idle"]
    /\ UNCHANGED <<next, others, pool, inbox, remote, want, span, batch, hdr, lazy, grant>>

-----------------------------------------------------------------------------
\* The kernel drops a page that MADV_FREE released: it reads as zeros afterwards.
KernelReclaim(b) ==
    /\ b \in lazy
    /\ hdr' = [hdr EXCEPT ![b] = ZeroHeader]
    /\ lazy' = lazy \ {b}
    /\ UNCHANGED <<next, others, pool, inbox, cache, remote, id, pc, want, span, batch, grant>>

\* Another size class or a large object takes arena space.
ReserveElsewhere ==
    /\ next < ArenaBlocks
    /\ Cardinality(others) < OtherLimit
    /\ others' = others \cup {next}
    /\ next' = next + 1
    /\ UNCHANGED <<pool, inbox, cache, remote, id, pc, want, span, batch, hdr, lazy, grant>>

\* What a thread inside a call does next.
Step(c) ==
    \/ Carve(c)
    \/ OutOfMemory(c)
    \/ Register(c)
    \/ AllocateRefilled(c)
    \/ Return(c)
    \/ Publish(c)
    \/ DrainPop(c)
    \/ DrainDone(c)
    \/ ExitThread(c)

\* The calls a thread may make.
Call(c) ==
    \/ \E size \in Sizes : AllocateHit(c, size)
    \/ \E size \in Sizes : RefillBatch(c, size)
    \/ \E size \in Sizes : RefillSlab(c, size)
    \/ \E size \in Sizes : RefillMiss(c, size)
    \/ \E b \in Addr : FreeLocal(c, b)
    \/ \E b \in Addr : FreeLocalOverflow(c, b)
    \/ \E b \in Addr : FreeRemote(c, b)
    \/ \E b \in Addr : FreeRemoteFlush(c, b)
    \/ StartDrain(c)

Next ==
    \/ \E c \in Caches : Step(c) \/ Call(c)
    \/ \E b \in Addr : KernelReclaim(b)
    \/ ReserveElsewhere

Spec == Init /\ [][Next]_vars

\* A thread inside a call keeps running: the OS schedules it and parking_lot's
\* mutexes are eventually fair.  No call is ever obliged to happen.
FairSpec == Spec /\ \A c \in Caches : WF_vars(Step(c))

-----------------------------------------------------------------------------
(***************************************************************************)
(* Properties.                                                             *)
(***************************************************************************)

\* The type invariant: every variable keeps the shape of the code's structure.
TypeOK ==
    /\ next \in 0 .. ArenaBlocks
    /\ others \subseteq Addr
    /\ pool \in Pool
    /\ inbox \in PendingList
    /\ cache \in [Caches -> ClassCache]
    /\ remote \in [Caches -> PendingList]
    /\ id \in [Caches -> Ids]
    /\ pc \in [Caches -> PC]
    /\ want \in [Caches -> Sizes \cup {0}]
    /\ span \in [Caches -> Span]
    /\ batch \in [Caches -> SUBSET Addr]
    /\ hdr \in [Addr -> Header]
    /\ lazy \subseteq Addr
    /\ grant \in [Addr -> [size : Sizes \cup {0}, owner : Ids \cup {0}]]

Live == {b \in Addr : grant[b].size # 0}

SpanBlocks(c) == span[c].start .. span[c].start + span[c].count - 1

\* Everything thread c has: its cache, its staged remote frees, a batch on its way
\* to the pool, a span it has not registered yet.
Owned(c) == Held(cache[c]) \cup remote[c].pending \cup batch[c] \cup SpanBlocks(c)

\* No block is in two places: not in the hands of the program and on a free list,
\* not in two caches, not in a cache and in the central pool.  Whole-slab reissue
\* (loan_whole_slab, push_owned_slab with its reset) relies on this, and so does
\* every intrusive list, since a block has one link word.
ExclusiveOwnership ==
    /\ Disjoint(Live, CentralHeld(pool))
    /\ Disjoint(Live, inbox.pending)
    /\ Disjoint(CentralHeld(pool), inbox.pending)
    /\ Disjoint(others, Live \cup CentralHeld(pool) \cup inbox.pending)
    /\ \A c \in Caches :
          /\ Disjoint(Owned(c), Live \cup CentralHeld(pool) \cup inbox.pending \cup others)
          /\ Disjoint(Held(cache[c]), remote[c].pending \cup batch[c] \cup SpanBlocks(c))
          /\ Disjoint(remote[c].pending, batch[c] \cup SpanBlocks(c))
          /\ Disjoint(batch[c], SpanBlocks(c))
          /\ \A d \in Caches \ {c} : Disjoint(Owned(c), Owned(d))

\* Every block carved from the arena for this class is in some place from which it
\* can still be reached: no transfer between caches, inbox and pool drops a block.
NothingLost ==
    0 .. next - 1 = Live \cup CentralHeld(pool) \cup inbox.pending \cup others
                      \cup UNION {Owned(c) : c \in Caches}

\* All occupancy counters are exact in every state: those an unchecked pop trusts
\* (total_len, shared_len, pending_len, central_free_len) and that stats() reports.
CountersExact ==
    /\ PoolCoherent(pool)
    /\ inbox.pending_len = Cardinality(inbox.pending)
    /\ \A c \in Caches :
          /\ CacheCoherent(cache[c])
          /\ remote[c].pending_len = Cardinality(remote[c].pending)

\* The header of a block in use is exactly what its allocation wrote: a free by the
\* holder is accepted, the size check of deallocate_with_size_checked compares with
\* the requested size, and the owner id routes the block to the cache that took it.
LiveHeaderSound ==
    \A b \in Live :
        /\ FreeVerdict(hdr[b]) = "Ok"
        /\ hdr[b].requested = grant[b].size
        /\ hdr[b].owner = grant[b].owner

\* A second free of a block is rejected wherever the block has got to since: hot
\* slot, slab list, shared list, staging, inbox, pool, a reissued slab.
StaleFreeRejected ==
    \A b \in Addr : FreeVerdict(hdr[b]) = "Ok" => b \in Live

\* The listed blocks of the pool, and blocks on the way to it.
Listed == inbox.pending \cup UNION {pool[s].partial_free : s \in Addr}

\* A block whose header is not rewritten on its next allocation has a header fit for
\* it: initialised, and with the owner id of the cache in whose hot slot or slab list
\* it waits.  (A block recycled between threads once kept a stale owner.)
RecycledHeaderFit ==
    /\ \A b \in Listed : hdr[b].magic
    /\ \A c \in Caches :
          /\ \A b \in cache[c].shared \cup remote[c].pending \cup batch[c] : hdr[b].magic
          /\ \A b \in KeepsOwner(cache[c]) : hdr[b].magic /\ hdr[b].owner = id[c]

\* Headers are right in use and fit for reuse.
HeadersSound == LiveHeaderSound /\ RecycledHeaderFit

\* Pages the sweep gave back to the kernel hold nothing that is still read: no block
\* in use, no node of a free list, no block whose header is kept.
DiscardedPagesUnused ==
    /\ Disjoint(lazy, Live \cup Listed)
    /\ \A c \in Caches :
          Disjoint(lazy, KeepsOwner(cache[c]) \cup cache[c].shared
                           \cup remote[c].pending \cup batch[c])

\* Between calls a cache holds at most local_limit blocks (or what one refill leaves
\* after its allocation), and fewer staged remote frees than one batch.
CacheBounded ==
    \A c \in Caches : pc[c] = "idle" =>
        /\ cache[c].total_len <= LocalLimit \/ cache[c].total_len < RefillCount
        /\ remote[c].pending_len < DrainCount

\* config.rs on drain_count: "the number of blocks drained per class when the local
\* limit is exceeded".
OverflowDrainsFullBatch ==
    \A c \in Caches : pc[c] = "return" => Cardinality(batch[c]) = DrainCount

\* Every call returns: no allocation, free or drain is stuck, in particular the loop
\* of drain_all_to_central ends.
CallsReturn == \A c \in Caches : pc[c] # "idle" ~> pc[c] = "idle"

\* Every place a free block can be in: the pool, its inbox, and what the threads have.
FreeBlocks == CentralHeld(pool) \cup inbox.pending \cup UNION {Owned(c) : c \in Caches}

\* The small path is an allocator: what the program sees of it is module Malloc.
Abstract == INSTANCE Malloc WITH
                Blocks <- Addr,
                Requests <- Sizes,
                alloc <- [b \in Addr |-> grant[b].size],
                stock <- FreeBlocks

\* Every step takes exactly one block that nobody has out of the places where free
\* blocks are, puts back one that was handed out, adds new ones from the arena, or
\* moves blocks between caches, inbox and pool without dropping or doubling any.
ImplementsMalloc == Abstract!MallocSpec
=============================================================================
