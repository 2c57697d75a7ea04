----------------------------- MODULE LocalCache -----------------------------
(***************************************************************************)
(* LocalClassCache of src/thread_cache.rs: the blocks of one size class    *)
(* that one thread keeps, as a value and the operators its methods compute *)
(* on it.  Only the owning thread calls them, without a lock.              *)
(*                                                                         *)
(* A free list is the set of its blocks and the order of available_slabs   *)
(* is left open; the counters shared_len and total_len are the code's own, *)
(* kept apart from the sets they count.                                    *)
(***************************************************************************)
EXTENDS CentralSlabs

\* LocalSlab: blocks start .. start+next_fresh-1 were handed out at least once
\* since the slab was (re)issued; `free` lists the reclaimed ones.
LocalSlab == [capacity : Nat, next_fresh : Nat, free : SUBSET Addr]

UnknownSlab == [capacity |-> 0, next_fresh |-> 0, free |-> {}]

ClassCache ==
    [ hot        : SUBSET Addr,          \* hot_block: at most one block
      slabs      : [Addr -> LocalSlab],
      avail      : SUBSET Addr,          \* available_slabs
      shared     : SUBSET Addr,
      shared_len : Int,
      total_len  : Int ]

\* LocalClassCache::new
NewClassCache ==
    [ hot |-> {}, slabs |-> [s \in Addr |-> UnknownSlab], avail |-> {},
      shared |-> {}, shared_len |-> 0, total_len |-> 0 ]

FreshBlocks(sl, s) == s + sl.next_fresh .. s + sl.capacity - 1

HasAvailableBlocks(sl) == sl.next_fresh < sl.capacity \/ sl.free # {}

SlabStock(sl, s) == sl.free \cup FreshBlocks(sl, s)

\* Every block the cache can hand out.
Held(cc) == cc.hot \cup cc.shared \cup UNION {SlabStock(cc.slabs[s], s) : s \in Addr}

KnownSlabs(cc) == {s \in Addr : cc.slabs[s].capacity # 0}

\* The blocks whose next allocation refreshes only the requested size.
KeepsOwner(cc) == cc.hot \cup UNION {cc.slabs[s].free : s \in Addr}

-----------------------------------------------------------------------------
\* push_owned_slab: a slab this cache has never seen is added, one it knows
\* from an earlier loan is reset to all fresh.
PushOwnedSlab(cc, start, n) ==
    LET capacity == IF start \in KnownSlabs(cc) THEN cc.slabs[start].capacity ELSE n
        reset    == [capacity |-> capacity, next_fresh |-> 0, free |-> {}]
    IN  [cc EXCEPT !.slabs = [cc.slabs EXCEPT ![start] = reset],
                   !.avail = @ \cup {start},
                   !.total_len = @ + n]

\* find_slab (and the recent_slab shortcut): the last known start <= b, if the
\* slab really contains b.
FindsLocal(cc, s, b) ==
    /\ s \in KnownSlabs(cc)
    /\ s <= b /\ b < s + cc.slabs[s].capacity
    /\ \A t \in KnownSlabs(cc) : t <= b => t <= s

\* push_spilled_block
PushSpilledBlock(cc, b) ==
    IF \E s \in Addr : FindsLocal(cc, s, b)
    THEN LET s == CHOOSE t \in Addr : FindsLocal(cc, t, b)
             sl == [cc.slabs[s] EXCEPT !.free = @ \cup {b}]
         IN  [cc EXCEPT !.slabs = [cc.slabs EXCEPT ![s] = sl],
                        !.avail = IF HasAvailableBlocks(cc.slabs[s]) THEN @ ELSE @ \cup {s}]
    ELSE [cc EXCEPT !.shared = @ \cup {b}, !.shared_len = @ + 1]

\* push_block: the newest block takes the hot slot, the previous one spills.
PushBlock(cc, b) ==
    LET pushed == [cc EXCEPT !.hot = {b}, !.total_len = @ + 1]
    IN  IF cc.hot = {}
        THEN pushed
        ELSE PushSpilledBlock(pushed, CHOOSE h \in cc.hot : TRUE)

\* push_shared_batch
PushSharedBatch(cc, B) ==
    [cc EXCEPT !.shared = @ \cup B,
               !.shared_len = @ + Cardinality(B),
               !.total_len = @ + Cardinality(B)]

-----------------------------------------------------------------------------
BlockReuse == {"HotReuseRequestedOnly", "NeedsOwnerAndRequestedSizeRefresh",
               "NeedsHeaderRewrite"}

\* Mutant of WithSlab: an exhausted slab stays in available_slabs.
WithSlabStaysListed(cc, s, sl, taken) ==
    [cc EXCEPT !.slabs = [cc.slabs EXCEPT ![s] = sl], !.total_len = @ - taken]

\* A change of one slab, with mark_slab_unavailable when it has run out.
WithSlab(cc, s, sl, taken) ==
    [cc EXCEPT !.slabs = [cc.slabs EXCEPT ![s] = sl],
               !.avail = IF HasAvailableBlocks(sl) THEN @ ELSE @ \ {s},
               !.total_len = @ - taken]

\* LocalSlab::pop_block_unchecked: a reclaimed block first, else the next fresh one.
SlabPops(cc, s) ==
    LET sl == cc.slabs[s]
    IN  IF sl.free # {}
        THEN {[cache |-> WithSlab(cc, s, [sl EXCEPT !.free = @ \ {b}], 1),
               block |-> b, reuse |-> "HotReuseRequestedOnly"] : b \in sl.free}
        ELSE {[cache |-> WithSlab(cc, s, [sl EXCEPT !.next_fresh = @ + 1], 1),
               block |-> s + sl.next_fresh, reuse |-> "NeedsHeaderRewrite"]}

\* pop_block_unchecked: the hot block, else the last available slab, else shared.
PopBlock(cc) ==
    CASE cc.hot # {} ->
           {[cache |-> [cc EXCEPT !.hot = {}, !.total_len = @ - 1],
             block |-> b, reuse |-> "HotReuseRequestedOnly"] : b \in cc.hot}
      [] cc.hot = {} /\ cc.avail # {} ->
           UNION {SlabPops(cc, s) : s \in cc.avail}
      [] OTHER ->
           {[cache |-> [cc EXCEPT !.shared = @ \ {b}, !.shared_len = @ - 1,
                                  !.total_len = @ - 1],
             block |-> b, reuse |-> "NeedsOwnerAndRequestedSizeRefresh"] : b \in cc.shared}

\* LocalSlab::pop_batch: reclaimed blocks, topped up with fresh ones, whose
\* headers are initialised on the way out.
SlabPopBatches(cc, s, max) ==
    LET sl        == cc.slabs[s]
        reclaimed == Least(Cardinality(sl.free), max)
        taken     == Least(max - reclaimed, sl.capacity - sl.next_fresh)
        fresh     == s + sl.next_fresh .. s + sl.next_fresh + taken - 1
    IN  {[cache |-> WithSlab(cc, s, [sl EXCEPT !.free = @ \ B, !.next_fresh = @ + taken],
                             reclaimed + taken),
          batch |-> B \cup fresh, fresh |-> fresh] : B \in Batches(reclaimed, sl.free)}

\* Mutant of PopBatch: the hot block is never drained.
PopBatchSkipsHot(cc, max) ==
    CASE cc.shared_len # 0 ->
           LET k == Least(max, Cardinality(cc.shared))
           IN  {[cache |-> [cc EXCEPT !.shared = @ \ B, !.shared_len = @ - k,
                                      !.total_len = @ - k],
                 batch |-> B, fresh |-> {}] : B \in Batches(k, cc.shared)}
      [] cc.shared_len = 0 /\ cc.avail # {} ->
           UNION {SlabPopBatches(cc, s, max) : s \in cc.avail}
      [] OTHER -> {[cache |-> cc, batch |-> {}, fresh |-> {}]}

\* pop_batch: from the shared list, else from the last available slab, else the
\* hot block; one source per call.
PopBatch(cc, max) ==
    CASE cc.shared_len # 0 ->
           LET k == Least(max, Cardinality(cc.shared))
           IN  {[cache |-> [cc EXCEPT !.shared = @ \ B, !.shared_len = @ - k,
                                      !.total_len = @ - k],
                 batch |-> B, fresh |-> {}] : B \in Batches(k, cc.shared)}
      [] cc.shared_len = 0 /\ cc.avail # {} ->
           UNION {SlabPopBatches(cc, s, max) : s \in cc.avail}
      [] OTHER ->
           {[cache |-> [cc EXCEPT !.hot = {}, !.total_len = @ - Cardinality(cc.hot)],
             batch |-> cc.hot, fresh |-> {}]}

-----------------------------------------------------------------------------
\* A local cache is coherent: its counters count, its parts do not overlap, and
\* available_slabs lists exactly the slabs that can yield a block.  This is what
\* makes pop_block_unchecked and the other unchecked pops legal.
CacheCoherent(cc) ==
    /\ Cardinality(cc.hot) <= 1
    /\ cc.shared_len = Cardinality(cc.shared)
    /\ cc.total_len = Cardinality(Held(cc))
    /\ cc.avail = {s \in Addr : HasAvailableBlocks(cc.slabs[s])}
    /\ Disjoint(cc.hot, cc.shared)
    /\ \A s \in Addr :
          /\ cc.slabs[s].next_fresh <= cc.slabs[s].capacity
          /\ cc.slabs[s].free \subseteq s .. s + cc.slabs[s].next_fresh - 1
          /\ Disjoint(SlabStock(cc.slabs[s], s), cc.hot \cup cc.shared)
          /\ \A t \in Addr \ {s} :
                Disjoint(SlabStock(cc.slabs[s], s), SlabStock(cc.slabs[t], t))
=============================================================================
