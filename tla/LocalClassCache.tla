-------------------------- MODULE LocalClassCache ---------------------------
(***************************************************************************)
(* LocalClassCache of src/thread_cache.rs as it is represented: slab       *)
(* records in a vector that only grows, an index of it sorted by start     *)
(* address, the vector available_slabs with back-pointers (available_slot) *)
(* kept up by swap_remove, the recent-slab shortcut, the hot slot and the  *)
(* shared list.  Each action is one call; one thread makes them all.       *)
(*                                                                         *)
(* The records of slabs that went back to the central pool stay in the     *)
(* vector, so the cache keeps meeting old records: a freed block may fall  *)
(* into one, and the slab may be issued to this cache again.               *)
(***************************************************************************)
EXTENDS SlabVectors

VARIABLES
    cc,    \* the LocalClassCache
    out    \* blocks of the class that are in use, in the pool or in other caches

vars == <<cc, out>>

-----------------------------------------------------------------------------
\* LocalSlab::new.  A SlabId is an index of `slabs`; slot 0 is available_slot None.
\* A free list is the sequence of its nodes from the head on.
NewSlab(sp) ==
    [start |-> sp.start, capacity |-> sp.count, next_fresh |-> 0, free |-> <<>>, slot |-> 0]

\* LocalClassCache::new; recent 0 is None.
NewCache ==
    [hot |-> {}, slabs |-> <<>>, by_start |-> <<>>, avail |-> <<>>, recent |-> 0,
     shared |-> <<>>, shared_len |-> 0, total_len |-> 0]

HasAvailable(slab) == slab.next_fresh < slab.capacity \/ slab.free # <<>>

\* LocalSlab::reset
Reset(slab) == [slab EXCEPT !.next_fresh = 0, !.free = <<>>, !.slot = 0]

\* mark_slab_available
MarkAvailable(c, i) ==
    IF c.slabs[i].slot # 0 THEN c
    ELSE [c EXCEPT !.avail = Append(@, i), !.slabs[i].slot = Len(c.avail) + 1]

\* mark_slab_unavailable: swap_remove, and the slab moved into the hole learns its slot.
MarkUnavailable(c, i) ==
    LET slot   == c.slabs[i].slot
        shrunk == SwapRemove(c.avail, slot)
        freed  == [c.slabs EXCEPT ![i].slot = 0]
    IN  IF slot = 0 THEN c
        ELSE [c EXCEPT !.avail = shrunk,
                       !.slabs = IF slot <= Len(shrunk)
                                 THEN [freed EXCEPT ![shrunk[slot]].slot = slot]
                                 ELSE freed]

\* find_slab; 0 is None.
FindSlab(c, b) ==
    LET index == StartsUpTo(c, b)
    IN  IF index # 0 /\ SlabContains(c.slabs[c.by_start[index]], b)
        THEN c.by_start[index] ELSE 0

\* Mutant of SlabOf: the recent slab is taken if it starts at or below the block.
SlabOfRecentStart(c, b) ==
    IF c.recent # 0 /\ c.slabs[c.recent].start <= b THEN c.recent ELSE FindSlab(c, b)

\* The lookup of push_spilled_block: the recent slab, else the index.
SlabOf(c, b) ==
    IF c.recent # 0 /\ SlabContains(c.slabs[c.recent], b) THEN c.recent ELSE FindSlab(c, b)

\* Mutant of PushSpilled: an exhausted slab that gets a block back is not listed.
PushSpilledUnlisted(c, b) ==
    LET i == SlabOf(c, b)
    IN  IF i = 0
        THEN [c EXCEPT !.shared = <<b>> \o @, !.shared_len = @ + 1]
        ELSE [c EXCEPT !.recent = i, !.slabs[i].free = <<b>> \o @]

\* push_spilled_block
PushSpilled(c, b) ==
    LET i == SlabOf(c, b)
        pushed == [c EXCEPT !.recent = i, !.slabs[i].free = <<b>> \o @]
    IN  CASE i = 0 -> [c EXCEPT !.shared = <<b>> \o @, !.shared_len = @ + 1]
          [] i # 0 /\ HasAvailable(c.slabs[i]) -> pushed
          [] OTHER -> MarkAvailable(pushed, i)

\* The end of a pop: an exhausted slab leaves available_slabs.
Settle(c, i) == IF HasAvailable(c.slabs[i]) THEN c ELSE MarkUnavailable(c, i)

-----------------------------------------------------------------------------
Init == cc = NewCache /\ out = 0 .. ArenaBlocks - 1

\* push_owned_slab of a slab the cache has no record of
PushNewSlab(sp) ==
    LET i    == Len(cc.slabs) + 1
        slot == StartsUpTo(cc, sp.start)
    IN  /\ SpanBlocks(sp) \subseteq out
        /\ \A k \in DOMAIN cc.slabs : cc.slabs[k].start # sp.start
        /\ cc' = MarkAvailable([cc EXCEPT !.slabs = Append(@, NewSlab(sp)),
                                          !.by_start = InsertAt(@, slot + 1, i),
                                          !.recent = i,
                                          !.total_len = @ + sp.count], i)
        /\ out' = out \ SpanBlocks(sp)

\* push_owned_slab of a slab the cache had before
PushKnownSlab(sp) ==
    \E i \in DOMAIN cc.slabs :
        /\ SpanBlocks(sp) \subseteq out
        /\ cc.slabs[i].start = sp.start
        /\ LET gone == MarkUnavailable(cc, i)
           IN  cc' = MarkAvailable([gone EXCEPT !.slabs[i] = Reset(@), !.recent = i,
                                                !.total_len = @ + sp.count], i)
        /\ out' = out \ SpanBlocks(sp)

\* push_shared_batch
PushSharedBatch(list) ==
    /\ cc' = [cc EXCEPT !.shared = list \o @,
                        !.shared_len = @ + Len(list), !.total_len = @ + Len(list)]
    /\ out' = out \ ToSet(list)

\* push_block: the newest block takes the hot slot, the previous one spills.
PushBlock(b) ==
    LET pushed == [cc EXCEPT !.hot = {b}, !.total_len = @ + 1]
    IN  /\ cc' = IF cc.hot = {} THEN pushed
                 ELSE PushSpilled(pushed, CHOOSE h \in cc.hot : TRUE)
        /\ out' = out \ {b}

\* pop_block_unchecked with a hot block
PopHot ==
    /\ cc.hot # {}
    /\ cc' = [cc EXCEPT !.hot = {}, !.total_len = @ - 1]
    /\ out' = out \cup cc.hot

\* pop_block_unchecked from the last available slab: reclaimed blocks first.
PopSlab ==
    LET i     == Last(cc.avail)
        slab  == cc.slabs[i]
        fresh == slab.free = <<>>
    IN  /\ cc.hot = {} /\ cc.avail # <<>>
        /\ cc' = Settle([cc EXCEPT !.slabs[i].free = IF fresh THEN @ ELSE Tail(@),
                                   !.slabs[i].next_fresh = IF fresh THEN @ + 1 ELSE @,
                                   !.recent = i, !.total_len = @ - 1], i)
        /\ out' = out \cup {IF fresh THEN slab.start + slab.next_fresh ELSE Head(slab.free)}

\* pop_block_unchecked from the shared list, on the strength of total_len alone
PopShared ==
    /\ cc.total_len # 0
    /\ cc.hot = {} /\ cc.avail = <<>>
    /\ cc' = [cc EXCEPT !.shared = Tail(@), !.shared_len = @ - 1, !.total_len = @ - 1]
    /\ out' = out \cup {Head(cc.shared)}

\* pop_batch from the shared list
BatchShared(max) ==
    LET n == Smaller(max, Len(cc.shared))
    IN  /\ cc.shared_len # 0
        /\ cc' = [cc EXCEPT !.shared = SubSeq(@, n + 1, Len(@)),
                            !.shared_len = @ - n, !.total_len = @ - n]
        /\ out' = out \cup {cc.shared[k] : k \in 1 .. n}

\* pop_batch from the last available slab (LocalSlab::pop_batch): reclaimed blocks,
\* topped up with fresh ones.
BatchSlab(max) ==
    LET i         == Last(cc.avail)
        slab      == cc.slabs[i]
        reclaimed == Smaller(Len(slab.free), max)
        fresh     == Smaller(max - reclaimed, slab.capacity - slab.next_fresh)
        first     == slab.start + slab.next_fresh
    IN  /\ cc.shared_len = 0 /\ cc.avail # <<>>
        /\ cc' = Settle([cc EXCEPT !.slabs[i].free = SubSeq(@, reclaimed + 1, Len(@)),
                                   !.slabs[i].next_fresh = @ + fresh,
                                   !.total_len = @ - reclaimed - fresh], i)
        /\ out' = out \cup {slab.free[k] : k \in 1 .. reclaimed} \cup (first .. first + fresh - 1)

\* pop_batch of the hot block alone
BatchHot ==
    /\ cc.shared_len = 0 /\ cc.avail = <<>> /\ cc.hot # {}
    /\ cc' = [cc EXCEPT !.hot = {}, !.total_len = @ - 1]
    /\ out' = out \cup cc.hot

Next ==
    \/ \E sp \in Spans : PushNewSlab(sp) \/ PushKnownSlab(sp)
    \/ \E B \in SUBSET out : B # {} /\ Cardinality(B) <= MaxBatch
                             /\ \E list \in SetToSeqs(B) : PushSharedBatch(list)
    \/ \E b \in out : PushBlock(b)
    \/ PopHot
    \/ PopSlab
    \/ PopShared
    \/ BatchShared(MaxBatch)
    \/ BatchSlab(MaxBatch)
    \/ BatchHot

Spec == Init /\ [][Next]_vars

-----------------------------------------------------------------------------
\* The type invariant.
TypeOK ==
    /\ out \subseteq 0 .. ArenaBlocks - 1
    /\ cc.recent \in 0 .. Len(cc.slabs)
    /\ cc.total_len \in 0 .. ArenaBlocks
    /\ cc.shared_len = Len(cc.shared)
    /\ \A i \in DOMAIN cc.slabs : /\ cc.slabs[i].next_fresh \in 0 .. cc.slabs[i].capacity
                                  /\ cc.slabs[i].slot \in 0 .. Len(cc.avail)

\* available_slabs lists exactly the slabs with a block to give, once each, and every
\* available_slot points back at its slab: the unchecked pops take the last entry
\* without asking whether it has a block, and swap_remove trusts the slot.
AvailableExact ==
    /\ ToSet(cc.avail) = {i \in DOMAIN cc.slabs : HasAvailable(cc.slabs[i])}
    /\ \A k \in DOMAIN cc.avail : cc.slabs[cc.avail[k]].slot = k
    /\ \A i \in DOMAIN cc.slabs : cc.slabs[i].slot = 0 <=> ~HasAvailable(cc.slabs[i])

\* The lookup of a spilled block finds the slab that contains it if the cache has a
\* record of it, and nothing else, however old the recent-slab shortcut is.
LookupExact ==
    \A b \in 0 .. ArenaBlocks - 1 :
        IF \E i \in DOMAIN cc.slabs : SlabContains(cc.slabs[i], b)
        THEN SlabOf(cc, b) # 0 /\ SlabContains(cc.slabs[SlabOf(cc, b)], b)
        ELSE SlabOf(cc, b) = 0

\* The vectors of the cache, their back-pointers and its shortcut agree.
VectorsSound == TypeOK /\ AvailableExact /\ LookupExact

\* The cache as LocalCache sees it: its slabs by their start.
SlabContents(slab) ==
    [capacity |-> slab.capacity, next_fresh |-> slab.next_fresh, free |-> ToSet(slab.free)]

NoContents == [capacity |-> 0, next_fresh |-> 0, free |-> {}]

CacheView(c) ==
    [hot |-> c.hot,
     slabs |-> [s \in 0 .. ArenaBlocks - 1 |->
                  LET at == SlabsAt(c, s)
                  IN  IF at = {} THEN NoContents
                      ELSE SlabContents(c.slabs[CHOOSE i \in at : TRUE])],
     avail |-> {c.slabs[i].start : i \in ToSet(c.avail)},
     shared |-> ToSet(c.shared),
     shared_len |-> c.shared_len,
     total_len |-> c.total_len]

Contract == INSTANCE CacheContract WITH cache <- CacheView(cc)

\* The represented cache keeps the contract the allocator's model relies on: its
\* vectors, slots and shortcuts give and take exactly the blocks that the operators
\* of LocalCache allow, with the same counters.
ImplementsCache == Contract!ContractSpec
=============================================================================
