----------------------------- MODULE ClassPool ------------------------------
(***************************************************************************)
(* ClassPool of src/central_pool.rs as it is represented: slab records in  *)
(* a vector, an index sorted by start address, three bucket vectors with   *)
(* back-pointers (bucket_slot) maintained by swap_remove, the recent-slab  *)
(* shortcut, the epoch counter and the round-robin sweep cursor.  Each     *)
(* action is one locked call.                                              *)
(*                                                                         *)
(* The epoch only matters modulo the sweep interval and through the ages   *)
(* epoch - last_touched_epoch up to the cold threshold, so these are what  *)
(* the state holds: the abstraction is exact and needs no bound.           *)
(***************************************************************************)
EXTENDS SlabVectors

CONSTANTS
    MaxRefill,       \* `max` of take_refill, at least every span's count
    SweepInterval,   \* SWEEP_INTERVAL
    ColdEpochs,      \* COLD_EPOCHS
    ScanBudget,      \* SWEEP_SCAN_BUDGET
    Paged            \* starts of the slabs that contain a whole page

ASSUME ClassPoolAssumption ==
    /\ MaxRefill \in Nat \ {0}
    /\ SweepInterval \in Nat \ {0} /\ ColdEpochs \in Nat /\ ScanBudget \in Nat

VARIABLES
    cp,     \* the ClassPool
    issued  \* blocks of registered slabs that callers have

poolVars == <<cp, issued>>

-----------------------------------------------------------------------------
\* age[i] is epoch - slabs[i].last_touched_epoch, counted up to ColdEpochs.
\* A SlabId is an index of `slabs`; slot 0 is bucket_slot None.  A free list is the
\* sequence of its nodes from the head on.
NewRecord(sp) ==
    [start |-> sp.start, capacity |-> sp.count, central_free_len |-> 0,
     partial_free |-> <<>>, state |-> "Loaned", slot |-> 0]

BucketNames == {"Partial", "FullHot", "FullCold"}

NewPool ==
    [slabs |-> <<>>, age |-> <<>>, by_start |-> <<>>, bucket |-> [b \in BucketNames |-> <<>>],
     phase |-> 0, cursor |-> 0, recent |-> 0]

\* bump_epoch
BumpEpoch(p) ==
    [p EXCEPT !.phase = (@ + 1) % SweepInterval,
              !.age = [i \in DOMAIN p.age |-> Smaller(p.age[i] + 1, ColdEpochs)]]

\* recent_slab = Some(i); slabs[i].last_touched_epoch = epoch
Touch(p, i) == [p EXCEPT !.recent = i, !.age[i] = 0]

\* normalize_sweep_cursor
NormalizeCursor(p) ==
    [p EXCEPT !.cursor = IF p.bucket["FullHot"] = <<>> THEN 0
                         ELSE @ % Len(p.bucket["FullHot"])]

\* Mutant of RemoveFromBucket: the slab moved into the hole keeps its old slot.
RemoveFromBucketStaleSlot(p, i, state) ==
    LET slot  == p.slabs[i].slot
        freed == [p.slabs EXCEPT ![i].slot = 0]
    IN  IF slot = 0 \/ state \notin BucketNames
        THEN [p EXCEPT !.slabs = freed]
        ELSE NormalizeCursor([p EXCEPT !.bucket[state] = SwapRemove(@, slot), !.slabs = freed])

\* remove_from_bucket: the slab moved into the hole learns its new slot.
RemoveFromBucket(p, i, state) ==
    LET slot   == p.slabs[i].slot
        shrunk == SwapRemove(p.bucket[state], slot)
        freed  == [p.slabs EXCEPT ![i].slot = 0]
    IN  IF slot = 0 \/ state \notin BucketNames
        THEN [p EXCEPT !.slabs = freed]
        ELSE NormalizeCursor(
               [p EXCEPT !.bucket[state] = shrunk,
                         !.slabs = IF slot <= Len(shrunk)
                                   THEN [freed EXCEPT ![shrunk[slot]].slot = slot]
                                   ELSE freed])

\* add_to_bucket
AddToBucket(p, i, state) ==
    IF state \notin BucketNames
    THEN [p EXCEPT !.slabs[i].slot = 0]
    ELSE NormalizeCursor(
           [p EXCEPT !.bucket[state] = Append(@, i),
                     !.slabs[i].slot = Len(p.bucket[state]) + 1])

\* reconcile_bucket_state and reconcile_bucket_transition
Reconcile(p, i, previous) ==
    LET state == p.slabs[i].state
    IN  IF previous = state THEN p
        ELSE AddToBucket(RemoveFromBucket(p, i, previous), i, state)

\* is_sweep_candidate, and page_aligned_inner_range is not None
Sweepable(p, i) ==
    p.slabs[i].state = "FullHot" /\ p.age[i] >= ColdEpochs /\ p.slabs[i].start \in Paged

\* maybe_sweep: scan up to ScanBudget hot slabs from the cursor on; the first one
\* that qualifies is advised, and gets cold if the call succeeded.
MaybeSweep(p) ==
    LET hot     == p.bucket["FullHot"]
        total   == Len(hot)
        budget  == Smaller(ScanBudget, total)
        slab(k) == hot[((p.cursor + k) % total) + 1]
        hits    == {k \in 0 .. budget - 1 : Sweepable(p, slab(k))}
        first   == CHOOSE k \in hits : \A j \in hits : k <= j
        after(k) == [p EXCEPT !.cursor = (@ + k) % total]
    IN  IF p.phase # 0 \/ total = 0 THEN {p}
        ELSE IF hits = {} THEN {after(budget)}
        ELSE { after(first + 1),
               Reconcile([after(first + 1) EXCEPT !.slabs[slab(first)].state = "FullCold"],
                         slab(first), "FullHot") }

\* Mutant of FindSlabId: the recent slab is taken without asking whether it contains b.
FindSlabIdRecent(p, b) ==
    IF p.recent # 0 THEN p.recent ELSE p.by_start[StartsUpTo(p, b)]

\* find_slab_id_unchecked
FindSlabId(p, b) ==
    IF p.recent # 0 /\ SlabContains(p.slabs[p.recent], b)
    THEN p.recent
    ELSE p.by_start[StartsUpTo(p, b)]

\* record_returned_block
RecordReturnedBlock(slab, b) ==
    LET len == slab.central_free_len + 1
    IN  IF len = slab.capacity
        THEN [slab EXCEPT !.central_free_len = len, !.partial_free = <<>>, !.state = "FullHot"]
        ELSE [slab EXCEPT !.central_free_len = len, !.partial_free = <<b>> \o @,
                          !.state = "Partial"]

\* One iteration of the loop in return_batch.
ReturnOne(p, b) ==
    LET i       == FindSlabId(p, b)
        touched == Touch(p, i)
    IN  Reconcile([touched EXCEPT !.slabs[i] = RecordReturnedBlock(@, b)], i, p.slabs[i].state)

\* The loop of return_batch: the pool after the first n blocks of the list, for n = Len.
ReturnAll(p, list) ==
    LET after[n \in 0 .. Len(list)] ==
          IF n = 0 THEN p ELSE ReturnOne(after[n - 1], list[n])
    IN  after[Len(list)]

\* Mutant of LoanSlab: the slab is handed out again and again.
LoanSlabStays(p, i) == [Touch(p, i) EXCEPT !.slabs[i].central_free_len = 0]

\* loan_whole_slab
LoanSlab(p, i) ==
    Reconcile([Touch(p, i) EXCEPT !.slabs[i].state = "Loaned",
                                  !.slabs[i].central_free_len = 0],
              i, p.slabs[i].state)

\* take_partial_batch: the first `max` nodes leave.
TakePartial(p, i) ==
    LET slab  == p.slabs[i]
        moved == Smaller(MaxRefill, Len(slab.partial_free))
        len   == slab.central_free_len - moved
    IN  Reconcile(
          [Touch(p, i) EXCEPT
             !.slabs[i].partial_free = SubSeq(@, moved + 1, Len(@)),
             !.slabs[i].central_free_len = len,
             !.slabs[i].state = IF len = 0 THEN "Loaned" ELSE @],
          i, "Partial")

-----------------------------------------------------------------------------
PoolInit == cp = NewPool /\ issued = {}

\* register_slab: the sorted index gets the new id at the slot binary search found.
RegisterSlab(sp) ==
    LET p    == BumpEpoch(cp)
        i    == Len(p.slabs) + 1
        slot == StartsUpTo(p, sp.start)
    IN  /\ \A k \in DOMAIN cp.slabs : cp.slabs[k].start # sp.start
        /\ cp' \in MaybeSweep(
                     [p EXCEPT !.slabs = Append(@, NewRecord(sp)),
                               !.age = Append(@, 0),
                               !.by_start = InsertAt(@, slot + 1, i),
                               !.recent = i])
        /\ issued' = issued \cup SpanBlocks(sp)

\* take_refill from the last partial slab
TakeBatch ==
    LET p == BumpEpoch(cp)
        i == Last(p.bucket["Partial"])
    IN  /\ p.bucket["Partial"] # <<>>
        /\ cp' \in MaybeSweep(TakePartial(p, i))
        /\ issued' = issued \cup {p.slabs[i].partial_free[k] :
                              k \in 1 .. Smaller(MaxRefill, Len(p.slabs[i].partial_free))}

\* take_refill from the last hot full slab, or else the last cold one
TakeSlab ==
    LET p    == BumpEpoch(cp)
        from == IF p.bucket["FullHot"] # <<>> THEN "FullHot" ELSE "FullCold"
        i    == Last(p.bucket[from])
    IN  /\ p.bucket["Partial"] = <<>>
        /\ p.bucket[from] # <<>>
        /\ cp' \in MaybeSweep(LoanSlab(p, i))
        /\ issued' = issued \cup (p.slabs[i].start .. p.slabs[i].start + p.slabs[i].capacity - 1)

\* take_refill finds nothing; the epoch has moved all the same.
TakeNothing ==
    /\ \A b \in BucketNames : cp.bucket[b] = <<>>
    /\ cp' \in MaybeSweep(BumpEpoch(cp))
    /\ UNCHANGED issued

\* return_batch of the blocks of a non-empty batch, in the order of its list
ReturnBatch(list) ==
    /\ cp' \in MaybeSweep(ReturnAll(BumpEpoch(cp), list))
    /\ issued' = issued \ ToSet(list)

PoolNext ==
    \/ \E sp \in Spans : RegisterSlab(sp)
    \/ TakeBatch
    \/ TakeSlab
    \/ TakeNothing
    \/ \E B \in SUBSET issued : B # {} /\ Cardinality(B) <= MaxBatch
                             /\ \E list \in SetToSeqs(B) : ReturnBatch(list)

PoolSpec == PoolInit /\ [][PoolNext]_poolVars

-----------------------------------------------------------------------------
\* The type invariant.
PoolTypeOK ==
    /\ issued \subseteq 0 .. ArenaBlocks - 1
    /\ cp.phase \in 0 .. SweepInterval - 1
    /\ cp.recent \in 0 .. Len(cp.slabs)
    /\ \A i \in DOMAIN cp.slabs :
          /\ cp.age[i] \in 0 .. ColdEpochs
          /\ cp.slabs[i].state \in BucketNames \cup {"Loaned"}
          /\ cp.slabs[i].slot \in 0 .. Len(cp.slabs)

\* Each bucket lists exactly the slabs in its state, once, and every bucket_slot points
\* back at its slab: any sequence of swap_removes keeps the back-pointers right.
BucketsExact ==
    /\ \A b \in BucketNames :
          /\ ToSet(cp.bucket[b]) = {i \in DOMAIN cp.slabs : cp.slabs[i].state = b}
          /\ \A k \in DOMAIN cp.bucket[b] : cp.slabs[cp.bucket[b][k]].slot = k
    /\ \A i \in DOMAIN cp.slabs : cp.slabs[i].slot = 0 <=> cp.slabs[i].state = "Loaned"

\* The sweep cursor names a hot slab whenever there is one, after every removal.
CursorInRange ==
    cp.cursor \in 0 .. (IF cp.bucket["FullHot"] = <<>> THEN 0
                        ELSE Len(cp.bucket["FullHot"]) - 1)

\* Buckets, slots and cursor agree with the states of the slabs.
BucketsSound == PoolTypeOK /\ BucketsExact /\ CursorInRange

\* The lookup by recent slab and sorted index finds, for every block a caller may
\* return, the slab that contains it.
LookupRight ==
    \A b \in issued : SlabContains(cp.slabs[FindSlabId(cp, b)], b)

\* The pool as CentralSlabs sees it: its slabs, by their start.
SlabView(slab) ==
    [capacity |-> slab.capacity, central_free_len |-> slab.central_free_len,
     partial_free |-> ToSet(slab.partial_free), state |-> slab.state]

NoSlab == [capacity |-> 0, central_free_len |-> 0, partial_free |-> {}, state |-> "Absent"]

PoolView(p) ==
    [s \in 0 .. ArenaBlocks - 1 |->
        LET at == SlabsAt(p, s)
        IN  IF at = {} THEN NoSlab ELSE SlabView(p.slabs[CHOOSE i \in at : TRUE])]

PoolContract == INSTANCE CentralContract WITH pool <- PoolView(cp), out <- issued

\* The represented pool keeps the contract the rest of the allocator relies on: with
\* its buckets, shortcuts and sweeps it hands out and takes back exactly the blocks
\* that the operators of CentralSlabs allow.
ImplementsContract == PoolContract!ContractSpec
=============================================================================
