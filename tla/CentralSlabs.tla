---------------------------- MODULE CentralSlabs ----------------------------
(***************************************************************************)
(* The central pool of one size class (src/central_pool.rs) as a value and *)
(* the operators its methods compute on it.  Every method runs under the   *)
(* class mutex, so a caller applies one of these operators in one step.    *)
(*                                                                         *)
(* An address is the index of a block-sized cell of the arena.  A pool     *)
(* maps each address to the SlabRecord that starts there.  The order of    *)
(* the bucket vectors and of the intrusive free lists is left open here:   *)
(* where the code takes "the last" of a bucket or a list, any member may   *)
(* be taken.  Module ClassPool models that order.                          *)
(***************************************************************************)
EXTENDS Integers, FiniteSets

CONSTANT ArenaBlocks  \* how many blocks of the class the arena can hold

ASSUME ArenaBlocksAssumption == ArenaBlocks \in Nat

Addr == 0 .. ArenaBlocks - 1

Least(a, b) == IF a <= b THEN a ELSE b

Disjoint(S, T) == S \cap T = {}

\* The k-element subsets of S: the batches of k blocks a free list may yield.
Batches(k, S) == {B \in SUBSET S : Cardinality(B) = k}

-----------------------------------------------------------------------------
SlabState == {"Absent", "Loaned", "Partial", "FullHot", "FullCold"}

SlabRecord ==
    [ capacity         : Nat,
      central_free_len : Int,
      partial_free     : SUBSET Addr,
      state            : SlabState ]

Pool == [Addr -> SlabRecord]

\* ClassPool::new: no slab is registered at any address.
EmptyPool ==
    [s \in Addr |-> [capacity |-> 0, central_free_len |-> 0,
                     partial_free |-> {}, state |-> "Absent"]]

Registered(p) == {s \in Addr : p[s].state # "Absent"}

Bucket(p, state) == {s \in Addr : p[s].state = state}

SlabBlocks(p, s) == s .. s + p[s].capacity - 1

\* The blocks the pool holds: all of a full slab, the listed part of a partial one.
SlabHeld(p, s) ==
    IF p[s].state \in {"FullHot", "FullCold"} THEN SlabBlocks(p, s) ELSE p[s].partial_free

CentralHeld(p) == UNION {SlabHeld(p, s) : s \in Addr}

-----------------------------------------------------------------------------
\* register_slab: a new record (or a reset of the one at the same start), on loan.
RegisterSlab(p, start, n) ==
    [p EXCEPT ![start] = [capacity |-> n, central_free_len |-> 0,
                          partial_free |-> {}, state |-> "Loaned"]]

\* find_slab_id_unchecked: s is the last registered start that is <= b.
FindsSlab(p, s, b) ==
    /\ s \in Registered(p)
    /\ s <= b
    /\ \A t \in Registered(p) : t <= b => t <= s

\* record_returned_block, for all the blocks R of one batch that lie in the slab.
RecordReturned(r, R) ==
    LET len == r.central_free_len + Cardinality(R)
    IN  IF len = r.capacity
        THEN [r EXCEPT !.central_free_len = len, !.partial_free = {}, !.state = "FullHot"]
        ELSE [r EXCEPT !.central_free_len = len, !.partial_free = @ \cup R,
                       !.state = "Partial"]

\* ClassPool::return_batch: every block goes to the slab the lookup finds for it.
ReturnBatch(p, B) ==
    [s \in Addr |->
        LET R == {b \in B : FindsSlab(p, s, b)}
        IN  IF R = {} THEN p[s] ELSE RecordReturned(p[s], R)]

\* take_partial_batch: the blocks of B leave the partial slab s.
TakePartialBatch(p, s, B) ==
    LET len == p[s].central_free_len - Cardinality(B)
    IN  [p EXCEPT ![s] = [p[s] EXCEPT !.central_free_len = len,
                                      !.partial_free = p[s].partial_free \ B,
                                      !.state = IF len = 0 THEN "Loaned" ELSE p[s].state]]

\* Mutant of LoanWholeSlab: the slab stays in its bucket.
LoanWholeSlabStays(p, s) == [p EXCEPT ![s] = [p[s] EXCEPT !.central_free_len = 0]]

\* loan_whole_slab: all blocks of the full slab s leave at once.
LoanWholeSlab(p, s) ==
    [p EXCEPT ![s] = [p[s] EXCEPT !.central_free_len = 0, !.state = "Loaned"]]

\* take_refill prefers a partial slab, then a hot full one, then a cold one.
BatchSlabs(p) == Bucket(p, "Partial")

LoanableSlabs(p) ==
    CASE Bucket(p, "Partial") # {} -> {}
      [] Bucket(p, "Partial") = {} /\ Bucket(p, "FullHot") # {} -> Bucket(p, "FullHot")
      [] OTHER -> Bucket(p, "FullCold")

\* The full slab s has gone cold: its pages were handed to madvise(MADV_FREE).
Cooled(p, s) == [t \in Addr |-> IF t = s THEN [p[t] EXCEPT !.state = "FullCold"] ELSE p[t]]

\* Mutant of Sweep: a slab that is not full may be discarded as well.
SweepPartial(p) ==
    {p} \cup {Cooled(p, s) : s \in Bucket(p, "FullHot") \cup Bucket(p, "Partial")}

\* maybe_sweep: the epoch and age tests decide when; at most one slab that is full
\* and hot gets cold.
Sweep(p) == {p} \cup {Cooled(p, s) : s \in Bucket(p, "FullHot")}

\* The blocks whose pages a sweep from p to q discarded.
Discarded(p, q) ==
    UNION {SlabBlocks(q, s) : s \in {t \in Addr : q[t].state = "FullCold"
                                                  /\ p[t].state # "FullCold"}}

-----------------------------------------------------------------------------
\* A central slab's free count, free list and state agree (what the code's
\* debug_assert_invariants asserts, and that the count is exact).
SlabCoherent(p, s) ==
    /\ p[s].partial_free \subseteq SlabBlocks(p, s)
    /\ p[s].central_free_len = Cardinality(SlabHeld(p, s))
    /\ p[s].state \in {"Absent", "Loaned"} => p[s].partial_free = {}
    /\ p[s].state = "Partial" =>
          p[s].central_free_len > 0 /\ p[s].central_free_len < p[s].capacity
    /\ p[s].state \in {"FullHot", "FullCold"} => p[s].partial_free = {}

\* Registered slabs do not overlap, so the lookup by last start finds the right one.
PoolCoherent(p) ==
    /\ \A s \in Addr : SlabCoherent(p, s)
    /\ \A s, t \in Registered(p) : s # t => Disjoint(SlabBlocks(p, s), SlabBlocks(p, t))
=============================================================================
