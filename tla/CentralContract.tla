-------------------------- MODULE CentralContract ---------------------------
(***************************************************************************)
(* What the central pool of one class promises its callers, in terms of    *)
(* the operators of CentralSlabs: which blocks it may hand out and what a  *)
(* return does, with no word on buckets, slots, epochs or list order.      *)
(***************************************************************************)
EXTENDS CentralSlabs

CONSTANT MaxRefill   \* the `max` of take_refill

VARIABLES pool,      \* start address -> SlabRecord
          out        \* blocks of registered slabs that callers have

ContractInit == pool = EmptyPool /\ out = {}

Enroll(s, n) ==
    /\ Disjoint(s .. s + n - 1, UNION {SlabBlocks(pool, t) : t \in Registered(pool)})
    /\ pool' \in Sweep(RegisterSlab(pool, s, n))
    /\ out' = out \cup (s .. s + n - 1)

HandOutBatch(s, B) ==
    /\ s \in BatchSlabs(pool)
    /\ B \in Batches(Least(MaxRefill, Cardinality(pool[s].partial_free)),
                     pool[s].partial_free)
    /\ pool' \in Sweep(TakePartialBatch(pool, s, B))
    /\ out' = out \cup B

HandOutSlab(s) ==
    /\ s \in LoanableSlabs(pool)
    /\ pool' \in Sweep(LoanWholeSlab(pool, s))
    /\ out' = out \cup SlabBlocks(pool, s)

TakeBack(B) ==
    /\ B \subseteq out
    /\ pool' \in Sweep(ReturnBatch(pool, B))
    /\ out' = out \ B

ContractNext ==
    \/ \E s \in Addr : \E n \in 1 .. ArenaBlocks - s : Enroll(s, n)
    \/ \E s \in Addr : \E B \in SUBSET Addr : HandOutBatch(s, B)
    \/ \E s \in Addr : HandOutSlab(s)
    \/ \E B \in SUBSET Addr : TakeBack(B)

ContractSpec == ContractInit /\ [][ContractNext]_<<pool, out>>
=============================================================================
