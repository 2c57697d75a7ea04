---------------------------- MODULE CacheContract ---------------------------
(***************************************************************************)
(* What the class cache of one thread promises the allocator, in terms of  *)
(* the operators of LocalCache: which block a pop may give and where a     *)
(* freed block ends up, with no word on vectors, slots or list order.      *)
(***************************************************************************)
EXTENDS LocalCache

CONSTANT MaxBatch   \* the `max` of pop_batch

VARIABLES cache,    \* the ClassCache
          out       \* blocks of the class that are not in this cache

ContractInit == cache = NewClassCache /\ out = Addr

TakeSlab(s, n) ==
    /\ s .. s + n - 1 \subseteq out
    /\ cache' = PushOwnedSlab(cache, s, n)
    /\ out' = out \ (s .. s + n - 1)

TakeShared(B) ==
    /\ B \subseteq out
    /\ cache' = PushSharedBatch(cache, B)
    /\ out' = out \ B

TakeFreed(b) ==
    /\ b \in out
    /\ cache' = PushBlock(cache, b)
    /\ out' = out \ {b}

GiveBlock ==
    \E pop \in PopBlock(cache) :
        /\ cache' = pop.cache
        /\ out' = out \cup {pop.block}

GiveBatch ==
    \E pop \in PopBatch(cache, MaxBatch) :
        /\ cache' = pop.cache
        /\ out' = out \cup pop.batch

ContractNext ==
    \/ \E s \in Addr : \E n \in 1 .. ArenaBlocks - s : TakeSlab(s, n)
    \/ \E B \in SUBSET Addr : TakeShared(B)
    \/ \E b \in Addr : TakeFreed(b)
    \/ GiveBlock
    \/ GiveBatch

ContractSpec == ContractInit /\ [][ContractNext]_<<cache, out>>
=============================================================================
