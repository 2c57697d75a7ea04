---------------------------- MODULE CacheBinding ----------------------------
(***************************************************************************)
(* Several allocators and caches of the instance API: which allocator a    *)
(* cache serves, and what happens when it is used with another one         *)
(* (ThreadCache::bind_to_allocator).  Allocators are created and dropped   *)
(* while caches live on; a cache does not borrow the allocator it serves   *)
(* but remembers its id, a number drawn from a counter.                    *)
(*                                                                         *)
(* A call is one step: caches are exclusively borrowed and what several    *)
(* calls do to one allocator at a time is the subject of SmallPath.  The   *)
(* central pool and its inbox are one set; the local lists of a cache are  *)
(* one set.  One size class.                                               *)
(***************************************************************************)
EXTENDS Integers, FiniteSets

CONSTANTS
    Caches,
    Allocators,     \* the allocators that are ever created: instances, not ids
    Slots,          \* the blocks of an arena
    Configs         \* [refill, limit, drain] block counts of an AllocatorConfig

None == 0           \* no owner yet; the id of an allocator not yet created
Block == Allocators \X Slots
Home(b) == b[1]

ASSUME BindingAssumption ==
    /\ IsFiniteSet(Allocators) /\ IsFiniteSet(Slots)
    /\ \A f \in Configs : /\ f.refill \in Nat /\ f.limit \in Nat /\ f.drain \in Nat
                         /\ f.refill >= 1 /\ f.limit >= 2 /\ f.drain >= 1

VARIABLES
    nextId,     \* NEXT_ALLOCATOR_ID
    id,         \* per allocator: the number it drew
    config,     \* per allocator: its configuration
    alive,      \* allocators created and not dropped
    cache,      \* per cache: the id of its owner, the owner's configuration, its lists
    central,    \* per allocator: blocks in its central pool
    fresh,      \* per allocator: blocks not yet carved from its arena
    live        \* per live block: the cache id in its header

vars == <<nextId, id, config, alive, cache, central, fresh, live>>

NewCache(owner, f) == [owner |-> owner, config |-> f, local |-> {}, staged |-> {}]

Init ==
    /\ nextId = 1
    /\ id = [i \in Allocators |-> None]
    /\ config \in [Allocators -> Configs]
    /\ alive = {}
    /\ cache \in [Caches -> {NewCache(None, f) : f \in Configs}]
    /\ central = [i \in Allocators |-> {}]
    /\ fresh = [i \in Allocators |-> {<<i, s>> : s \in Slots}]
    /\ live = [b \in {} |-> 0]

-----------------------------------------------------------------------------
\* Mutant of NextId: the smallest number no allocator in use has.
NextIdReused == CHOOSE n \in 1..nextId : /\ \A j \in alive : id[j] # n
                                         /\ \A k \in 1..(n - 1) : \E j \in alive : id[j] = k

\* The id a new allocator gets: the counter only moves on, whatever is dropped.
NextId == nextId

New(i) ==
    /\ id[i] = None
    /\ id' = [id EXCEPT ![i] = NextId]
    /\ nextId' = nextId + 1
    /\ alive' = alive \cup {i}
    /\ UNCHANGED <<config, cache, central, fresh, live>>

\* The program drops an allocator none of whose blocks it uses any more.  Its arena
\* is unmapped; what caches hold of it they still hold.
Drop(i) ==
    /\ i \in alive
    /\ \A b \in DOMAIN live : Home(b) # i
    /\ alive' = alive \ {i}
    /\ UNCHANGED <<nextId, id, config, cache, central, fresh, live>>

-----------------------------------------------------------------------------
(* bind_to_allocator, the first statement of every call *)

\* Mutant of IsEmpty: staged remote frees are not looked at.
IsEmptyLocally(c) == cache[c].local = {}

IsEmpty(c) == cache[c].local = {} /\ cache[c].staged = {}

\* The assertion: the call panics, and changes nothing, when Binds is false.
Binds(c, i) == i \in alive /\ (cache[c].owner = id[i] \/ IsEmpty(c))

\* Mutant of Bound: the configuration is not refreshed.
BoundKeepsConfig(c, i) ==
    IF cache[c].owner = id[i] THEN cache[c] ELSE NewCache(id[i], cache[c].config)

Bound(c, i) ==
    IF cache[c].owner = id[i] THEN cache[c] ELSE NewCache(id[i], config[i])

\* A batch of at most n blocks out of a non-empty set: what the pool, the arena
\* or the cache chooses is left open.
Batches(S, n) == {B \in SUBSET S : B # {} /\ Cardinality(B) =< n}

\* allocate_with_cache: from the cache, or from a refill by the pool, or else by
\* the arena.  The header gets the cache's id.
Allocate(c, i) ==
    /\ Binds(c, i)
    /\ LET mine == Bound(c, i)
           n == mine.config.refill
       IN \E batch \in IF mine.local # {} THEN {{}}
                       ELSE IF central[i] # {} THEN Batches(central[i], n)
                       ELSE Batches(fresh[i], n) :
            LET from == mine.local \cup batch IN
            \E b \in from :
                /\ cache' = [cache EXCEPT ![c] = [mine EXCEPT !.local = from \ {b}]]
                /\ live' = [x \in DOMAIN live \cup {b} |-> IF x = b THEN c ELSE live[x]]
                /\ central' = [central EXCEPT ![i] = @ \ batch]
                /\ fresh' = [fresh EXCEPT ![i] = @ \ batch]
    /\ UNCHANGED <<nextId, id, config, alive>>

\* A call that fails after the binding: a request of size zero, an exhausted
\* arena, a pointer of another allocator (ForeignPointer).
BindOnly(c, i) ==
    /\ Binds(c, i)
    /\ cache' = [cache EXCEPT ![c] = Bound(c, i)]
    /\ UNCHANGED <<nextId, id, config, alive, central, fresh, live>>

\* validate_small_block_for_free: the block lies in the arena of this allocator.
OwnBlock(b, i) == Home(b) = i

\* deallocate_with_cache of a block this cache allocated: to the local lists, with
\* a drain of one batch when they exceed the limit ...
FreeLocal(c, i, b) ==
    /\ Binds(c, i) /\ OwnBlock(b, i) /\ live[b] = c
    /\ LET mine == Bound(c, i)
           local == mine.local \cup {b}
       IN \E batch \in IF Cardinality(local) > mine.config.limit
                       THEN Batches(local, mine.config.drain) ELSE {{}} :
            /\ cache' = [cache EXCEPT ![c] = [mine EXCEPT !.local = local \ batch]]
            /\ central' = [central EXCEPT ![i] = @ \cup batch]
    /\ live' = [x \in DOMAIN live \ {b} |-> live[x]]
    /\ UNCHANGED <<nextId, id, config, alive, fresh>>

\* ... and of a block another cache allocated: staged, published in batches.
FreeRemote(c, i, b) ==
    /\ Binds(c, i) /\ OwnBlock(b, i) /\ live[b] # c
    /\ LET mine == Bound(c, i)
           staged == mine.staged \cup {b}
           flush == Cardinality(staged) >= mine.config.drain
       IN /\ cache' = [cache EXCEPT ![c] =
                            [mine EXCEPT !.staged = IF flush THEN {} ELSE staged]]
          /\ central' = [central EXCEPT ![i] = IF flush THEN @ \cup staged ELSE @]
    /\ live' = [x \in DOMAIN live \ {b} |-> live[x]]
    /\ UNCHANGED <<nextId, id, config, alive, fresh>>

\* drain_thread_cache
Drain(c, i) ==
    /\ Binds(c, i)
    /\ LET mine == Bound(c, i) IN
        /\ cache' = [cache EXCEPT ![c] = [mine EXCEPT !.local = {}, !.staged = {}]]
        /\ central' = [central EXCEPT ![i] = @ \cup mine.local \cup mine.staged]
    /\ UNCHANGED <<nextId, id, config, alive, fresh, live>>

Next ==
    \/ \E i \in Allocators : New(i)
    \/ \E i \in alive : Drop(i)
    \/ \E c \in Caches, i \in alive :
        \/ Allocate(c, i) \/ BindOnly(c, i) \/ Drain(c, i)
        \/ \E b \in DOMAIN live : FreeLocal(c, i, b) \/ FreeRemote(c, i, b)

Spec == Init /\ [][Next]_vars

-----------------------------------------------------------------------------
(* Properties *)

TypeOK ==
    /\ nextId \in Nat \ {None}
    /\ id \in [Allocators -> Nat] /\ \A i \in Allocators : id[i] < nextId
    /\ config \in [Allocators -> Configs]
    /\ alive \subseteq {i \in Allocators : id[i] # None}
    /\ \A c \in Caches : /\ cache[c].owner \in 0..(nextId - 1)
                         /\ cache[c].config \in Configs
                         /\ cache[c].local \cup cache[c].staged \subseteq Block
    /\ central \in [Allocators -> SUBSET Block] /\ fresh \in [Allocators -> SUBSET Block]
    /\ DOMAIN live \subseteq Block /\ \A b \in DOMAIN live : live[b] \in Caches

Held(c) == cache[c].local \cup cache[c].staged

\* A cache that would be used for allocator i without a rebinding.
Serves(c, i) == id[i] # None /\ cache[c].owner = id[i]

\* A block never leaves its allocator: a pool and an arena hold only their own
\* blocks, and a cache only blocks of the allocator it serves, however caches
\* are passed between allocators and allocators are dropped and replaced.
BlocksAtHome ==
    /\ \A i \in alive : \A b \in central[i] \cup fresh[i] : Home(b) = i
    /\ \A c \in Caches, i \in alive : Serves(c, i) => \A b \in Held(c) : Home(b) = i

\* Rebinding a cache forgets no block: every block of an allocator that is not
\* dropped is in exactly one place (arena, pool, in use, one list of one cache).
NothingForgotten ==
    \A i \in alive, s \in Slots :
        LET b == <<i, s>> IN
        Cardinality({<<"fresh", x>> : x \in fresh[i] \cap {b}}
                    \cup {<<"central", x>> : x \in central[i] \cap {b}}
                    \cup {<<"live", x>> : x \in DOMAIN live \cap {b}}
                    \cup {<<"local", c>> : c \in {c \in Caches : b \in cache[c].local}}
                    \cup {<<"staged", c>> : c \in {c \in Caches : b \in cache[c].staged}}) = 1

\* Every block is where it belongs, and there once.
BlocksAccounted == TypeOK /\ BlocksAtHome /\ NothingForgotten

\* A cache obeys the configuration of the allocator whose blocks it holds, not of
\* the one it was made for or served before.
BoundByOwner ==
    \A c \in Caches, i \in Allocators :
        Serves(c, i) =>
            LET f == config[i] IN
            /\ Cardinality(cache[c].staged) < f.drain
            /\ Cardinality(cache[c].local) =< IF f.limit > f.refill THEN f.limit ELSE f.refill

\* A cache that outlives its allocator never gives out what it still holds: every
\* block in the program's hands lies in an arena that is still mapped, however many
\* allocators replace the dropped one.
LiveMapped == \A b \in DOMAIN live : Home(b) \in alive
=============================================================================
