------------------------- MODULE CacheBindingProofs -------------------------
(***************************************************************************)
(* Proofs about CacheBinding, for every number of caches and allocators,   *)
(* every arena and every set of configurations: no block is forgotten or   *)
(* leaves its allocator when a cache is passed between allocators, a cache *)
(* obeys the configuration of its owner, and no block of a dropped         *)
(* allocator is given to the program.                                      *)
(***************************************************************************)
EXTENDS CacheBinding, FiniteSetTheorems, TLAPS

Cache == [owner : Nat, config : Configs,
          local : SUBSET Block, staged : SUBSET Block]

\* TypeOK, with the variables that are functions known to be functions.
Typed == TypeOK /\ cache \in [Caches -> Cache]

\* No two allocators ever created have the same id.
Distinct == \A i, j \in Allocators : id[i] # None /\ id[i] = id[j] => i = j

\* BlocksAtHome for the dropped allocators and those not yet created as well: their
\* blocks stay where they are, and a cache may still hold some.
AllAtHome ==
    /\ \A i \in Allocators : \A b \in central[i] \cup fresh[i] : Home(b) = i
    /\ \A c \in Caches : \A b \in Held(c) : Serves(c, Home(b))

\* A block is in one place at most ...
Once(b) ==
    /\ b \in fresh[Home(b)] => /\ b \notin central[Home(b)] /\ b \notin DOMAIN live
                               /\ \A c \in Caches : b \notin Held(c)
    /\ b \in central[Home(b)] => /\ b \notin DOMAIN live
                                 /\ \A c \in Caches : b \notin Held(c)
    /\ b \in DOMAIN live => \A c \in Caches : b \notin Held(c)
    /\ \A c \in Caches : ~(b \in cache[c].local /\ b \in cache[c].staged)
    /\ \A c, d \in Caches : b \in Held(c) /\ b \in Held(d) => c = d

\* ... and in one at least.
Somewhere(b) ==
    \/ b \in fresh[Home(b)]
    \/ b \in central[Home(b)]
    \/ b \in DOMAIN live
    \/ \E c \in Caches : b \in Held(c)

Placed == \A b \in Block : Once(b) /\ Somewhere(b)

\* A cache has the configuration of the allocator it serves.
Configured ==
    \A c \in Caches, i \in Allocators : Serves(c, i) => cache[c].config = config[i]

\* The inductive invariant.
BindInv == Typed /\ Distinct /\ AllAtHome /\ Placed /\ Configured /\ BoundByOwner /\ LiveMapped

-----------------------------------------------------------------------------
(* Facts about the operators *)

\* The components of a block.
LEMMA BlockParts ==
    ASSUME NEW b \in Block
    PROVE  Home(b) \in Allocators /\ b[2] \in Slots /\ b = <<Home(b), b[2]>>
  BY DEF Block, Home

\* A set of blocks is finite.
LEMMA BlocksFinite ==
    ASSUME NEW S \in SUBSET Block
    PROVE  IsFiniteSet(S) /\ Cardinality(S) \in Nat
  <1>2. IsFiniteSet(Block)
    BY FS_Product, BindingAssumption DEF Block
  <1> QED BY <1>2, FS_Subset, FS_CardinalityType

\* The binding at the head of a call: the cache that works for allocator i has its
\* configuration and the blocks the cache had before, since a cache is rebound only
\* when it is empty.
LEMMA BoundFacts ==
    ASSUME BindInv, NEW c \in Caches, NEW i \in alive, Binds(c, i)
    PROVE  /\ Bound(c, i) \in Cache
           /\ i \in Allocators /\ id[i] # None /\ id[i] \in Nat
           /\ Bound(c, i).owner = id[i]
           /\ Bound(c, i).config = config[i]
           /\ config[i] \in Configs
           /\ Bound(c, i).local = cache[c].local
           /\ Bound(c, i).staged = cache[c].staged
           /\ cache[c].local \in SUBSET Block
           /\ cache[c].staged \in SUBSET Block
           /\ \A b \in Held(c) : Home(b) = i
  <1>1. i \in Allocators /\ id[i] # None /\ id[i] \in Nat
    BY DEF BindInv, Typed, TypeOK
  <1>2. config[i] \in Configs /\ cache[c] \in Cache
    BY <1>1 DEF BindInv, Typed, TypeOK
  <1>3. CASE cache[c].owner = id[i]
    <2>1. Serves(c, i) /\ Bound(c, i) = cache[c]
      BY <1>1, <1>3 DEF Serves, Bound
    <2>2. cache[c].config = config[i]
      BY <1>1, <2>1 DEF BindInv, Configured
    <2>3. cache[c].local \in SUBSET Block /\ cache[c].staged \in SUBSET Block
      BY <1>2 DEF Cache
    <2>4. ASSUME NEW b \in Held(c) PROVE Home(b) = i
      <3>1. Home(b) \in Allocators
        BY <2>3, BlockParts DEF Held
      <3>2. id[Home(b)] # None /\ id[Home(b)] = id[i]
        BY <1>3 DEF BindInv, AllAtHome, Serves
      <3> QED BY <1>1, <3>1, <3>2 DEF BindInv, Distinct
    <2> QED BY <1>1, <1>2, <1>3, <2>1, <2>2, <2>3, <2>4
  <1>4. CASE cache[c].owner # id[i]
    <2>1. cache[c].local = {} /\ cache[c].staged = {}
      BY <1>4 DEF Binds, IsEmpty
    <2>2. Bound(c, i) = [owner |-> id[i], config |-> config[i], local |-> {}, staged |-> {}]
      BY <1>4 DEF Bound, NewCache
    <2> QED BY <1>1, <1>2, <2>1, <2>2 DEF Cache, Held
  <1> QED BY <1>3, <1>4

-----------------------------------------------------------------------------
(* What a call of allocator i with cache c does to the places of its blocks *)

\* The five places a call works on share no block.
Parted(L, S, P, F, D) ==
    /\ L \cap S = {} /\ L \cap P = {} /\ L \cap F = {} /\ L \cap D = {}
    /\ S \cap P = {} /\ S \cap F = {} /\ S \cap D = {}
    /\ P \cap F = {} /\ P \cap D = {}
    /\ F \cap D = {}

\* The five places share no block before the call.
LEMMA PartedBefore ==
    ASSUME BindInv, NEW c \in Caches, NEW i \in alive, Binds(c, i)
    PROVE  /\ Parted(cache[c].local, cache[c].staged, central[i], fresh[i], DOMAIN live)
           /\ central[i] \in SUBSET Block /\ fresh[i] \in SUBSET Block
           /\ DOMAIN live \in SUBSET Block
           /\ \A b \in central[i] \cup fresh[i] : Home(b) = i
  <1>1. i \in Allocators /\ cache[c].local \in SUBSET Block /\ cache[c].staged \in SUBSET Block
    BY BoundFacts
  <1>2. central[i] \in SUBSET Block /\ fresh[i] \in SUBSET Block /\ DOMAIN live \in SUBSET Block
    BY <1>1 DEF BindInv, Typed, TypeOK
  <1>3. \A b \in central[i] \cup fresh[i] : Home(b) = i
    BY <1>1 DEF BindInv, AllAtHome
  <1>4. \A b \in Block : Once(b)
    BY DEF BindInv, Placed
  <1>5. \A b \in Held(c) : Home(b) = i
    BY BoundFacts
  <1>6. Parted(cache[c].local, cache[c].staged, central[i], fresh[i], DOMAIN live)
    BY <1>1, <1>2, <1>3, <1>4, <1>5 DEF Parted, Once, Held
  <1> QED BY <1>2, <1>3, <1>6

\* A call of allocator i with cache c that leaves it as m, the pool with P and the
\* arena with F, moves blocks of i between the five places, takes none from elsewhere
\* and drops none.
Moves(c, i, m, P, F) ==
    /\ Binds(c, i)
    /\ m \in Cache /\ m.owner = id[i] /\ m.config = config[i]
    /\ P \in SUBSET Block /\ F \in SUBSET Block
    /\ cache' = [cache EXCEPT ![c] = m]
    /\ central' = [central EXCEPT ![i] = P]
    /\ fresh' = [fresh EXCEPT ![i] = F]
    /\ UNCHANGED <<nextId, id, config, alive>>
    /\ DOMAIN live' \in SUBSET Block
    /\ \A b \in DOMAIN live' : live'[b] \in Caches
    /\ \A b \in m.local \cup m.staged \cup P \cup F : Home(b) = i
    /\ \A b \in Block : Home(b) # i => (b \in DOMAIN live' <=> b \in DOMAIN live)
    /\ Parted(m.local, m.staged, P, F, DOMAIN live')
    /\ \A b \in Block : Home(b) = i =>
           (\/ b \in m.local \cup m.staged \cup P \cup F
            \/ b \in DOMAIN live')
           <=>
           (\/ b \in cache[c].local \cup cache[c].staged \cup central[i] \cup fresh[i]
            \/ b \in DOMAIN live)

\* Such a call keeps every block at home and in one place.
LEMMA MoveKeeps ==
    ASSUME BindInv, NEW c \in Caches, NEW i \in alive, NEW m, NEW P, NEW F,
           Moves(c, i, m, P, F)
    PROVE  AllAtHome' /\ Placed' /\ Configured' /\ Distinct' /\ LiveMapped'
  <1> USE DEF Moves
  <1>1. /\ i \in Allocators /\ central \in [Allocators -> SUBSET Block] /\ fresh \in [Allocators -> SUBSET Block]
        /\ cache \in [Caches -> Cache]
    BY BoundFacts DEF BindInv, Typed, TypeOK
  <1>2. /\ central'[i] = P /\ fresh'[i] = F
        /\ \A j \in Allocators \ {i} : central'[j] = central[j] /\ fresh'[j] = fresh[j]
    BY <1>1
  <1>3. cache'[c] = m /\ \A d \in Caches \ {c} : cache'[d] = cache[d]
    BY <1>1
  <1>4. Held(c)' = m.local \cup m.staged /\ \A d \in Caches \ {c} : Held(d)' = Held(d)
    BY <1>3 DEF Held
  <1>5. AllAtHome'
    <2>1. ASSUME NEW j \in Allocators, NEW b \in central'[j] \cup fresh'[j]
          PROVE  Home(b) = j
      BY <1>2 DEF BindInv, AllAtHome
    <2>2. ASSUME NEW d \in Caches, NEW b \in Held(d)'
          PROVE  Serves(d, Home(b))'
      <3>1. CASE d = c
        <4>1. Home(b) = i
          BY <1>4, <3>1
        <4>2. Serves(c, i)'
          BY <1>3, BoundFacts DEF Serves
        <4> QED BY <3>1, <4>1, <4>2 DEF Serves
      <3>2. CASE d # c
        <4>1. Serves(d, Home(b))
          BY <1>4, <3>2 DEF BindInv, AllAtHome
        <4> QED BY <1>3, <3>2, <4>1 DEF Serves, Home
      <3> QED BY <3>1, <3>2
    <2> QED BY <2>1, <2>2 DEF AllAtHome, Home
  <1>6. Configured'
    <2> SUFFICES ASSUME NEW d \in Caches, NEW j \in Allocators, Serves(d, j)'
                 PROVE  cache'[d].config = config[j]
      BY DEF Configured
    <2>1. CASE d = c
      <3>1. j = i
        BY <1>1, <1>3, <2>1, BoundFacts DEF BindInv, Distinct, Serves
      <3> QED BY <1>3, <2>1, <3>1
    <2>2. CASE d # c
      BY <1>3, <2>2 DEF BindInv, Configured, Serves
    <2> QED BY <2>1, <2>2
  <1>8. Distinct'
    BY DEF BindInv, Distinct
  <1>9. LiveMapped'
    <2> SUFFICES ASSUME NEW b \in DOMAIN live' PROVE Home(b) \in alive
      BY DEF LiveMapped, Home
    <2>1. CASE Home(b) = i
      BY <2>1
    <2>2. CASE Home(b) # i
      BY <2>2 DEF BindInv, LiveMapped
    <2> QED BY <2>1, <2>2
  <1>7. ASSUME NEW b \in Block PROVE Once(b)' /\ Somewhere(b)'
    <2>1. Once(b) /\ Somewhere(b) /\ Home(b) \in Allocators
      BY BlockParts DEF BindInv, Placed
    <2>2. CASE Home(b) # i
      <3>1. b \notin Held(c) /\ b \notin Held(c)'
        BY <2>2, BoundFacts, <1>4
      <3>2. \A d \in Caches : b \in Held(d)' <=> b \in Held(d)
        BY <3>1, <1>4
      <3>3. /\ central'[Home(b)] = central[Home(b)]
            /\ fresh'[Home(b)] = fresh[Home(b)]
            /\ b \in DOMAIN live' <=> b \in DOMAIN live
        BY <2>1, <2>2, <1>2
      <3>4. \A d \in Caches : ~(b \in cache'[d].local /\ b \in cache'[d].staged)
        BY <2>1, <3>1, <1>3 DEF Once, Held
      <3>5. Home(b)' = Home(b)
        BY DEF Home
      <3>6. Once(b)'
        BY <2>1, <3>2, <3>3, <3>4, <3>5 DEF Once
      <3>7. Somewhere(b)'
        BY <2>1, <3>2, <3>3, <3>5 DEF Somewhere
      <3> QED BY <3>6, <3>7
    <2>3. CASE Home(b) = i
      <3>1. \A d \in Caches \ {c} :
              b \in Held(d) => /\ b \notin cache[c].local \cup cache[c].staged
                               /\ b \notin central[i] \cup fresh[i]
                               /\ b \notin DOMAIN live
        BY <2>1, <2>3 DEF Once, Held
      <3>2. \A d \in Caches \ {c} :
              b \in Held(d)' => /\ b \notin m.local \cup m.staged \cup P \cup F
                                /\ b \notin DOMAIN live'
        BY <3>1, <2>3, <1>4
      <3>3. /\ b \in m.local => b \notin m.staged \cup P \cup F /\ b \notin DOMAIN live'
            /\ b \in m.staged => b \notin P \cup F /\ b \notin DOMAIN live'
            /\ b \in P => b \notin F /\ b \notin DOMAIN live'
            /\ b \in F => b \notin DOMAIN live'
        BY DEF Parted
      <3>4. \A d, e \in Caches : b \in Held(d)' /\ b \in Held(e)' => d = e
        BY <2>1, <3>2, <1>4 DEF Once
      <3>5. \A d \in Caches : ~(b \in cache'[d].local /\ b \in cache'[d].staged)
        BY <2>1, <3>3, <1>3 DEF Once
      <3>6. Home(b)' = i /\ central'[Home(b)] = P /\ fresh'[Home(b)] = F
        BY <2>3, <1>2 DEF Home
      <3>7. \A d \in Caches : b \in Held(d)' => b \notin P \cup F /\ b \notin DOMAIN live'
        BY <3>2, <3>3, <1>4
      <3>8. Once(b)'
        BY <3>3, <3>4, <3>5, <3>6, <3>7 DEF Once
      <3>9. Somewhere(b)'
        <4>1. CASE \E d \in Caches \ {c} : b \in Held(d)
          BY <4>1, <1>4 DEF Somewhere
        <4>2. CASE ~ \E d \in Caches \ {c} : b \in Held(d)
          <5>1. \/ b \in cache[c].local \cup cache[c].staged \cup central[i] \cup fresh[i]
                \/ b \in DOMAIN live
            BY <4>2, <2>1, <2>3 DEF Somewhere, Held
          <5>2. b \in Held(c)' \/ b \in P \/ b \in F \/ b \in DOMAIN live'
            BY <5>1, <2>3, <1>4
          <5> QED BY <5>2, <3>6 DEF Somewhere
        <4> QED BY <4>1, <4>2
      <3> QED BY <3>8, <3>9
    <2> QED BY <2>2, <2>3
  <1> QED BY <1>5, <1>6, <1>7, <1>8, <1>9 DEF Placed

\* The same call keeps the types.
LEMMA MoveTyped ==
    ASSUME BindInv, NEW c \in Caches, NEW i \in alive, NEW m, NEW P, NEW F,
           Moves(c, i, m, P, F)
    PROVE  Typed'
  <1> USE DEF Moves
  <1>1. Typed /\ i \in Allocators /\ nextId \in Nat /\ id[i] \in 0..(nextId - 1)
    BY DEF BindInv, Typed, TypeOK
  <1>2. cache' \in [Caches -> Cache]
    BY <1>1 DEF Typed
  <1>3. central' \in [Allocators -> SUBSET Block] /\ fresh' \in [Allocators -> SUBSET Block]
    BY <1>1 DEF Typed, TypeOK
  <1>4. cache'[c] = m /\ \A d \in Caches \ {c} : cache'[d] = cache[d]
    BY <1>1 DEF Typed
  <1>5. ASSUME NEW d \in Caches
        PROVE  /\ cache'[d].owner \in 0..(nextId' - 1)
               /\ cache'[d].config \in Configs
               /\ cache'[d].local \cup cache'[d].staged \subseteq Block
    <2>1. cache'[d] \in Cache
      BY <1>2
    <2>2. cache'[d].owner \in 0..(nextId' - 1)
      BY <1>1, <1>4 DEF Typed, TypeOK
    <2> QED BY <2>1, <2>2 DEF Cache
  <1>6. TypeOK'
    BY <1>1, <1>3, <1>5 DEF Typed, TypeOK
  <1> QED BY <1>2, <1>6 DEF Typed

\* The same call keeps the bounds if the cache it leaves is within those of its owner.
LEMMA MoveBounded ==
    ASSUME BindInv, NEW c \in Caches, NEW i \in alive, NEW m, NEW P, NEW F,
           Moves(c, i, m, P, F),
           Cardinality(m.staged) < config[i].drain,
           Cardinality(m.local) =< IF config[i].limit > config[i].refill
                                   THEN config[i].limit ELSE config[i].refill
    PROVE  BoundByOwner'
  <1>1. cache'[c] = m /\ \A d \in Caches \ {c} : cache'[d] = cache[d]
    BY DEF BindInv, Typed, Moves
  <1> SUFFICES ASSUME NEW d \in Caches, NEW j \in Allocators, Serves(d, j)'
               PROVE  /\ Cardinality(cache'[d].staged) < config[j].drain
                      /\ Cardinality(cache'[d].local) =<
                             IF config[j].limit > config[j].refill
                             THEN config[j].limit ELSE config[j].refill
    BY DEF BoundByOwner, Moves
  <1>2. CASE d = c
    <2>1. j = i
      BY <1>1, <1>2, BoundFacts DEF BindInv, Distinct, Serves, Moves
    <2> QED BY <1>1, <1>2, <2>1
  <1>3. CASE d # c
    <2>1. Serves(d, j)
      BY <1>1, <1>3 DEF Serves, Moves
    <2> QED BY <1>1, <1>3, <2>1 DEF BindInv, BoundByOwner
  <1> QED BY <1>2, <1>3

\* The bounds before the call.
LEMMA BoundsBefore ==
    ASSUME BindInv, NEW c \in Caches, NEW i \in alive, Binds(c, i)
    PROVE  /\ Cardinality(cache[c].staged) \in Nat /\ Cardinality(cache[c].local) \in Nat
           /\ Cardinality(cache[c].staged) < config[i].drain
           /\ Cardinality(cache[c].local) =< IF config[i].limit > config[i].refill
                                             THEN config[i].limit ELSE config[i].refill
           /\ config[i].refill \in Nat /\ config[i].limit \in Nat /\ config[i].drain \in Nat
           /\ config[i].refill >= 1 /\ config[i].limit >= 2 /\ config[i].drain >= 1
  <1>1. config[i] \in Configs /\ i \in Allocators /\ id[i] # None
    BY BoundFacts
  <1>2. /\ config[i].refill \in Nat /\ config[i].limit \in Nat /\ config[i].drain \in Nat
        /\ config[i].refill >= 1 /\ config[i].limit >= 2 /\ config[i].drain >= 1
    BY <1>1, BindingAssumption
  <1>3. Cardinality(cache[c].staged) \in Nat /\ Cardinality(cache[c].local) \in Nat
    BY BoundFacts, BlocksFinite
  <1>4. CASE cache[c].owner = id[i]
    <2>1. Serves(c, i)
      BY <1>1, <1>4 DEF Serves
    <2> QED BY <1>1, <1>2, <1>3, <2>1 DEF BindInv, BoundByOwner
  <1>5. CASE cache[c].owner # id[i]
    <2>1. cache[c].local = {} /\ cache[c].staged = {}
      BY <1>5 DEF Binds, IsEmpty
    <2>2. Cardinality(cache[c].local) = 0 /\ Cardinality(cache[c].staged) = 0
      BY <2>1, FS_EmptySet
    <2> QED BY <1>2, <2>2
  <1> QED BY <1>2, <1>3, <1>4, <1>5

-----------------------------------------------------------------------------
(* The actions *)

\* A failed call leaves the cache bound and every block in its place.
LEMMA BindOnlyKeeps ==
    ASSUME BindInv, NEW c \in Caches, NEW i \in alive, BindOnly(c, i)
    PROVE  BindInv'
  <1> DEFINE m == Bound(c, i)
  <1>1. Binds(c, i) /\ cache' = [cache EXCEPT ![c] = m]
    BY DEF BindOnly
  <1>2. UNCHANGED <<nextId, id, config, alive, central, fresh, live>>
    BY DEF BindOnly
  <1>3. /\ m \in Cache /\ m.owner = id[i] /\ m.config = config[i] /\ i \in Allocators
        /\ m.local = cache[c].local /\ m.staged = cache[c].staged
        /\ \A b \in m.local \cup m.staged : Home(b) = i
    BY <1>1, BoundFacts DEF Held
  <1> HIDE DEF m
  <1>4. /\ Parted(m.local, m.staged, central[i], fresh[i], DOMAIN live)
        /\ central[i] \in SUBSET Block /\ fresh[i] \in SUBSET Block
        /\ DOMAIN live \in SUBSET Block
        /\ \A b \in central[i] \cup fresh[i] : Home(b) = i
    BY <1>1, <1>3, PartedBefore
  <1>5. /\ central' = [central EXCEPT ![i] = central[i]]
        /\ fresh' = [fresh EXCEPT ![i] = fresh[i]]
    BY <1>2 DEF BindInv, Typed, TypeOK
  <1>6. \A b \in DOMAIN live' : live'[b] \in Caches
    BY <1>2 DEF BindInv, Typed, TypeOK
  <1>7. Moves(c, i, m, central[i], fresh[i])
    BY <1>1, <1>2, <1>3, <1>4, <1>5, <1>6 DEF Moves
  <1>8. BoundByOwner'
    <2>1. /\ Cardinality(m.staged) < config[i].drain
          /\ Cardinality(m.local) =< IF config[i].limit > config[i].refill
                                     THEN config[i].limit ELSE config[i].refill
      BY <1>1, <1>3, BoundsBefore
    <2> QED BY <1>7, <2>1, MoveBounded
  <1> QED BY <1>7, <1>8, MoveTyped, MoveKeeps DEF BindInv

\* drain_thread_cache moves the blocks of the cache to the pool.
LEMMA DrainKeeps ==
    ASSUME BindInv, NEW c \in Caches, NEW i \in alive, Drain(c, i)
    PROVE  BindInv'
  <1> DEFINE w == Bound(c, i)
             m == [w EXCEPT !.local = {}, !.staged = {}]
             P == central[i] \cup w.local \cup w.staged
  <1>1. Binds(c, i) /\ cache' = [cache EXCEPT ![c] = m]
    BY DEF Drain
  <1>2. UNCHANGED <<nextId, id, config, alive, fresh, live>>
    BY DEF Drain
  <1>3. /\ w \in Cache /\ w.owner = id[i] /\ w.config = config[i] /\ i \in Allocators
        /\ w.local = cache[c].local /\ w.staged = cache[c].staged
        /\ w.local \in SUBSET Block /\ w.staged \in SUBSET Block
        /\ \A b \in w.local \cup w.staged : Home(b) = i
    BY <1>1, BoundFacts DEF Held
  <1>4. /\ Parted(w.local, w.staged, central[i], fresh[i], DOMAIN live)
        /\ central[i] \in SUBSET Block /\ fresh[i] \in SUBSET Block
        /\ DOMAIN live \in SUBSET Block
        /\ \A b \in central[i] \cup fresh[i] : Home(b) = i
    BY <1>1, <1>3, PartedBefore
  <1>5. /\ central' = [central EXCEPT ![i] = P]
        /\ fresh' = [fresh EXCEPT ![i] = fresh[i]]
    BY <1>2, <1>3 DEF Drain, BindInv, Typed, TypeOK
  <1>6. \A b \in DOMAIN live' : live'[b] \in Caches
    BY <1>2 DEF BindInv, Typed, TypeOK
  <1>7. /\ m \in Cache /\ m.owner = id[i] /\ m.config = config[i]
        /\ m.local = {} /\ m.staged = {}
    BY <1>3 DEF Cache
  <1>8. P \in SUBSET Block /\ \A b \in P : Home(b) = i
    BY <1>3, <1>4
  <1>9. Parted(m.local, m.staged, P, fresh[i], DOMAIN live')
    BY <1>2, <1>4, <1>7 DEF Parted
  <1>10. \A b \in Block :
            b \in m.local \cup m.staged \cup P \cup fresh[i]
            <=> b \in cache[c].local \cup cache[c].staged \cup central[i] \cup fresh[i]
    BY <1>3, <1>7
  <1> HIDE DEF w, m, P
  <1>11. Moves(c, i, m, P, fresh[i])
    BY <1>1, <1>2, <1>4, <1>5, <1>6, <1>7, <1>8, <1>9, <1>10 DEF Moves
  <1>12. BoundByOwner'
    <2>1. Cardinality(m.local) = 0 /\ Cardinality(m.staged) = 0
      BY <1>7, FS_EmptySet
    <2>2. /\ config[i].refill \in Nat /\ config[i].limit \in Nat /\ config[i].drain \in Nat
          /\ config[i].drain >= 1
      BY <1>1, BoundsBefore
    <2>3. /\ Cardinality(m.staged) < config[i].drain
          /\ Cardinality(m.local) =< IF config[i].limit > config[i].refill
                                     THEN config[i].limit ELSE config[i].refill
      BY <2>1, <2>2
    <2> QED BY <1>11, <2>3, MoveBounded
  <1> QED BY <1>11, <1>12, MoveTyped, MoveKeeps DEF BindInv

\* allocate_with_cache moves a batch to the cache if it has none, and one block out of it.
LEMMA AllocateKeeps ==
    ASSUME BindInv, NEW c \in Caches, NEW i \in alive, Allocate(c, i)
    PROVE  BindInv'
  <1> DEFINE w == Bound(c, i)
             Choice == IF w.local # {} THEN {{}}
                       ELSE IF central[i] # {} THEN Batches(central[i], w.config.refill)
                       ELSE Batches(fresh[i], w.config.refill)
  <1>1. Binds(c, i) /\ UNCHANGED <<nextId, id, config, alive>>
    BY DEF Allocate
  <1>2. PICK batch \in Choice : \E b \in w.local \cup batch :
            /\ cache' = [cache EXCEPT ![c] = [w EXCEPT !.local = (w.local \cup batch) \ {b}]]
            /\ live' = [x \in DOMAIN live \cup {b} |-> IF x = b THEN c ELSE live[x]]
            /\ central' = [central EXCEPT ![i] = @ \ batch]
            /\ fresh' = [fresh EXCEPT ![i] = @ \ batch]
    BY DEF Allocate
  <1>3. PICK b \in w.local \cup batch :
            /\ cache' = [cache EXCEPT ![c] = [w EXCEPT !.local = (w.local \cup batch) \ {b}]]
            /\ live' = [x \in DOMAIN live \cup {b} |-> IF x = b THEN c ELSE live[x]]
            /\ central' = [central EXCEPT ![i] = @ \ batch]
            /\ fresh' = [fresh EXCEPT ![i] = @ \ batch]
    BY <1>2
  <1> DEFINE m == [w EXCEPT !.local = (w.local \cup batch) \ {b}]
             P == central[i] \ batch
             F == fresh[i] \ batch
  <1>4. /\ w \in Cache /\ w.owner = id[i] /\ w.config = config[i] /\ i \in Allocators
        /\ w.local = cache[c].local /\ w.staged = cache[c].staged
        /\ w.local \in SUBSET Block /\ w.staged \in SUBSET Block
        /\ \A x \in w.local \cup w.staged : Home(x) = i
    BY <1>1, BoundFacts DEF Held
  <1>5. /\ Parted(w.local, w.staged, central[i], fresh[i], DOMAIN live)
        /\ central[i] \in SUBSET Block /\ fresh[i] \in SUBSET Block
        /\ DOMAIN live \in SUBSET Block
        /\ \A x \in central[i] \cup fresh[i] : Home(x) = i
    BY <1>1, <1>4, PartedBefore
  <1>6. /\ batch \in SUBSET (central[i] \cup fresh[i])
        /\ w.local # {} => batch = {}
        /\ w.local = {} => Cardinality(batch) =< config[i].refill
    BY <1>4 DEF Batches
  <1>7. /\ cache' = [cache EXCEPT ![c] = m]
        /\ central' = [central EXCEPT ![i] = P]
        /\ fresh' = [fresh EXCEPT ![i] = F]
    BY <1>3
  <1>8. /\ m \in Cache /\ m.owner = id[i] /\ m.config = config[i]
        /\ m.local = (w.local \cup batch) \ {b} /\ m.staged = w.staged
    <2>1. (w.local \cup batch) \ {b} \in SUBSET Block
      BY <1>4, <1>5, <1>6
    <2> QED BY <1>4, <2>1 DEF Cache
  <1>9. /\ DOMAIN live' = DOMAIN live \cup {b}
        /\ \A x \in DOMAIN live' : live'[x] \in Caches
    <2>1. \A x \in DOMAIN live : live[x] \in Caches
      BY DEF BindInv, Typed, TypeOK
    <2> QED BY <1>3, <2>1
  <1> HIDE DEF w, Choice, m, P, F
  <1>10. /\ P \in SUBSET Block /\ F \in SUBSET Block /\ b \in Block /\ Home(b) = i
         /\ \A x \in P \cup F \cup batch : Home(x) = i
    BY <1>4, <1>5, <1>6 DEF P, F
  <1>11. Parted(m.local, m.staged, P, F, DOMAIN live')
    BY <1>3, <1>5, <1>6, <1>8, <1>9 DEF Parted, P, F
  <1>12. \A x \in Block :
            (x \in m.local \cup m.staged \cup P \cup F \/ x \in DOMAIN live')
            <=> (\/ x \in cache[c].local \cup cache[c].staged \cup central[i] \cup fresh[i]
                 \/ x \in DOMAIN live)
    BY <1>3, <1>4, <1>6, <1>8, <1>9 DEF P, F
  <1>13. Moves(c, i, m, P, F)
    <2>1. \A x \in m.local \cup m.staged \cup P \cup F : Home(x) = i
      BY <1>4, <1>8, <1>10
    <2>2. \A x \in Block : Home(x) # i => (x \in DOMAIN live' <=> x \in DOMAIN live)
      BY <1>9, <1>10
    <2>3. DOMAIN live' \in SUBSET Block
      BY <1>5, <1>9, <1>10
    <2> QED BY <1>1, <1>7, <1>8, <1>9, <1>10, <1>11, <1>12, <2>1, <2>2, <2>3 DEF Moves
  <1>14. BoundByOwner'
    <2>1. batch \in SUBSET Block /\ m.local \in SUBSET Block
      BY <1>5, <1>6, <1>8 DEF Cache
    <2>2. /\ Cardinality(w.local) \in Nat /\ Cardinality(batch) \in Nat
          /\ Cardinality(m.local) \in Nat
          /\ IsFiniteSet(w.local) /\ IsFiniteSet(batch)
      BY <1>4, <2>1, BlocksFinite
    <2>3. Cardinality(m.local) =< Cardinality(w.local) \/
          (w.local = {} /\ Cardinality(m.local) =< Cardinality(batch))
      <3>1. CASE w.local = {}
        BY <3>1, <1>8, <2>2, FS_Subset
      <3>2. CASE w.local # {}
        BY <3>2, <1>6, <1>8, <2>2, FS_Subset
      <3> QED BY <3>1, <3>2
    <2>4. /\ Cardinality(m.staged) < config[i].drain
          /\ Cardinality(m.local) =< IF config[i].limit > config[i].refill
                                     THEN config[i].limit ELSE config[i].refill
      BY <1>1, <1>4, <1>6, <1>8, <2>2, <2>3, BoundsBefore
    <2> QED BY <1>13, <2>4, MoveBounded
  <1> QED BY <1>13, <1>14, MoveTyped, MoveKeeps DEF BindInv

\* A local free moves the block to the cache, and a batch on to the pool when the cache
\* is over its limit.
LEMMA FreeLocalKeeps ==
    ASSUME BindInv, NEW c \in Caches, NEW i \in alive, NEW b \in DOMAIN live,
           FreeLocal(c, i, b)
    PROVE  BindInv'
  <1> DEFINE w == Bound(c, i)
             more == w.local \cup {b}
             Choice == IF Cardinality(more) > w.config.limit
                       THEN Batches(more, w.config.drain) ELSE {{}}
  <1>1. /\ Binds(c, i) /\ Home(b) = i /\ UNCHANGED <<nextId, id, config, alive, fresh>>
        /\ live' = [x \in DOMAIN live \ {b} |-> live[x]]
    BY DEF FreeLocal, OwnBlock
  <1>2. PICK batch \in Choice :
            /\ cache' = [cache EXCEPT ![c] = [w EXCEPT !.local = more \ batch]]
            /\ central' = [central EXCEPT ![i] = @ \cup batch]
    BY DEF FreeLocal
  <1> DEFINE m == [w EXCEPT !.local = more \ batch]
             P == central[i] \cup batch
  <1>3. /\ w \in Cache /\ w.owner = id[i] /\ w.config = config[i] /\ i \in Allocators
        /\ config[i] \in Configs
        /\ w.local = cache[c].local /\ w.staged = cache[c].staged
        /\ w.local \in SUBSET Block /\ w.staged \in SUBSET Block
        /\ \A x \in w.local \cup w.staged : Home(x) = i
    BY <1>1, BoundFacts DEF Held
  <1>4. /\ Parted(w.local, w.staged, central[i], fresh[i], DOMAIN live)
        /\ central[i] \in SUBSET Block /\ fresh[i] \in SUBSET Block
        /\ DOMAIN live \in SUBSET Block
        /\ \A x \in central[i] \cup fresh[i] : Home(x) = i
    BY <1>1, <1>3, PartedBefore
  <1>5. /\ batch \in SUBSET more
        /\ Cardinality(more) > config[i].limit => batch # {}
    BY <1>3 DEF Batches
  <1>6. /\ cache' = [cache EXCEPT ![c] = m]
        /\ central' = [central EXCEPT ![i] = P]
        /\ fresh' = [fresh EXCEPT ![i] = fresh[i]]
    BY <1>1, <1>2 DEF BindInv, Typed, TypeOK
  <1>7. /\ m \in Cache /\ m.owner = id[i] /\ m.config = config[i]
        /\ m.local = more \ batch /\ m.staged = w.staged
        /\ more \in SUBSET Block
    <2>1. more \in SUBSET Block
      BY <1>3, <1>4
    <2> QED BY <1>3, <2>1 DEF Cache
  <1>8. /\ DOMAIN live' = DOMAIN live \ {b}
        /\ \A x \in DOMAIN live' : live'[x] \in Caches
    <2>1. \A x \in DOMAIN live : live[x] \in Caches
      BY DEF BindInv, Typed, TypeOK
    <2> QED BY <1>1, <2>1
  <1>9. /\ P \in SUBSET Block /\ b \in Block
        /\ \A x \in m.local \cup m.staged \cup P \cup fresh[i] : Home(x) = i
    BY <1>1, <1>3, <1>4, <1>5, <1>7
  <1>10. Parted(m.local, m.staged, P, fresh[i], DOMAIN live')
    BY <1>4, <1>5, <1>7, <1>8 DEF Parted
  <1>11. \A x \in Block :
            (x \in m.local \cup m.staged \cup P \cup fresh[i] \/ x \in DOMAIN live')
            <=> (\/ x \in cache[c].local \cup cache[c].staged \cup central[i] \cup fresh[i]
                 \/ x \in DOMAIN live)
    BY <1>3, <1>5, <1>7, <1>8
  <1> HIDE DEF w, more, Choice, m, P
  <1>12. Moves(c, i, m, P, fresh[i])
    <2>1. \A x \in Block : Home(x) # i => (x \in DOMAIN live' <=> x \in DOMAIN live)
      BY <1>1, <1>8
    <2>2. DOMAIN live' \in SUBSET Block
      BY <1>4, <1>8
    <2> QED BY <1>1, <1>4, <1>6, <1>7, <1>8, <1>9, <1>10, <1>11, <2>1, <2>2 DEF Moves
  <1>13. BoundByOwner'
    <2>1. /\ Cardinality(w.local) \in Nat /\ IsFiniteSet(w.local)
          /\ Cardinality(more) \in Nat /\ IsFiniteSet(more)
          /\ Cardinality(m.local) \in Nat
      BY <1>3, <1>7, BlocksFinite DEF Cache
    <2>2. Cardinality(more) =< Cardinality(w.local) + 1
      BY <2>1, FS_AddElement DEF more
    <2>3. /\ Cardinality(m.local) =< Cardinality(more)
          /\ batch # {} => Cardinality(m.local) # Cardinality(more)
      BY <1>5, <1>7, <2>1, FS_Subset
    <2>4. /\ Cardinality(m.staged) < config[i].drain
          /\ Cardinality(m.local) =< IF config[i].limit > config[i].refill
                                     THEN config[i].limit ELSE config[i].refill
      BY <1>1, <1>3, <1>5, <1>7, <2>1, <2>2, <2>3, BoundsBefore
    <2> QED BY <1>12, <2>4, MoveBounded
  <1> QED BY <1>12, <1>13, MoveTyped, MoveKeeps DEF BindInv

\* A remote free stages the block, and the staged blocks go to the pool as one batch.
LEMMA FreeRemoteKeeps ==
    ASSUME BindInv, NEW c \in Caches, NEW i \in alive, NEW b \in DOMAIN live,
           FreeRemote(c, i, b)
    PROVE  BindInv'
  <1> DEFINE w == Bound(c, i)
             more == w.staged \cup {b}
             flush == Cardinality(more) >= w.config.drain
             m == [w EXCEPT !.staged = IF flush THEN {} ELSE more]
             P == IF flush THEN central[i] \cup more ELSE central[i]
  <1>1. /\ Binds(c, i) /\ Home(b) = i /\ UNCHANGED <<nextId, id, config, alive, fresh>>
        /\ live' = [x \in DOMAIN live \ {b} |-> live[x]]
    BY DEF FreeRemote, OwnBlock
  <1>2. /\ w \in Cache /\ w.owner = id[i] /\ w.config = config[i] /\ i \in Allocators
        /\ w.local = cache[c].local /\ w.staged = cache[c].staged
        /\ w.local \in SUBSET Block /\ w.staged \in SUBSET Block
        /\ \A x \in w.local \cup w.staged : Home(x) = i
    BY <1>1, BoundFacts DEF Held
  <1>3. /\ Parted(w.local, w.staged, central[i], fresh[i], DOMAIN live)
        /\ central[i] \in SUBSET Block /\ fresh[i] \in SUBSET Block
        /\ DOMAIN live \in SUBSET Block
        /\ \A x \in central[i] \cup fresh[i] : Home(x) = i
    BY <1>1, <1>2, PartedBefore
  <1>4. /\ cache' = [cache EXCEPT ![c] = m]
        /\ central' = [central EXCEPT ![i] = P]
        /\ fresh' = [fresh EXCEPT ![i] = fresh[i]]
    BY <1>1 DEF FreeRemote, BindInv, Typed, TypeOK
  <1>5. /\ m \in Cache /\ m.owner = id[i] /\ m.config = config[i]
        /\ m.local = w.local /\ m.staged = (IF flush THEN {} ELSE more)
        /\ more \in SUBSET Block
    <2>1. more \in SUBSET Block
      BY <1>2, <1>3
    <2> QED BY <1>2, <2>1 DEF Cache
  <1>6. /\ DOMAIN live' = DOMAIN live \ {b}
        /\ \A x \in DOMAIN live' : live'[x] \in Caches
    <2>1. \A x \in DOMAIN live : live[x] \in Caches
      BY DEF BindInv, Typed, TypeOK
    <2> QED BY <1>1, <2>1
  <1> HIDE DEF w, flush, m
  <1>7. /\ P \in SUBSET Block /\ b \in Block
        /\ \A x \in m.local \cup m.staged \cup P \cup fresh[i] : Home(x) = i
    BY <1>1, <1>2, <1>3, <1>5
  <1>8. Parted(m.local, m.staged, P, fresh[i], DOMAIN live')
    BY <1>3, <1>5, <1>6 DEF Parted
  <1>9. \A x \in Block :
            (x \in m.local \cup m.staged \cup P \cup fresh[i] \/ x \in DOMAIN live')
            <=> (\/ x \in cache[c].local \cup cache[c].staged \cup central[i] \cup fresh[i]
                 \/ x \in DOMAIN live)
    BY <1>2, <1>5, <1>6
  <1> HIDE DEF more, P
  <1>10. Moves(c, i, m, P, fresh[i])
    <2>1. \A x \in Block : Home(x) # i => (x \in DOMAIN live' <=> x \in DOMAIN live)
      BY <1>1, <1>6
    <2>2. DOMAIN live' \in SUBSET Block
      BY <1>3, <1>6
    <2> QED BY <1>1, <1>3, <1>4, <1>5, <1>6, <1>7, <1>8, <1>9, <2>1, <2>2 DEF Moves
  <1>11. BoundByOwner'
    <2>1. Cardinality(more) \in Nat /\ Cardinality({}) = 0
      BY <1>5, BlocksFinite, FS_EmptySet
    <2>2. Cardinality(m.staged) < config[i].drain
      BY <1>1, <1>2, <1>5, <2>1, BoundsBefore DEF flush
    <2>3. Cardinality(m.local) =< IF config[i].limit > config[i].refill
                                  THEN config[i].limit ELSE config[i].refill
      BY <1>1, <1>2, <1>5, BoundsBefore
    <2> QED BY <1>10, <2>2, <2>3, MoveBounded
  <1> QED BY <1>10, <1>11, MoveTyped, MoveKeeps DEF BindInv

\* A new allocator has an id no cache knows, so no cache serves it, and every block
\* stays where it is.
LEMMA NewKeeps ==
    ASSUME BindInv, NEW i \in Allocators, New(i)
    PROVE  BindInv'
  <1>1. /\ UNCHANGED <<config, cache, central, fresh, live>>
        /\ id[i] = None /\ id' = [id EXCEPT ![i] = nextId]
        /\ nextId' = nextId + 1 /\ alive' = alive \cup {i}
    BY DEF New, NextId
  <1>2. /\ nextId \in Nat \ {None} /\ id \in [Allocators -> Nat]
        /\ \A j \in Allocators : id[j] < nextId
        /\ alive \subseteq {j \in Allocators : id[j] # None}
        /\ \A c \in Caches : cache[c].owner \in 0..(nextId - 1)
    BY DEF BindInv, Typed, TypeOK
  <1>3. /\ id' \in [Allocators -> Nat] /\ id'[i] = nextId
        /\ \A j \in Allocators \ {i} : id'[j] = id[j]
    BY <1>1, <1>2
  <1>4. \A c \in Caches : Held(c)' = Held(c)
    BY <1>1 DEF Held
  <1>5. ASSUME NEW c \in Caches, NEW j \in Allocators
        PROVE  Serves(c, j)' <=> Serves(c, j)
    <2>1. CASE j = i
      BY <1>1, <1>2, <1>3, <2>1 DEF Serves
    <2>2. CASE j # i
      BY <1>1, <1>3, <2>2 DEF Serves
    <2> QED BY <2>1, <2>2
  <1>6. Typed'
    <2>1. nextId' \in Nat \ {None} /\ \A j \in Allocators : id'[j] < nextId'
      BY <1>1, <1>2, <1>3 DEF None
    <2>2. alive' \subseteq {j \in Allocators : id'[j] # None}
      BY <1>1, <1>2, <1>3
    <2>3. \A c \in Caches : cache'[c].owner \in 0..(nextId' - 1)
      BY <1>1, <1>2
    <2> QED BY <1>1, <1>3, <2>1, <2>2, <2>3 DEF BindInv, Typed, TypeOK
  <1>7. Distinct'
    <2> SUFFICES ASSUME NEW j \in Allocators, NEW k \in Allocators,
                        id'[j] # None, id'[j] = id'[k]
                 PROVE  j = k
      BY DEF Distinct
    <2>1. CASE j # i /\ k # i
      BY <1>3, <2>1 DEF BindInv, Distinct
    <2>2. CASE j = i \/ k = i
      BY <1>2, <1>3, <2>2
    <2> QED BY <2>1, <2>2
  <1>8. AllAtHome'
    <2>1. \A c \in Caches : \A b \in Held(c) : Home(b) \in Allocators
      BY BlockParts DEF BindInv, Typed, TypeOK, Held
    <2> QED BY <1>1, <1>4, <1>5, <2>1 DEF BindInv, AllAtHome, Home
  <1>9. Configured' /\ BoundByOwner'
    BY <1>1, <1>5 DEF BindInv, Configured, BoundByOwner
  <1>10. Placed'
    <2> SUFFICES ASSUME NEW b \in Block PROVE Once(b)' /\ Somewhere(b)'
      BY DEF Placed
    <2>1. Once(b) /\ Somewhere(b)
      BY DEF BindInv, Placed
    <2> QED BY <1>1, <1>4, <2>1 DEF Once, Somewhere, Home
  <1>11. LiveMapped'
    BY <1>1 DEF BindInv, LiveMapped, Home
  <1> QED BY <1>6, <1>7, <1>8, <1>9, <1>10, <1>11 DEF BindInv

\* The drop of an allocator leaves every block where it is; the program has none of its
\* blocks any more.
LEMMA DropKeeps ==
    ASSUME BindInv, NEW i \in alive, Drop(i)
    PROVE  BindInv'
  <1>1. /\ UNCHANGED <<nextId, id, config, cache, central, fresh, live>>
        /\ alive' = alive \ {i} /\ \A b \in DOMAIN live : Home(b) # i
    BY DEF Drop
  <1>2. \A c \in Caches : Held(c)' = Held(c)
    BY <1>1 DEF Held
  <1>3. \A c \in Caches, j \in Allocators : Serves(c, j)' <=> Serves(c, j)
    BY <1>1 DEF Serves
  <1>4. Typed' /\ Distinct'
    BY <1>1 DEF BindInv, Typed, TypeOK, Distinct
  <1>5. AllAtHome' /\ Configured' /\ BoundByOwner'
    <2>1. \A c \in Caches : \A b \in Held(c) : Home(b) \in Allocators
      BY BlockParts DEF BindInv, Typed, TypeOK, Held
    <2> QED BY <1>1, <1>2, <1>3, <2>1 DEF BindInv, AllAtHome, Configured, BoundByOwner, Home
  <1>6. Placed'
    <2> SUFFICES ASSUME NEW b \in Block PROVE Once(b)' /\ Somewhere(b)'
      BY DEF Placed
    <2>1. Once(b) /\ Somewhere(b)
      BY DEF BindInv, Placed
    <2> QED BY <1>1, <1>2, <2>1 DEF Once, Somewhere, Home
  <1>7. LiveMapped'
    BY <1>1 DEF BindInv, LiveMapped, Home
  <1> QED BY <1>4, <1>5, <1>6, <1>7 DEF BindInv

\* Before the first allocator every block is in its arena and every cache is empty.
LEMMA BindInit == Init => BindInv
  <1> SUFFICES ASSUME Init PROVE BindInv
    OBVIOUS
  <1>1. \A c \in Caches :
           \E f \in Configs :
              cache[c] = [owner |-> None, config |-> f, local |-> {}, staged |-> {}]
    BY DEF Init, NewCache
  <1>2. \A c \in Caches : /\ cache[c].owner = None /\ cache[c].config \in Configs
                          /\ cache[c].local = {} /\ cache[c].staged = {}
                          /\ cache[c] \in Cache
    <2> SUFFICES ASSUME NEW c \in Caches
                 PROVE  /\ cache[c].owner = None /\ cache[c].config \in Configs
                        /\ cache[c].local = {} /\ cache[c].staged = {}
                        /\ cache[c] \in Cache
      OBVIOUS
    <2>1. PICK f \in Configs :
             cache[c] = [owner |-> None, config |-> f, local |-> {}, staged |-> {}]
      BY <1>1
    <2>2. None \in Nat
      BY DEF None
    <2> QED BY <2>1, <2>2 DEF Cache
  <1>3. \A c \in Caches : Held(c) = {}
    BY <1>2 DEF Held
  <1>4. /\ fresh = [i \in Allocators |-> {<<i, s>> : s \in Slots}]
        /\ central = [i \in Allocators |-> {}] /\ DOMAIN live = {}
    BY DEF Init
  <1>5. Typed
    <2>1. fresh \in [Allocators -> SUBSET Block] /\ central \in [Allocators -> SUBSET Block]
      BY <1>4 DEF Block
    <2>2. cache \in [Caches -> Cache]
      BY <1>2 DEF Init
    <2>3. /\ nextId \in Nat \ {None} /\ alive = {} /\ None \in 0..(nextId - 1)
          /\ id \in [Allocators -> Nat] /\ \A i \in Allocators : id[i] < nextId
      BY DEF Init, None
    <2>4. DOMAIN live \subseteq Block /\ \A b \in DOMAIN live : live[b] \in Caches
      BY <1>4
    <2>5. config \in [Allocators -> Configs]
      BY DEF Init
    <2> QED BY <1>2, <2>1, <2>2, <2>3, <2>4, <2>5 DEF Typed, TypeOK
  <1>6. AllAtHome
    BY <1>3, <1>4 DEF AllAtHome, Home
  <1>7. Placed
    <2> SUFFICES ASSUME NEW b \in Block PROVE Once(b) /\ Somewhere(b)
      BY DEF Placed
    <2>1. Home(b) \in Allocators /\ b[2] \in Slots /\ b = <<Home(b), b[2]>>
      BY BlockParts
    <2>2. b \in fresh[Home(b)] /\ central[Home(b)] = {}
      BY <1>4, <2>1
    <2> QED BY <1>2, <1>3, <1>4, <2>2 DEF Once, Somewhere
  <1>8. Configured /\ BoundByOwner /\ Distinct
    <2>1. \A i \in Allocators : id[i] = None
      BY DEF Init
    <2> QED BY <2>1 DEF Configured, BoundByOwner, Serves, Distinct
  <1>9. LiveMapped
    BY <1>4 DEF LiveMapped
  <1> QED BY <1>5, <1>6, <1>7, <1>8, <1>9 DEF BindInv

\* Every step keeps the invariant.
LEMMA BindStep == BindInv /\ [Next]_vars => BindInv'
  <1> SUFFICES ASSUME BindInv, [Next]_vars PROVE BindInv'
    OBVIOUS
  <1>0. ASSUME NEW i \in Allocators, New(i) PROVE BindInv'
    BY <1>0, NewKeeps
  <1>1. ASSUME NEW i \in alive, Drop(i) PROVE BindInv'
    BY <1>1, DropKeeps
  <1>2. ASSUME NEW c \in Caches, NEW i \in alive, Allocate(c, i) PROVE BindInv'
    BY <1>2, AllocateKeeps
  <1>3. ASSUME NEW c \in Caches, NEW i \in alive, BindOnly(c, i) PROVE BindInv'
    BY <1>3, BindOnlyKeeps
  <1>4. ASSUME NEW c \in Caches, NEW i \in alive, Drain(c, i) PROVE BindInv'
    BY <1>4, DrainKeeps
  <1>5. ASSUME NEW c \in Caches, NEW i \in alive, NEW b \in DOMAIN live, FreeLocal(c, i, b)
        PROVE  BindInv'
    BY <1>5, FreeLocalKeeps
  <1>6. ASSUME NEW c \in Caches, NEW i \in alive, NEW b \in DOMAIN live, FreeRemote(c, i, b)
        PROVE  BindInv'
    BY <1>6, FreeRemoteKeeps
  <1>7. CASE UNCHANGED vars
    <2>1. UNCHANGED <<nextId, id, config, alive, cache, central, fresh, live>>
      BY <1>7 DEF vars
    <2>2. \A c \in Caches : Held(c)' = Held(c)
      BY <2>1 DEF Held
    <2>3. \A b \in Block : (Once(b)' <=> Once(b)) /\ (Somewhere(b)' <=> Somewhere(b))
      BY <2>1, <2>2 DEF Once, Somewhere, Home
    <2> QED BY <2>1, <2>2, <2>3
            DEF BindInv, Typed, TypeOK, Distinct, AllAtHome, Placed, Configured, BoundByOwner,
                Serves, LiveMapped, Home
  <1> QED BY <1>0, <1>1, <1>2, <1>3, <1>4, <1>5, <1>6, <1>7 DEF Next

\* The invariant of the proofs holds in every reachable state.
LEMMA BindInvHolds == Spec => []BindInv
  <1> QED BY BindInit, BindStep, PTL DEF Spec

-----------------------------------------------------------------------------
(* The theorems *)

\* A block that is in one place at most and in one at least is counted once.
LEMMA PlacedCountsOne ==
    ASSUME BindInv
    PROVE  NothingForgotten
  <1> SUFFICES ASSUME NEW i \in alive, NEW s \in Slots
               PROVE  LET b == <<i, s>> IN
                      Cardinality({<<"fresh", x>> : x \in fresh[i] \cap {b}}
                        \cup {<<"central", x>> : x \in central[i] \cap {b}}
                        \cup {<<"live", x>> : x \in DOMAIN live \cap {b}}
                        \cup {<<"local", c>> : c \in {c \in Caches : b \in cache[c].local}}
                        \cup {<<"staged", c>> : c \in {c \in Caches : b \in cache[c].staged}}) = 1
    BY DEF NothingForgotten
  <1> DEFINE b == <<i, s>>
             F == {<<"fresh", x>> : x \in fresh[i] \cap {b}}
             P == {<<"central", x>> : x \in central[i] \cap {b}}
             D == {<<"live", x>> : x \in DOMAIN live \cap {b}}
             L == {<<"local", c>> : c \in {c \in Caches : b \in cache[c].local}}
             S == {<<"staged", c>> : c \in {c \in Caches : b \in cache[c].staged}}
  <1>1. i \in Allocators
    BY DEF BindInv, Typed, TypeOK
  <1>2. b \in Block /\ Home(b) = i
    BY <1>1 DEF Block, Home
  <1>3. Once(b) /\ Somewhere(b)
    BY <1>2 DEF BindInv, Placed
  <1>4. \E p : F \cup P \cup D \cup L \cup S = {p}
    <2>1. CASE b \in fresh[i]
      <3>1. P = {} /\ D = {} /\ L = {} /\ S = {}
        BY <1>2, <1>3, <2>1 DEF Once, Held
      <3>2. F = {<<"fresh", b>>}
        BY <2>1
      <3> QED BY <3>1, <3>2
    <2>2. CASE b \in central[i]
      <3>1. F = {} /\ D = {} /\ L = {} /\ S = {}
        BY <1>2, <1>3, <2>2 DEF Once, Held
      <3>2. P = {<<"central", b>>}
        BY <2>2
      <3> QED BY <3>1, <3>2
    <2>3. CASE b \in DOMAIN live
      <3>1. F = {} /\ P = {} /\ L = {} /\ S = {}
        BY <1>2, <1>3, <2>3 DEF Once, Held
      <3>2. D = {<<"live", b>>}
        BY <2>3
      <3> QED BY <3>1, <3>2
    <2>4. ASSUME NEW c \in Caches, b \in cache[c].local PROVE \E p : F \cup P \cup D \cup L \cup S = {p}
      <3>1. b \in Held(c)
        BY <2>4 DEF Held
      <3>2. F = {} /\ P = {} /\ D = {}
        BY <1>2, <1>3, <3>1 DEF Once
      <3>3. \A d \in Caches : b \in Held(d) => d = c
        BY <1>3, <3>1 DEF Once
      <3>4. S = {}
        BY <1>3, <2>4, <3>3 DEF Once, Held
      <3>5. L = {<<"local", c>>}
        BY <2>4, <3>3 DEF Held
      <3> QED BY <3>2, <3>4, <3>5
    <2>5. ASSUME NEW c \in Caches, b \in cache[c].staged PROVE \E p : F \cup P \cup D \cup L \cup S = {p}
      <3>1. b \in Held(c)
        BY <2>5 DEF Held
      <3>2. F = {} /\ P = {} /\ D = {}
        BY <1>2, <1>3, <3>1 DEF Once
      <3>3. \A d \in Caches : b \in Held(d) => d = c
        BY <1>3, <3>1 DEF Once
      <3>4. L = {}
        BY <1>3, <2>5, <3>3 DEF Once, Held
      <3>5. S = {<<"staged", c>>}
        BY <2>5, <3>3 DEF Held
      <3> QED BY <3>2, <3>4, <3>5
    <2> HIDE DEF b, F, P, D, L, S
    <2> QED BY <1>2, <1>3, <2>1, <2>2, <2>3, <2>4, <2>5 DEF Somewhere, Held
  <1> HIDE DEF F, P, D, L, S
  <1>5. Cardinality(F \cup P \cup D \cup L \cup S) = 1
    BY <1>4, FS_Singleton
  <1> QED BY <1>5 DEF F, P, D, L, S

\* However caches are passed between allocators that are created and dropped, every
\* block of an allocator in use is at home and in exactly one place: rebinding a cache
\* (bind_to_allocator) forgets none and mixes none.
THEOREM BindingLosesNothing == Spec => []BlocksAccounted
  <1>1. BindInv => BlocksAccounted
    <2>1. BindInv => TypeOK
      BY DEF BindInv, Typed
    <2>2. ASSUME BindInv PROVE BlocksAtHome
      <3>1. alive \subseteq Allocators
        BY <2>2 DEF BindInv, Typed, TypeOK
      <3>2. ASSUME NEW c \in Caches, NEW i \in alive, Serves(c, i), NEW b \in Held(c)
            PROVE  Home(b) = i
        <4>1. Home(b) \in Allocators
          BY <2>2, BlockParts DEF BindInv, Typed, TypeOK, Held
        <4>2. Serves(c, Home(b))
          BY <2>2 DEF BindInv, AllAtHome
        <4> QED BY <2>2, <3>1, <3>2, <4>1, <4>2 DEF BindInv, Distinct, Serves
      <3> QED BY <2>2, <3>1, <3>2 DEF BindInv, AllAtHome, BlocksAtHome
    <2> QED BY <2>1, <2>2, PlacedCountsOne DEF BlocksAccounted
  <1> QED BY <1>1, BindInvHolds, PTL

\* A cache never holds more than the configuration of its present owner allows, whatever
\* it was made for and whomever it served before.
THEOREM OwnerBoundsCache == Spec => []BoundByOwner
  <1>1. BindInv => BoundByOwner
    BY DEF BindInv
  <1> QED BY <1>1, BindInvHolds, PTL

\* A cache that outlives its allocator gives out none of the blocks it still holds, to
\* whichever later allocator it is brought: every block the program has is in a mapped
\* arena.  The ids drawn by Allocator::new are what keeps the allocators apart.
THEOREM DroppedNotReissued == Spec => []LiveMapped
  <1>1. BindInv => LiveMapped
    BY DEF BindInv
  <1> QED BY <1>1, BindInvHolds, PTL
=============================================================================
