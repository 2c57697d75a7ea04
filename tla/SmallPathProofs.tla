-------------------------- MODULE SmallPathProofs ---------------------------
(***************************************************************************)
(* Theorems about the small-object path, for any number of threads, any    *)
(* arena, any refill count and any local limit.  First the lemmas on the   *)
(* operators of CentralSlabs and LocalCache: that they keep the type and   *)
(* the coherence of a pool and of a cache, and which blocks they move in   *)
(* or out of them.                                                         *)
(***************************************************************************)
EXTENDS SmallPath, FiniteSetTheorems, TLAPS

-----------------------------------------------------------------------------
(* The pool of one class *)

\* Sets of addresses are finite.
LEMMA AddrFinite ==
    ASSUME NEW S \in SUBSET Addr
    PROVE  IsFiniteSet(S) /\ Cardinality(S) \in Nat
<1>1. IsFiniteSet(Addr)
  BY FS_Interval, ArenaBlocksAssumption DEF Addr
<1> QED
  BY <1>1, FS_Subset, FS_CardinalityType

\* A block address is a natural number below the arena's length.
LEMMA AddrNat == \A a \in Addr : a \in Nat /\ a < ArenaBlocks
  BY ArenaBlocksAssumption DEF Addr

\* A pool of the right type whose slabs lie inside the arena and are not empty.
PoolTyped(p) ==
    /\ p \in Pool
    /\ \A s \in Addr : s + p[s].capacity <= ArenaBlocks
    /\ \A s \in Registered(p) : p[s].capacity # 0

\* Slabs lie inside the address space.
LEMMA SlabInArena ==
    ASSUME NEW p, PoolTyped(p), NEW s \in Addr
    PROVE  SlabBlocks(p, s) \subseteq Addr
  BY ArenaBlocksAssumption DEF PoolTyped, Pool, SlabRecord, SlabBlocks, Addr

\* The pool of a new allocator is well-formed.
LEMMA EmptyPoolTyped == PoolTyped(EmptyPool)
  BY ArenaBlocksAssumption
  DEF PoolTyped, EmptyPool, Pool, SlabRecord, SlabState, Addr, Registered

\* Replacing one record keeps a pool typed.
LEMMA PutTyped ==
    ASSUME NEW p, PoolTyped(p), NEW s \in Nat, NEW r \in SlabRecord,
           s + r.capacity <= ArenaBlocks, r.capacity # 0
    PROVE  PoolTyped([p EXCEPT ![s] = r])
<1> DEFINE q == [p EXCEPT ![s] = r]
<1>1. q \in Pool
  BY DEF PoolTyped, Pool
<1>2. ASSUME NEW t \in Addr PROVE t + q[t].capacity <= ArenaBlocks
  BY DEF PoolTyped, Pool
<1>3. ASSUME NEW t \in Registered(q) PROVE q[t].capacity # 0
  BY DEF PoolTyped, Pool, Registered
<1> QED
  BY <1>1, <1>2, <1>3 DEF PoolTyped

\* Updating the state fields of a record keeps it a record of the same capacity.
SameSlab(r, u) == u \in SlabRecord /\ u.capacity = r.capacity

\* A record given new free blocks, a new length and a new state is still the record of the same slab.
LEMMA UpdateTyped ==
    ASSUME NEW r \in SlabRecord, NEW len \in Int, NEW F \in SUBSET Addr, NEW st \in SlabState
    PROVE  SameSlab(r, [r EXCEPT !.central_free_len = len, !.partial_free = F, !.state = st])
  BY DEF SlabRecord, SameSlab

\* The same for the update that loans the slab out whole.
LEMMA LoanUpdateTyped ==
    ASSUME NEW r \in SlabRecord
    PROVE  SameSlab(r, [r EXCEPT !.central_free_len = 0, !.state = "Loaned"])
<1> DEFINE u == [r EXCEPT !.central_free_len = 0, !.state = "Loaned"]
<1>1. u.capacity = r.capacity
  BY DEF SlabRecord
<1>2. "Loaned" \in SlabState
  BY DEF SlabState
<1>3. u \in SlabRecord
  <2> DEFINE v == [r EXCEPT !.central_free_len = 0]
  <2>1. v \in SlabRecord
    BY DEF SlabRecord
  <2>2. u = [v EXCEPT !.state = "Loaned"]
    BY Zenon
  <2> HIDE DEF v
  <2> QED
    BY <1>2, <2>1, <2>2 DEF SlabRecord
<1> QED
  BY <1>1, <1>3 DEF SameSlab

\* The same for the update that marks the slab cold.
LEMMA ColdUpdateTyped ==
    ASSUME NEW r \in SlabRecord
    PROVE  SameSlab(r, [r EXCEPT !.state = "FullCold"])
  BY DEF SlabRecord, SlabState, SameSlab

\* register_slab of a span inside the arena keeps the pool well-formed.
LEMMA RegisterTyped ==
    ASSUME NEW p, PoolTyped(p), NEW start \in Nat, NEW n \in Nat \ {0}, start + n <= ArenaBlocks
    PROVE  PoolTyped(RegisterSlab(p, start, n))
<1> DEFINE r == [capacity |-> n, central_free_len |-> 0, partial_free |-> {}, state |-> "Loaned"]
<1>1. r \in SlabRecord
  BY DEF SlabRecord, SlabState
<1> QED
  BY <1>1, PutTyped DEF RegisterSlab

\* Recording returned blocks in a slab's record keeps its type and its capacity.
LEMMA RecordReturnedTyped ==
    ASSUME NEW r \in SlabRecord, NEW R \in SUBSET Addr
    PROVE  /\ RecordReturned(r, R) \in SlabRecord
           /\ RecordReturned(r, R).capacity = r.capacity
<1> DEFINE len == r.central_free_len + Cardinality(R)
<1>1. len \in Int
  BY AddrFinite DEF SlabRecord
<1> HIDE DEF len
<1>2. CASE len = r.capacity
  <2>1. RecordReturned(r, R) = [r EXCEPT !.central_free_len = len, !.partial_free = {},
                                         !.state = "FullHot"]
    BY <1>2 DEF RecordReturned, len
  <2> QED
    BY <1>1, <2>1 DEF SlabRecord, SlabState
<1>3. CASE len # r.capacity
  <2>1. RecordReturned(r, R) = [r EXCEPT !.central_free_len = len, !.partial_free = @ \cup R,
                                         !.state = "Partial"]
    BY <1>3 DEF RecordReturned, len
  <2> QED
    BY <1>1, <2>1 DEF SlabRecord, SlabState
<1> QED
  BY <1>2, <1>3

\* Returning a set of blocks keeps the pool well-formed.
LEMMA ReturnTyped ==
    ASSUME NEW p, PoolTyped(p), NEW B \in SUBSET Addr
    PROVE  PoolTyped(ReturnBatch(p, B))
<1> DEFINE R(s) == {b \in B : FindsSlab(p, s, b)}
<1>1. ASSUME NEW s \in Addr
      PROVE  /\ ReturnBatch(p, B)[s] \in SlabRecord
             /\ ReturnBatch(p, B)[s].capacity = p[s].capacity
  <2>1. p[s] \in SlabRecord
    BY DEF PoolTyped, Pool
  <2>2. R(s) \in SUBSET Addr /\ Cardinality(R(s)) \in Nat
    BY AddrFinite
  <2>3. ReturnBatch(p, B)[s] = IF R(s) = {} THEN p[s] ELSE RecordReturned(p[s], R(s))
    BY DEF ReturnBatch
  <2> HIDE DEF R
  <2>4. /\ RecordReturned(p[s], R(s)) \in SlabRecord
        /\ RecordReturned(p[s], R(s)).capacity = p[s].capacity
    BY <2>1, <2>2, RecordReturnedTyped
  <2> QED
    BY <2>1, <2>3, <2>4
<1>2. \A s \in Registered(ReturnBatch(p, B)) : s \in Registered(p)
  BY DEF ReturnBatch, Registered, FindsSlab
<1>3. ReturnBatch(p, B) \in Pool
  <2>1. ReturnBatch(p, B) = [s \in Addr |-> ReturnBatch(p, B)[s]]
    BY DEF ReturnBatch
  <2> QED
    BY <1>1, <2>1 DEF Pool
<1>4. ASSUME NEW s \in Registered(ReturnBatch(p, B)) PROVE ReturnBatch(p, B)[s].capacity # 0
  BY <1>1, <1>2 DEF PoolTyped, Registered
<1> QED
  BY <1>1, <1>3, <1>4 DEF PoolTyped

\* Taking a batch of a partial slab's free blocks keeps the pool well-formed.
LEMMA TakePartialTyped ==
    ASSUME NEW p, PoolTyped(p), NEW s \in Registered(p), NEW B \in SUBSET Addr
    PROVE  PoolTyped(TakePartialBatch(p, s, B))
<1>1. Cardinality(B) \in Nat
  BY AddrFinite
<1> DEFINE len == p[s].central_free_len - Cardinality(B)
           r   == [p[s] EXCEPT !.central_free_len = len,
                               !.partial_free = p[s].partial_free \ B,
                               !.state = IF len = 0 THEN "Loaned" ELSE p[s].state]
<1>2. /\ p[s] \in SlabRecord /\ s \in Nat
      /\ s + p[s].capacity <= ArenaBlocks /\ p[s].capacity # 0
  BY AddrNat DEF PoolTyped, Pool, Registered
<1>3. len \in Int
  BY <1>1, <1>2 DEF SlabRecord
<1>4. r \in SlabRecord /\ r.capacity = p[s].capacity
  <2> HIDE DEF len
  <2>1. (IF len = 0 THEN "Loaned" ELSE p[s].state) \in SlabState
    BY <1>2 DEF SlabRecord, SlabState
  <2>2. p[s].partial_free \ B \in SUBSET Addr
    BY <1>2 DEF SlabRecord
  <2>3. SameSlab(p[s], r)
    BY <1>2, <1>3, <2>1, <2>2, UpdateTyped
  <2> HIDE DEF r
  <2> QED
    BY <2>3 DEF SameSlab
<1>5. TakePartialBatch(p, s, B) = [p EXCEPT ![s] = r]
  BY DEF TakePartialBatch
<1> HIDE DEF r
<1>6. s + r.capacity <= ArenaBlocks /\ r.capacity # 0
  BY <1>2, <1>4
<1>7. PoolTyped([p EXCEPT ![s] = r])
  BY <1>2, <1>4, <1>6, PutTyped
<1> QED
  BY <1>5, <1>7

\* Loaning a slab keeps the pool well-formed.
LEMMA LoanTyped ==
    ASSUME NEW p, PoolTyped(p), NEW s \in Registered(p)
    PROVE  PoolTyped(LoanWholeSlab(p, s))
<1> DEFINE r == [p[s] EXCEPT !.central_free_len = 0, !.state = "Loaned"]
<1>1. /\ p[s] \in SlabRecord /\ s \in Nat
      /\ s + p[s].capacity <= ArenaBlocks /\ p[s].capacity # 0
  BY AddrNat DEF PoolTyped, Pool, Registered
<1>2. r \in SlabRecord /\ r.capacity = p[s].capacity
  <2>1. SameSlab(p[s], r)
    BY <1>1, LoanUpdateTyped
  <2> HIDE DEF r
  <2> QED
    BY <2>1 DEF SameSlab
<1>3. LoanWholeSlab(p, s) = [p EXCEPT ![s] = r]
  BY DEF LoanWholeSlab
<1> HIDE DEF r
<1>4. s + r.capacity <= ArenaBlocks /\ r.capacity # 0
  BY <1>1, <1>2
<1>5. PoolTyped([p EXCEPT ![s] = r])
  BY <1>1, <1>2, <1>4, PutTyped
<1> QED
  BY <1>3, <1>5

\* A sweep leaves the pool as it is or marks one hot full slab cold.
LEMMA SweepIs ==
    ASSUME NEW p \in Pool, NEW q \in Sweep(p)
    PROVE  \/ q = p
           \/ \E s \in Bucket(p, "FullHot") : q = [p EXCEPT ![s] = [p[s] EXCEPT !.state = "FullCold"]]
<1>1. CASE q = p
  BY <1>1
<1>2. ASSUME NEW s \in Bucket(p, "FullHot"), q = Cooled(p, s)
      PROVE  q = [p EXCEPT ![s] = [p[s] EXCEPT !.state = "FullCold"]]
  <2> DEFINE r == [p[s] EXCEPT !.state = "FullCold"]
  <2>1. q = [t \in Addr |-> IF t = s THEN r ELSE p[t]] /\ s \in Addr
    BY <1>2 DEF Cooled, Bucket, Registered
  <2> HIDE DEF r
  <2>2. q = [p EXCEPT ![s] = r]
    BY <2>1 DEF Pool
  <2> QED
    BY <2>2 DEF r
<1> QED
  BY <1>1, <1>2 DEF Sweep

\* The cold-slab sweep keeps the pool well-formed.
LEMMA SweepTyped ==
    ASSUME NEW p, PoolTyped(p), NEW q \in Sweep(p)
    PROVE  PoolTyped(q)
<1>1. CASE q = p
  BY <1>1
<1>2. ASSUME NEW s \in Registered(p), q = [p EXCEPT ![s] = [p[s] EXCEPT !.state = "FullCold"]]
      PROVE  PoolTyped(q)
  <2> DEFINE r == [p[s] EXCEPT !.state = "FullCold"]
  <2>1. /\ p[s] \in SlabRecord /\ s \in Nat
        /\ s + p[s].capacity <= ArenaBlocks /\ p[s].capacity # 0
    BY <1>2, AddrNat DEF PoolTyped, Pool, Registered
  <2>2. r \in SlabRecord /\ r.capacity = p[s].capacity
    <3>1. SameSlab(p[s], r)
      BY <2>1, ColdUpdateTyped
    <3> HIDE DEF r
    <3> QED
      BY <3>1 DEF SameSlab
  <2>3. q = [p EXCEPT ![s] = r]
    BY <1>2
  <2> HIDE DEF r
  <2>4. s + r.capacity <= ArenaBlocks /\ r.capacity # 0
    BY <2>1, <2>2
  <2>5. PoolTyped([p EXCEPT ![s] = r])
    BY <2>1, <2>2, <2>4, PutTyped
  <2> QED
    BY <2>3, <2>5
<1> QED
  BY <1>1, <1>2, SweepIs DEF Bucket, Registered, PoolTyped

\* The blocks whose pages a sweep discards are blocks of the arena.
LEMMA DiscardedTyped ==
    ASSUME NEW p, NEW q, PoolTyped(q)
    PROVE  Discarded(p, q) \subseteq Addr
  BY SlabInArena DEF Discarded

-----------------------------------------------------------------------------
(***************************************************************************)
(* Counting.                                                               *)
(***************************************************************************)

\* Two sets of blocks that share nothing have as many blocks as both together.
LEMMA CardDisjoint ==
    ASSUME NEW S \in SUBSET Addr, NEW T \in SUBSET Addr, Disjoint(S, T)
    PROVE  Cardinality(S \cup T) = Cardinality(S) + Cardinality(T)
<1>1. /\ IsFiniteSet(S) /\ IsFiniteSet(T)
      /\ Cardinality(S) \in Nat /\ Cardinality(T) \in Nat
  BY AddrFinite
<1>2. Cardinality(S \cup T) = Cardinality(S) + Cardinality(T) - Cardinality(S \cap T)
  BY <1>1, FS_Union
<1>3. Cardinality(S \cap T) = 0
  BY FS_EmptySet DEF Disjoint
<1> QED
  BY <1>1, <1>2, <1>3

\* Taking blocks out of a set lowers its count by theirs.
LEMMA CardMinus ==
    ASSUME NEW S \in SUBSET Addr, NEW T \in SUBSET S
    PROVE  Cardinality(S \ T) = Cardinality(S) - Cardinality(T)
<1>1. S \cap T = T /\ T \in SUBSET Addr
  OBVIOUS
<1>2. IsFiniteSet(S) /\ IsFiniteSet(T)
  BY <1>1, AddrFinite
<1>3. Cardinality(S \ T) = Cardinality(S) - Cardinality(S \cap T)
  BY <1>2, FS_Difference
<1> QED
  BY <1>1, <1>3

\* An interval of n blocks has n blocks.
LEMMA CardInterval ==
    ASSUME NEW a \in Int, NEW n \in Nat
    PROVE  Cardinality(a .. a + n - 1) = n
  BY FS_Interval

\* No blocks count zero, one block counts one, and what counts zero is empty.
LEMMA CardSmall ==
    /\ Cardinality({}) = 0
    /\ \A b : Cardinality({b}) = 1
    /\ \A S \in SUBSET Addr : Cardinality(S) = 0 => S = {}
  BY AddrFinite, FS_EmptySet, FS_Singleton

\* A part of a set that counts as much as the whole is the whole.
LEMMA CardWhole ==
    ASSUME NEW S \in SUBSET Addr, NEW T \in SUBSET S
    PROVE  /\ Cardinality(T) <= Cardinality(S)
           /\ Cardinality(T) = Cardinality(S) => T = S
  BY AddrFinite, FS_Subset

-----------------------------------------------------------------------------
(***************************************************************************)
(* Coherent pools: what each operation does to the blocks the pool holds.  *)
(***************************************************************************)
PoolSound(p) == PoolTyped(p) /\ PoolCoherent(p)

\* The blocks of all registered slabs.
SlabArea(p) == UNION {SlabBlocks(p, s) : s \in Registered(p)}

\* The blocks linked into some partial slab's list.
Linked(p) == UNION {p[s].partial_free : s \in Addr}

\* The same slabs are registered, with the same capacities.
SameLayout(p, q) ==
    \A s \in Addr : /\ q[s].capacity = p[s].capacity
                    /\ q[s].state = "Absent" <=> p[s].state = "Absent"

\* The layout decides which blocks belong to slabs.
LEMMA SameArea ==
    ASSUME NEW p, NEW q, SameLayout(p, q)
    PROVE  Registered(q) = Registered(p) /\ SlabArea(q) = SlabArea(p)
<1>1. Registered(q) = Registered(p)
  BY DEF SameLayout, Registered
<1>2. \A s \in Registered(p) : SlabBlocks(q, s) = SlabBlocks(p, s)
  BY DEF SameLayout, Registered, SlabBlocks
<1> QED
  BY <1>1, <1>2 DEF SlabArea

\* A slab's record and what it says of the blocks held.
LEMMA SlabFacts ==
    ASSUME NEW p, PoolSound(p), NEW s \in Addr
    PROVE  /\ p[s] \in SlabRecord
           /\ SlabBlocks(p, s) \in SUBSET Addr
           /\ Cardinality(SlabBlocks(p, s)) = p[s].capacity
           /\ SlabHeld(p, s) \in SUBSET SlabBlocks(p, s)
           /\ p[s].central_free_len = Cardinality(SlabHeld(p, s))
           /\ p[s].partial_free \in SUBSET SlabHeld(p, s)
           /\ s \notin Registered(p) => SlabHeld(p, s) = {}
           /\ s \in Registered(p) => s \in SlabBlocks(p, s)
<1>1. p[s] \in SlabRecord /\ SlabCoherent(p, s) /\ s \in Nat
  BY AddrNat DEF PoolSound, PoolTyped, PoolCoherent, Pool
<1>2. SlabBlocks(p, s) \in SUBSET Addr
  BY SlabInArena DEF PoolSound
<1>3. Cardinality(SlabBlocks(p, s)) = p[s].capacity
  <2> DEFINE n == p[s].capacity
  <2>1. n \in Nat /\ s \in Int /\ SlabBlocks(p, s) = s .. s + n - 1
    BY <1>1 DEF SlabBlocks, SlabRecord
  <2> HIDE DEF n
  <2>2. Cardinality(SlabBlocks(p, s)) = n
    BY <2>1, CardInterval
  <2> QED
    BY <2>2 DEF n
<1>4. SlabHeld(p, s) \in SUBSET SlabBlocks(p, s) /\ p[s].partial_free \in SUBSET SlabHeld(p, s)
  BY <1>1 DEF SlabCoherent, SlabHeld
<1>5. s \notin Registered(p) => SlabHeld(p, s) = {}
  BY <1>1 DEF SlabCoherent, SlabHeld, Registered
<1>6. s \in Registered(p) => s \in SlabBlocks(p, s)
  BY <1>1 DEF PoolSound, PoolTyped, SlabBlocks, SlabRecord
<1> QED
  BY <1>1, <1>2, <1>3, <1>4, <1>5, <1>6 DEF SlabCoherent

\* Slabs share no blocks, so what one holds no other does.
LEMMA SlabsApart ==
    ASSUME NEW p, PoolSound(p), NEW s \in Addr, NEW t \in Addr, s # t
    PROVE  /\ s \in Registered(p) /\ t \in Registered(p) =>
                 Disjoint(SlabBlocks(p, s), SlabBlocks(p, t))
           /\ Disjoint(SlabHeld(p, s), SlabHeld(p, t))
<1>1. s \in Registered(p) /\ t \in Registered(p) => Disjoint(SlabBlocks(p, s), SlabBlocks(p, t))
  BY DEF PoolSound, PoolCoherent
<1> QED
  BY <1>1, SlabFacts DEF Disjoint

\* The pool holds blocks of its slabs only, and its lists hold part of them.
LEMMA HeldInArea ==
    ASSUME NEW p, PoolSound(p)
    PROVE  /\ CentralHeld(p) \in SUBSET SlabArea(p)
           /\ SlabArea(p) \in SUBSET Addr
           /\ Linked(p) \in SUBSET CentralHeld(p)
  BY SlabFacts DEF CentralHeld, SlabArea, Linked, Registered

\* The new pool has no slab and holds nothing.
LEMMA EmptyPoolSound ==
    PoolSound(EmptyPool) /\ CentralHeld(EmptyPool) = {} /\ Registered(EmptyPool) = {}
                         /\ Linked(EmptyPool) = {}
<1>1. \A s \in Addr : /\ EmptyPool[s].capacity = 0 /\ EmptyPool[s].central_free_len = 0
                      /\ EmptyPool[s].partial_free = {} /\ EmptyPool[s].state = "Absent"
  BY DEF EmptyPool
<1>2. Registered(EmptyPool) = {}
  BY <1>1 DEF Registered
<1>3. \A s \in Addr : SlabHeld(EmptyPool, s) = {}
  BY <1>1 DEF SlabHeld
<1>4. \A s \in Addr : SlabCoherent(EmptyPool, s)
  BY <1>1, <1>3, CardSmall DEF SlabCoherent
<1>5. CentralHeld(EmptyPool) = {} /\ Linked(EmptyPool) = {}
  BY <1>1, <1>3 DEF CentralHeld, Linked
<1> QED
  BY <1>2, <1>4, <1>5, EmptyPoolTyped DEF PoolSound, PoolCoherent

\* Replacing the record of a registered slab by a coherent one: the other slabs keep
\* what they hold.
LEMMA PutSound ==
    ASSUME NEW p, PoolSound(p), NEW s \in Registered(p), NEW q, q = [p EXCEPT ![s] = q[s]],
           q[s] \in SlabRecord, q[s].capacity = p[s].capacity, q[s].state # "Absent",
           SlabCoherent(q, s)
    PROVE  /\ PoolSound(q) /\ SameLayout(p, q)
           /\ CentralHeld(q) = (CentralHeld(p) \ SlabHeld(p, s)) \cup SlabHeld(q, s)
           /\ Linked(q) \subseteq Linked(p) \cup q[s].partial_free
<1> DEFINE r == q[s]
<1>1. s \in Addr /\ s \in Nat /\ p \in Pool /\ s + p[s].capacity <= ArenaBlocks /\ p[s].capacity # 0
  BY AddrNat DEF Registered, PoolSound, PoolTyped
<1>2. PoolTyped([p EXCEPT ![s] = r])
  <2> HIDE DEF r
  <2>1. r \in SlabRecord /\ s + r.capacity <= ArenaBlocks /\ r.capacity # 0
    BY <1>1 DEF r
  <2> QED
    BY <1>1, <2>1, PutTyped DEF PoolSound
<1>3. PoolTyped(q) /\ \A t \in Addr \ {s} : q[t] = p[t]
  BY <1>1, <1>2 DEF Pool
<1>4. SameLayout(p, q)
  BY <1>3 DEF SameLayout, Registered
<1>5. \A t \in Addr \ {s} : SlabBlocks(q, t) = SlabBlocks(p, t) /\ SlabHeld(q, t) = SlabHeld(p, t)
  BY <1>3 DEF SlabBlocks, SlabHeld
<1>6. SlabBlocks(q, s) = SlabBlocks(p, s)
  BY DEF SlabBlocks
<1>7. \A t \in Addr : SlabCoherent(q, t)
  BY <1>3, <1>5 DEF SlabCoherent, PoolSound, PoolCoherent
<1>8. \A t, u \in Registered(q) : t # u => Disjoint(SlabBlocks(q, t), SlabBlocks(q, u))
  BY <1>4, <1>5, <1>6, SameArea DEF PoolSound, PoolCoherent, Registered
<1>9. PoolSound(q)
  BY <1>3, <1>7, <1>8 DEF PoolSound, PoolCoherent
<1>10. CentralHeld(q) = (CentralHeld(p) \ SlabHeld(p, s)) \cup SlabHeld(q, s)
  <2>1. \A t \in Addr \ {s} : Disjoint(SlabHeld(p, s), SlabHeld(p, t))
    BY <1>1, SlabsApart
  <2> QED
    BY <1>1, <1>5, <2>1 DEF CentralHeld, Disjoint
<1>11. Linked(q) \subseteq Linked(p) \cup q[s].partial_free
  BY <1>3 DEF Linked
<1> QED
  BY <1>4, <1>9, <1>10, <1>11

-----------------------------------------------------------------------------
\* maybe_sweep changes temperatures only; what it discards are blocks the pool holds
\* that are in no list.
LEMMA SweepSound ==
    ASSUME NEW p, PoolSound(p), NEW q \in Sweep(p)
    PROVE  /\ PoolSound(q) /\ SameLayout(p, q)
           /\ CentralHeld(q) = CentralHeld(p)
           /\ Linked(q) \subseteq Linked(p)
           /\ Discarded(p, q) \in SUBSET CentralHeld(p)
           /\ Disjoint(Discarded(p, q), Linked(p))
<1>1. CASE q = p
  <2>1. Discarded(p, q) = {}
    BY <1>1 DEF Discarded
  <2>2. SameLayout(p, q)
    BY <1>1 DEF SameLayout
  <2> QED
    BY <1>1, <2>1, <2>2 DEF Disjoint
<1>2. CASE q # p
  <2>1. PICK s \in Bucket(p, "FullHot") : q = [p EXCEPT ![s] = [p[s] EXCEPT !.state = "FullCold"]]
    BY <1>2, SweepIs DEF PoolSound, PoolTyped
  <2>2. s \in Registered(p) /\ s \in Addr /\ p[s].state = "FullHot" /\ p \in Pool
    BY DEF Bucket, Registered, PoolSound, PoolTyped
  <2>3. p[s] \in SlabRecord /\ q[s] = [p[s] EXCEPT !.state = "FullCold"]
    BY <2>1, <2>2 DEF Pool
  <2>4. /\ q[s] \in SlabRecord /\ q[s].capacity = p[s].capacity /\ q[s].state = "FullCold"
        /\ q[s].partial_free = p[s].partial_free
        /\ q[s].central_free_len = p[s].central_free_len
    BY <2>3 DEF SlabRecord, SlabState
  <2>5. SlabBlocks(q, s) = SlabBlocks(p, s) /\ SlabHeld(q, s) = SlabBlocks(p, s)
        /\ SlabHeld(p, s) = SlabBlocks(p, s)
    BY <2>2, <2>4 DEF SlabBlocks, SlabHeld
  <2>6. SlabCoherent(p, s) /\ p[s].partial_free = {}
    BY <2>2 DEF PoolSound, PoolCoherent, SlabCoherent
  <2>7. SlabCoherent(q, s)
    BY <2>4, <2>5, <2>6, SlabFacts, <2>2 DEF SlabCoherent
  <2>8. q = [p EXCEPT ![s] = q[s]]
    BY <2>1, <2>3
  <2>9. /\ PoolSound(q) /\ SameLayout(p, q)
        /\ CentralHeld(q) = (CentralHeld(p) \ SlabHeld(p, s)) \cup SlabHeld(q, s)
        /\ Linked(q) \subseteq Linked(p) \cup q[s].partial_free
    BY <2>2, <2>4, <2>7, <2>8, PutSound
  <2>10. SlabHeld(p, s) \subseteq CentralHeld(p)
    BY <2>2 DEF CentralHeld
  <2>11. Discarded(p, q) = SlabBlocks(q, s)
    <3>1. \A t \in Addr \ {s} : q[t] = p[t]
      BY <2>8, <2>2 DEF Pool
    <3> QED
      BY <3>1, <2>2, <2>4 DEF Discarded
  <2>12. Disjoint(SlabBlocks(p, s), Linked(p))
    BY <2>2, <2>5, <2>6, SlabFacts, SlabsApart DEF Linked, Disjoint
  <2> QED
    BY <2>4, <2>5, <2>6, <2>9, <2>10, <2>11, <2>12
<1> QED
  BY <1>1, <1>2

\* take_partial_batch: the blocks of the batch leave the pool.
LEMMA TakePartialSound ==
    ASSUME NEW p, PoolSound(p), NEW s \in Bucket(p, "Partial"),
           NEW B \in SUBSET p[s].partial_free
    PROVE  LET q == TakePartialBatch(p, s, B)
           IN  /\ PoolSound(q) /\ SameLayout(p, q)
               /\ CentralHeld(q) = CentralHeld(p) \ B
               /\ Linked(q) \subseteq Linked(p)
               /\ B \in SUBSET Linked(p)
<1> DEFINE q   == TakePartialBatch(p, s, B)
           len == p[s].central_free_len - Cardinality(B)
           r   == [p[s] EXCEPT !.central_free_len = len,
                               !.partial_free = p[s].partial_free \ B,
                               !.state = IF len = 0 THEN "Loaned" ELSE p[s].state]
<1>1. s \in Registered(p) /\ s \in Addr /\ p[s].state = "Partial" /\ p \in Pool
  BY DEF Bucket, Registered, PoolSound, PoolTyped
<1>2. /\ p[s] \in SlabRecord /\ SlabCoherent(p, s) /\ SlabHeld(p, s) = p[s].partial_free
      /\ p[s].partial_free \in SUBSET Addr
  BY <1>1 DEF Pool, PoolSound, PoolCoherent, SlabHeld, SlabRecord
<1>3. len = Cardinality(p[s].partial_free \ B) /\ len \in Nat /\ len <= p[s].central_free_len
  <2> DEFINE F == p[s].partial_free
  <2>1. F \in SUBSET Addr /\ B \in SUBSET F /\ p[s].central_free_len = Cardinality(F)
    BY <1>2 DEF SlabCoherent
  <2> HIDE DEF F
  <2>2. Cardinality(F \ B) = Cardinality(F) - Cardinality(B)
    BY <2>1, CardMinus
  <2>3. /\ Cardinality(F) \in Nat /\ Cardinality(B) \in Nat
        /\ F \ B \in SUBSET Addr /\ Cardinality(F \ B) \in Nat
    <3>1. F \ B \in SUBSET Addr /\ B \in SUBSET Addr
      BY <2>1
    <3> QED
      BY <2>1, <3>1, AddrFinite
  <2> QED
    BY <2>1, <2>2, <2>3 DEF F
<1>5. q = [p EXCEPT ![s] = r]
  BY DEF TakePartialBatch
<1> HIDE DEF len, q
<1>6. /\ r \in SlabRecord /\ r.capacity = p[s].capacity
      /\ r.central_free_len = len /\ r.partial_free = p[s].partial_free \ B
      /\ r.state = IF len = 0 THEN "Loaned" ELSE "Partial"
  <2> DEFINE r0 == p[s]
             st == IF len = 0 THEN "Loaned" ELSE r0.state
             F  == r0.partial_free \ B
  <2>1. st \in SlabState /\ len \in Int /\ F \in SUBSET Addr /\ r0 \in SlabRecord
    BY <1>1, <1>2, <1>3 DEF SlabState
  <2>2. r = [r0 EXCEPT !.central_free_len = len, !.partial_free = F, !.state = st]
    OBVIOUS
  <2> HIDE DEF st, F, r0, r
  <2>3. /\ r \in SlabRecord /\ r.capacity = r0.capacity
        /\ r.central_free_len = len /\ r.partial_free = F /\ r.state = st
    BY <2>1, <2>2 DEF SlabRecord
  <2> QED
    BY <1>1, <2>3 DEF st, F, r0
<1> HIDE DEF r
<1>7. q[s] = r /\ q = [p EXCEPT ![s] = q[s]]
  BY <1>1, <1>5 DEF Pool
<1>8. SlabBlocks(q, s) = SlabBlocks(p, s) /\ SlabHeld(q, s) = p[s].partial_free \ B
  BY <1>6, <1>7 DEF SlabBlocks, SlabHeld
<1>9. SlabCoherent(q, s)
  <2>1. len = 0 => p[s].partial_free \ B = {}
    BY <1>2, <1>3, CardSmall
  <2>2. p[s].central_free_len \in Int /\ p[s].capacity \in Nat
    BY <1>2 DEF SlabRecord
  <2> QED
    BY <1>1, <1>2, <1>3, <1>6, <1>7, <1>8, <2>1, <2>2 DEF SlabCoherent
<1>10. /\ PoolSound(q) /\ SameLayout(p, q)
       /\ CentralHeld(q) = (CentralHeld(p) \ SlabHeld(p, s)) \cup SlabHeld(q, s)
       /\ Linked(q) \subseteq Linked(p) \cup q[s].partial_free
  BY <1>1, <1>6, <1>7, <1>9, PutSound
<1>11. SlabHeld(p, s) \subseteq CentralHeld(p) /\ p[s].partial_free \subseteq Linked(p)
  BY <1>1 DEF CentralHeld, Linked
<1> QED
  BY <1>2, <1>6, <1>7, <1>8, <1>10, <1>11 DEF q

\* loan_whole_slab: all the blocks of a full slab leave the pool.
LEMMA LoanSound ==
    ASSUME NEW p, PoolSound(p), NEW s \in LoanableSlabs(p)
    PROVE  LET q == LoanWholeSlab(p, s)
           IN  /\ PoolSound(q) /\ SameLayout(p, q)
               /\ CentralHeld(q) = CentralHeld(p) \ SlabBlocks(p, s)
               /\ Linked(q) \subseteq Linked(p)
               /\ SlabBlocks(p, s) \in SUBSET CentralHeld(p)
               /\ s \in Registered(p)
<1> DEFINE q == LoanWholeSlab(p, s)
           r == [p[s] EXCEPT !.central_free_len = 0, !.state = "Loaned"]
<1>1. s \in Registered(p) /\ s \in Addr /\ p[s].state \in {"FullHot", "FullCold"} /\ p \in Pool
  BY DEF LoanableSlabs, Bucket, Registered, PoolSound, PoolTyped
<1>2. /\ p[s] \in SlabRecord /\ SlabCoherent(p, s) /\ SlabHeld(p, s) = SlabBlocks(p, s)
      /\ p[s].partial_free = {}
  BY <1>1 DEF Pool, PoolSound, PoolCoherent, SlabHeld, SlabCoherent
<1>3. /\ r \in SlabRecord /\ r.capacity = p[s].capacity
      /\ r.central_free_len = 0 /\ r.partial_free = {} /\ r.state = "Loaned"
  <2>1. r \in SlabRecord /\ r.capacity = p[s].capacity
    BY <1>2, LoanUpdateTyped DEF SameSlab
  <2>2. r.central_free_len = 0 /\ r.partial_free = {} /\ r.state = "Loaned"
    BY <1>2 DEF SlabRecord
  <2> QED
    BY <2>1, <2>2
<1>4. q = [p EXCEPT ![s] = r]
  BY DEF LoanWholeSlab
<1> HIDE DEF q, r
<1>5. q[s] = r /\ q = [p EXCEPT ![s] = q[s]]
  BY <1>1, <1>4 DEF Pool
<1>6. SlabBlocks(q, s) = SlabBlocks(p, s) /\ SlabHeld(q, s) = {}
  BY <1>3, <1>5 DEF SlabBlocks, SlabHeld
<1>7. SlabCoherent(q, s)
  BY <1>3, <1>5, <1>6, CardSmall DEF SlabCoherent
<1>8. /\ PoolSound(q) /\ SameLayout(p, q)
      /\ CentralHeld(q) = (CentralHeld(p) \ SlabHeld(p, s)) \cup SlabHeld(q, s)
      /\ Linked(q) \subseteq Linked(p) \cup q[s].partial_free
  BY <1>1, <1>3, <1>5, <1>7, PutSound
<1>9. SlabHeld(p, s) \subseteq CentralHeld(p)
  BY <1>1 DEF CentralHeld
<1> QED
  BY <1>1, <1>2, <1>3, <1>5, <1>6, <1>8, <1>9 DEF q

\* register_slab of a span that no slab touches: the pool holds what it held.
LEMMA RegisterSound ==
    ASSUME NEW p, PoolSound(p), NEW start \in Addr, NEW n \in Nat \ {0},
           start + n <= ArenaBlocks, Disjoint(SlabArea(p), start .. start + n - 1)
    PROVE  LET q == RegisterSlab(p, start, n)
           IN  /\ PoolSound(q)
               /\ CentralHeld(q) = CentralHeld(p)
               /\ Linked(q) = Linked(p)
               /\ Registered(q) = Registered(p) \cup {start}
               /\ start \notin Registered(p)
               /\ q[start].capacity = n
               /\ \A s \in Addr \ {start} : q[s] = p[s]
               /\ SlabArea(q) = SlabArea(p) \cup (start .. start + n - 1)
<1> DEFINE q == RegisterSlab(p, start, n)
           r == [capacity |-> n, central_free_len |-> 0, partial_free |-> {}, state |-> "Loaned"]
<1>1. start \in Nat /\ p \in Pool /\ PoolTyped(q)
  BY AddrNat, RegisterTyped DEF PoolSound, PoolTyped
<1>2. q = [p EXCEPT ![start] = r]
  BY DEF RegisterSlab
<1> HIDE DEF q
<1>3. /\ q[start].capacity = n /\ q[start].central_free_len = 0
      /\ q[start].partial_free = {} /\ q[start].state = "Loaned"
      /\ \A s \in Addr \ {start} : q[s] = p[s]
  BY <1>1, <1>2 DEF Pool
<1>4. start \in start .. start + n - 1
  BY <1>1
<1>5. start \notin Registered(p)
  BY <1>4, SlabFacts DEF SlabArea, Disjoint
<1>6. Registered(q) = Registered(p) \cup {start}
  BY <1>3 DEF Registered
<1>7. /\ \A s \in Addr \ {start} : SlabBlocks(q, s) = SlabBlocks(p, s) /\ SlabHeld(q, s) = SlabHeld(p, s)
      /\ SlabBlocks(q, start) = start .. start + n - 1
      /\ SlabHeld(q, start) = {}
  BY <1>3 DEF SlabBlocks, SlabHeld
<1>8. SlabHeld(p, start) = {} /\ p[start].partial_free = {}
  BY <1>5, SlabFacts
<1>9. CentralHeld(q) = CentralHeld(p)
  BY <1>7, <1>8 DEF CentralHeld
<1>10. Linked(q) = Linked(p)
  BY <1>3, <1>8 DEF Linked
<1>11. SlabArea(q) = SlabArea(p) \cup (start .. start + n - 1)
  <2>1. Registered(p) \subseteq Addr \ {start}
    BY <1>5 DEF Registered
  <2>2. \A s \in Registered(p) : SlabBlocks(q, s) = SlabBlocks(p, s)
    BY <1>7, <2>1
  <2> DEFINE G == start .. start + n - 1
  <2>3. SlabBlocks(q, start) = G
    BY <1>7
  <2> HIDE DEF G
  <2>4. /\ \A x : x \in SlabArea(p) <=> \E s \in Registered(p) : x \in SlabBlocks(p, s)
        /\ \A x : x \in SlabArea(q) <=> \E s \in Registered(q) : x \in SlabBlocks(q, s)
    BY DEF SlabArea
  <2>5. \A x : x \in SlabArea(q) <=> x \in SlabArea(p) \/ x \in G
    BY <1>6, <2>2, <2>3, <2>4
  <2>6. SlabArea(q) = SlabArea(p) \cup G
    BY <2>5
  <2> QED
    BY <2>6 DEF G
<1>12. \A s \in Addr : SlabCoherent(q, s)
  <2>1. SlabCoherent(q, start)
    BY <1>3, <1>7, CardSmall DEF SlabCoherent
  <2>2. ASSUME NEW s \in Addr \ {start} PROVE SlabCoherent(q, s)
    BY <1>3, <1>7 DEF SlabCoherent, PoolSound, PoolCoherent
  <2> QED
    BY <2>1, <2>2
<1>13. ASSUME NEW s \in Registered(q), NEW t \in Registered(q), s # t
       PROVE  Disjoint(SlabBlocks(q, s), SlabBlocks(q, t))
  <2>1. \A u \in Registered(p) : Disjoint(SlabBlocks(p, u), start .. start + n - 1)
    BY DEF SlabArea, Disjoint
  <2>2. CASE s # start /\ t # start
    BY <1>6, <1>7, <1>13, <2>2 DEF PoolSound, PoolCoherent, Registered
  <2>3. CASE s = start
    BY <1>6, <1>7, <1>13, <2>1, <2>3 DEF Registered, Disjoint
  <2>4. CASE t = start
    BY <1>6, <1>7, <1>13, <2>1, <2>4 DEF Registered, Disjoint
  <2> QED
    BY <2>2, <2>3, <2>4
<1>14. PoolSound(q)
  BY <1>1, <1>12, <1>13 DEF PoolSound, PoolCoherent
<1> QED
  BY <1>3, <1>5, <1>6, <1>9, <1>10, <1>11, <1>14 DEF q

-----------------------------------------------------------------------------
\* find_slab_id_unchecked: because slabs do not overlap, the last start at or below a
\* block of some slab is the start of that slab.
LEMMA LookupFinds ==
    ASSUME NEW p, PoolSound(p), NEW t \in Registered(p), NEW b \in SlabBlocks(p, t), NEW s \in Addr
    PROVE  FindsSlab(p, s, b) <=> s = t
<1>1. t \in Addr /\ t \in Nat /\ s \in Nat /\ p[t].capacity \in Nat
  BY SlabFacts, AddrNat DEF Registered, SlabRecord
<1>2. b \in Int /\ t <= b /\ b < t + p[t].capacity
  BY <1>1 DEF SlabBlocks
<1>3. ASSUME NEW u \in Registered(p), u <= b PROVE u <= t
  <2>1. u \in Addr /\ u \in Nat /\ u \in SlabBlocks(p, u)
    BY SlabFacts, AddrNat DEF Registered
  <2>2. ASSUME u > t PROVE FALSE
    <3>1. u \in SlabBlocks(p, t)
      BY <1>1, <1>2, <1>3, <2>1, <2>2 DEF SlabBlocks
    <3>2. u # t
      BY <1>1, <2>1, <2>2
    <3> QED
      BY <1>1, <2>1, <3>1, <3>2, SlabsApart DEF Disjoint
  <2> QED
    BY <1>1, <2>1, <2>2
<1>4. FindsSlab(p, t, b)
  BY <1>2, <1>3 DEF FindsSlab
<1>5. ASSUME FindsSlab(p, s, b) PROVE s = t
  BY <1>1, <1>2, <1>3, <1>5 DEF FindsSlab
<1> QED
  BY <1>4, <1>5

\* record_returned_block: a slab that gets blocks it does not hold is full exactly when
\* it then holds them all.
LEMMA RecordReturnedSound ==
    ASSUME NEW p, PoolSound(p), NEW q, NEW s \in Registered(p),
           NEW R \in SUBSET SlabBlocks(p, s), R # {}, Disjoint(R, SlabHeld(p, s)),
           q[s] = RecordReturned(p[s], R)
    PROVE  /\ SlabCoherent(q, s) /\ q[s].state # "Absent"
           /\ SlabHeld(q, s) = SlabHeld(p, s) \cup R
           /\ q[s].partial_free \subseteq p[s].partial_free \cup R
<1> DEFINE r   == p[s]
           H   == SlabHeld(p, s)
           A   == SlabBlocks(p, s)
           len == r.central_free_len + Cardinality(R)
<1>1. /\ s \in Addr /\ r \in SlabRecord /\ A \in SUBSET Addr /\ Cardinality(A) = r.capacity
      /\ H \in SUBSET A /\ r.central_free_len = Cardinality(H) /\ r.capacity \in Nat
      /\ r.partial_free \in SUBSET Addr
  BY SlabFacts DEF Registered, SlabRecord
<1>2. SlabCoherent(p, s)
  BY <1>1 DEF PoolSound, PoolCoherent
<1>3. H = r.partial_free
  <2>1. H # A
    BY DEF Disjoint
  <2> QED
    BY <2>1 DEF SlabHeld
<1>4. q[s] = IF len = r.capacity
             THEN [r EXCEPT !.central_free_len = len, !.partial_free = {}, !.state = "FullHot"]
             ELSE [r EXCEPT !.central_free_len = len, !.partial_free = @ \cup R, !.state = "Partial"]
  BY DEF RecordReturned
<1> HIDE DEF r, H, A
<1>5. len = Cardinality(H \cup R) /\ len \in Nat /\ len > 0
  <2>1. H \in SUBSET Addr /\ R \in SUBSET Addr /\ H \cup R \in SUBSET Addr
    BY <1>1 DEF A
  <2>2. Disjoint(H, R)
    BY DEF Disjoint, H
  <2>3. Cardinality(H \cup R) = Cardinality(H) + Cardinality(R)
    BY <2>1, <2>2, CardDisjoint
  <2>4. Cardinality(H) \in Nat /\ Cardinality(R) \in Nat /\ Cardinality(R) # 0
    BY <2>1, AddrFinite, CardSmall
  <2> QED
    BY <1>1, <2>3, <2>4
<1> HIDE DEF len
<1>6. H \cup R \in SUBSET A /\ len <= r.capacity /\ (len = r.capacity => H \cup R = A)
  <2>1. H \cup R \in SUBSET A
    BY <1>1 DEF A
  <2> QED
    BY <1>1, <1>5, <2>1, CardWhole
<1>7. CASE len = r.capacity
  <2>1. /\ q[s].central_free_len = len /\ q[s].partial_free = {} /\ q[s].state = "FullHot"
        /\ q[s].capacity = r.capacity
    BY <1>1, <1>4, <1>7 DEF SlabRecord
  <2>2. SlabBlocks(q, s) = A /\ SlabHeld(q, s) = A
    BY <2>1 DEF SlabBlocks, SlabHeld, A, r
  <2> QED
    BY <1>5, <1>6, <1>7, <2>1, <2>2 DEF SlabCoherent, H
<1>8. CASE len # r.capacity
  <2>1. /\ q[s].central_free_len = len /\ q[s].partial_free = r.partial_free \cup R
        /\ q[s].state = "Partial" /\ q[s].capacity = r.capacity
    BY <1>1, <1>4, <1>8 DEF SlabRecord
  <2>2. SlabBlocks(q, s) = A /\ SlabHeld(q, s) = H \cup R
    BY <1>3, <2>1 DEF SlabBlocks, SlabHeld, A, r
  <2>3. len < r.capacity
    BY <1>1, <1>5, <1>6, <1>8
  <2> QED
    BY <1>3, <1>5, <1>6, <2>1, <2>2, <2>3 DEF SlabCoherent, H, r
<1> QED
  BY <1>7, <1>8

\* return_batch of blocks that belong to slabs and that the pool does not hold: each is
\* filed under its slab and none is lost.
LEMMA ReturnSound ==
    ASSUME NEW p, PoolSound(p), NEW B \in SUBSET SlabArea(p), Disjoint(B, CentralHeld(p))
    PROVE  LET q == ReturnBatch(p, B)
           IN  /\ PoolSound(q) /\ SameLayout(p, q)
               /\ CentralHeld(q) = CentralHeld(p) \cup B
               /\ Linked(q) \subseteq Linked(p) \cup B
<1> DEFINE q    == ReturnBatch(p, B)
           R(s) == {b \in B : FindsSlab(p, s, b)}
<1>1. B \in SUBSET Addr /\ PoolTyped(q)
  BY HeldInArea, ReturnTyped DEF PoolSound
<1>2. \A s \in Addr : q[s] = IF R(s) = {} THEN p[s] ELSE RecordReturned(p[s], R(s))
  BY DEF ReturnBatch
<1> HIDE DEF q
<1>3. ASSUME NEW s \in Addr
      PROVE  /\ s \in Registered(p) => R(s) = B \cap SlabBlocks(p, s)
             /\ s \notin Registered(p) => R(s) = {}
  <2>1. ASSUME NEW b \in B, s \in Registered(p) PROVE FindsSlab(p, s, b) <=> b \in SlabBlocks(p, s)
    <3>1. PICK t \in Registered(p) : b \in SlabBlocks(p, t)
      BY DEF SlabArea
    <3>2. FindsSlab(p, s, b) <=> s = t
      BY <3>1, LookupFinds
    <3>3. s # t => b \notin SlabBlocks(p, s)
      BY <2>1, <3>1, SlabsApart DEF Disjoint, Registered
    <3> QED
      BY <3>1, <3>2, <3>3
  <2> QED
    BY <2>1 DEF FindsSlab
<1> HIDE DEF R
<1>4. ASSUME NEW s \in Addr
      PROVE  /\ SlabCoherent(q, s)
             /\ SlabHeld(q, s) = SlabHeld(p, s) \cup R(s)
             /\ q[s].capacity = p[s].capacity
             /\ q[s].state = "Absent" <=> p[s].state = "Absent"
             /\ q[s].partial_free \subseteq p[s].partial_free \cup R(s)
  <2>1. CASE R(s) = {}
    <3>1. q[s] = p[s]
      BY <1>2, <2>1
    <3>2. SlabCoherent(p, s)
      BY DEF PoolSound, PoolCoherent
    <3> QED
      BY <2>1, <3>1, <3>2 DEF SlabCoherent, SlabHeld, SlabBlocks
  <2>2. CASE R(s) # {}
    <3>1. s \in Registered(p) /\ R(s) \in SUBSET SlabBlocks(p, s) /\ R(s) \subseteq B
      BY <1>3, <2>2
    <3>2. Disjoint(R(s), SlabHeld(p, s))
      BY <3>1 DEF Disjoint, CentralHeld
    <3>3. q[s] = RecordReturned(p[s], R(s))
      BY <1>2, <2>2
    <3>4. /\ SlabCoherent(q, s) /\ q[s].state # "Absent"
          /\ SlabHeld(q, s) = SlabHeld(p, s) \cup R(s)
          /\ q[s].partial_free \subseteq p[s].partial_free \cup R(s)
      BY <2>2, <3>1, <3>2, <3>3, RecordReturnedSound
    <3>5. q[s].capacity = p[s].capacity
      <4>1. p[s] \in SlabRecord /\ R(s) \in SUBSET Addr
        BY <1>1, <3>1, SlabFacts
      <4> QED
        BY <3>3, <4>1, RecordReturnedTyped
    <3> QED
      BY <3>1, <3>4, <3>5 DEF Registered
  <2> QED
    BY <2>1, <2>2
<1>5. SameLayout(p, q)
  BY <1>4 DEF SameLayout
<1>6. \A s \in Addr : SlabBlocks(q, s) = SlabBlocks(p, s)
  BY <1>4 DEF SlabBlocks
<1>7. PoolSound(q)
  <2>1. \A s, t \in Registered(q) : s # t => Disjoint(SlabBlocks(q, s), SlabBlocks(q, t))
    BY <1>5, <1>6, SameArea DEF PoolSound, PoolCoherent, Registered
  <2> QED
    BY <1>1, <1>4, <2>1 DEF PoolSound, PoolCoherent
<1>8. B = UNION {R(s) : s \in Addr}
  BY <1>3 DEF SlabArea, Registered
<1>9. CentralHeld(q) = CentralHeld(p) \cup B
  BY <1>4, <1>8 DEF CentralHeld
<1>10. Linked(q) \subseteq Linked(p) \cup B
  BY <1>4, <1>8 DEF Linked
<1> QED
  BY <1>5, <1>7, <1>9, <1>10 DEF q

-----------------------------------------------------------------------------
(* The cache of one class *)

\* A slab at s lies inside the arena and has handed out no more than its capacity.
SlabFits(sl, s) == s + sl.capacity <= ArenaBlocks /\ sl.next_fresh <= sl.capacity

\* A cache of the right type whose slabs fit.
CacheTyped(cc) ==
    /\ cc \in ClassCache
    /\ \A s \in Addr : SlabFits(cc.slabs[s], s)

\* A new class cache is well-formed.
LEMMA NewCacheTyped == CacheTyped(NewClassCache)
  BY ArenaBlocksAssumption
  DEF CacheTyped, NewClassCache, ClassCache, LocalSlab, UnknownSlab, Addr, SlabFits

\* The fields of a typed cache.
LEMMA CacheFields ==
    ASSUME NEW cc, CacheTyped(cc)
    PROVE  /\ cc.hot \in SUBSET Addr
           /\ cc.slabs \in [Addr -> LocalSlab]
           /\ cc.avail \in SUBSET Addr
           /\ cc.shared \in SUBSET Addr
           /\ cc.shared_len \in Int
           /\ cc.total_len \in Int
  BY DEF CacheTyped, ClassCache

\* One field may be replaced by any other value of its type.
LEMMA SetHot ==
    ASSUME NEW cc, CacheTyped(cc), NEW H \in SUBSET Addr
    PROVE  CacheTyped([cc EXCEPT !.hot = H])
  BY DEF CacheTyped, ClassCache

\* The same for the slabs with available blocks.
LEMMA SetAvail ==
    ASSUME NEW cc, CacheTyped(cc), NEW H \in SUBSET Addr
    PROVE  CacheTyped([cc EXCEPT !.avail = H])
  BY DEF CacheTyped, ClassCache

\* The same for the shared list.
LEMMA SetShared ==
    ASSUME NEW cc, CacheTyped(cc), NEW H \in SUBSET Addr
    PROVE  CacheTyped([cc EXCEPT !.shared = H])
  BY DEF CacheTyped, ClassCache

\* The same for the shared length.
LEMMA SetSharedLen ==
    ASSUME NEW cc, CacheTyped(cc), NEW n \in Int
    PROVE  CacheTyped([cc EXCEPT !.shared_len = n])
  BY DEF CacheTyped, ClassCache

\* The same for the total length.
LEMMA SetTotalLen ==
    ASSUME NEW cc, CacheTyped(cc), NEW n \in Int
    PROVE  CacheTyped([cc EXCEPT !.total_len = n])
  BY DEF CacheTyped, ClassCache

\* The same for the record of one slab.
LEMMA SetSlab ==
    ASSUME NEW cc, CacheTyped(cc), NEW s \in Nat, NEW sl \in LocalSlab, SlabFits(sl, s)
    PROVE  CacheTyped([cc EXCEPT !.slabs = [cc.slabs EXCEPT ![s] = sl]])
<1> DEFINE f == [cc.slabs EXCEPT ![s] = sl]
           q == [cc EXCEPT !.slabs = f]
<1>1. cc.slabs \in [Addr -> LocalSlab]
  BY CacheFields
<1>2. f \in [Addr -> LocalSlab]
  BY <1>1
<1>3. \A t \in Addr : SlabFits(f[t], t)
  BY <1>1 DEF CacheTyped
<1>4. q \in ClassCache /\ q.slabs = f
  <2> HIDE DEF f
  <2> QED
    BY <1>2 DEF CacheTyped, ClassCache
<1>5. CacheTyped(q)
  <2> HIDE DEF f, q
  <2> QED
    BY <1>3, <1>4 DEF CacheTyped
<1> QED
  BY <1>5

\* Writing back a slab that gave up blocks keeps the cache typed.
LEMMA WithSlabTyped ==
    ASSUME NEW cc, CacheTyped(cc), NEW s \in Addr, NEW sl \in LocalSlab, SlabFits(sl, s),
           NEW taken \in Int
    PROVE  CacheTyped(WithSlab(cc, s, sl, taken))
<1> DEFINE f  == [cc.slabs EXCEPT ![s] = sl]
           c1 == [cc EXCEPT !.slabs = f]
           av == IF HasAvailableBlocks(sl) THEN cc.avail ELSE cc.avail \ {s}
           c2 == [c1 EXCEPT !.avail = av]
           n  == cc.total_len - taken
           c3 == [c2 EXCEPT !.total_len = n]
<1>1. CacheTyped(c1)
  BY SetSlab, AddrNat
<1>2. av \in SUBSET Addr /\ n \in Int
  BY CacheFields
<1>3. CacheTyped(c2)
  <2> HIDE DEF c1, av
  <2> QED BY <1>1, <1>2, SetAvail
<1>4. CacheTyped(c3)
  <2> HIDE DEF c2, n
  <2> QED BY <1>2, <1>3, SetTotalLen
<1>5. WithSlab(cc, s, sl, taken) = c3
  <2> HIDE DEF f
  <2>1. WithSlab(cc, s, sl, taken) = [cc EXCEPT !.slabs = f, !.avail = av, !.total_len = n]
    BY DEF WithSlab, CacheTyped, ClassCache, f
  <2> QED BY <2>1, Zenon
<1> QED
  BY <1>4, <1>5
\* available_slabs lists only slabs that can yield a block.
AvailSound(cc) == \A s \in cc.avail : HasAvailableBlocks(cc.slabs[s])

\* After the write-back every available slab can still yield a block.
LEMMA WithSlabAvail ==
    ASSUME NEW cc, CacheTyped(cc), AvailSound(cc), NEW s \in Addr, NEW sl \in LocalSlab,
           NEW taken \in Int
    PROVE  AvailSound(WithSlab(cc, s, sl, taken))
<1> DEFINE w == WithSlab(cc, s, sl, taken)
<1>1. cc \in ClassCache /\ cc.slabs \in [Addr -> LocalSlab] /\ cc.avail \in SUBSET Addr
  BY CacheFields DEF CacheTyped
<1>2. w.slabs = [cc.slabs EXCEPT ![s] = sl]
  BY <1>1 DEF WithSlab, ClassCache
<1>3. w.avail = IF HasAvailableBlocks(sl) THEN cc.avail ELSE cc.avail \ {s}
  BY <1>1 DEF WithSlab, ClassCache
<1> HIDE DEF w
<1>4. ASSUME NEW t \in w.avail PROVE HasAvailableBlocks(w.slabs[t])
  <2>1. CASE t = s
    <3>1. HasAvailableBlocks(sl) /\ w.slabs[t] = sl
      BY <1>1, <1>2, <1>3, <1>4, <2>1
    <3> QED
      BY <3>1
  <2>2. CASE t # s
    <3>1. t \in cc.avail /\ w.slabs[t] = cc.slabs[t]
      BY <1>1, <1>2, <1>3, <1>4, <2>2
    <3> QED
      BY <3>1 DEF AvailSound
  <2> QED
    BY <2>1, <2>2
<1> QED
  BY <1>4 DEF AvailSound, w

-----------------------------------------------------------------------------
\* push_owned_slab
LEMMA PushOwnedTyped ==
    ASSUME NEW cc, CacheTyped(cc), AvailSound(cc), NEW start \in Addr, NEW n \in Nat \ {0},
           start + n <= ArenaBlocks
    PROVE  CacheTyped(PushOwnedSlab(cc, start, n)) /\ AvailSound(PushOwnedSlab(cc, start, n))
<1> DEFINE cap == IF start \in KnownSlabs(cc) THEN cc.slabs[start].capacity ELSE n
           sl  == [capacity |-> cap, next_fresh |-> 0, free |-> {}]
           f   == [cc.slabs EXCEPT ![start] = sl]
           av  == cc.avail \cup {start}
           len == cc.total_len + n
           c1  == [cc EXCEPT !.slabs = f]
           c2  == [c1 EXCEPT !.avail = av]
           c3  == [c2 EXCEPT !.total_len = len]
           q   == PushOwnedSlab(cc, start, n)
<1>1. start + cap <= ArenaBlocks /\ cap \in Nat \ {0}
  BY CacheFields DEF CacheTyped, KnownSlabs, LocalSlab, SlabFits
<1>2. sl \in LocalSlab /\ SlabFits(sl, start) /\ HasAvailableBlocks(sl)
  <2> HIDE DEF cap
  <2> QED
    BY <1>1 DEF LocalSlab, HasAvailableBlocks, SlabFits
<1>3. av \in SUBSET Addr /\ len \in Int
  BY CacheFields
<1>4. CacheTyped(c1)
  <2> HIDE DEF sl
  <2> QED
    BY <1>1, <1>2, SetSlab, AddrNat
<1>5. CacheTyped(c2)
  <2> HIDE DEF c1, av
  <2> QED
    BY <1>3, <1>4, SetAvail
<1>6. CacheTyped(c3)
  <2> HIDE DEF c2, len
  <2> QED
    BY <1>3, <1>5, SetTotalLen
<1>7. q = [cc EXCEPT !.slabs = f, !.avail = av, !.total_len = len]
  BY DEF PushOwnedSlab, CacheTyped, ClassCache
<1>8. q = c3
  <2> HIDE DEF f, av, len, q
  <2> QED
    BY <1>7, Zenon
<1>9. AvailSound(q)
  <2>1. q.slabs = f /\ q.avail = av
    <3> HIDE DEF f, av, len, q
    <3> QED
      BY <1>7 DEF CacheTyped, ClassCache
  <2>2. cc.slabs \in [Addr -> LocalSlab]
    BY CacheFields
  <2>3. \A t \in av : HasAvailableBlocks(f[t])
    <3> HIDE DEF sl
    <3> QED
      BY <1>2, <2>2, <1>3 DEF AvailSound
  <2> HIDE DEF f, av, q
  <2> QED
    BY <2>1, <2>3 DEF AvailSound
<1> QED
  BY <1>6, <1>8, <1>9

\* push_shared_batch
LEMMA PushSharedTyped ==
    ASSUME NEW cc, CacheTyped(cc), AvailSound(cc), NEW B \in SUBSET Addr
    PROVE  CacheTyped(PushSharedBatch(cc, B)) /\ AvailSound(PushSharedBatch(cc, B))
<1> DEFINE sh == cc.shared \cup B
           k  == Cardinality(B)
           n  == cc.shared_len + k
           m  == cc.total_len + k
           c1 == [cc EXCEPT !.shared = sh]
           c2 == [c1 EXCEPT !.shared_len = n]
           c3 == [c2 EXCEPT !.total_len = m]
           q  == PushSharedBatch(cc, B)
<1>1. sh \in SUBSET Addr /\ n \in Int /\ m \in Int
  BY CacheFields, AddrFinite
<1>2. CacheTyped(c1)
  <2> HIDE DEF sh
  <2> QED
    BY <1>1, SetShared
<1>3. CacheTyped(c2)
  <2> HIDE DEF c1, n
  <2> QED
    BY <1>1, <1>2, SetSharedLen
<1>4. CacheTyped(c3)
  <2> HIDE DEF c2, m
  <2> QED
    BY <1>1, <1>3, SetTotalLen
<1>5. q = [cc EXCEPT !.shared = sh, !.shared_len = n, !.total_len = m]
  BY DEF PushSharedBatch, CacheTyped, ClassCache
<1>6. q = c3
  <2> HIDE DEF sh, n, m, q
  <2> QED
    BY <1>5, Zenon
<1>7. q.slabs = cc.slabs /\ q.avail = cc.avail
  <2> HIDE DEF sh, n, m, q
  <2> QED
    BY <1>5 DEF CacheTyped, ClassCache
<1> HIDE DEF c3, q
<1> QED
  BY <1>4, <1>6, <1>7 DEF AvailSound, q

\* push_spilled_block
LEMMA PushSpilledTyped ==
    ASSUME NEW cc, CacheTyped(cc), AvailSound(cc), NEW b \in Addr
    PROVE  CacheTyped(PushSpilledBlock(cc, b)) /\ AvailSound(PushSpilledBlock(cc, b))
<1> DEFINE q == PushSpilledBlock(cc, b)
<1>1. CASE \E s \in Addr : FindsLocal(cc, s, b)
  <2> DEFINE s  == CHOOSE t \in Addr : FindsLocal(cc, t, b)
             sl == [cc.slabs[s] EXCEPT !.free = @ \cup {b}]
             f  == [cc.slabs EXCEPT ![s] = sl]
             av == IF HasAvailableBlocks(cc.slabs[s]) THEN cc.avail ELSE cc.avail \cup {s}
             c1 == [cc EXCEPT !.slabs = f]
             c2 == [c1 EXCEPT !.avail = av]
  <2>1. s \in Addr
    BY <1>1
  <2>2. q = [cc EXCEPT !.slabs = f, !.avail = av]
    BY <1>1 DEF PushSpilledBlock, CacheTyped, ClassCache
  <2> HIDE DEF s, q
  <2>3. cc.slabs[s] \in LocalSlab /\ SlabFits(cc.slabs[s], s)
    BY <2>1, CacheFields DEF CacheTyped
  <2>4. sl \in LocalSlab /\ SlabFits(sl, s) /\ sl.free # {}
    BY <2>3 DEF LocalSlab, SlabFits
  <2>5. HasAvailableBlocks(sl)
    BY <2>4 DEF HasAvailableBlocks
  <2> HIDE DEF sl
  <2>6. av \in SUBSET Addr
    BY <2>1, CacheFields
  <2>7. CacheTyped(c1)
    BY <2>1, <2>4, SetSlab, AddrNat
  <2>8. CacheTyped(c2)
    <3> HIDE DEF c1, av
    <3> QED
      BY <2>6, <2>7, SetAvail
  <2>9. q = c2
    <3> HIDE DEF f, av
    <3> QED
      BY <2>2, Zenon
  <2>10. q.slabs = f /\ q.avail = av
    <3> HIDE DEF f, av
    <3> QED
      BY <2>2 DEF CacheTyped, ClassCache
  <2>11. \A t \in av : HasAvailableBlocks(f[t])
    <3>1. cc.slabs \in [Addr -> LocalSlab]
      BY CacheFields
    <3> QED
      BY <2>5, <2>6, <3>1 DEF AvailSound
  <2> HIDE DEF c2, f, av
  <2> QED
    BY <2>8, <2>9, <2>10, <2>11 DEF AvailSound, q
<1>2. CASE ~ \E s \in Addr : FindsLocal(cc, s, b)
  <2> DEFINE sh == cc.shared \cup {b}
             n  == cc.shared_len + 1
             c1 == [cc EXCEPT !.shared = sh]
             c2 == [c1 EXCEPT !.shared_len = n]
  <2>1. q = [cc EXCEPT !.shared = sh, !.shared_len = n]
    BY <1>2 DEF PushSpilledBlock, CacheTyped, ClassCache
  <2>2. sh \in SUBSET Addr /\ n \in Int
    BY CacheFields
  <2> HIDE DEF sh, n, q
  <2>3. CacheTyped(c1)
    BY <2>2, SetShared
  <2>4. CacheTyped(c2)
    <3> HIDE DEF c1
    <3> QED
      BY <2>2, <2>3, SetSharedLen
  <2>5. q = c2
    BY <2>1, Zenon
  <2>6. q.slabs = cc.slabs /\ q.avail = cc.avail
    BY <2>1 DEF CacheTyped, ClassCache
  <2> HIDE DEF c2
  <2> QED
    BY <2>4, <2>5, <2>6 DEF AvailSound, q
<1> QED
  BY <1>1, <1>2

\* push_block
LEMMA PushBlockTyped ==
    ASSUME NEW cc, CacheTyped(cc), AvailSound(cc), NEW b \in Addr
    PROVE  CacheTyped(PushBlock(cc, b)) /\ AvailSound(PushBlock(cc, b))
<1> DEFINE n == cc.total_len + 1
           c1 == [cc EXCEPT !.hot = {b}]
           q  == [c1 EXCEPT !.total_len = n]
           p  == [cc EXCEPT !.hot = {b}, !.total_len = @ + 1]
<1>1. n \in Int /\ cc.hot \in SUBSET Addr
  BY CacheFields
<1>2. CacheTyped(c1)
  BY SetHot
<1>3. CacheTyped(q)
  <2> HIDE DEF c1, n
  <2> QED
    BY <1>1, <1>2, SetTotalLen
<1>4. p = [cc EXCEPT !.hot = {b}, !.total_len = n]
  BY DEF CacheTyped, ClassCache
<1>5. p = q
  <2> HIDE DEF n, p
  <2> QED
    BY <1>4, Zenon
<1>6. p.slabs = cc.slabs /\ p.avail = cc.avail
  <2> HIDE DEF n, p
  <2> QED
    BY <1>4 DEF CacheTyped, ClassCache
<1>7. PushBlock(cc, b) = IF cc.hot = {} THEN p ELSE PushSpilledBlock(p, CHOOSE h \in cc.hot : TRUE)
  BY DEF PushBlock
<1>8. CacheTyped(p) /\ AvailSound(p)
  <2> HIDE DEF q, p
  <2> QED
    BY <1>3, <1>5, <1>6 DEF AvailSound
<1> HIDE DEF p
<1>9. CASE cc.hot = {}
  BY <1>7, <1>8, <1>9
<1>10. CASE cc.hot # {}
  <2> DEFINE h == CHOOSE x \in cc.hot : TRUE
  <2>1. h \in Addr
    BY <1>1, <1>10
  <2>2. PushBlock(cc, b) = PushSpilledBlock(p, h)
    BY <1>7, <1>10
  <2> HIDE DEF h
  <2> QED
    BY <1>8, <2>1, <2>2, PushSpilledTyped
<1> QED
  BY <1>9, <1>10

-----------------------------------------------------------------------------
\* What a pop returns: a sound cache, a block of the arena and how it may be reused.
PopTyped(pop) ==
    /\ CacheTyped(pop.cache) /\ AvailSound(pop.cache)
    /\ pop.block \in Addr
    /\ pop.reuse \in BlockReuse

\* LocalSlab::pop_block_unchecked, for a slab listed in available_slabs
LEMMA SlabPopsTyped ==
    ASSUME NEW cc, CacheTyped(cc), AvailSound(cc), NEW s \in cc.avail,
           NEW pop \in SlabPops(cc, s)
    PROVE  PopTyped(pop)
<1> DEFINE sl == cc.slabs[s]
<1>1. s \in Addr /\ sl \in LocalSlab /\ SlabFits(sl, s) /\ HasAvailableBlocks(sl)
  BY CacheFields DEF CacheTyped, AvailSound
<1> HIDE DEF sl
<1>2. CASE sl.free # {}
  <2>1. PICK b \in sl.free :
          pop = [cache |-> WithSlab(cc, s, [sl EXCEPT !.free = @ \ {b}], 1),
                 block |-> b, reuse |-> "HotReuseRequestedOnly"]
    BY <1>2 DEF SlabPops, sl
  <2> DEFINE sk == [sl EXCEPT !.free = @ \ {b}]
             w  == WithSlab(cc, s, sk, 1)
  <2>2. sk \in LocalSlab /\ SlabFits(sk, s) /\ b \in Addr
    BY <1>1 DEF LocalSlab, SlabFits
  <2> HIDE DEF sk
  <2>3. CacheTyped(w) /\ AvailSound(w)
    BY <1>1, <2>2, WithSlabTyped, WithSlabAvail
  <2>4. pop.cache = w /\ pop.block = b /\ pop.reuse = "HotReuseRequestedOnly"
    <3> HIDE DEF w
    <3> QED
      BY <2>1 DEF w, sk
  <2> HIDE DEF w
  <2> QED
    BY <2>2, <2>3, <2>4 DEF PopTyped, BlockReuse
<1>3. CASE sl.free = {}
  <2> DEFINE sk == [sl EXCEPT !.next_fresh = @ + 1]
             w  == WithSlab(cc, s, sk, 1)
             b  == s + sl.next_fresh
  <2>1. pop = [cache |-> w, block |-> b, reuse |-> "NeedsHeaderRewrite"]
    BY <1>3 DEF SlabPops, sl
  <2>2. sl.next_fresh < sl.capacity
    BY <1>1, <1>3 DEF HasAvailableBlocks
  <2>3. b \in Addr
    BY <1>1, <2>2, ArenaBlocksAssumption DEF LocalSlab, SlabFits, Addr
  <2>4. sk \in LocalSlab /\ SlabFits(sk, s)
    BY <1>1, <2>2 DEF LocalSlab, SlabFits
  <2> HIDE DEF sk
  <2>5. CacheTyped(w) /\ AvailSound(w)
    BY <1>1, <2>4, WithSlabTyped, WithSlabAvail
  <2> HIDE DEF w, b
  <2> QED
    BY <2>1, <2>3, <2>5 DEF PopTyped, BlockReuse
<1> QED
  BY <1>2, <1>3

\* pop_block_unchecked
LEMMA PopBlockTyped ==
    ASSUME NEW cc, CacheTyped(cc), AvailSound(cc), NEW pop \in PopBlock(cc)
    PROVE  PopTyped(pop)
<1>1. CASE cc.hot # {}
  <2> DEFINE n  == cc.total_len - 1
             c1 == [cc EXCEPT !.hot = {}]
             c2 == [c1 EXCEPT !.total_len = n]
             q  == [cc EXCEPT !.hot = {}, !.total_len = @ - 1]
  <2>1. PICK b \in cc.hot : pop = [cache |-> q, block |-> b, reuse |-> "HotReuseRequestedOnly"]
    BY <1>1 DEF PopBlock
  <2>2. q = [cc EXCEPT !.hot = {}, !.total_len = n]
    BY DEF CacheTyped, ClassCache
  <2>3. n \in Int /\ b \in Addr
    BY CacheFields
  <2> HIDE DEF n, q
  <2>4. CacheTyped(c1)
    BY SetHot
  <2>5. CacheTyped(c2)
    <3> HIDE DEF c1
    <3> QED
      BY <2>3, <2>4, SetTotalLen
  <2>6. q = c2
    BY <2>2, Zenon
  <2>7. q.slabs = cc.slabs /\ q.avail = cc.avail
    BY <2>2 DEF CacheTyped, ClassCache
  <2>8. AvailSound(q)
    BY <2>7 DEF AvailSound
  <2> HIDE DEF c2
  <2> QED
    BY <2>1, <2>3, <2>5, <2>6, <2>8 DEF PopTyped, BlockReuse
<1>2. CASE cc.hot = {} /\ cc.avail # {}
  <2>1. PICK s \in cc.avail : pop \in SlabPops(cc, s)
    BY <1>2 DEF PopBlock
  <2> QED
    BY <2>1, SlabPopsTyped
<1>3. CASE cc.hot = {} /\ cc.avail = {}
  <2> DEFINE q(b) == [cc EXCEPT !.shared = @ \ {b}, !.shared_len = @ - 1, !.total_len = @ - 1]
  <2>1. PICK b \in cc.shared :
          pop = [cache |-> q(b), block |-> b, reuse |-> "NeedsOwnerAndRequestedSizeRefresh"]
    BY <1>3 DEF PopBlock
  <2> DEFINE sh == cc.shared \ {b}
             n  == cc.shared_len - 1
             m  == cc.total_len - 1
             c1 == [cc EXCEPT !.shared = sh]
             c2 == [c1 EXCEPT !.shared_len = n]
             c3 == [c2 EXCEPT !.total_len = m]
  <2>2. q(b) = [cc EXCEPT !.shared = sh, !.shared_len = n, !.total_len = m]
    BY DEF CacheTyped, ClassCache
  <2>3. sh \in SUBSET Addr /\ n \in Int /\ m \in Int /\ b \in Addr
    BY CacheFields
  <2> HIDE DEF sh, n, m, q
  <2>4. CacheTyped(c1)
    BY <2>3, SetShared
  <2>5. CacheTyped(c2)
    <3> HIDE DEF c1
    <3> QED
      BY <2>3, <2>4, SetSharedLen
  <2>6. CacheTyped(c3)
    <3> HIDE DEF c2
    <3> QED
      BY <2>3, <2>5, SetTotalLen
  <2>7. q(b) = c3
    BY <2>2, Zenon
  <2>8. q(b).slabs = cc.slabs /\ q(b).avail = cc.avail
    BY <2>2 DEF CacheTyped, ClassCache
  <2>9. AvailSound(q(b))
    BY <2>8 DEF AvailSound
  <2> HIDE DEF c3
  <2> QED
    BY <2>1, <2>3, <2>6, <2>7, <2>9 DEF PopTyped, BlockReuse
<1> QED
  BY <1>1, <1>2, <1>3

-----------------------------------------------------------------------------
\* What a batch pop returns: a sound cache and blocks of the arena.
BatchTyped(out) ==
    /\ CacheTyped(out.cache) /\ AvailSound(out.cache)
    /\ out.batch \in SUBSET Addr
    /\ out.fresh \in SUBSET out.batch

\* LocalSlab::pop_batch, for a slab listed in available_slabs
LEMMA SlabPopBatchesTyped ==
    ASSUME NEW cc, CacheTyped(cc), AvailSound(cc), NEW s \in cc.avail, NEW max \in Int,
           NEW out \in SlabPopBatches(cc, s, max)
    PROVE  BatchTyped(out)
<1> DEFINE sl    == cc.slabs[s]
           rec   == Least(Cardinality(sl.free), max)
           taken == Least(max - rec, sl.capacity - sl.next_fresh)
           fresh == s + sl.next_fresh .. s + sl.next_fresh + taken - 1
           sk(B) == [sl EXCEPT !.free = @ \ B, !.next_fresh = @ + taken]
<1>1. PICK B \in Batches(rec, sl.free) :
        out = [cache |-> WithSlab(cc, s, sk(B), rec + taken),
               batch |-> B \cup fresh, fresh |-> fresh]
  BY DEF SlabPopBatches
<1>2. s \in Addr /\ sl \in LocalSlab /\ SlabFits(sl, s)
  BY CacheFields DEF CacheTyped
<1> HIDE DEF sl
<1>3. sl.free \in SUBSET Addr /\ sl.capacity \in Nat /\ sl.next_fresh \in Nat
  BY <1>2 DEF LocalSlab
<1>4. B \in SUBSET sl.free /\ rec = Cardinality(B)
  BY DEF Batches
<1>5. rec \in Nat /\ rec <= max
  <2>1. rec \in Nat
    BY <1>3, <1>4, AddrFinite
  <2> QED
    BY <2>1, <1>3, AddrFinite DEF Least
<1> HIDE DEF rec
<1>6. taken \in Nat /\ sl.next_fresh + taken <= sl.capacity
  BY <1>2, <1>3, <1>5 DEF Least, SlabFits
<1> HIDE DEF taken
<1>7. fresh \in SUBSET Addr
  BY <1>2, <1>3, <1>6, ArenaBlocksAssumption DEF SlabFits, Addr
<1> HIDE DEF fresh
<1>8. sk(B) \in LocalSlab /\ SlabFits(sk(B), s)
  <2> DEFINE free == sl.free \ B
             nf   == sl.next_fresh + taken
             s1   == [sl EXCEPT !.free = free]
             s2   == [s1 EXCEPT !.next_fresh = nf]
  <2>1. sk(B) = [sl EXCEPT !.free = free, !.next_fresh = nf]
    BY <1>2 DEF LocalSlab
  <2>2. free \in SUBSET Addr /\ nf \in Nat /\ nf <= sl.capacity
    BY <1>3, <1>6
  <2> HIDE DEF sk, free, nf
  <2>3. s1 \in LocalSlab /\ s1.capacity = sl.capacity
    BY <1>2, <2>2 DEF LocalSlab
  <2>4. s2 \in LocalSlab /\ s2.capacity = sl.capacity /\ s2.next_fresh = nf
    <3> HIDE DEF s1
    <3> QED
      BY <2>2, <2>3 DEF LocalSlab
  <2>5. sk(B) = s2
    BY <2>1, Zenon
  <2> HIDE DEF s2
  <2> QED
    BY <1>2, <2>2, <2>4, <2>5 DEF SlabFits
<1> HIDE DEF sk
<1> DEFINE w == WithSlab(cc, s, sk(B), rec + taken)
<1>9. CacheTyped(w) /\ AvailSound(w)
  BY <1>2, <1>5, <1>6, <1>8, WithSlabTyped, WithSlabAvail
<1> HIDE DEF w
<1>10. out.cache = w /\ out.batch = B \cup fresh /\ out.fresh = fresh
  BY <1>1 DEF w
<1> QED
  BY <1>3, <1>4, <1>7, <1>9, <1>10 DEF BatchTyped

\* pop_batch
LEMMA PopBatchTyped ==
    ASSUME NEW cc, CacheTyped(cc), AvailSound(cc), NEW max \in Int, NEW out \in PopBatch(cc, max)
    PROVE  BatchTyped(out)
<1>1. CASE cc.shared_len # 0
  <2> DEFINE k    == Least(max, Cardinality(cc.shared))
             q(B) == [cc EXCEPT !.shared = @ \ B, !.shared_len = @ - k, !.total_len = @ - k]
  <2>1. PICK B \in Batches(k, cc.shared) : out = [cache |-> q(B), batch |-> B, fresh |-> {}]
    BY <1>1 DEF PopBatch
  <2>2. B \in SUBSET cc.shared /\ k \in Int
    BY CacheFields, AddrFinite DEF Batches, Least
  <2> HIDE DEF k
  <2> DEFINE sh == cc.shared \ B
             n  == cc.shared_len - k
             m  == cc.total_len - k
             c1 == [cc EXCEPT !.shared = sh]
             c2 == [c1 EXCEPT !.shared_len = n]
             c3 == [c2 EXCEPT !.total_len = m]
  <2>3. q(B) = [cc EXCEPT !.shared = sh, !.shared_len = n, !.total_len = m]
    BY DEF CacheTyped, ClassCache
  <2>4. sh \in SUBSET Addr /\ n \in Int /\ m \in Int /\ B \in SUBSET Addr
    BY <2>2, CacheFields
  <2> HIDE DEF sh, n, m, q
  <2>5. CacheTyped(c1)
    BY <2>4, SetShared
  <2>6. CacheTyped(c2)
    <3> HIDE DEF c1
    <3> QED
      BY <2>4, <2>5, SetSharedLen
  <2>7. CacheTyped(c3)
    <3> HIDE DEF c2
    <3> QED
      BY <2>4, <2>6, SetTotalLen
  <2>8. q(B) = c3
    BY <2>3, Zenon
  <2>9. q(B).slabs = cc.slabs /\ q(B).avail = cc.avail
    BY <2>3 DEF CacheTyped, ClassCache
  <2>10. AvailSound(q(B))
    BY <2>9 DEF AvailSound
  <2> HIDE DEF c3
  <2> QED
    BY <2>1, <2>4, <2>7, <2>8, <2>10 DEF BatchTyped
<1>2. CASE cc.shared_len = 0 /\ cc.avail # {}
  <2>1. PICK s \in cc.avail : out \in SlabPopBatches(cc, s, max)
    BY <1>2 DEF PopBatch
  <2> QED
    BY <2>1, SlabPopBatchesTyped
<1>3. CASE cc.shared_len = 0 /\ cc.avail = {}
  <2> DEFINE n  == cc.total_len - Cardinality(cc.hot)
             c1 == [cc EXCEPT !.hot = {}]
             c2 == [c1 EXCEPT !.total_len = n]
             q  == [cc EXCEPT !.hot = {}, !.total_len = @ - Cardinality(cc.hot)]
  <2>1. out = [cache |-> q, batch |-> cc.hot, fresh |-> {}]
    BY <1>3 DEF PopBatch
  <2>2. q = [cc EXCEPT !.hot = {}, !.total_len = n]
    BY DEF CacheTyped, ClassCache
  <2>3. n \in Int /\ cc.hot \in SUBSET Addr
    BY CacheFields, AddrFinite
  <2> HIDE DEF n, q
  <2>4. CacheTyped(c1)
    BY SetHot
  <2>5. CacheTyped(c2)
    <3> HIDE DEF c1
    <3> QED
      BY <2>3, <2>4, SetTotalLen
  <2>6. q = c2
    BY <2>2, Zenon
  <2>7. q.slabs = cc.slabs /\ q.avail = cc.avail
    BY <2>2 DEF CacheTyped, ClassCache
  <2>8. AvailSound(q)
    BY <2>7 DEF AvailSound
  <2> HIDE DEF c2
  <2> QED
    BY <2>1, <2>3, <2>5, <2>6, <2>8 DEF BatchTyped
<1> QED
  BY <1>1, <1>2, <1>3

-----------------------------------------------------------------------------
(***************************************************************************)
(* Coherent caches: what each operation does to the blocks a cache holds.  *)
(* CacheParts is CacheCoherent without total_len, which is exact only once *)
(* an operation has finished.                                              *)
(***************************************************************************)
CacheParts(cc) ==
    /\ Cardinality(cc.hot) <= 1
    /\ cc.shared_len = Cardinality(cc.shared)
    /\ cc.avail = {s \in Addr : HasAvailableBlocks(cc.slabs[s])}
    /\ Disjoint(cc.hot, cc.shared)
    /\ \A s \in Addr :
          /\ cc.slabs[s].next_fresh <= cc.slabs[s].capacity
          /\ cc.slabs[s].free \subseteq s .. s + cc.slabs[s].next_fresh - 1
          /\ Disjoint(SlabStock(cc.slabs[s], s), cc.hot \cup cc.shared)
          /\ \A t \in Addr \ {s} :
                Disjoint(SlabStock(cc.slabs[s], s), SlabStock(cc.slabs[t], t))

CacheSound(cc) == CacheTyped(cc) /\ CacheCoherent(cc)

\* What an operation on slab s can move: the hot block, the shared list, that slab.
Touched(cc, s) == cc.hot \cup cc.shared \cup SlabStock(cc.slabs[s], s)

\* The same slabs are known, with the same capacities.
SameSlabs(cc, w) == \A s \in Addr : w.slabs[s].capacity = cc.slabs[s].capacity

\* A coherent cache is its parts and an exact total_len; its slabs can yield what
\* available_slabs says.
LEMMA SoundParts ==
    ASSUME NEW cc, CacheTyped(cc)
    PROVE  /\ CacheSound(cc) <=> CacheParts(cc) /\ cc.total_len = Cardinality(Held(cc))
           /\ CacheParts(cc) => AvailSound(cc)
  BY DEF CacheSound, CacheCoherent, CacheParts, AvailSound

\* Everything in a typed cache is a block of the arena.
LEMMA HeldInArena ==
    ASSUME NEW cc, CacheTyped(cc)
    PROVE  /\ Held(cc) \in SUBSET Addr
           /\ \A s \in Addr : SlabStock(cc.slabs[s], s) \in SUBSET Addr
<1>1. ASSUME NEW s \in Addr PROVE SlabStock(cc.slabs[s], s) \in SUBSET Addr
  <2> DEFINE sl == cc.slabs[s]
  <2>1. sl \in LocalSlab /\ SlabFits(sl, s) /\ s \in Nat
    BY CacheFields, AddrNat DEF CacheTyped
  <2> HIDE DEF sl
  <2>2. FreshBlocks(sl, s) \in SUBSET Addr
    BY <2>1, ArenaBlocksAssumption DEF FreshBlocks, SlabFits, LocalSlab, Addr
  <2>3. sl.free \in SUBSET Addr
    BY <2>1 DEF LocalSlab
  <2>4. SlabStock(sl, s) \in SUBSET Addr
    BY <2>2, <2>3 DEF SlabStock
  <2> QED
    BY <2>4 DEF sl
<1> QED
  BY <1>1, CacheFields DEF Held

\* w differs from cc at the hot block, the shared list and slab s only, and these are
\* coherent among themselves.
ChangedAt(cc, w, s) ==
    /\ CacheTyped(w)
    /\ \A t \in Addr \ {s} : w.slabs[t] = cc.slabs[t]
    /\ Cardinality(w.hot) <= 1
    /\ w.shared_len = Cardinality(w.shared)
    /\ Disjoint(w.hot, w.shared)
    /\ w.slabs[s].free \subseteq s .. s + w.slabs[s].next_fresh - 1
    /\ Disjoint(SlabStock(w.slabs[s], s), w.hot \cup w.shared)
    /\ w.avail = IF HasAvailableBlocks(w.slabs[s]) THEN cc.avail \cup {s} ELSE cc.avail \ {s}

\* One operation takes Out from the touched places and adds Add to them; the rest of
\* the cache stays.
LEMMA PartsMoved ==
    ASSUME NEW cc, CacheTyped(cc), CacheParts(cc), NEW w, NEW s \in Addr, ChangedAt(cc, w, s),
           NEW Out \in SUBSET Touched(cc, s), NEW Add \in SUBSET Addr, Disjoint(Add, Held(cc)),
           Touched(w, s) = (Touched(cc, s) \ Out) \cup Add
    PROVE  CacheParts(w) /\ Held(w) = (Held(cc) \ Out) \cup Add
<1> USE DEF ChangedAt
<1> DEFINE Rest == UNION {SlabStock(cc.slabs[t], t) : t \in Addr \ {s}}
<1>1. Held(cc) = Touched(cc, s) \cup Rest
  BY DEF Held, Touched
<1>2. Held(w) = Touched(w, s) \cup Rest
  BY DEF Held, Touched
<1>3. Disjoint(Touched(cc, s), Rest)
  BY DEF CacheParts, Touched, Disjoint
<1>4. Disjoint(Touched(w, s), Rest)
  BY <1>1, <1>3 DEF Disjoint
<1>5. \A t \in Addr \ {s} :
         /\ SlabStock(cc.slabs[t], t) \subseteq Rest
         /\ SlabStock(w.slabs[t], t) = SlabStock(cc.slabs[t], t)
  OBVIOUS
<1>6. w.hot \cup w.shared \subseteq Touched(w, s) /\ SlabStock(w.slabs[s], s) \subseteq Touched(w, s)
  BY DEF Touched
<1>7. Held(w) = (Held(cc) \ Out) \cup Add
  BY <1>1, <1>2, <1>3 DEF Disjoint
<1>8. w.avail = {t \in Addr : HasAvailableBlocks(w.slabs[t])}
  BY DEF CacheParts
<1> HIDE DEF Rest
<1>9. ASSUME NEW t \in Addr
      PROVE  /\ w.slabs[t].next_fresh <= w.slabs[t].capacity
             /\ w.slabs[t].free \subseteq t .. t + w.slabs[t].next_fresh - 1
             /\ Disjoint(SlabStock(w.slabs[t], t), w.hot \cup w.shared)
  <2>1. CASE t = s
    BY <2>1 DEF CacheTyped, SlabFits
  <2>2. CASE t # s
    <3>1. Disjoint(SlabStock(w.slabs[t], t), w.hot \cup w.shared)
      BY <1>4, <1>5, <1>6, <2>2 DEF Disjoint
    <3> QED
      BY <2>2, <3>1 DEF CacheParts
  <2> QED
    BY <2>1, <2>2
<1>10. ASSUME NEW t \in Addr, NEW u \in Addr \ {t}
       PROVE  Disjoint(SlabStock(w.slabs[t], t), SlabStock(w.slabs[u], u))
  <2>1. CASE t = s
    BY <1>4, <1>5, <1>6, <2>1 DEF Disjoint
  <2>2. CASE u = s
    BY <1>4, <1>5, <1>6, <2>2 DEF Disjoint
  <2>3. CASE t # s /\ u # s
    BY <1>5, <2>3 DEF CacheParts
  <2> QED
    BY <2>1, <2>2, <2>3
<1> QED
  BY <1>7, <1>8, <1>9, <1>10 DEF CacheParts

\* The same when nothing is taken out.
LEMMA PartsAdded ==
    ASSUME NEW cc, CacheTyped(cc), CacheParts(cc), NEW w, NEW s \in Addr, ChangedAt(cc, w, s),
           NEW Add \in SUBSET Addr, Disjoint(Add, Held(cc)),
           Touched(w, s) = Touched(cc, s) \cup Add
    PROVE  CacheParts(w) /\ Held(w) = Held(cc) \cup Add
<1> DEFINE none == {}
<1>1. none \in SUBSET Touched(cc, s) /\ Touched(w, s) = (Touched(cc, s) \ none) \cup Add
  OBVIOUS
<1>2. (Held(cc) \ none) \cup Add = Held(cc) \cup Add
  OBVIOUS
<1> HIDE DEF none
<1> QED
  BY <1>1, <1>2, PartsMoved

\* The same when nothing is added.
LEMMA PartsTaken ==
    ASSUME NEW cc, CacheTyped(cc), CacheParts(cc), NEW w, NEW s \in Addr, ChangedAt(cc, w, s),
           NEW Out \in SUBSET Touched(cc, s), Touched(w, s) = Touched(cc, s) \ Out
    PROVE  CacheParts(w) /\ Held(w) = Held(cc) \ Out /\ Out \in SUBSET Held(cc)
<1> DEFINE none == {}
<1>1. /\ none \in SUBSET Addr /\ Disjoint(none, Held(cc))
      /\ Touched(w, s) = (Touched(cc, s) \ Out) \cup none
  BY DEF Disjoint
<1>2. (Held(cc) \ Out) \cup none = Held(cc) \ Out
  OBVIOUS
<1>3. Touched(cc, s) \subseteq Held(cc)
  BY DEF Touched, Held
<1> HIDE DEF none
<1> QED
  BY <1>1, <1>2, <1>3, PartsMoved

\* A new cache holds nothing.
LEMMA NewCacheSound ==
    /\ CacheSound(NewClassCache)
    /\ Held(NewClassCache) = {} /\ KeepsOwner(NewClassCache) = {} /\ NewClassCache.shared = {}
    /\ KnownSlabs(NewClassCache) = {} /\ NewClassCache.total_len = 0
<1>1. /\ NewClassCache.hot = {} /\ NewClassCache.shared = {} /\ NewClassCache.avail = {}
      /\ NewClassCache.shared_len = 0 /\ NewClassCache.total_len = 0
      /\ \A s \in Addr : NewClassCache.slabs[s] = UnknownSlab
  BY DEF NewClassCache
<1>2. \A s \in Addr : /\ SlabStock(UnknownSlab, s) = {} /\ ~HasAvailableBlocks(UnknownSlab)
                      /\ UnknownSlab.capacity = 0 /\ UnknownSlab.next_fresh = 0
                      /\ UnknownSlab.free = {}
  <2>1. \A s \in Addr : FreshBlocks(UnknownSlab, s) = {}
    BY AddrNat DEF FreshBlocks, UnknownSlab
  <2> QED
    BY <2>1 DEF SlabStock, HasAvailableBlocks, UnknownSlab
<1>3. Held(NewClassCache) = {} /\ KeepsOwner(NewClassCache) = {}
  BY <1>1, <1>2 DEF Held, KeepsOwner
<1>4. KnownSlabs(NewClassCache) = {}
  BY <1>1, <1>2 DEF KnownSlabs
<1>5. CacheCoherent(NewClassCache)
  BY <1>1, <1>2, <1>3, CardSmall DEF CacheCoherent, Disjoint
<1> QED
  BY <1>1, <1>3, <1>4, <1>5, NewCacheTyped DEF CacheSound

\* push_shared_batch adds exactly the batch, to the shared list.
LEMMA PushSharedSound ==
    ASSUME NEW cc, CacheSound(cc), NEW B \in SUBSET Addr, Disjoint(B, Held(cc)), Addr # {}
    PROVE  LET w == PushSharedBatch(cc, B)
           IN  /\ CacheSound(w) /\ SameSlabs(cc, w)
               /\ Held(w) = Held(cc) \cup B
               /\ KeepsOwner(w) = KeepsOwner(cc) /\ w.shared = cc.shared \cup B
               /\ w.total_len = cc.total_len + Cardinality(B)
<1> DEFINE w == PushSharedBatch(cc, B)
<1>1. CacheTyped(cc) /\ CacheParts(cc) /\ AvailSound(cc) /\ cc.total_len = Cardinality(Held(cc))
  BY SoundParts DEF CacheSound
<1>2. CacheTyped(w)
  BY <1>1, PushSharedTyped
<1>3. /\ w.hot = cc.hot /\ w.slabs = cc.slabs /\ w.avail = cc.avail /\ w.shared = cc.shared \cup B
      /\ w.shared_len = cc.shared_len + Cardinality(B)
      /\ w.total_len = cc.total_len + Cardinality(B)
  <2>1. cc \in ClassCache
    BY <1>1 DEF CacheTyped
  <2> QED
    BY <2>1 DEF PushSharedBatch, ClassCache
<1>4. PICK s \in Addr : TRUE
  OBVIOUS
<1> HIDE DEF w
<1>5. cc.shared \subseteq Held(cc) /\ cc.hot \subseteq Held(cc) /\ SlabStock(cc.slabs[s], s) \subseteq Held(cc)
  BY DEF Held
<1>6. w.shared_len = Cardinality(w.shared)
  <2>1. cc.shared \in SUBSET Addr /\ Disjoint(cc.shared, B)
    BY <1>1, <1>5, CacheFields DEF Disjoint
  <2> QED
    BY <1>1, <1>3, <2>1, CardDisjoint DEF CacheParts
<1>7. /\ Disjoint(w.hot, w.shared)
      /\ Disjoint(SlabStock(w.slabs[s], s), w.hot \cup w.shared)
  BY <1>1, <1>3, <1>5 DEF CacheParts, Disjoint
<1>8. Touched(w, s) = Touched(cc, s) \cup B
  BY <1>3 DEF Touched
<1>9. w.avail = IF HasAvailableBlocks(w.slabs[s]) THEN cc.avail \cup {s} ELSE cc.avail \ {s}
  BY <1>1, <1>3 DEF CacheParts
<1>10. Cardinality(w.hot) <= 1 /\ w.slabs[s].free \subseteq s .. s + w.slabs[s].next_fresh - 1
  BY <1>1, <1>3 DEF CacheParts
<1>11. CacheParts(w) /\ Held(w) = Held(cc) \cup B
  <2>1. ChangedAt(cc, w, s)
    BY <1>2, <1>3, <1>6, <1>7, <1>9, <1>10 DEF ChangedAt
  <2> QED
    BY <1>1, <1>8, <2>1, PartsAdded
<1>13. w.total_len = Cardinality(Held(w))
  BY <1>1, <1>3, <1>11, HeldInArena, CardDisjoint DEF Disjoint
<1>14. KeepsOwner(w) = KeepsOwner(cc) /\ SameSlabs(cc, w)
  BY <1>3 DEF KeepsOwner, SameSlabs
<1>15. CacheSound(w)
  BY <1>2, <1>11, <1>13, SoundParts
<1> QED
  BY <1>3, <1>11, <1>14, <1>15 DEF w

\* push_spilled_block adds exactly the block: to the list of the slab it lies in, if the
\* cache knows one, else to the shared list.  The block lies below next_fresh, since a
\* fresh block is held already.
LEMMA PushSpilledSound ==
    ASSUME NEW cc, CacheTyped(cc), CacheParts(cc), NEW b \in Addr, b \notin Held(cc)
    PROVE  LET w == PushSpilledBlock(cc, b)
           IN  /\ CacheTyped(w) /\ CacheParts(w) /\ SameSlabs(cc, w)
               /\ Held(w) = Held(cc) \cup {b}
               /\ w.total_len = cc.total_len
               /\ KeepsOwner(w) \subseteq KeepsOwner(cc) \cup {b}
               /\ w.shared \subseteq cc.shared \cup {b}
<1> DEFINE w == PushSpilledBlock(cc, b)
<1>1. cc \in ClassCache /\ AvailSound(cc)
  BY SoundParts DEF CacheTyped
<1>2. CacheTyped(w)
  BY <1>1, PushSpilledTyped
<1>3. cc.slabs \in [Addr -> LocalSlab] /\ cc.shared \in SUBSET Addr /\ b \in Nat
  BY CacheFields, AddrNat
<1>4. CASE \E s \in Addr : FindsLocal(cc, s, b)
  <2> DEFINE s  == CHOOSE t \in Addr : FindsLocal(cc, t, b)
             sl == cc.slabs[s]
             sk == [sl EXCEPT !.free = @ \cup {b}]
             av == IF HasAvailableBlocks(sl) THEN cc.avail ELSE cc.avail \cup {s}
  <2>1. s \in Addr /\ FindsLocal(cc, s, b)
    BY <1>4
  <2>2. w = [cc EXCEPT !.slabs = [cc.slabs EXCEPT ![s] = sk], !.avail = av]
    BY <1>1, <1>4 DEF PushSpilledBlock, ClassCache
  <2> HIDE DEF s, w
  <2>3. sl \in LocalSlab /\ s \in Nat
    BY <1>3, <2>1, AddrNat
  <2>4. sk.free = sl.free \cup {b} /\ sk.next_fresh = sl.next_fresh /\ sk.capacity = sl.capacity
    <3> HIDE DEF sl
    <3> QED
      BY <2>3 DEF LocalSlab
  <2> HIDE DEF sk, av
  <2>5. /\ w.hot = cc.hot /\ w.shared = cc.shared /\ w.shared_len = cc.shared_len
        /\ w.total_len = cc.total_len /\ w.slabs = [cc.slabs EXCEPT ![s] = sk] /\ w.avail = av
    BY <1>1, <2>2 DEF ClassCache
  <2>6. w.slabs[s] = sk /\ \A t \in Addr \ {s} : w.slabs[t] = cc.slabs[t]
    BY <1>3, <2>1, <2>5
  <2>7. SlabStock(sl, s) \subseteq Held(cc) /\ cc.shared \cup cc.hot \subseteq Held(cc)
    BY <2>1 DEF Held
  <2>8. SlabStock(sk, s) = SlabStock(sl, s) \cup {b}
    BY <2>4 DEF SlabStock, FreshBlocks
  <2>9. b \in s .. s + sl.next_fresh - 1
    <3>1. b \notin FreshBlocks(sl, s)
      BY <2>7 DEF SlabStock
    <3>2. s <= b /\ b < s + sl.capacity
      BY <2>1 DEF FindsLocal
    <3> QED
      BY <1>3, <2>3, <3>1, <3>2 DEF FreshBlocks, LocalSlab
  <2>10. w.slabs[s].free \subseteq s .. s + w.slabs[s].next_fresh - 1
    BY <2>1, <2>4, <2>6, <2>9 DEF CacheParts
  <2>11. /\ Disjoint(w.hot, w.shared)
         /\ Disjoint(SlabStock(w.slabs[s], s), w.hot \cup w.shared)
    BY <2>1, <2>5, <2>6, <2>7, <2>8 DEF CacheParts, Disjoint
  <2>12. Touched(w, s) = Touched(cc, s) \cup {b}
    BY <2>5, <2>6, <2>8 DEF Touched
  <2>13. w.avail = IF HasAvailableBlocks(w.slabs[s]) THEN cc.avail \cup {s} ELSE cc.avail \ {s}
    <3>1. HasAvailableBlocks(sk)
      BY <2>4 DEF HasAvailableBlocks
    <3>2. HasAvailableBlocks(sl) => s \in cc.avail
      BY <2>1 DEF CacheParts
    <3> QED
      BY <2>5, <2>6, <3>1, <3>2 DEF av
  <2>14. Cardinality(w.hot) <= 1 /\ w.shared_len = Cardinality(w.shared)
    BY <2>5 DEF CacheParts
  <2>15. Disjoint({b}, Held(cc))
    BY DEF Disjoint
  <2>16. CacheParts(w) /\ Held(w) = Held(cc) \cup {b}
    <3>1. ChangedAt(cc, w, s)
      BY <1>2, <2>6, <2>10, <2>11, <2>13, <2>14 DEF ChangedAt
    <3> DEFINE N == {b}
    <3>2. N \in SUBSET Addr /\ Disjoint(N, Held(cc)) /\ Touched(w, s) = Touched(cc, s) \cup N
      BY <2>12, <2>15
    <3> HIDE DEF N
    <3>3. CacheParts(w) /\ Held(w) = Held(cc) \cup N
      BY <2>1, <3>1, <3>2, PartsAdded
    <3> QED
      BY <3>3 DEF N
  <2>17. KeepsOwner(w) \subseteq KeepsOwner(cc) \cup {b}
    <3>1. \A t \in Addr : w.slabs[t].free \subseteq cc.slabs[t].free \cup {b}
      BY <2>4, <2>6
    <3> QED
      BY <2>5, <3>1 DEF KeepsOwner
  <2>18. SameSlabs(cc, w)
    BY <2>4, <2>6 DEF SameSlabs
  <2> QED
    BY <1>2, <2>5, <2>16, <2>17, <2>18 DEF w
<1>5. CASE ~ \E s \in Addr : FindsLocal(cc, s, b)
  <2>1. w = [cc EXCEPT !.shared = @ \cup {b}, !.shared_len = @ + 1]
    BY <1>1, <1>5 DEF PushSpilledBlock, ClassCache
  <2> HIDE DEF w
  <2>2. /\ w.hot = cc.hot /\ w.slabs = cc.slabs /\ w.avail = cc.avail
        /\ w.shared = cc.shared \cup {b} /\ w.shared_len = cc.shared_len + 1
        /\ w.total_len = cc.total_len
    BY <1>1, <2>1 DEF ClassCache
  <2>3. cc.shared \subseteq Held(cc) /\ cc.hot \subseteq Held(cc) /\ SlabStock(cc.slabs[b], b) \subseteq Held(cc)
    BY DEF Held
  <2>4. Disjoint({b}, Held(cc)) /\ Disjoint(cc.shared, {b})
    BY <2>3 DEF Disjoint
  <2>5. w.shared_len = Cardinality(w.shared)
    <3> DEFINE N == {b}
    <3>1. N \in SUBSET Addr /\ Cardinality(N) = 1 /\ Disjoint(cc.shared, N)
      BY <2>4, CardSmall
    <3> HIDE DEF N
    <3>2. Cardinality(cc.shared \cup N) = Cardinality(cc.shared) + 1
      BY <1>3, <3>1, CardDisjoint
    <3> QED
      BY <2>2, <3>2 DEF CacheParts, N
  <2>6. /\ Disjoint(w.hot, w.shared)
        /\ Disjoint(SlabStock(w.slabs[b], b), w.hot \cup w.shared)
    BY <2>2, <2>3, <2>4 DEF CacheParts, Disjoint
  <2>7. Touched(w, b) = Touched(cc, b) \cup {b}
    BY <2>2 DEF Touched
  <2>8. w.avail = IF HasAvailableBlocks(w.slabs[b]) THEN cc.avail \cup {b} ELSE cc.avail \ {b}
    BY <2>2 DEF CacheParts
  <2>9. Cardinality(w.hot) <= 1 /\ w.slabs[b].free \subseteq b .. b + w.slabs[b].next_fresh - 1
    BY <2>2 DEF CacheParts
  <2>10. CacheParts(w) /\ Held(w) = Held(cc) \cup {b}
    <3>1. ChangedAt(cc, w, b)
      BY <1>2, <2>2, <2>5, <2>6, <2>8, <2>9 DEF ChangedAt
    <3> DEFINE N == {b}
    <3>2. N \in SUBSET Addr /\ Disjoint(N, Held(cc)) /\ Touched(w, b) = Touched(cc, b) \cup N
      BY <2>4, <2>7
    <3> HIDE DEF N
    <3>3. CacheParts(w) /\ Held(w) = Held(cc) \cup N
      BY <3>1, <3>2, PartsAdded
    <3> QED
      BY <3>3 DEF N
  <2>11. KeepsOwner(w) = KeepsOwner(cc) /\ SameSlabs(cc, w)
    BY <2>2 DEF KeepsOwner, SameSlabs
  <2> QED
    BY <1>2, <2>2, <2>10, <2>11 DEF w
<1> QED
  BY <1>4, <1>5

\* The hot slot holds one block at most.
LEMMA HotOne ==
    ASSUME NEW cc, CacheTyped(cc), CacheParts(cc), NEW b \in cc.hot
    PROVE  cc.hot = {b} /\ Cardinality(cc.hot) = 1
<1> DEFINE N == {b}
<1>1. /\ cc.hot \in SUBSET Addr /\ N \in SUBSET cc.hot /\ Cardinality(N) = 1
      /\ Cardinality(cc.hot) <= 1 /\ Cardinality(cc.hot) \in Nat
  BY CacheFields, CardSmall, AddrFinite DEF CacheParts
<1> HIDE DEF N
<1>2. N = cc.hot
  BY <1>1, CardWhole
<1> QED
  BY <1>1, <1>2 DEF N

\* push_block adds exactly the block and counts it, whatever was in the hot slot.
LEMMA PushBlockSound ==
    ASSUME NEW cc, CacheSound(cc), NEW b \in Addr, b \notin Held(cc)
    PROVE  LET w == PushBlock(cc, b)
           IN  /\ CacheSound(w) /\ SameSlabs(cc, w)
               /\ Held(w) = Held(cc) \cup {b}
               /\ w.total_len = cc.total_len + 1
               /\ KeepsOwner(w) \subseteq KeepsOwner(cc) \cup {b}
               /\ w.shared \subseteq cc.shared \cup cc.hot
<1> DEFINE p == [cc EXCEPT !.hot = {b}, !.total_len = @ + 1]
           w == PushBlock(cc, b)
<1>1. CacheTyped(cc) /\ CacheParts(cc) /\ AvailSound(cc) /\ cc.total_len = Cardinality(Held(cc))
  BY SoundParts DEF CacheSound
<1>2. cc \in ClassCache /\ cc.hot \in SUBSET Addr
  BY <1>1, CacheFields DEF CacheTyped
<1>3. /\ p \in ClassCache /\ p.hot = {b} /\ p.slabs = cc.slabs /\ p.avail = cc.avail
      /\ p.shared = cc.shared /\ p.shared_len = cc.shared_len /\ p.total_len = cc.total_len + 1
  <2> DEFINE n == cc.total_len + 1
             N == {b}
  <2>1. n \in Int /\ N \in SUBSET Addr
    BY <1>1, CacheFields
  <2>2. p = [cc EXCEPT !.hot = N, !.total_len = n]
    BY <1>2 DEF ClassCache
  <2> HIDE DEF n, N, p
  <2>3. /\ p \in ClassCache /\ p.hot = N /\ p.slabs = cc.slabs /\ p.avail = cc.avail
        /\ p.shared = cc.shared /\ p.shared_len = cc.shared_len /\ p.total_len = n
    BY <1>2, <2>1, <2>2 DEF ClassCache
  <2> QED
    BY <2>3 DEF n, N
<1>4. w = IF cc.hot = {} THEN p ELSE PushSpilledBlock(p, CHOOSE h \in cc.hot : TRUE)
  BY DEF PushBlock
<1> HIDE DEF p, w
<1>5. CacheTyped(p)
  BY <1>1, <1>3 DEF CacheTyped
<1>6. /\ cc.shared \subseteq Held(cc) /\ cc.hot \subseteq Held(cc)
      /\ \A s \in Addr : SlabStock(cc.slabs[s], s) \subseteq Held(cc)
  BY DEF Held
<1>7. Cardinality(p.hot) <= 1
  <2>1. Cardinality({b}) = 1
    BY CardSmall
  <2> QED
    BY <1>3, <2>1
<1>8. CacheParts(p)
  BY <1>1, <1>3, <1>6, <1>7 DEF CacheParts, Disjoint
<1>9. Held(p) = (Held(cc) \ cc.hot) \cup {b}
  BY <1>1, <1>3 DEF CacheParts, Held, Disjoint
<1>10. Cardinality(Held(cc) \cup {b}) = Cardinality(Held(cc)) + 1
  <2> DEFINE N == {b}
  <2>1. N \in SUBSET Addr /\ Disjoint(Held(cc), N) /\ Cardinality(N) = 1
    BY CardSmall DEF Disjoint
  <2> HIDE DEF N
  <2>2. Cardinality(Held(cc) \cup N) = Cardinality(Held(cc)) + 1
    BY <1>1, <2>1, HeldInArena, CardDisjoint
  <2> QED
    BY <2>2 DEF N
<1>12. SameSlabs(cc, p)
  BY <1>3 DEF SameSlabs
<1>13. CASE cc.hot = {}
  <2>1. w = p /\ Held(p) = Held(cc) \cup {b}
    BY <1>4, <1>9, <1>13
  <2>2. p.total_len = Cardinality(Held(p))
    BY <1>1, <1>3, <1>10, <2>1
  <2>3. CacheSound(p)
    BY <1>5, <1>8, <2>2, SoundParts
  <2>4. KeepsOwner(p) \subseteq KeepsOwner(cc) \cup {b}
    BY <1>3 DEF KeepsOwner
  <2> QED
    BY <1>3, <1>12, <2>1, <2>3, <2>4 DEF w
<1>14. CASE cc.hot # {}
  <2> DEFINE h == CHOOSE x \in cc.hot : TRUE
  <2>1. h \in cc.hot /\ w = PushSpilledBlock(p, h)
    BY <1>4, <1>14
  <2> HIDE DEF h
  <2>2. cc.hot = {h} /\ h \in Addr
    BY <1>1, <1>2, <2>1, HotOne
  <2>3. h \notin Held(p) /\ h # b
    BY <1>6, <1>9, <2>1, <2>2
  <2>4. /\ CacheTyped(w) /\ CacheParts(w) /\ SameSlabs(p, w)
        /\ Held(w) = Held(p) \cup {h}
        /\ w.total_len = p.total_len
        /\ KeepsOwner(w) \subseteq KeepsOwner(p) \cup {h}
        /\ w.shared \subseteq p.shared \cup {h}
    BY <1>5, <1>8, <2>1, <2>2, <2>3, PushSpilledSound
  <2>5. Held(w) = Held(cc) \cup {b}
    BY <1>6, <1>9, <2>2, <2>4
  <2>6. w.total_len = Cardinality(Held(w))
    BY <1>1, <1>3, <1>10, <2>4, <2>5
  <2>7. CacheSound(w)
    BY <2>4, <2>6, SoundParts
  <2>8. KeepsOwner(w) \subseteq KeepsOwner(cc) \cup {b}
    <3>1. KeepsOwner(p) \subseteq KeepsOwner(cc) \cup {b}
      BY <1>3 DEF KeepsOwner
    <3>2. h \in KeepsOwner(cc)
      BY <2>1 DEF KeepsOwner
    <3> QED
      BY <2>4, <3>1, <3>2
  <2>9. w.shared \subseteq cc.shared \cup cc.hot
    BY <1>3, <2>2, <2>4
  <2>10. SameSlabs(cc, w)
    BY <1>12, <2>4 DEF SameSlabs
  <2> QED
    BY <1>3, <2>4, <2>5, <2>7, <2>8, <2>9, <2>10 DEF w
<1> QED
  BY <1>13, <1>14

\* push_owned_slab adds exactly the blocks of the slab, all fresh.  A slab the cache
\* knows from an earlier loan must be empty by then: its blocks come from the pool.
LEMMA PushOwnedSound ==
    ASSUME NEW cc, CacheSound(cc), NEW start \in Addr, NEW n \in Nat \ {0},
           start + n <= ArenaBlocks, Disjoint(start .. start + n - 1, Held(cc)),
           start \in KnownSlabs(cc) => cc.slabs[start].capacity = n
    PROVE  LET w == PushOwnedSlab(cc, start, n)
           IN  /\ CacheSound(w)
               /\ Held(w) = Held(cc) \cup (start .. start + n - 1)
               /\ w.total_len = cc.total_len + n
               /\ KeepsOwner(w) \subseteq KeepsOwner(cc) /\ w.shared = cc.shared
               /\ w.slabs[start].capacity = n
               /\ \A t \in Addr \ {start} : w.slabs[t].capacity = cc.slabs[t].capacity
<1> DEFINE w  == PushOwnedSlab(cc, start, n)
           sl == [capacity |-> n, next_fresh |-> 0, free |-> {}]
           I  == start .. start + n - 1
<1>1. CacheTyped(cc) /\ CacheParts(cc) /\ AvailSound(cc) /\ cc.total_len = Cardinality(Held(cc))
  BY SoundParts DEF CacheSound
<1>2. CacheTyped(w)
  BY <1>1, PushOwnedTyped
<1>3. cc \in ClassCache /\ cc.slabs \in [Addr -> LocalSlab] /\ start \in Nat
  BY <1>1, CacheFields, AddrNat DEF CacheTyped
<1>4. /\ w.hot = cc.hot /\ w.shared = cc.shared /\ w.shared_len = cc.shared_len
      /\ w.avail = cc.avail \cup {start} /\ w.total_len = cc.total_len + n
      /\ w.slabs = [cc.slabs EXCEPT ![start] = sl]
  BY <1>3 DEF PushOwnedSlab, ClassCache
<1> HIDE DEF w
<1>5. w.slabs[start] = sl /\ \A t \in Addr \ {start} : w.slabs[t] = cc.slabs[t]
  BY <1>3, <1>4
<1>6. sl.capacity = n /\ sl.free = {} /\ sl.next_fresh = 0
  OBVIOUS
<1> HIDE DEF sl
<1>7. SlabStock(sl, start) = I /\ HasAvailableBlocks(sl)
  BY <1>3, <1>6 DEF SlabStock, FreshBlocks, HasAvailableBlocks
<1>8. SlabStock(cc.slabs[start], start) = {}
  <2> DEFINE so == cc.slabs[start]
  <2>1. so \in LocalSlab /\ so.free \subseteq start .. start + so.next_fresh - 1 /\ SlabFits(so, start)
    BY <1>1, <1>3 DEF CacheParts, CacheTyped
  <2>2. SlabStock(so, start) \subseteq Held(cc)
    BY DEF Held
  <2>3. so.capacity \in {0, n}
    BY DEF KnownSlabs
  <2> HIDE DEF so
  <2>4. SlabStock(so, start) \subseteq I
    BY <1>3, <2>1, <2>3 DEF SlabStock, FreshBlocks, SlabFits, LocalSlab
  <2>5. SlabStock(so, start) = {}
    BY <2>2, <2>4 DEF Disjoint
  <2> QED
    BY <2>5 DEF so
<1>9. I \in SUBSET Addr /\ Cardinality(I) = n
  <2>1. Cardinality(I) = n
    BY <1>3, CardInterval
  <2>2. I \in SUBSET Addr
    BY <1>3, ArenaBlocksAssumption DEF Addr
  <2> QED
    BY <2>1, <2>2
<1> HIDE DEF I
<1>10. Disjoint(I, Held(cc))
  BY DEF I
<1>11. ChangedAt(cc, w, start)
  <2>1. cc.hot \cup cc.shared \subseteq Held(cc)
    BY DEF Held
  <2>2. Disjoint(SlabStock(w.slabs[start], start), w.hot \cup w.shared)
    BY <1>4, <1>5, <1>7, <1>10, <2>1 DEF Disjoint
  <2>3. w.slabs[start].free \subseteq start .. start + w.slabs[start].next_fresh - 1
    BY <1>5, <1>6
  <2>4. w.avail = IF HasAvailableBlocks(w.slabs[start]) THEN cc.avail \cup {start}
                                                        ELSE cc.avail \ {start}
    BY <1>4, <1>5, <1>7
  <2> QED
    BY <1>1, <1>2, <1>4, <1>5, <2>2, <2>3, <2>4 DEF ChangedAt, CacheParts
<1>12. Touched(w, start) = Touched(cc, start) \cup I
  BY <1>4, <1>5, <1>7, <1>8 DEF Touched
<1>13. CacheParts(w) /\ Held(w) = Held(cc) \cup I
  BY <1>1, <1>9, <1>10, <1>11, <1>12, PartsAdded
<1>14. w.total_len = Cardinality(Held(w))
  BY <1>1, <1>4, <1>9, <1>10, <1>13, HeldInArena, CardDisjoint DEF Disjoint
<1>15. CacheSound(w)
  BY <1>2, <1>13, <1>14, SoundParts
<1>16. KeepsOwner(w) \subseteq KeepsOwner(cc)
  <2>1. \A t \in Addr : w.slabs[t].free \subseteq cc.slabs[t].free
    BY <1>5, <1>6
  <2> QED
    BY <1>4, <2>1 DEF KeepsOwner
<1> QED
  BY <1>4, <1>5, <1>6, <1>13, <1>15, <1>16 DEF w, I

-----------------------------------------------------------------------------
\* From cc to w exactly the blocks Out left, and the rest stayed where it was.
Taken(cc, w, Out) ==
    /\ CacheSound(w) /\ SameSlabs(cc, w)
    /\ Out \in SUBSET Held(cc)
    /\ Held(w) = Held(cc) \ Out
    /\ w.total_len = cc.total_len - Cardinality(Out)
    /\ KeepsOwner(w) \subseteq KeepsOwner(cc)
    /\ w.shared \subseteq cc.shared

\* The hot slot, emptied.
LEMMA HotTaken ==
    ASSUME NEW cc, CacheSound(cc), NEW w, CacheTyped(w), Addr # {},
           w.hot = {}, w.slabs = cc.slabs, w.avail = cc.avail, w.shared = cc.shared,
           w.shared_len = cc.shared_len, w.total_len = cc.total_len - Cardinality(cc.hot)
    PROVE  Taken(cc, w, cc.hot)
<1>1. CacheTyped(cc) /\ CacheParts(cc) /\ cc.total_len = Cardinality(Held(cc))
  BY SoundParts DEF CacheSound
<1>2. PICK s \in Addr : TRUE
  OBVIOUS
<1>3. Cardinality(w.hot) <= 1
  BY CardSmall
<1>4. ChangedAt(cc, w, s)
  BY <1>1, <1>3 DEF ChangedAt, CacheParts, Disjoint
<1>5. cc.hot \in SUBSET Touched(cc, s) /\ Touched(w, s) = Touched(cc, s) \ cc.hot
  BY <1>1 DEF Touched, CacheParts, Disjoint
<1>6. CacheParts(w) /\ Held(w) = Held(cc) \ cc.hot /\ cc.hot \in SUBSET Held(cc)
  BY <1>1, <1>4, <1>5, PartsTaken
<1>7. w.total_len = Cardinality(Held(w))
  BY <1>1, <1>6, CardMinus, HeldInArena
<1>8. KeepsOwner(w) \subseteq KeepsOwner(cc) /\ SameSlabs(cc, w)
  BY DEF KeepsOwner, SameSlabs
<1> QED
  BY <1>6, <1>7, <1>8, SoundParts DEF Taken

\* Some blocks of the shared list.
LEMMA SharedTaken ==
    ASSUME NEW cc, CacheSound(cc), NEW w, CacheTyped(w), NEW B \in SUBSET cc.shared, Addr # {},
           w.hot = cc.hot, w.slabs = cc.slabs, w.avail = cc.avail, w.shared = cc.shared \ B,
           w.shared_len = cc.shared_len - Cardinality(B),
           w.total_len = cc.total_len - Cardinality(B)
    PROVE  Taken(cc, w, B)
<1>1. CacheTyped(cc) /\ CacheParts(cc) /\ cc.total_len = Cardinality(Held(cc))
  BY SoundParts DEF CacheSound
<1>2. PICK s \in Addr : TRUE
  OBVIOUS
<1>3. w.shared_len = Cardinality(w.shared)
  BY <1>1, CacheFields, CardMinus DEF CacheParts
<1>4. ChangedAt(cc, w, s)
  BY <1>1, <1>3 DEF ChangedAt, CacheParts, Disjoint
<1>5. B \in SUBSET Touched(cc, s) /\ Touched(w, s) = Touched(cc, s) \ B
  BY <1>1 DEF Touched, CacheParts, Disjoint
<1>6. CacheParts(w) /\ Held(w) = Held(cc) \ B /\ B \in SUBSET Held(cc)
  BY <1>1, <1>4, <1>5, PartsTaken
<1>7. w.total_len = Cardinality(Held(w))
  BY <1>1, <1>6, CardMinus, HeldInArena
<1>8. KeepsOwner(w) \subseteq KeepsOwner(cc) /\ SameSlabs(cc, w)
  BY DEF KeepsOwner, SameSlabs
<1> QED
  BY <1>6, <1>7, <1>8, SoundParts DEF Taken

\* Some blocks of an available slab.
LEMMA WithSlabTaken ==
    ASSUME NEW cc, CacheSound(cc), NEW s \in cc.avail, NEW sl \in LocalSlab, SlabFits(sl, s),
           sl.capacity = cc.slabs[s].capacity,
           sl.free \subseteq cc.slabs[s].free, cc.slabs[s].next_fresh <= sl.next_fresh,
           NEW Out \in SUBSET SlabStock(cc.slabs[s], s),
           SlabStock(sl, s) = SlabStock(cc.slabs[s], s) \ Out,
           NEW taken, taken = Cardinality(Out)
    PROVE  Taken(cc, WithSlab(cc, s, sl, taken), Out)
<1> DEFINE w == WithSlab(cc, s, sl, taken)
<1>1. CacheTyped(cc) /\ CacheParts(cc) /\ AvailSound(cc) /\ cc.total_len = Cardinality(Held(cc))
  BY SoundParts DEF CacheSound
<1>2. /\ s \in Addr /\ s \in Nat /\ cc \in ClassCache /\ cc.slabs \in [Addr -> LocalSlab]
      /\ cc.slabs[s] \in LocalSlab
  BY <1>1, CacheFields, AddrNat DEF CacheTyped
<1>3. taken \in Nat
  BY <1>1, <1>2, HeldInArena, AddrFinite
<1>4. CacheTyped(w)
  BY <1>1, <1>2, <1>3, WithSlabTyped
<1>5. /\ w.hot = cc.hot /\ w.shared = cc.shared /\ w.shared_len = cc.shared_len
      /\ w.slabs = [cc.slabs EXCEPT ![s] = sl] /\ w.total_len = cc.total_len - taken
      /\ w.avail = IF HasAvailableBlocks(sl) THEN cc.avail ELSE cc.avail \ {s}
  BY <1>2 DEF WithSlab, ClassCache
<1> HIDE DEF w
<1>6. w.slabs[s] = sl /\ \A t \in Addr \ {s} : w.slabs[t] = cc.slabs[t]
  BY <1>2, <1>5
<1>7. sl.free \subseteq s .. s + sl.next_fresh - 1
  <2>1. cc.slabs[s].free \subseteq s .. s + cc.slabs[s].next_fresh - 1
    BY <1>1, <1>2 DEF CacheParts
  <2>2. sl.next_fresh \in Nat /\ cc.slabs[s].next_fresh \in Nat
    BY <1>2 DEF LocalSlab
  <2> QED
    BY <1>2, <2>1, <2>2
<1>8. Disjoint(SlabStock(sl, s), cc.hot \cup cc.shared)
  BY <1>1, <1>2 DEF CacheParts, Disjoint
<1>9. ChangedAt(cc, w, s)
  <2>1. w.avail = IF HasAvailableBlocks(sl) THEN cc.avail \cup {s} ELSE cc.avail \ {s}
    BY <1>5
  <2>2. Cardinality(w.hot) <= 1 /\ w.shared_len = Cardinality(w.shared) /\ Disjoint(w.hot, w.shared)
    BY <1>1, <1>5 DEF CacheParts
  <2> QED
    BY <1>4, <1>5, <1>6, <1>7, <1>8, <2>1, <2>2 DEF ChangedAt
<1>10. Out \in SUBSET Touched(cc, s) /\ Touched(w, s) = Touched(cc, s) \ Out
  BY <1>1, <1>2, <1>5, <1>6 DEF Touched, CacheParts, Disjoint
<1>11. CacheParts(w) /\ Held(w) = Held(cc) \ Out /\ Out \in SUBSET Held(cc)
  BY <1>1, <1>2, <1>9, <1>10, PartsTaken
<1>12. w.total_len = Cardinality(Held(w))
  BY <1>1, <1>5, <1>11, CardMinus, HeldInArena
<1>13. SameSlabs(cc, w)
  BY <1>6 DEF SameSlabs
<1>14. KeepsOwner(w) \subseteq KeepsOwner(cc)
  <2>1. \A t \in Addr : w.slabs[t].free \subseteq cc.slabs[t].free
    BY <1>6
  <2> QED
    BY <1>5, <2>1 DEF KeepsOwner
<1>15. CacheSound(w)
  BY <1>4, <1>11, <1>12, SoundParts
<1>16. Taken(cc, w, Out)
  BY <1>5, <1>11, <1>13, <1>14, <1>15 DEF Taken
<1> QED
  BY <1>16 DEF w

\* A pop takes one block, and says of it how its header may be reused: a block of the
\* hot slot or of a slab's list keeps its owner, one of the shared list does not.
PopSound(cc, pop) ==
    /\ Taken(cc, pop.cache, {pop.block})
    /\ pop.reuse = "HotReuseRequestedOnly" => pop.block \in KeepsOwner(cc)
    /\ pop.reuse = "NeedsOwnerAndRequestedSizeRefresh" => pop.block \in cc.shared

\* pop_block_unchecked on one slab takes one block that is on the slab's list or fresh.
LEMMA SlabPopsSound ==
    ASSUME NEW cc, CacheSound(cc), NEW s \in cc.avail, NEW pop \in SlabPops(cc, s)
    PROVE  PopSound(cc, pop)
<1> DEFINE sl == cc.slabs[s]
<1>1. CacheTyped(cc) /\ CacheParts(cc) /\ AvailSound(cc)
  BY SoundParts DEF CacheSound
<1>2. /\ s \in Addr /\ s \in Nat /\ sl \in LocalSlab /\ SlabFits(sl, s) /\ HasAvailableBlocks(sl)
      /\ sl.free \subseteq s .. s + sl.next_fresh - 1 /\ sl.next_fresh \in Nat /\ sl.capacity \in Nat
      /\ sl.free \in SUBSET Addr
  BY <1>1, CacheFields, AddrNat DEF CacheTyped, AvailSound, CacheParts, LocalSlab
<1>3. sl.free \subseteq KeepsOwner(cc)
  BY <1>2 DEF KeepsOwner
<1> HIDE DEF sl
<1>4. CASE sl.free # {}
  <2>1. PICK b \in sl.free :
          pop = [cache |-> WithSlab(cc, s, [sl EXCEPT !.free = @ \ {b}], 1),
                 block |-> b, reuse |-> "HotReuseRequestedOnly"]
    BY <1>4 DEF SlabPops, sl
  <2> DEFINE sk == [sl EXCEPT !.free = @ \ {b}]
             w  == WithSlab(cc, s, sk, 1)
             O  == {b}
  <2>2. /\ sk \in LocalSlab /\ SlabFits(sk, s) /\ sk.capacity = sl.capacity
        /\ sk.free = sl.free \ {b} /\ sk.next_fresh = sl.next_fresh
    BY <1>2 DEF LocalSlab, SlabFits
  <2>3. pop.cache = w /\ pop.block = b /\ pop.reuse = "HotReuseRequestedOnly"
    <3> HIDE DEF w
    <3> QED
      BY <2>1 DEF w, sk
  <2> HIDE DEF sk
  <2>4. b \notin FreshBlocks(sl, s)
    BY <1>2, <2>1 DEF FreshBlocks
  <2>5. /\ O \in SUBSET SlabStock(sl, s)
        /\ SlabStock(sk, s) = SlabStock(sl, s) \ O
        /\ 1 = Cardinality(O)
    <3>1. FreshBlocks(sk, s) = FreshBlocks(sl, s)
      BY <2>2 DEF FreshBlocks
    <3>2. 1 = Cardinality(O)
      BY CardSmall
    <3> QED
      BY <2>2, <2>4, <3>1, <3>2 DEF SlabStock
  <2> HIDE DEF O
  <2>6. sk.free \subseteq sl.free /\ sl.next_fresh <= sk.next_fresh
    BY <1>2, <2>2
  <2>7. Taken(cc, w, O)
    BY <2>2, <2>5, <2>6, WithSlabTaken DEF sl
  <2> HIDE DEF w
  <2> QED
    BY <1>3, <2>3, <2>7 DEF PopSound, O
<1>5. CASE sl.free = {}
  <2> DEFINE sk == [sl EXCEPT !.next_fresh = @ + 1]
             w  == WithSlab(cc, s, sk, 1)
             b  == s + sl.next_fresh
             O  == {b}
  <2>1. pop = [cache |-> w, block |-> b, reuse |-> "NeedsHeaderRewrite"]
    BY <1>5 DEF SlabPops, sl
  <2>2. sl.next_fresh < sl.capacity
    BY <1>2, <1>5 DEF HasAvailableBlocks
  <2>3. /\ sk \in LocalSlab /\ SlabFits(sk, s) /\ sk.capacity = sl.capacity
        /\ sk.free = sl.free /\ sk.next_fresh = sl.next_fresh + 1
    BY <1>2, <2>2 DEF LocalSlab, SlabFits
  <2> HIDE DEF sk
  <2>4. /\ O \in SUBSET SlabStock(sl, s)
        /\ SlabStock(sk, s) = SlabStock(sl, s) \ O
        /\ 1 = Cardinality(O)
    <3>1. b \in FreshBlocks(sl, s) /\ FreshBlocks(sk, s) = FreshBlocks(sl, s) \ O
      BY <1>2, <2>2, <2>3 DEF FreshBlocks
    <3>2. 1 = Cardinality(O)
      BY CardSmall
    <3> QED
      BY <1>5, <2>3, <3>1, <3>2 DEF SlabStock
  <2> HIDE DEF O
  <2>5. sk.free \subseteq sl.free /\ sl.next_fresh <= sk.next_fresh
    BY <1>2, <2>3
  <2>6. Taken(cc, w, O)
    BY <2>3, <2>4, <2>5, WithSlabTaken DEF sl
  <2> HIDE DEF w, b
  <2> QED
    BY <2>1, <2>6 DEF PopSound, O
<1> QED
  BY <1>4, <1>5

\* pop_block_unchecked takes one block the cache holds.
LEMMA PopBlockSound ==
    ASSUME NEW cc, CacheSound(cc), NEW pop \in PopBlock(cc)
    PROVE  PopSound(cc, pop)
<1>1. CacheTyped(cc) /\ CacheParts(cc) /\ AvailSound(cc)
  BY SoundParts DEF CacheSound
<1>2. CacheTyped(pop.cache) /\ cc \in ClassCache
  BY <1>1, PopBlockTyped DEF PopTyped, CacheTyped
<1>3. cc.hot \in SUBSET Addr /\ cc.shared \in SUBSET Addr
  BY <1>1, CacheFields
<1>4. CASE cc.hot # {}
  <2> DEFINE q == [cc EXCEPT !.hot = {}, !.total_len = @ - 1]
  <2>1. PICK b \in cc.hot : pop = [cache |-> q, block |-> b, reuse |-> "HotReuseRequestedOnly"]
    BY <1>4 DEF PopBlock
  <2>2. cc.hot = {b} /\ Cardinality(cc.hot) = 1
    BY <1>1, HotOne
  <2>3. /\ q.hot = {} /\ q.slabs = cc.slabs /\ q.avail = cc.avail /\ q.shared = cc.shared
        /\ q.shared_len = cc.shared_len /\ q.total_len = cc.total_len - 1
    BY <1>2 DEF ClassCache
  <2> HIDE DEF q
  <2>4. Taken(cc, q, cc.hot)
    BY <1>2, <1>3, <2>1, <2>2, <2>3, HotTaken
  <2>5. b \in KeepsOwner(cc)
    BY <2>1 DEF KeepsOwner
  <2> QED
    BY <2>1, <2>2, <2>4, <2>5 DEF PopSound
<1>5. CASE cc.hot = {} /\ cc.avail # {}
  <2>1. PICK s \in cc.avail : pop \in SlabPops(cc, s)
    BY <1>5 DEF PopBlock
  <2> QED
    BY <2>1, SlabPopsSound
<1>6. CASE cc.hot = {} /\ cc.avail = {}
  <2> DEFINE q(b) == [cc EXCEPT !.shared = @ \ {b}, !.shared_len = @ - 1, !.total_len = @ - 1]
  <2>1. PICK b \in cc.shared :
          pop = [cache |-> q(b), block |-> b, reuse |-> "NeedsOwnerAndRequestedSizeRefresh"]
    BY <1>6 DEF PopBlock
  <2> DEFINE w == q(b)
             O == {b}
  <2>2. /\ w.hot = cc.hot /\ w.slabs = cc.slabs /\ w.avail = cc.avail
        /\ w.shared = cc.shared \ O
        /\ w.shared_len = cc.shared_len - 1 /\ w.total_len = cc.total_len - 1
    BY <1>2 DEF ClassCache
  <2>3. pop.cache = w /\ pop.block = b /\ pop.reuse = "NeedsOwnerAndRequestedSizeRefresh"
    <3> HIDE DEF q
    <3> QED
      BY <2>1
  <2>4. O \in SUBSET cc.shared /\ Cardinality(O) = 1
    BY CardSmall
  <2> HIDE DEF w, q, O
  <2>5. Taken(cc, w, O)
    BY <1>2, <1>3, <2>1, <2>2, <2>3, <2>4, SharedTaken
  <2> QED
    BY <2>3, <2>5 DEF PopSound, O
<1> QED
  BY <1>4, <1>5, <1>6

\* A batch pop takes the batch; what is not fresh in it was on a list, and it is not
\* empty when there is something to take.
BatchSound(cc, max, out) ==
    /\ Taken(cc, out.cache, out.batch)
    /\ out.fresh \in SUBSET out.batch
    /\ out.batch \ out.fresh \subseteq KeepsOwner(cc) \cup cc.shared
    /\ max # 0 /\ cc.total_len # 0 => out.batch # {}

\* pop_batch on one slab: the reclaimed blocks and a run of fresh ones.
LEMMA SlabPopBatchesSound ==
    ASSUME NEW cc, CacheSound(cc), NEW s \in cc.avail, NEW max \in Nat,
           NEW out \in SlabPopBatches(cc, s, max)
    PROVE  BatchSound(cc, max, out)
<1> DEFINE sl    == cc.slabs[s]
           rec   == Least(Cardinality(sl.free), max)
           taken == Least(max - rec, sl.capacity - sl.next_fresh)
           fresh == s + sl.next_fresh .. s + sl.next_fresh + taken - 1
           sk(B) == [sl EXCEPT !.free = @ \ B, !.next_fresh = @ + taken]
<1>1. PICK B \in Batches(rec, sl.free) :
        out = [cache |-> WithSlab(cc, s, sk(B), rec + taken),
               batch |-> B \cup fresh, fresh |-> fresh]
  BY DEF SlabPopBatches
<1>2. CacheTyped(cc) /\ CacheParts(cc) /\ AvailSound(cc)
  BY SoundParts DEF CacheSound
<1>3. /\ s \in Addr /\ s \in Nat /\ sl \in LocalSlab /\ SlabFits(sl, s) /\ HasAvailableBlocks(sl)
      /\ sl.free \subseteq s .. s + sl.next_fresh - 1 /\ sl.next_fresh \in Nat /\ sl.capacity \in Nat
      /\ sl.free \in SUBSET Addr
  BY <1>2, CacheFields, AddrNat DEF CacheTyped, AvailSound, CacheParts, LocalSlab
<1>4. sl.free \subseteq KeepsOwner(cc)
  BY <1>3 DEF KeepsOwner
<1> HIDE DEF sl
<1>5. B \in SUBSET sl.free /\ rec = Cardinality(B)
  BY DEF Batches
<1>6. /\ Cardinality(sl.free) \in Nat /\ rec \in Nat /\ rec <= max
      /\ max # 0 /\ sl.free # {} => rec # 0
  <2>1. Cardinality(sl.free) \in Nat /\ (Cardinality(sl.free) = 0 => sl.free = {})
    BY <1>3, AddrFinite, CardSmall
  <2> QED
    BY <2>1 DEF Least
<1> HIDE DEF rec
<1>7. /\ taken \in Nat /\ sl.next_fresh + taken <= sl.capacity
      /\ max # rec /\ sl.next_fresh < sl.capacity => taken # 0
  BY <1>3, <1>6 DEF Least, SlabFits
<1> HIDE DEF taken
<1>8. /\ sk(B) \in LocalSlab /\ SlabFits(sk(B), s) /\ sk(B).capacity = sl.capacity
      /\ sk(B).free = sl.free \ B /\ sk(B).next_fresh = sl.next_fresh + taken
  <2> DEFINE free == sl.free \ B
             nf   == sl.next_fresh + taken
             sm   == sk(B)
  <2>1. sm = [sl EXCEPT !.free = free, !.next_fresh = nf]
    BY <1>3 DEF LocalSlab
  <2>2. free \in SUBSET Addr /\ nf \in Nat /\ nf <= sl.capacity
    BY <1>3, <1>7
  <2> HIDE DEF sk, free, nf, sm
  <2>3. sm \in LocalSlab /\ sm.capacity = sl.capacity /\ sm.free = free /\ sm.next_fresh = nf
    BY <1>3, <2>1, <2>2 DEF LocalSlab
  <2>4. SlabFits(sm, s)
    BY <1>3, <2>2, <2>3 DEF SlabFits
  <2> QED
    BY <2>3, <2>4 DEF sm, free, nf
<1> DEFINE sm == sk(B)
           w  == WithSlab(cc, s, sm, rec + taken)
           O  == B \cup fresh
<1>9. fresh \in SUBSET FreshBlocks(sl, s) /\ FreshBlocks(sm, s) = FreshBlocks(sl, s) \ fresh
  <2> HIDE DEF sk
  <2> QED
    BY <1>3, <1>7, <1>8 DEF FreshBlocks
<1>10. Cardinality(fresh) = taken
  <2>1. s + sl.next_fresh \in Int
    BY <1>3
  <2> QED
    BY <1>7, <2>1, CardInterval
<1>11. Disjoint(sl.free, FreshBlocks(sl, s))
  BY <1>3 DEF FreshBlocks, Disjoint
<1>12. out.cache = w /\ out.batch = O /\ out.fresh = fresh
  <2> HIDE DEF w, fresh
  <2> QED
    BY <1>1 DEF w
<1>13. max # 0 => O # {}
  <2>1. CASE rec # 0
    BY <1>5, <2>1, CardSmall
  <2>2. CASE rec = 0 /\ max # 0
    <3>1. sl.free = {}
      BY <1>6, <2>2
    <3>2. taken # 0
      BY <1>3, <1>7, <2>2, <3>1 DEF HasAvailableBlocks
    <3>3. s + sl.next_fresh \in fresh
      BY <1>3, <1>7, <3>2
    <3> QED
      BY <3>3
  <2> QED
    BY <2>1, <2>2
<1> HIDE DEF sk, fresh
<1>14. /\ O \in SUBSET SlabStock(sl, s)
       /\ SlabStock(sm, s) = SlabStock(sl, s) \ O
  BY <1>5, <1>8, <1>9, <1>11 DEF SlabStock, Disjoint
<1>15. rec + taken = Cardinality(O)
  <2>1. Disjoint(B, fresh) /\ B \in SUBSET Addr /\ fresh \in SUBSET Addr
    BY <1>2, <1>3, <1>5, <1>9, <1>11, HeldInArena DEF Disjoint, SlabStock, sl
  <2> QED
    BY <1>5, <1>10, <2>1, CardDisjoint
<1>16. sm \in LocalSlab /\ SlabFits(sm, s) /\ sm.capacity = sl.capacity /\ sm.free \subseteq sl.free
       /\ sl.next_fresh <= sm.next_fresh
  BY <1>3, <1>7, <1>8
<1> HIDE DEF sm, O
<1>17. Taken(cc, w, O)
  BY <1>14, <1>15, <1>16, WithSlabTaken DEF sl
<1> HIDE DEF w
<1>18. O \ fresh \subseteq KeepsOwner(cc)
  BY <1>4, <1>5 DEF O
<1> QED
  BY <1>12, <1>13, <1>17, <1>18 DEF BatchSound, O

\* pop_batch takes exactly the batch it returns.
LEMMA PopBatchSound ==
    ASSUME NEW cc, CacheSound(cc), NEW max \in Nat, NEW out \in PopBatch(cc, max), Addr # {}
    PROVE  BatchSound(cc, max, out)
<1>1. /\ CacheTyped(cc) /\ CacheParts(cc) /\ AvailSound(cc)
      /\ cc.total_len = Cardinality(Held(cc))
  BY SoundParts DEF CacheSound
<1>2. CacheTyped(out.cache) /\ cc \in ClassCache
  <2>1. max \in Int
    OBVIOUS
  <2>2. BatchTyped(out)
    BY <1>1, <2>1, PopBatchTyped
  <2> QED
    BY <1>1, <2>2 DEF BatchTyped, CacheTyped
<1>3. cc.hot \in SUBSET Addr /\ cc.shared \in SUBSET Addr /\ cc.total_len \in Int /\ cc.shared_len \in Int
  BY <1>1, CacheFields
<1>4. CASE cc.shared_len # 0
  <2> DEFINE k    == Least(max, Cardinality(cc.shared))
             q(B) == [cc EXCEPT !.shared = @ \ B, !.shared_len = @ - k, !.total_len = @ - k]
  <2>1. PICK B \in Batches(k, cc.shared) : out = [cache |-> q(B), batch |-> B, fresh |-> {}]
    BY <1>4 DEF PopBatch
  <2>2. B \in SUBSET cc.shared /\ k = Cardinality(B)
    BY DEF Batches
  <2>3. max # 0 => k # 0
    BY <1>1, <1>4 DEF Least, CacheParts
  <2> HIDE DEF k
  <2> DEFINE w == q(B)
  <2>4. /\ w.hot = cc.hot /\ w.slabs = cc.slabs /\ w.avail = cc.avail
        /\ w.shared = cc.shared \ B
        /\ w.shared_len = cc.shared_len - k /\ w.total_len = cc.total_len - k
    BY <1>2 DEF ClassCache
  <2>5. out.cache = w /\ out.batch = B /\ out.fresh = {}
    <3> HIDE DEF q
    <3> QED
      BY <2>1
  <2> HIDE DEF w, q
  <2>6. Taken(cc, w, B)
    BY <1>2, <2>2, <2>4, <2>5, SharedTaken
  <2>7. max # 0 => B # {}
    BY <2>2, <2>3, CardSmall
  <2> QED
    BY <2>2, <2>5, <2>6, <2>7 DEF BatchSound
<1>5. CASE cc.shared_len = 0 /\ cc.avail # {}
  <2>1. PICK s \in cc.avail : out \in SlabPopBatches(cc, s, max)
    BY <1>5 DEF PopBatch
  <2> QED
    BY <2>1, SlabPopBatchesSound
<1>6. CASE cc.shared_len = 0 /\ cc.avail = {}
  <2> DEFINE q == [cc EXCEPT !.hot = {}, !.total_len = @ - Cardinality(cc.hot)]
  <2>1. out = [cache |-> q, batch |-> cc.hot, fresh |-> {}]
    BY <1>6 DEF PopBatch
  <2>2. /\ q.hot = {} /\ q.slabs = cc.slabs /\ q.avail = cc.avail /\ q.shared = cc.shared
        /\ q.shared_len = cc.shared_len /\ q.total_len = cc.total_len - Cardinality(cc.hot)
    BY <1>2 DEF ClassCache
  <2> HIDE DEF q
  <2>3. Taken(cc, q, cc.hot)
    BY <1>2, <2>1, <2>2, HotTaken
  <2>4. cc.total_len # 0 => cc.hot # {}
    <3>1. cc.shared = {}
      BY <1>1, <1>3, <1>6, CardSmall DEF CacheParts
    <3>2. ASSUME NEW s \in Addr PROVE SlabStock(cc.slabs[s], s) = {}
      <4> DEFINE sl == cc.slabs[s]
      <4>1. ~HasAvailableBlocks(sl) /\ sl \in LocalSlab /\ s \in Nat
        BY <1>1, <1>6, <3>2, CacheFields, AddrNat DEF CacheParts
      <4> HIDE DEF sl
      <4>2. SlabStock(sl, s) = {}
        BY <4>1 DEF SlabStock, FreshBlocks, HasAvailableBlocks, LocalSlab
      <4> QED
        BY <4>2 DEF sl
    <3>3. Held(cc) = cc.hot
      BY <3>1, <3>2 DEF Held
    <3> QED
      BY <1>1, <3>3, CardSmall
  <2>5. cc.hot \subseteq KeepsOwner(cc)
    BY DEF KeepsOwner
  <2> QED
    BY <2>1, <2>3, <2>4, <2>5 DEF BatchSound
<1> QED
  BY <1>4, <1>5, <1>6

-----------------------------------------------------------------------------
(***************************************************************************)
(* The type invariant is not inductive by itself: a fresh block popped     *)
(* from a slab is a block of the arena because slabs lie inside the arena  *)
(* and because available_slabs lists no exhausted slab, and the size an    *)
(* allocation stamps after a refill is the one it was called with.         *)
(***************************************************************************)
CachesTyped == \A c \in Caches : CacheTyped(cache[c]) /\ AvailSound(cache[c])

\* A span on its way from the arena to the pool is not empty and lies in the arena.
SpansFit ==
    \A c \in Caches : pc[c] = "register" =>
        /\ span[c].start \in Addr
        /\ span[c].count \in Nat \ {0}
        /\ span[c].start + span[c].count <= ArenaBlocks

\* An allocation under way remembers a size of the class.
WantsFit == \A c \in Caches : pc[c] \in {"pop", "carve", "register"} => want[c] \in Sizes

TypeInv == TypeOK /\ PoolTyped(pool) /\ CachesTyped /\ SpansFit /\ WantsFit

\* The number of blocks an overflow drains (half the refill count, at least 1) is a natural number.
LEMMA DrainCountNat == DrainCount \in Nat
  BY SmallPathAssumption DEF DrainCount

\* Replacing the cache of one thread by a sound one.
LEMMA CachePut ==
    ASSUME cache \in [Caches -> ClassCache], CachesTyped, NEW c \in Caches,
           NEW cc, CacheTyped(cc), AvailSound(cc), cache' = [cache EXCEPT ![c] = cc]
    PROVE  cache' \in [Caches -> ClassCache] /\ CachesTyped'
<1>1. cc \in ClassCache
  BY DEF CacheTyped
<1>2. cache' \in [Caches -> ClassCache]
  BY <1>1
<1>3. \A d \in Caches : CacheTyped(cache'[d]) /\ AvailSound(cache'[d])
  BY DEF CachesTyped
<1> QED
  BY <1>2, <1>3 DEF CachesTyped

\* Headers stay headers.
LEMMA StampTyped ==
    ASSUME NEW h \in Header, NEW reuse \in BlockReuse, NEW size \in Sizes, NEW owner \in Ids
    PROVE  StampHeader(h, reuse, size, owner) \in Header
<1>1. CASE reuse = "HotReuseRequestedOnly"
  <2> DEFINE h1 == [h EXCEPT !.freed = FALSE]
             h2 == [h1 EXCEPT !.requested = size]
  <2>1. h1 \in Header
    BY DEF Header
  <2> HIDE DEF h1
  <2>2. h2 \in Header
    BY <2>1 DEF Header
  <2>3. StampHeader(h, reuse, size, owner) = h2
    BY <1>1, Zenon DEF StampHeader, h1
  <2> QED
    BY <2>2, <2>3
<1>2. CASE reuse = "NeedsOwnerAndRequestedSizeRefresh"
  <2> DEFINE h1 == [h EXCEPT !.freed = FALSE]
             h2 == [h1 EXCEPT !.requested = size]
             h3 == [h2 EXCEPT !.owner = owner]
  <2>1. h1 \in Header
    BY DEF Header
  <2>2. h2 \in Header
    <3> HIDE DEF h1
    <3> QED
      BY <2>1 DEF Header
  <2>3. h3 \in Header
    <3> HIDE DEF h2
    <3> QED
      BY <2>2 DEF Header
  <2>4. StampHeader(h, reuse, size, owner) =
          [h EXCEPT !.freed = FALSE, !.requested = size, !.owner = owner]
    BY <1>2 DEF StampHeader
  <2> QED
    BY <2>3, <2>4, Zenon
<1>3. CASE reuse = "NeedsHeaderRewrite"
  BY <1>3 DEF StampHeader, Header
<1> QED
  BY <1>1, <1>2, <1>3 DEF BlockReuse

\* Marking a header freed yields a header.
LEMMA MarkTyped == \A h \in Header : MarkFreed(h) \in Header
  BY DEF MarkFreed, Header

\* Initialising the headers of fresh blocks keeps the headers typed.
LEMMA FreshTyped ==
    ASSUME NEW h \in [Addr -> Header], NEW F
    PROVE  InitializeFresh(h, F) \in [Addr -> Header]
<1>1. InitializedHeader \in Header
  BY DEF InitializedHeader, ZeroHeader, Header
<1> QED
  BY <1>1 DEF InitializeFresh

-----------------------------------------------------------------------------
\* Sections under the class mutex keep the pool typed.
LEMMA ReturnsTyped ==
    ASSUME NEW p, PoolTyped(p), NEW B \in SUBSET Addr, NEW r \in Returns(p, B)
    PROVE  PoolTyped(r)
<1>1. CASE B = {}
  BY <1>1 DEF Returns
<1>2. CASE B # {}
  <2>1. r \in Sweep(ReturnBatch(p, B))
    BY <1>2 DEF Returns
  <2>2. PoolTyped(ReturnBatch(p, B))
    BY ReturnTyped
  <2> QED
    BY <2>1, <2>2, SweepTyped
<1> QED
  BY <1>1, <1>2

\* Draining the remote inbox leaves a well-formed pool.
LEMMA DrainedTyped ==
    ASSUME TypeInv, NEW p \in Drained
    PROVE  PoolTyped(p)
<1>1. inbox.pending \in SUBSET Addr
  BY DEF TypeInv, TypeOK, PendingList
<1> QED
  BY <1>1, ReturnsTyped DEF Drained, TypeInv

\* A critical section of the pool lock leaves pool, inbox and discarded pages typed.
LEMMA SectionTyped ==
    ASSUME TypeInv, NEW p, PoolTyped(p), NEW q, NEW r, PoolTyped(r), PoolSection(p, q, r)
    PROVE  PoolTyped(pool') /\ pool' \in Pool /\ inbox' \in PendingList /\ lazy' \in SUBSET Addr
<1>1. NoPending \in PendingList
  BY DEF NoPending, PendingList
<1>2. lazy' \in SUBSET Addr
  BY DiscardedTyped DEF PoolSection, TypeInv, TypeOK
<1> QED
  BY <1>1, <1>2 DEF PoolSection, PoolTyped

\* Staging a remote free keeps the staged frees well-formed.
LEMMA PushPendingTyped ==
    ASSUME NEW l \in PendingList, NEW B \in SUBSET Addr
    PROVE  PushPending(l, B) \in PendingList
  BY AddrFinite DEF PushPending, PendingList

-----------------------------------------------------------------------------
\* A new allocator satisfies the strengthened type invariant.
LEMMA InitTypeInv == Init => TypeInv
<1> SUFFICES ASSUME Init PROVE TypeInv
  OBVIOUS
<1>1. PoolTyped(pool)
  BY EmptyPoolTyped DEF Init
<1>2. CachesTyped
  <2>1. AvailSound(NewClassCache)
    BY DEF AvailSound, NewClassCache
  <2> QED
    BY <2>1, NewCacheTyped DEF CachesTyped, Init
<1>3. hdr \in [Addr -> Header]
  BY DEF Init, ZeroHeader, Header
<1>4. cache \in [Caches -> ClassCache]
  BY NewCacheTyped DEF Init, CacheTyped
<1>5. inbox \in PendingList /\ remote \in [Caches -> PendingList]
  BY DEF Init, NoPending, PendingList
<1>6. span \in [Caches -> Span] /\ pc \in [Caches -> PC]
  BY DEF Init, NoSpan, Span, PC
<1>7. TypeOK
  BY <1>1, <1>3, <1>4, <1>5, <1>6, ArenaBlocksAssumption DEF Init, TypeOK, PoolTyped, NoGrant
<1> QED
  BY <1>1, <1>2, <1>7 DEF Init, TypeInv, SpansFit, WantsFit

Grant == [size : Sizes \cup {0}, owner : Ids \cup {0}]

\* Handing a block to the caller keeps the types.
LEMMA TakeBlockTyped ==
    ASSUME TypeInv, NEW c \in Caches, NEW size \in Sizes, TakeBlock(c, size)
    PROVE  /\ cache' \in [Caches -> ClassCache] /\ CachesTyped'
           /\ hdr' \in [Addr -> Header]
           /\ lazy' \in SUBSET Addr
           /\ grant' \in [Addr -> Grant]
<1>1. PICK pop \in PopBlock(cache[c]) :
        /\ cache' = [cache EXCEPT ![c] = pop.cache]
        /\ hdr' = [hdr EXCEPT ![pop.block] = StampHeader(@, pop.reuse, size, id[c])]
        /\ lazy' = lazy \ {pop.block}
        /\ grant' = [grant EXCEPT ![pop.block] = [size |-> size, owner |-> id[c]]]
  BY DEF TakeBlock
<1>2. PopTyped(pop)
  BY PopBlockTyped DEF TypeInv, CachesTyped
<1>3. cache' \in [Caches -> ClassCache] /\ CachesTyped'
  BY <1>1, <1>2, CachePut DEF PopTyped, TypeInv, TypeOK
<1>4. id[c] \in Ids /\ hdr \in [Addr -> Header] /\ grant \in [Addr -> Grant] /\ lazy \in SUBSET Addr
  BY DEF TypeInv, TypeOK, Grant
<1>5. StampHeader(hdr[pop.block], pop.reuse, size, id[c]) \in Header
  BY <1>2, <1>4, StampTyped DEF PopTyped
<1>6. [size |-> size, owner |-> id[c]] \in Grant
  BY <1>4 DEF Grant
<1> QED
  BY <1>1, <1>3, <1>4, <1>5, <1>6

\* A cache hit keeps the strengthened type invariant.
LEMMA AllocateHitTyped ==
    ASSUME TypeInv, NEW c \in Caches, NEW size \in Sizes, AllocateHit(c, size)
    PROVE  TypeInv'
<1>1. TakeBlock(c, size)
  BY DEF AllocateHit
<1>2. /\ cache' \in [Caches -> ClassCache] /\ CachesTyped'
      /\ hdr' \in [Addr -> Header]
      /\ lazy' \in SUBSET Addr
      /\ grant' \in [Addr -> Grant]
  BY <1>1, TakeBlockTyped
<1>3. UNCHANGED <<next, others, pool, inbox, remote, id, pc, want, span, batch>>
  BY DEF AllocateHit
<1>4. TypeOK'
  BY <1>2, <1>3 DEF TypeInv, TypeOK, Grant
<1> QED
  BY <1>2, <1>3, <1>4 DEF TypeInv, SpansFit, WantsFit

\* So does the allocation that follows a refill.
LEMMA AllocateRefilledTyped ==
    ASSUME TypeInv, NEW c \in Caches, AllocateRefilled(c)
    PROVE  TypeInv'
<1>1. TakeBlock(c, want[c]) /\ want[c] \in Sizes
  BY DEF AllocateRefilled, TypeInv, WantsFit
<1>2. /\ cache' \in [Caches -> ClassCache] /\ CachesTyped'
      /\ hdr' \in [Addr -> Header]
      /\ lazy' \in SUBSET Addr
      /\ grant' \in [Addr -> Grant]
  BY <1>1, TakeBlockTyped
<1>3. /\ want' = [want EXCEPT ![c] = 0]
      /\ pc' = [pc EXCEPT ![c] = "idle"]
      /\ UNCHANGED <<next, others, pool, inbox, remote, id, span, batch>>
  BY DEF AllocateRefilled
<1>4. TypeOK'
  BY <1>2, <1>3 DEF TypeInv, TypeOK, Grant, PC
<1>5. SpansFit' /\ WantsFit'
  BY <1>3 DEF TypeInv, TypeOK, SpansFit, WantsFit
<1> QED
  BY <1>2, <1>3, <1>4, <1>5 DEF TypeInv

-----------------------------------------------------------------------------
\* The three outcomes of refill_from_central end the same way.
LEMMA RefillTyped ==
    ASSUME TypeInv, NEW c \in Caches, NEW size \in Sizes, NEW l \in {"pop", "carve"},
           PoolTyped(pool'), inbox' \in PendingList, lazy' \in SUBSET Addr,
           cache' \in [Caches -> ClassCache], CachesTyped',
           want' = [want EXCEPT ![c] = size],
           pc' = [pc EXCEPT ![c] = l],
           UNCHANGED <<next, others, remote, id, span, batch, hdr, grant>>
    PROVE  TypeInv'
<1>1. TypeOK'
  BY DEF TypeInv, TypeOK, PC, PoolTyped
<1>2. SpansFit' /\ WantsFit'
  BY DEF TypeInv, TypeOK, SpansFit, WantsFit
<1> QED
  BY <1>1, <1>2 DEF TypeInv

\* So does a refill with a batch of a partial slab.
LEMMA RefillBatchTyped ==
    ASSUME TypeInv, NEW c \in Caches, NEW size \in Sizes, RefillBatch(c, size)
    PROVE  TypeInv'
<1>1. PICK p \in Drained :
      \E s \in BatchSlabs(p) :
      \E B \in Batches(Least(RefillCount, Cardinality(p[s].partial_free)), p[s].partial_free) :
      \E r \in Sweep(TakePartialBatch(p, s, B)) :
            /\ PoolSection(p, TakePartialBatch(p, s, B), r)
            /\ cache' = [cache EXCEPT ![c] = PushSharedBatch(@, B)]
  BY DEF RefillBatch
<1>2. PICK s \in BatchSlabs(p) :
      \E B \in Batches(Least(RefillCount, Cardinality(p[s].partial_free)), p[s].partial_free) :
      \E r \in Sweep(TakePartialBatch(p, s, B)) :
            /\ PoolSection(p, TakePartialBatch(p, s, B), r)
            /\ cache' = [cache EXCEPT ![c] = PushSharedBatch(@, B)]
  BY <1>1
<1>3. PICK B \in Batches(Least(RefillCount, Cardinality(p[s].partial_free)), p[s].partial_free) :
      \E r \in Sweep(TakePartialBatch(p, s, B)) :
            /\ PoolSection(p, TakePartialBatch(p, s, B), r)
            /\ cache' = [cache EXCEPT ![c] = PushSharedBatch(@, B)]
  BY <1>2
<1>4. PICK r \in Sweep(TakePartialBatch(p, s, B)) :
            /\ PoolSection(p, TakePartialBatch(p, s, B), r)
            /\ cache' = [cache EXCEPT ![c] = PushSharedBatch(@, B)]
  BY <1>3
<1>5. PoolTyped(p)
  BY DrainedTyped
<1>6. s \in Registered(p) /\ s \in Addr
  BY DEF BatchSlabs, Bucket, Registered
<1>7. B \in SUBSET Addr
  BY <1>5, <1>6 DEF Batches, PoolTyped, Pool, SlabRecord
<1>8. PoolTyped(r)
  BY <1>5, <1>6, <1>7, TakePartialTyped, SweepTyped
<1>9. PoolTyped(pool') /\ inbox' \in PendingList /\ lazy' \in SUBSET Addr
  BY <1>4, <1>5, <1>8, SectionTyped
<1>10. CacheTyped(PushSharedBatch(cache[c], B)) /\ AvailSound(PushSharedBatch(cache[c], B))
  BY <1>7, PushSharedTyped DEF TypeInv, CachesTyped
<1>11. cache' \in [Caches -> ClassCache] /\ CachesTyped'
  <2>1. cache' = [cache EXCEPT ![c] = PushSharedBatch(cache[c], B)]
    BY <1>4
  <2> QED
    BY <1>10, <2>1, CachePut DEF TypeInv, TypeOK
<1> QED
  BY <1>9, <1>11, RefillTyped DEF RefillBatch

\* So does a refill with a loaned slab.
LEMMA RefillSlabTyped ==
    ASSUME TypeInv, NEW c \in Caches, NEW size \in Sizes, RefillSlab(c, size)
    PROVE  TypeInv'
<1>1. PICK p \in Drained :
      \E s \in LoanableSlabs(p) :
      \E r \in Sweep(LoanWholeSlab(p, s)) :
            /\ PoolSection(p, LoanWholeSlab(p, s), r)
            /\ cache' = [cache EXCEPT ![c] = PushOwnedSlab(@, s, p[s].capacity)]
  BY DEF RefillSlab
<1>2. PICK s \in LoanableSlabs(p) :
      \E r \in Sweep(LoanWholeSlab(p, s)) :
            /\ PoolSection(p, LoanWholeSlab(p, s), r)
            /\ cache' = [cache EXCEPT ![c] = PushOwnedSlab(@, s, p[s].capacity)]
  BY <1>1
<1>3. PICK r \in Sweep(LoanWholeSlab(p, s)) :
            /\ PoolSection(p, LoanWholeSlab(p, s), r)
            /\ cache' = [cache EXCEPT ![c] = PushOwnedSlab(@, s, p[s].capacity)]
  BY <1>2
<1>4. PoolTyped(p)
  BY DrainedTyped
<1>5. s \in Registered(p) /\ s \in Addr
  BY DEF LoanableSlabs, Bucket, Registered
<1>6. PoolTyped(r)
  BY <1>4, <1>5, LoanTyped, SweepTyped
<1>7. PoolTyped(pool') /\ inbox' \in PendingList /\ lazy' \in SUBSET Addr
  BY <1>3, <1>4, <1>6, SectionTyped
<1>8. p[s].capacity \in Nat \ {0} /\ s + p[s].capacity <= ArenaBlocks
  BY <1>4, <1>5 DEF PoolTyped, Pool, SlabRecord
<1> DEFINE cc == PushOwnedSlab(cache[c], s, p[s].capacity)
<1>9. CacheTyped(cc) /\ AvailSound(cc)
  BY <1>5, <1>8, PushOwnedTyped DEF TypeInv, CachesTyped
<1>10. cache' \in [Caches -> ClassCache] /\ CachesTyped'
  <2>1. cache' = [cache EXCEPT ![c] = cc]
    BY <1>3
  <2> HIDE DEF cc
  <2> QED
    BY <1>9, <2>1, CachePut DEF TypeInv, TypeOK
<1> QED
  BY <1>7, <1>10, RefillTyped DEF RefillSlab

\* So does a refill that finds nothing in the central pool.
LEMMA RefillMissTyped ==
    ASSUME TypeInv, NEW c \in Caches, NEW size \in Sizes, RefillMiss(c, size)
    PROVE  TypeInv'
<1>1. PICK p \in Drained : PoolSection(p, p, p)
  BY DEF RefillMiss
<1>2. PoolTyped(p)
  BY DrainedTyped
<1>3. PoolTyped(pool') /\ inbox' \in PendingList /\ lazy' \in SUBSET Addr
  BY <1>1, <1>2, SectionTyped
<1>4. cache' \in [Caches -> ClassCache] /\ CachesTyped'
  BY DEF RefillMiss, TypeInv, TypeOK, CachesTyped
<1> QED
  BY <1>3, <1>4, RefillTyped DEF RefillMiss

-----------------------------------------------------------------------------
\* From the arena to the pool and the cache.
LEMMA CarveTyped ==
    ASSUME TypeInv, NEW c \in Caches, Carve(c)
    PROVE  TypeInv'
<1> DEFINE count == Least(RefillCount, ArenaBlocks - next)
           sp    == [start |-> next, count |-> count]
<1>1. /\ pc[c] = "carve"
      /\ count # 0
      /\ span' = [span EXCEPT ![c] = sp]
      /\ next' = next + count
      /\ pc' = [pc EXCEPT ![c] = "register"]
      /\ UNCHANGED <<others, pool, inbox, cache, remote, id, want, batch, hdr, lazy, grant>>
  BY DEF Carve
<1>2. /\ next \in 0 .. ArenaBlocks
      /\ count \in Nat /\ next + count <= ArenaBlocks
  BY ArenaBlocksAssumption, SmallPathAssumption DEF TypeInv, TypeOK, Least
<1>3. next \in Addr
  BY <1>1, <1>2, ArenaBlocksAssumption DEF Addr
<1> HIDE DEF count
<1>4. sp \in Span /\ sp.start = next /\ sp.count = count
  BY <1>2 DEF Span
<1> HIDE DEF sp
<1>5. TypeOK'
  <2>1. next' \in 0 .. ArenaBlocks
    BY <1>1, <1>2, ArenaBlocksAssumption
  <2> QED
    BY <1>1, <1>4, <2>1 DEF TypeInv, TypeOK, PC
<1>6. SpansFit'
  <2>1. ASSUME NEW d \in Caches, pc'[d] = "register"
        PROVE  /\ span'[d].start \in Addr
               /\ span'[d].count \in Nat \ {0}
               /\ span'[d].start + span'[d].count <= ArenaBlocks
    <3>1. CASE d = c
      BY <1>1, <1>2, <1>3, <1>4, <3>1 DEF TypeInv, TypeOK
    <3>2. CASE d # c
      BY <1>1, <2>1, <3>2 DEF TypeInv, TypeOK, SpansFit
    <3> QED
      BY <3>1, <3>2
  <2> QED
    BY <2>1 DEF SpansFit
<1>7. WantsFit' /\ CachesTyped'
  BY <1>1 DEF TypeInv, TypeOK, WantsFit, CachesTyped
<1> QED
  BY <1>1, <1>5, <1>6, <1>7 DEF TypeInv

\* So does registering the reserved span as a slab.
LEMMA RegisterActionTyped ==
    ASSUME TypeInv, NEW c \in Caches, Register(c)
    PROVE  TypeInv'
<1> DEFINE q  == RegisterSlab(pool, span[c].start, span[c].count)
           cc == PushOwnedSlab(cache[c], span[c].start, span[c].count)
<1>1. PICK r \in Sweep(q) : pool' = r /\ lazy' = lazy \cup Discarded(q, r)
  BY DEF Register
<1>2. /\ pc[c] = "register"
      /\ cache' = [cache EXCEPT ![c] = cc]
      /\ span' = [span EXCEPT ![c] = NoSpan]
      /\ pc' = [pc EXCEPT ![c] = "pop"]
      /\ UNCHANGED <<next, others, inbox, remote, id, want, batch, hdr, grant>>
  BY DEF Register
<1>3. /\ span[c].start \in Addr
      /\ span[c].count \in Nat \ {0}
      /\ span[c].start + span[c].count <= ArenaBlocks
  BY <1>2 DEF TypeInv, SpansFit
<1>4. PoolTyped(q)
  BY <1>3, RegisterTyped, AddrNat DEF TypeInv
<1> HIDE DEF q
<1>5. PoolTyped(pool') /\ lazy' \in SUBSET Addr
  BY <1>1, <1>4, SweepTyped, DiscardedTyped DEF TypeInv, TypeOK
<1>6. CacheTyped(cc) /\ AvailSound(cc)
  BY <1>3, PushOwnedTyped DEF TypeInv, CachesTyped
<1> HIDE DEF cc
<1>7. cache' \in [Caches -> ClassCache] /\ CachesTyped'
  BY <1>2, <1>6, CachePut DEF TypeInv, TypeOK
<1>8. span' \in [Caches -> Span]
  BY <1>2 DEF TypeInv, TypeOK, NoSpan, Span
<1>9. TypeOK'
  BY <1>2, <1>5, <1>7, <1>8 DEF TypeInv, TypeOK, PC, PoolTyped
<1>10. SpansFit' /\ WantsFit'
  BY <1>2 DEF TypeInv, TypeOK, SpansFit, WantsFit
<1> QED
  BY <1>5, <1>7, <1>9, <1>10 DEF TypeInv

-----------------------------------------------------------------------------
\* An accepted free leaves typed headers and grants.
LEMMA AcceptedTyped ==
    ASSUME TypeInv, NEW c \in Caches, NEW b \in Addr, Accepted(c, b)
    PROVE  /\ grant' \in [Addr -> Grant]
           /\ [hdr EXCEPT ![b] = MarkFreed(@)] \in [Addr -> Header]
           /\ CacheTyped(PushBlock(cache[c], b)) /\ AvailSound(PushBlock(cache[c], b))
           /\ PushPending(remote[c], {b}) \in PendingList
<1>1. grant' \in [Addr -> Grant]
  BY DEF Accepted, TypeInv, TypeOK, Grant, NoGrant
<1>2. [hdr EXCEPT ![b] = MarkFreed(@)] \in [Addr -> Header]
  BY MarkTyped DEF TypeInv, TypeOK
<1>3. CacheTyped(PushBlock(cache[c], b)) /\ AvailSound(PushBlock(cache[c], b))
  BY PushBlockTyped DEF TypeInv, CachesTyped
<1>4. PushPending(remote[c], {b}) \in PendingList
  BY PushPendingTyped DEF TypeInv, TypeOK
<1> QED
  BY <1>1, <1>2, <1>3, <1>4

\* So does a free into the local cache.
LEMMA FreeLocalTyped ==
    ASSUME TypeInv, NEW c \in Caches, NEW b \in Addr, FreeLocal(c, b)
    PROVE  TypeInv'
<1> DEFINE cc == PushBlock(cache[c], b)
<1>1. /\ Accepted(c, b)
      /\ cache' = [cache EXCEPT ![c] = cc]
      /\ hdr' = [hdr EXCEPT ![b] = MarkFreed(@)]
      /\ lazy' = lazy \ {b}
      /\ UNCHANGED <<next, others, pool, inbox, remote, id, pc, want, span, batch>>
  BY DEF FreeLocal
<1>2. /\ grant' \in [Addr -> Grant] /\ hdr' \in [Addr -> Header]
      /\ CacheTyped(cc) /\ AvailSound(cc)
  BY <1>1, AcceptedTyped
<1> HIDE DEF cc
<1>3. cache' \in [Caches -> ClassCache] /\ CachesTyped'
  BY <1>1, <1>2, CachePut DEF TypeInv, TypeOK
<1>4. TypeOK'
  BY <1>1, <1>2, <1>3 DEF TypeInv, TypeOK, Grant
<1> QED
  BY <1>1, <1>3, <1>4 DEF TypeInv, SpansFit, WantsFit

\* So does a free into a full cache, which pops a batch to return.
LEMMA FreeLocalOverflowTyped ==
    ASSUME TypeInv, NEW c \in Caches, NEW b \in Addr, FreeLocalOverflow(c, b)
    PROVE  TypeInv'
<1> DEFINE cc == PushBlock(cache[c], b)
           hh == [hdr EXCEPT ![b] = MarkFreed(@)]
<1>1. PICK out \in PopBatch(cc, DrainCount) :
        /\ cache' = [cache EXCEPT ![c] = out.cache]
        /\ batch' = [batch EXCEPT ![c] = out.batch]
        /\ hdr' = InitializeFresh(hh, out.fresh)
        /\ lazy' = lazy \ (out.fresh \cup {b})
  BY DEF FreeLocalOverflow
<1>2. /\ Accepted(c, b)
      /\ pc' = [pc EXCEPT ![c] = "return"]
      /\ UNCHANGED <<next, others, pool, inbox, remote, id, want, span>>
  BY DEF FreeLocalOverflow
<1>3. /\ grant' \in [Addr -> Grant] /\ hh \in [Addr -> Header]
      /\ CacheTyped(cc) /\ AvailSound(cc)
  BY <1>2, AcceptedTyped
<1> HIDE DEF cc, hh
<1>4. BatchTyped(out)
  BY <1>3, PopBatchTyped, DrainCountNat
<1>5. cache' \in [Caches -> ClassCache] /\ CachesTyped'
  BY <1>1, <1>4, CachePut DEF BatchTyped, TypeInv, TypeOK
<1>6. hdr' \in [Addr -> Header]
  BY <1>1, <1>3, FreshTyped
<1>7. TypeOK'
  BY <1>1, <1>2, <1>3, <1>4, <1>5, <1>6 DEF TypeInv, TypeOK, Grant, PC, BatchTyped
<1>8. SpansFit' /\ WantsFit'
  BY <1>2 DEF TypeInv, TypeOK, SpansFit, WantsFit
<1> QED
  BY <1>2, <1>5, <1>7, <1>8 DEF TypeInv

\* So does a remote free.
LEMMA FreeRemoteTyped ==
    ASSUME TypeInv, NEW c \in Caches, NEW b \in Addr, FreeRemote(c, b) \/ FreeRemoteFlush(c, b)
    PROVE  TypeInv'
<1> DEFINE staged == PushPending(remote[c], {b})
<1>1. /\ Accepted(c, b)
      /\ hdr' = [hdr EXCEPT ![b] = MarkFreed(@)]
      /\ lazy' = lazy \ {b}
      /\ UNCHANGED <<next, others, pool, inbox, cache, id, want, span>>
  BY DEF FreeRemote, FreeRemoteFlush
<1>2. \/ /\ remote' = [remote EXCEPT ![c] = staged]
         /\ UNCHANGED <<pc, batch>>
      \/ /\ remote' = [remote EXCEPT ![c] = NoPending]
         /\ batch' = [batch EXCEPT ![c] = staged.pending]
         /\ pc' = [pc EXCEPT ![c] = "publish"]
  BY DEF FreeRemote, FreeRemoteFlush
<1>3. grant' \in [Addr -> Grant] /\ hdr' \in [Addr -> Header] /\ staged \in PendingList
  BY <1>1, AcceptedTyped
<1> HIDE DEF staged
<1>4. NoPending \in PendingList /\ staged.pending \in SUBSET Addr
  BY <1>3 DEF NoPending, PendingList
<1>5. /\ remote' \in [Caches -> PendingList]
      /\ pc' \in [Caches -> PC]
      /\ batch' \in [Caches -> SUBSET Addr]
  <2>1. remote \in [Caches -> PendingList] /\ pc \in [Caches -> PC] /\ batch \in [Caches -> SUBSET Addr]
    BY DEF TypeInv, TypeOK
  <2>2. "publish" \in PC
    BY DEF PC
  <2> QED
    BY <1>2, <1>3, <1>4, <2>1, <2>2
<1>6. TypeOK'
  BY <1>1, <1>3, <1>5 DEF TypeInv, TypeOK, Grant
<1>7. SpansFit' /\ WantsFit'
  BY <1>1, <1>2 DEF TypeInv, TypeOK, SpansFit, WantsFit
<1> QED
  BY <1>1, <1>6, <1>7 DEF TypeInv, CachesTyped

-----------------------------------------------------------------------------
\* Batches on their way to the pool, and drains.
LEMMA ReturnActionTyped ==
    ASSUME TypeInv, NEW c \in Caches, Return(c)
    PROVE  TypeInv'
<1>1. PICK p \in Drained :
        \E r \in Returns(p, batch[c]) : PoolSection(p, ReturnBatch(p, batch[c]), r)
  BY DEF Return
<1>2. PICK r \in Returns(p, batch[c]) : PoolSection(p, ReturnBatch(p, batch[c]), r)
  BY <1>1
<1>3. /\ batch' = [batch EXCEPT ![c] = {}]
      /\ pc' = [pc EXCEPT ![c] = IF @ = "return" THEN "idle" ELSE "drain"]
      /\ UNCHANGED <<next, others, cache, remote, id, want, span, hdr, grant>>
  BY DEF Return
<1>4. PoolTyped(p) /\ batch[c] \in SUBSET Addr
  BY DrainedTyped DEF TypeInv, TypeOK
<1>5. PoolTyped(r)
  BY <1>4, ReturnsTyped
<1>6. /\ PoolTyped(pool') /\ pool' \in Pool
      /\ inbox' \in PendingList /\ lazy' \in SUBSET Addr
  BY <1>2, <1>4, <1>5, SectionTyped
<1> DEFINE l == IF pc[c] = "return" THEN "idle" ELSE "drain"
<1>7. pc' = [pc EXCEPT ![c] = l] /\ l \in PC /\ l \notin {"register", "pop", "carve"}
  BY <1>3 DEF PC
<1> HIDE DEF l
<1>8. batch' \in [Caches -> SUBSET Addr] /\ pc' \in [Caches -> PC]
  BY <1>3, <1>7 DEF TypeInv, TypeOK
<1>9. TypeOK'
  BY <1>3, <1>6, <1>8 DEF TypeInv, TypeOK
<1>10. SpansFit' /\ WantsFit'
  BY <1>3, <1>7 DEF TypeInv, TypeOK, SpansFit, WantsFit
<1> QED
  BY <1>3, <1>6, <1>9, <1>10 DEF TypeInv, CachesTyped

\* So does publishing a batch to the remote inbox.
LEMMA PublishTyped ==
    ASSUME TypeInv, NEW c \in Caches, Publish(c)
    PROVE  TypeInv'
<1>1. inbox' \in PendingList
  BY PushPendingTyped DEF Publish, TypeInv, TypeOK
<1>2. TypeOK'
  BY <1>1 DEF Publish, TypeInv, TypeOK, PC
<1>3. SpansFit' /\ WantsFit'
  BY DEF Publish, TypeInv, TypeOK, SpansFit, WantsFit
<1> QED
  BY <1>2, <1>3 DEF Publish, TypeInv, CachesTyped

\* So does the start of a cache drain.
LEMMA StartDrainTyped ==
    ASSUME TypeInv, NEW c \in Caches, StartDrain(c)
    PROVE  TypeInv'
<1>1. remote[c].pending \in SUBSET Addr /\ NoPending \in PendingList
  BY DEF TypeInv, TypeOK, NoPending, PendingList
<1>2. TypeOK'
  BY <1>1 DEF StartDrain, TypeInv, TypeOK, PC
<1>3. SpansFit' /\ WantsFit'
  BY DEF StartDrain, TypeInv, TypeOK, SpansFit, WantsFit
<1> QED
  BY <1>2, <1>3 DEF StartDrain, TypeInv, CachesTyped

\* So does each batch a drain pops.
LEMMA DrainPopTyped ==
    ASSUME TypeInv, NEW c \in Caches, DrainPop(c)
    PROVE  TypeInv'
<1>1. PICK out \in PopBatch(cache[c], cache[c].total_len) :
          /\ cache' = [cache EXCEPT ![c] = out.cache]
          /\ batch' = [batch EXCEPT ![c] = out.batch]
          /\ hdr' = InitializeFresh(hdr, out.fresh)
          /\ lazy' = lazy \ out.fresh
  BY DEF DrainPop
<1>2. /\ pc' = [pc EXCEPT ![c] = "drain_return"]
      /\ UNCHANGED <<next, others, pool, inbox, remote, id, want, span, grant>>
  BY DEF DrainPop
<1>3. CacheTyped(cache[c]) /\ AvailSound(cache[c])
  BY DEF TypeInv, CachesTyped
<1>4. BatchTyped(out)
  BY <1>3, PopBatchTyped, CacheFields
<1>5. cache' \in [Caches -> ClassCache] /\ CachesTyped'
  BY <1>1, <1>4, CachePut DEF BatchTyped, TypeInv, TypeOK
<1>6. hdr' \in [Addr -> Header]
  BY <1>1, FreshTyped DEF TypeInv, TypeOK
<1>7. TypeOK'
  BY <1>1, <1>2, <1>4, <1>5, <1>6 DEF TypeInv, TypeOK, PC, BatchTyped
<1>8. SpansFit' /\ WantsFit'
  BY <1>2 DEF TypeInv, TypeOK, SpansFit, WantsFit
<1> QED
  BY <1>2, <1>5, <1>7, <1>8 DEF TypeInv

\* So does a thread's exit.
LEMMA ExitThreadTyped ==
    ASSUME TypeInv, NEW c \in Caches, ExitThread(c)
    PROVE  TypeInv'
<1>1. AvailSound(NewClassCache)
  BY DEF AvailSound, NewClassCache
<1>2. cache' \in [Caches -> ClassCache] /\ CachesTyped'
  BY <1>1, NewCacheTyped, CachePut DEF ExitThread, TypeInv, TypeOK
<1>3. TypeOK'
  BY <1>2 DEF ExitThread, TypeInv, TypeOK, PC
<1>4. SpansFit' /\ WantsFit'
  BY DEF ExitThread, TypeInv, TypeOK, SpansFit, WantsFit
<1> QED
  BY <1>2, <1>3, <1>4 DEF ExitThread, TypeInv

-----------------------------------------------------------------------------
\* Every step keeps the strengthened type invariant.
LEMMA NextTypeInv == TypeInv /\ [Next]_vars => TypeInv'
<1> SUFFICES ASSUME TypeInv, [Next]_vars PROVE TypeInv'
  OBVIOUS
<1>1. ASSUME NEW c \in Caches, Step(c) PROVE TypeInv'
  <2>1. CASE Carve(c)
    BY <2>1, CarveTyped
  <2>2. CASE OutOfMemory(c)
    <3>1. TypeOK'
      BY <2>2 DEF OutOfMemory, TypeInv, TypeOK, PC
    <3>2. SpansFit' /\ WantsFit'
      BY <2>2 DEF OutOfMemory, TypeInv, TypeOK, SpansFit, WantsFit
    <3> QED
      BY <2>2, <3>1, <3>2 DEF OutOfMemory, TypeInv, CachesTyped
  <2>3. CASE Register(c)
    BY <2>3, RegisterActionTyped
  <2>4. CASE AllocateRefilled(c)
    BY <2>4, AllocateRefilledTyped
  <2>5. CASE Return(c)
    BY <2>5, ReturnActionTyped
  <2>6. CASE Publish(c)
    BY <2>6, PublishTyped
  <2>7. CASE DrainPop(c)
    BY <2>7, DrainPopTyped
  <2>8. CASE DrainDone(c)
    <3>1. TypeOK'
      BY <2>8 DEF DrainDone, TypeInv, TypeOK, PC
    <3>2. SpansFit' /\ WantsFit'
      BY <2>8 DEF DrainDone, TypeInv, TypeOK, SpansFit, WantsFit
    <3> QED
      BY <2>8, <3>1, <3>2 DEF DrainDone, TypeInv, CachesTyped
  <2>9. CASE ExitThread(c)
    BY <2>9, ExitThreadTyped
  <2> QED
    BY <1>1, <2>1, <2>2, <2>3, <2>4, <2>5, <2>6, <2>7, <2>8, <2>9 DEF Step
<1>2. ASSUME NEW c \in Caches, Call(c) PROVE TypeInv'
  BY <1>2, AllocateHitTyped, RefillBatchTyped, RefillSlabTyped, RefillMissTyped,
     FreeLocalTyped, FreeLocalOverflowTyped, FreeRemoteTyped, StartDrainTyped DEF Call
<1>3. ASSUME NEW b \in Addr, KernelReclaim(b) PROVE TypeInv'
  <2>1. hdr' \in [Addr -> Header]
    BY <1>3 DEF KernelReclaim, TypeInv, TypeOK, ZeroHeader, Header
  <2>2. TypeOK'
    BY <1>3, <2>1 DEF KernelReclaim, TypeInv, TypeOK
  <2> QED
    BY <1>3, <2>2 DEF KernelReclaim, TypeInv, CachesTyped, SpansFit, WantsFit
<1>4. CASE ReserveElsewhere
  <2>1. next' \in 0 .. ArenaBlocks /\ others' \in SUBSET Addr
    BY <1>4, ArenaBlocksAssumption DEF ReserveElsewhere, TypeInv, TypeOK, Addr
  <2>2. TypeOK'
    BY <1>4, <2>1 DEF ReserveElsewhere, TypeInv, TypeOK
  <2> QED
    BY <1>4, <2>2 DEF ReserveElsewhere, TypeInv, CachesTyped, SpansFit, WantsFit
<1>5. CASE UNCHANGED vars
  BY <1>5 DEF vars, TypeInv, TypeOK, CachesTyped, SpansFit, WantsFit
<1> QED
  BY <1>1, <1>2, <1>3, <1>4, <1>5 DEF Next

\* The type invariant holds for every arena, thread set and configuration.  With it:
\* no unchecked pop of a slab yields a block outside the arena.
THEOREM TypeCorrect == Spec => []TypeOK
<1>1. TypeInv => TypeOK
  BY DEF TypeInv
<1> QED
  BY <1>1, InitTypeInv, NextTypeInv, PTL DEF Spec

-----------------------------------------------------------------------------
(***************************************************************************)
(* A stale free is rejected.  The freed marker alone would not do: a fresh *)
(* block drained from its slab gets a header without the marker, and the   *)
(* kernel may zero a discarded page.  In both cases requested_size is 0,   *)
(* which decode_header refuses.                                            *)
(***************************************************************************)
Freeable(h) == FreeVerdict(h) = "Ok"

\* Header validation refuses a block marked freed, one initialised but never granted, and a zeroed header.
LEMMA VerdictFacts ==
    /\ \A h \in Header : ~Freeable(MarkFreed(h))
    /\ ~Freeable(InitializedHeader)
    /\ ~Freeable(ZeroHeader)
<1>1. ASSUME NEW h \in Header PROVE ~Freeable(MarkFreed(h))
  <2>1. MarkFreed(h).freed /\ MarkFreed(h) \in Header
    BY DEF MarkFreed, Header
  <2> QED
    BY <2>1 DEF Freeable, FreeVerdict
<1>2. InitializedHeader.requested = 0 /\ ZeroHeader.requested = 0
  BY DEF InitializedHeader, ZeroHeader
<1>3. ~Freeable(InitializedHeader) /\ ~Freeable(ZeroHeader)
  BY <1>2 DEF Freeable, FreeVerdict
<1> QED
  BY <1>1, <1>3

\* Steps that make no header acceptable and end no allocation.
LEMMA StaleKept ==
    ASSUME StaleFreeRejected, TypeInv,
           \A b \in Addr : Freeable(hdr'[b]) => hdr'[b] = hdr[b] /\ grant'[b] = grant[b]
    PROVE  StaleFreeRejected'
<1>1. ASSUME NEW b \in Addr, FreeVerdict(hdr'[b]) = "Ok" PROVE b \in Live'
  <2>1. hdr'[b] = hdr[b] /\ grant'[b] = grant[b]
    BY <1>1 DEF Freeable
  <2>2. b \in Live
    BY <1>1, <2>1 DEF StaleFreeRejected
  <2> QED
    BY <2>1, <2>2 DEF Live
<1> QED
  BY <1>1 DEF StaleFreeRejected

\* Granting a block keeps the verdicts on all blocks sound.
LEMMA StaleTake ==
    ASSUME StaleFreeRejected, TypeInv, NEW c \in Caches, NEW size \in Sizes, TakeBlock(c, size)
    PROVE  StaleFreeRejected'
<1>1. PICK pop \in PopBlock(cache[c]) :
        /\ hdr' = [hdr EXCEPT ![pop.block] = StampHeader(@, pop.reuse, size, id[c])]
        /\ grant' = [grant EXCEPT ![pop.block] = [size |-> size, owner |-> id[c]]]
  BY DEF TakeBlock
<1>2. pop.block \in Addr
  BY PopBlockTyped DEF TypeInv, CachesTyped, PopTyped
<1>3. hdr \in [Addr -> Header] /\ grant \in [Addr -> Grant] /\ size # 0
  BY SmallPathAssumption DEF TypeInv, TypeOK, Grant
<1>4. ASSUME NEW b \in Addr, FreeVerdict(hdr'[b]) = "Ok" PROVE b \in Live'
  <2>1. CASE b = pop.block
    <3>1. grant'[b] = [size |-> size, owner |-> id[c]]
      BY <1>1, <1>3, <2>1
    <3>2. grant'[b].size = size
      BY <3>1
    <3> QED
      BY <1>3, <3>2 DEF Live
  <2>2. CASE b # pop.block
    <3>1. hdr'[b] = hdr[b] /\ grant'[b] = grant[b]
      BY <1>1, <1>2, <1>3, <2>2
    <3>2. b \in Live
      BY <1>4, <3>1 DEF StaleFreeRejected
    <3> QED
      BY <3>1, <3>2 DEF Live
  <2> QED
    BY <2>1, <2>2
<1> QED
  BY <1>4 DEF StaleFreeRejected

\* A free of block b, with the fresh blocks F initialised in the same step.
LEMMA StaleFree ==
    ASSUME StaleFreeRejected, TypeInv, NEW c \in Caches, NEW b \in Addr, Accepted(c, b),
           \/ hdr' = [hdr EXCEPT ![b] = MarkFreed(@)]
           \/ \E F \in SUBSET Addr : hdr' = InitializeFresh([hdr EXCEPT ![b] = MarkFreed(@)], F)
    PROVE  StaleFreeRejected'
<1>1. hdr \in [Addr -> Header] /\ grant \in [Addr -> Grant]
  BY DEF TypeInv, TypeOK, Grant
<1>2. grant' = [grant EXCEPT ![b] = NoGrant]
  BY DEF Accepted
<1> DEFINE hh == [hdr EXCEPT ![b] = MarkFreed(@)]
<1>3. hh[b] = MarkFreed(hdr[b]) /\ \A a \in Addr \ {b} : hh[a] = hdr[a]
  BY <1>1
<1>4. PICK F \in SUBSET Addr : \A a \in Addr : hdr'[a] = IF a \in F THEN InitializedHeader ELSE hh[a]
  <2>1. CASE hdr' = hh
    <3> WITNESS {} \in SUBSET Addr
    <3> QED
      BY <2>1
  <2>2. CASE \E F \in SUBSET Addr : hdr' = InitializeFresh(hh, F)
    <3> HIDE DEF hh
    <3> QED
      BY <2>2, Zenon DEF InitializeFresh
  <2> QED
    BY <2>1, <2>2
<1> HIDE DEF hh
<1>5. ASSUME NEW a \in Addr, Freeable(hdr'[a]) PROVE hdr'[a] = hdr[a] /\ grant'[a] = grant[a]
  <2>1. a \notin F
    BY <1>4, <1>5, VerdictFacts
  <2>2. hdr'[a] = hh[a]
    BY <1>4, <2>1
  <2>3. a # b
    BY <1>1, <1>3, <1>5, <2>2, VerdictFacts
  <2> QED
    BY <1>1, <1>2, <1>3, <2>2, <2>3
<1> QED
  BY <1>5, StaleKept

\* Every step keeps stale frees refused.
LEMMA NextStale == StaleFreeRejected /\ TypeInv /\ [Next]_vars => StaleFreeRejected'
<1> SUFFICES ASSUME StaleFreeRejected, TypeInv, [Next]_vars PROVE StaleFreeRejected'
  OBVIOUS
<1>1. CASE UNCHANGED <<hdr, grant>>
  BY <1>1, StaleKept
<1>2. ASSUME NEW c \in Caches, Step(c) PROVE StaleFreeRejected'
  <2>1. CASE AllocateRefilled(c)
    <3>1. TakeBlock(c, want[c]) /\ want[c] \in Sizes
      BY <2>1 DEF AllocateRefilled, TypeInv, WantsFit
    <3> QED
      BY <3>1, StaleTake
  <2>2. CASE DrainPop(c)
    <3>1. PICK F : hdr' = InitializeFresh(hdr, F) /\ grant' = grant
      BY <2>2 DEF DrainPop
    <3>2. \A b \in Addr : hdr'[b] = IF b \in F THEN InitializedHeader ELSE hdr[b]
      BY <3>1 DEF InitializeFresh
    <3> QED
      BY <3>1, <3>2, VerdictFacts, StaleKept
  <2>3. CASE ~AllocateRefilled(c) /\ ~DrainPop(c)
    <3>1. UNCHANGED <<hdr, grant>>
      BY <1>2, <2>3 DEF Step, Carve, OutOfMemory, Register, Return, Publish, DrainDone, ExitThread
    <3> QED
      BY <1>1, <3>1
  <2> QED
    BY <2>1, <2>2, <2>3
<1>3. ASSUME NEW c \in Caches, Call(c) PROVE StaleFreeRejected'
  <2>1. ASSUME NEW size \in Sizes, AllocateHit(c, size) PROVE StaleFreeRejected'
    BY <2>1, StaleTake DEF AllocateHit
  <2>2. ASSUME NEW size \in Sizes,
               RefillBatch(c, size) \/ RefillSlab(c, size) \/ RefillMiss(c, size)
        PROVE  StaleFreeRejected'
    BY <1>1, <2>2 DEF RefillBatch, RefillSlab, RefillMiss
  <2>3. ASSUME NEW b \in Addr, FreeLocal(c, b) \/ FreeRemote(c, b) \/ FreeRemoteFlush(c, b)
        PROVE  StaleFreeRejected'
    <3>1. Accepted(c, b) /\ hdr' = [hdr EXCEPT ![b] = MarkFreed(@)]
      BY <2>3 DEF FreeLocal, FreeRemote, FreeRemoteFlush
    <3> QED
      BY <3>1, StaleFree
  <2>4. ASSUME NEW b \in Addr, FreeLocalOverflow(c, b) PROVE StaleFreeRejected'
    <3>1. PICK out \in PopBatch(PushBlock(cache[c], b), DrainCount) :
            hdr' = InitializeFresh([hdr EXCEPT ![b] = MarkFreed(@)], out.fresh)
      BY <2>4 DEF FreeLocalOverflow
    <3>2. Accepted(c, b)
      BY <2>4 DEF FreeLocalOverflow
    <3>3. CacheTyped(PushBlock(cache[c], b)) /\ AvailSound(PushBlock(cache[c], b))
      BY <3>2, AcceptedTyped
    <3>4. out.fresh \in SUBSET Addr
      <4>1. BatchTyped(out)
        BY <3>3, PopBatchTyped, DrainCountNat
      <4> QED
        BY <4>1 DEF BatchTyped
    <3>5. \E F \in SUBSET Addr : hdr' = InitializeFresh([hdr EXCEPT ![b] = MarkFreed(@)], F)
      BY <3>1, <3>4, Zenon
    <3> QED
      BY <3>2, <3>5, StaleFree
  <2>5. CASE StartDrain(c)
    BY <1>1, <2>5 DEF StartDrain
  <2> QED
    BY <1>3, <2>1, <2>2, <2>3, <2>4, <2>5 DEF Call
<1>4. ASSUME NEW b \in Addr, KernelReclaim(b) PROVE StaleFreeRejected'
  <2>1. hdr \in [Addr -> Header] /\ hdr' = [hdr EXCEPT ![b] = ZeroHeader] /\ grant' = grant
    BY <1>4 DEF KernelReclaim, TypeInv, TypeOK
  <2>2. \A a \in Addr : hdr'[a] = IF a = b THEN ZeroHeader ELSE hdr[a]
    BY <2>1
  <2> QED
    BY <2>1, <2>2, VerdictFacts, StaleKept
<1>5. CASE ReserveElsewhere
  BY <1>1, <1>5 DEF ReserveElsewhere
<1>6. CASE UNCHANGED vars
  BY <1>1, <1>6 DEF vars
<1> QED
  BY <1>2, <1>3, <1>4, <1>5, <1>6 DEF Next

\* deallocate accepts only a block that backs an allocation: wherever a freed block
\* has got to, a second free of it answers DoubleFree or CorruptHeader.
THEOREM StaleFreesRejected == Spec => []StaleFreeRejected
<1>1. Init => StaleFreeRejected
  BY VerdictFacts DEF Init, StaleFreeRejected, Freeable
<1> QED
  BY <1>1, InitTypeInv, NextTypeInv, NextStale, PTL DEF Spec

-----------------------------------------------------------------------------
(***************************************************************************)
(* Every block of the arena is in exactly one place; and what follows from *)
(* that about counters, headers, discarded pages, cache bounds and the     *)
(* allocator a program sees.                                               *)
(***************************************************************************)

(***************************************************************************)
(* The inductive invariant.  Ownership alone is not inductive: a returned  *)
(* block must lie in a registered slab for the lookup to file it, a slab a *)
(* cache remembers must still be the pool's slab for its reset to be       *)
(* right, and between calls nothing may be left in transit.                *)
(***************************************************************************)

\* The arena below `next` is parcelled out to slabs, spans on their way to the pool,
\* and others.
Parcelled ==
    /\ \A s \in Registered(pool) : s + pool[s].capacity <= next
    /\ Disjoint(SlabArea(pool), others)
    /\ \A c \in Caches : Disjoint(SlabArea(pool), SpanBlocks(c))
    /\ 0 .. next - 1 \subseteq SlabArea(pool) \cup others \cup UNION {SpanBlocks(c) : c \in Caches}

\* A slab some cache has known is a slab of the pool, with the same capacity.
SlabsAgree ==
    \A c \in Caches : \A s \in KnownSlabs(cache[c]) :
        s \in Registered(pool) /\ pool[s].capacity = cache[c].slabs[s].capacity

\* Only a call under way holds a span or a batch.
InTransit ==
    \A c \in Caches :
        /\ pc[c] # "register" => span[c] = NoSpan
        /\ pc[c] \notin {"return", "publish", "drain_return", "drain_publish"} => batch[c] = {}

Layout == Parcelled /\ SlabsAgree

Accounted == CountersExact /\ ExclusiveOwnership /\ NothingLost /\ Layout /\ InTransit

OwnInv == TypeInv /\ StaleFreeRejected /\ Accounted

-----------------------------------------------------------------------------
(***************************************************************************)
(* A step of one thread moves blocks between eight sets: the blocks in     *)
(* use, the pool, the inbox, the rest of the arena, and what the thread    *)
(* itself has.                                                             *)
(***************************************************************************)
Apart(L, C, I, O, H, R, B, S) ==
    /\ Disjoint(L, C \cup I \cup O \cup H \cup R \cup B \cup S)
    /\ Disjoint(C, I \cup O \cup H \cup R \cup B \cup S)
    /\ Disjoint(I, O \cup H \cup R \cup B \cup S)
    /\ Disjoint(O, H \cup R \cup B \cup S)
    /\ Disjoint(H, R \cup B \cup S)
    /\ Disjoint(R, B \cup S)
    /\ Disjoint(B, S)

Joined(L, C, I, O, H, R, B, S) ==
    L \cup C \cup I \cup O \cup H \cup R \cup B \cup S

\* What the threads other than c have.
Elsewhere(c) == UNION {Owned(d) : d \in Caches \ {c}}

\* The eight sets as thread c sees them.
LEMMA SplitAt ==
    ASSUME ExclusiveOwnership, NothingLost, NEW c \in Caches
    PROVE  /\ Apart(Live, CentralHeld(pool), inbox.pending, others,
                    Held(cache[c]), remote[c].pending, batch[c], SpanBlocks(c))
           /\ Disjoint(Joined(Live, CentralHeld(pool), inbox.pending, others,
                              Held(cache[c]), remote[c].pending, batch[c], SpanBlocks(c)),
                       Elsewhere(c))
           /\ 0 .. next - 1 = Joined(Live, CentralHeld(pool), inbox.pending, others,
                                     Held(cache[c]), remote[c].pending, batch[c], SpanBlocks(c))
                              \cup Elsewhere(c)
<1> DEFINE L == Live
           C == CentralHeld(pool)
           I == inbox.pending
           H == Held(cache[c])
           R == remote[c].pending
           B == batch[c]
           S == SpanBlocks(c)
           Out == L \cup C \cup I \cup others
<1>1. /\ Disjoint(L, C) /\ Disjoint(L, I) /\ Disjoint(C, I) /\ Disjoint(others, L \cup C \cup I)
      /\ Disjoint(Owned(c), Out)
      /\ Disjoint(H, R \cup B \cup S) /\ Disjoint(R, B \cup S) /\ Disjoint(B, S)
  BY DEF ExclusiveOwnership
<1>2. Owned(c) = H \cup R \cup B \cup S
  BY DEF Owned
<1>3. Disjoint(Elsewhere(c), Out \cup Owned(c))
  BY DEF ExclusiveOwnership, Elsewhere, Disjoint
<1>4. UNION {Owned(d) : d \in Caches} = Owned(c) \cup Elsewhere(c)
  BY DEF Elsewhere
<1>5. 0 .. next - 1 = Out \cup Owned(c) \cup Elsewhere(c)
  BY <1>4 DEF NothingLost
<1> HIDE DEF L, C, I, H, R, B, S
<1>6. Apart(L, C, I, others, H, R, B, S)
  BY <1>1, <1>2 DEF Apart, Disjoint
<1>7. Joined(L, C, I, others, H, R, B, S) = Out \cup Owned(c)
  BY <1>2 DEF Joined
<1>8. Disjoint(Joined(L, C, I, others, H, R, B, S), Elsewhere(c))
  BY <1>3, <1>7 DEF Disjoint
<1> QED
  BY <1>5, <1>6, <1>7, <1>8 DEF L, C, I, H, R, B, S

\* A step of thread c that leaves what the other threads have alone, keeps the eight
\* sets apart and changes their union only by new blocks of the arena, keeps every
\* block in exactly one place.
LEMMA Redistribute ==
    ASSUME ExclusiveOwnership, NothingLost, next \in Nat, NEW c \in Caches,
           \A d \in Caches \ {c} :
              /\ cache'[d] = cache[d] /\ remote'[d] = remote[d]
              /\ batch'[d] = batch[d] /\ span'[d] = span[d],
           NEW n \in Nat, next' = next + n,
           Apart(Live', CentralHeld(pool'), inbox'.pending, others',
                 Held(cache'[c]), remote'[c].pending, batch'[c], SpanBlocks(c)'),
           Joined(Live', CentralHeld(pool'), inbox'.pending, others',
                  Held(cache'[c]), remote'[c].pending, batch'[c], SpanBlocks(c)')
             = Joined(Live, CentralHeld(pool), inbox.pending, others,
                      Held(cache[c]), remote[c].pending, batch[c], SpanBlocks(c))
               \cup (next .. next + n - 1)
    PROVE  ExclusiveOwnership' /\ NothingLost'
<1> DEFINE J  == Joined(Live, CentralHeld(pool), inbox.pending, others,
                        Held(cache[c]), remote[c].pending, batch[c], SpanBlocks(c))
           L  == Live'
           C  == CentralHeld(pool')
           I  == inbox'.pending
           O  == others'
           H  == Held(cache'[c])
           R  == remote'[c].pending
           B  == batch'[c]
           S  == SpanBlocks(c)'
           E  == Elsewhere(c)
           N  == next .. next + n - 1
           J2 == Joined(L, C, I, O, H, R, B, S)
           W(d) == Owned(d)'
<1>1. Disjoint(J, E) /\ 0 .. next - 1 = J \cup E
  BY SplitAt
<1>2. W(c) = H \cup R \cup B \cup S
  BY DEF Owned
<1>3. \A d \in Caches \ {c} : W(d) = Owned(d) /\ W(d) \subseteq E
  BY DEF Owned, SpanBlocks, Elsewhere
<1>4. UNION {W(d) : d \in Caches} = W(c) \cup E
  BY <1>3 DEF Elsewhere
<1>5. Apart(L, C, I, O, H, R, B, S) /\ J2 = J \cup N
  OBVIOUS
<1>6. \A d \in Caches \ {c} :
        /\ Disjoint(Held(cache'[d]), remote'[d].pending \cup batch'[d] \cup SpanBlocks(d)')
        /\ Disjoint(remote'[d].pending, batch'[d] \cup SpanBlocks(d)')
        /\ Disjoint(batch'[d], SpanBlocks(d)')
        /\ \A e \in Caches \ {c, d} : Disjoint(W(d), W(e))
  <2>1. ASSUME NEW d \in Caches \ {c}
        PROVE  SpanBlocks(d)' = SpanBlocks(d)
    BY DEF SpanBlocks
  <2>2. ASSUME NEW d \in Caches \ {c}
        PROVE  /\ Disjoint(Held(cache[d]), remote[d].pending \cup batch[d] \cup SpanBlocks(d))
               /\ Disjoint(remote[d].pending, batch[d] \cup SpanBlocks(d))
               /\ Disjoint(batch[d], SpanBlocks(d))
               /\ \A e \in Caches \ {c, d} : Disjoint(Owned(d), Owned(e))
    BY DEF ExclusiveOwnership
  <2> HIDE DEF W
  <2> QED
    BY <1>3, <2>1, <2>2
<1>7. 0 .. next' - 1 = (0 .. next - 1) \cup N
  OBVIOUS
<1>8. Disjoint(N, 0 .. next - 1)
  BY DEF Disjoint
<1> HIDE DEF J, L, C, I, O, H, R, B, S, E, N, W
<1>9. J2 = L \cup C \cup I \cup O \cup W(c)
  BY <1>2 DEF Joined
<1>10. Disjoint(J2, E)
  BY <1>1, <1>5, <1>8 DEF Disjoint
<1> HIDE DEF J2
<1>11. /\ Disjoint(L, C) /\ Disjoint(L, I) /\ Disjoint(C, I) /\ Disjoint(O, L \cup C \cup I)
       /\ Disjoint(H, R \cup B \cup S) /\ Disjoint(R, B \cup S) /\ Disjoint(B, S)
       /\ Disjoint(W(c), L \cup C \cup I \cup O)
  BY <1>2, <1>5 DEF Apart, Disjoint
<1>12. \A d \in Caches \ {c} : /\ Disjoint(W(d), L \cup C \cup I \cup O)
                               /\ Disjoint(W(c), W(d)) /\ Disjoint(W(d), W(c))
  BY <1>3, <1>9, <1>10 DEF Disjoint
<1>13. \A d \in Caches : Disjoint(W(d), L \cup C \cup I \cup O)
  BY <1>11, <1>12
<1>14. \A d \in Caches : \A e \in Caches \ {d} : Disjoint(W(d), W(e))
  BY <1>6, <1>12
<1>15. ExclusiveOwnership'
  <2>1. \A d \in Caches :
          /\ Disjoint(Held(cache'[d]), remote'[d].pending \cup batch'[d] \cup SpanBlocks(d)')
          /\ Disjoint(remote'[d].pending, batch'[d] \cup SpanBlocks(d)')
          /\ Disjoint(batch'[d], SpanBlocks(d)')
    BY <1>6, <1>11 DEF H, R, B, S
  <2> QED
    BY <1>11, <1>13, <1>14, <2>1 DEF ExclusiveOwnership, L, C, I, O, W
<1>16. 0 .. next' - 1 = L \cup C \cup I \cup O \cup UNION {W(d) : d \in Caches}
  BY <1>1, <1>4, <1>5, <1>7, <1>9
<1>17. NothingLost'
  BY <1>16 DEF NothingLost, L, C, I, O, W
<1> QED
  BY <1>15, <1>17

-----------------------------------------------------------------------------
(***************************************************************************)
(* What the invariant gives at one thread, and what each part of it needs  *)
(* from a step of one thread.                                              *)
(***************************************************************************)

\* What the invariant says about one thread, its cache and its slabs.
LEMMA OwnFacts ==
    ASSUME OwnInv, NEW c \in Caches
    PROVE  /\ PoolSound(pool) /\ CacheSound(cache[c]) /\ CacheTyped(cache[c])
           /\ next \in Nat /\ next <= ArenaBlocks
           /\ inbox.pending \in SUBSET Addr /\ remote[c].pending \in SUBSET Addr
           /\ batch[c] \in SUBSET Addr /\ span[c] \in Span
           /\ inbox.pending_len = Cardinality(inbox.pending)
           /\ remote[c].pending_len = Cardinality(remote[c].pending)
           /\ inbox \in PendingList /\ remote[c] \in PendingList
           /\ pc[c] \in PC
<1>1. PoolSound(pool) /\ CacheSound(cache[c]) /\ CacheTyped(cache[c])
  BY DEF OwnInv, TypeInv, Accounted, CountersExact, CachesTyped, PoolSound, CacheSound
<1>2. next \in Nat /\ next <= ArenaBlocks
  BY ArenaBlocksAssumption DEF OwnInv, TypeInv, TypeOK
<1>3. inbox \in PendingList /\ remote[c] \in PendingList /\ batch[c] \in SUBSET Addr
      /\ span[c] \in Span /\ pc[c] \in PC
  BY DEF OwnInv, TypeInv, TypeOK
<1>4. inbox.pending \in SUBSET Addr /\ remote[c].pending \in SUBSET Addr
  BY <1>3 DEF PendingList
<1> QED
  BY <1>1, <1>2, <1>3, <1>4 DEF OwnInv, Accounted, CountersExact

\* A block of the class that is in no thread's unregistered span lies in a slab.
LEMMA InSlabs ==
    ASSUME OwnInv
    PROVE  /\ inbox.pending \in SUBSET SlabArea(pool)
           /\ \A c \in Caches : batch[c] \in SUBSET SlabArea(pool)
<1> DEFINE Spans == UNION {SpanBlocks(c) : c \in Caches}
<1>1. 0 .. next - 1 \subseteq SlabArea(pool) \cup others \cup Spans
  BY DEF OwnInv, Accounted, Layout, Parcelled
<1>2. \A c \in Caches : batch[c] \subseteq Owned(c) /\ SpanBlocks(c) \subseteq Owned(c)
  BY DEF Owned
<1>3. ExclusiveOwnership /\ NothingLost
  BY DEF OwnInv, Accounted
<1>4. inbox.pending \subseteq 0 .. next - 1 /\ \A c \in Caches : batch[c] \subseteq 0 .. next - 1
  BY <1>2, <1>3 DEF NothingLost
<1>5. Disjoint(inbox.pending, others) /\ Disjoint(inbox.pending, Spans)
  BY <1>2, <1>3 DEF ExclusiveOwnership, Disjoint
<1>6. ASSUME NEW c \in Caches PROVE Disjoint(batch[c], others) /\ Disjoint(batch[c], Spans)
  <2>1. Disjoint(batch[c], others) /\ Disjoint(batch[c], SpanBlocks(c))
    BY <1>2, <1>3 DEF ExclusiveOwnership, Disjoint
  <2>2. \A d \in Caches \ {c} : Disjoint(batch[c], SpanBlocks(d))
    BY <1>2, <1>3 DEF ExclusiveOwnership, Disjoint
  <2> QED
    BY <2>1, <2>2 DEF Disjoint
<1> HIDE DEF Spans
<1> QED
  BY <1>1, <1>4, <1>5, <1>6 DEF Disjoint

\* What a step of thread c leaves alone.
Frame(c) ==
    \A d \in Caches \ {c} :
        /\ cache'[d] = cache[d] /\ remote'[d] = remote[d]
        /\ batch'[d] = batch[d] /\ span'[d] = span[d] /\ pc'[d] = pc[d]

\* Counters stay exact when those of the pool, the inbox and the thread do.
LEMMA CountersKept ==
    ASSUME OwnInv, NEW c \in Caches, Frame(c), PoolSound(pool'), CacheSound(cache'[c]),
           inbox'.pending_len = Cardinality(inbox'.pending),
           remote'[c].pending_len = Cardinality(remote'[c].pending)
    PROVE  CountersExact'
<1>1. ASSUME NEW d \in Caches
      PROVE  /\ CacheCoherent(cache'[d])
             /\ remote'[d].pending_len = Cardinality(remote'[d].pending)
  <2>1. CASE d = c
    BY <2>1 DEF CacheSound
  <2>2. CASE d # c
    BY <2>2 DEF Frame, OwnInv, Accounted, CountersExact
  <2> QED
    BY <2>1, <2>2
<1> QED
  BY <1>1 DEF CountersExact, PoolSound

\* The layout of the arena stays when no slab is registered and the thread's cache
\* comes to know only slabs of the pool.
LEMMA LayoutKept ==
    ASSUME OwnInv, NEW c \in Caches, Frame(c), SameLayout(pool, pool'),
           next' = next, others' = others, span'[c] = span[c],
           \A s \in KnownSlabs(cache'[c]) :
              s \in Registered(pool) /\ pool[s].capacity = cache'[c].slabs[s].capacity
    PROVE  Layout'
<1>1. Registered(pool') = Registered(pool) /\ SlabArea(pool') = SlabArea(pool)
  BY SameArea
<1>2. \A s \in Registered(pool) : s \in Addr /\ pool'[s].capacity = pool[s].capacity
  BY DEF SameLayout, Registered
<1>3. \A d \in Caches : span'[d] = span[d]
  BY DEF Frame
<1>4. \A d \in Caches : SpanBlocks(d)' = SpanBlocks(d)
  BY <1>3 DEF SpanBlocks
<1>5. Parcelled'
  BY <1>1, <1>2, <1>4 DEF OwnInv, Accounted, Layout, Parcelled
<1>6. ASSUME NEW d \in Caches, NEW s \in KnownSlabs(cache'[d])
      PROVE  s \in Registered(pool') /\ pool'[s].capacity = cache'[d].slabs[s].capacity
  <2>1. CASE d = c
    BY <1>1, <1>2, <1>6, <2>1
  <2>2. CASE d # c
    <3>1. cache'[d] = cache[d]
      BY <2>2 DEF Frame
    <3> QED
      BY <1>1, <1>2, <1>6, <3>1 DEF OwnInv, Accounted, Layout, SlabsAgree
  <2> QED
    BY <2>1, <2>2
<1> QED
  BY <1>5, <1>6 DEF Layout, SlabsAgree

\* A cache that knows the slabs it knew agrees with the pool.
LEMMA KnownKept ==
    ASSUME OwnInv, NEW c \in Caches, NEW w, SameSlabs(cache[c], w)
    PROVE  \A s \in KnownSlabs(w) :
              s \in Registered(pool) /\ pool[s].capacity = w.slabs[s].capacity
  BY DEF OwnInv, Accounted, Layout, SlabsAgree, KnownSlabs, SameSlabs

\* The layout depends on pool, next, others, span and the caches only.
LEMMA LayoutSame ==
    ASSUME OwnInv, NEW c \in Caches, Frame(c), SameSlabs(cache[c], cache'[c]),
           pool' = pool, next' = next, others' = others, span' = span
    PROVE  Layout'
<1>1. SameLayout(pool, pool') /\ span'[c] = span[c]
  BY DEF SameLayout
<1> QED
  BY <1>1, KnownKept, LayoutKept

\* A call keeps a span only to register it and a batch only to hand it over.
LEMMA TransitKept ==
    ASSUME OwnInv, NEW c \in Caches, Frame(c),
           pc'[c] # "register" => span'[c] = NoSpan,
           pc'[c] \notin {"return", "publish", "drain_return", "drain_publish"} => batch'[c] = {}
    PROVE  InTransit'
<1>1. ASSUME NEW d \in Caches
      PROVE  /\ pc'[d] # "register" => span'[d] = NoSpan
             /\ pc'[d] \notin {"return", "publish", "drain_return", "drain_publish"} => batch'[d] = {}
  <2>1. CASE d = c
    BY <2>1
  <2>2. CASE d # c
    <3>1. span'[d] = span[d] /\ batch'[d] = batch[d] /\ pc'[d] = pc[d]
      BY <2>2 DEF Frame
    <3> QED
      BY <3>1 DEF OwnInv, Accounted, InTransit
  <2> QED
    BY <2>1, <2>2
<1> QED
  BY <1>1 DEF InTransit

\* No span, no blocks.
LEMMA NoSpanEmpty == ASSUME NEW c, span[c] = NoSpan PROVE SpanBlocks(c) = {}
  BY DEF SpanBlocks, NoSpan

\* A cache with total_len 0 is empty.
LEMMA EmptyCache ==
    ASSUME NEW cc, CacheSound(cc), cc.total_len = 0
    PROVE  Held(cc) = {}
  BY HeldInArena, CardSmall DEF CacheSound, CacheCoherent

\* What a cache keeps for its own use or shares is among what it holds.
LEMMA KeptHeld == ASSUME NEW cc PROVE KeepsOwner(cc) \cup cc.shared \subseteq Held(cc)
  BY DEF KeepsOwner, Held, SlabStock

-----------------------------------------------------------------------------
\* return_batch with its sweep files the batch and nothing else; it discards only
\* blocks of whole slabs, none that is on a list.
LEMMA ReturnsSound ==
    ASSUME NEW p, PoolSound(p), NEW B \in SUBSET SlabArea(p), Disjoint(B, CentralHeld(p)),
           NEW r \in Returns(p, B)
    PROVE  /\ PoolSound(r) /\ SameLayout(p, r)
           /\ CentralHeld(r) = CentralHeld(p) \cup B
           /\ Linked(r) \subseteq Linked(p) \cup B
           /\ Discarded(ReturnBatch(p, B), r) \in SUBSET CentralHeld(r)
           /\ Disjoint(Discarded(ReturnBatch(p, B), r), Linked(r))
<1> DEFINE q == ReturnBatch(p, B)
<1>1. /\ PoolSound(q) /\ SameLayout(p, q)
      /\ CentralHeld(q) = CentralHeld(p) \cup B
      /\ Linked(q) \subseteq Linked(p) \cup B
  BY ReturnSound
<1>2. CASE B = {}
  <2>1. r = p /\ \A s \in Addr : q[s] = p[s]
    BY <1>2 DEF Returns, ReturnBatch
  <2> HIDE DEF q
  <2>2. Discarded(q, r) = {}
    BY <2>1 DEF Discarded
  <2>3. SameLayout(p, r)
    BY <2>1 DEF SameLayout
  <2> QED
    BY <1>2, <2>1, <2>2, <2>3 DEF Disjoint, q
<1>3. CASE B # {}
  <2>1. r \in Sweep(q)
    BY <1>3 DEF Returns
  <2> HIDE DEF q
  <2>2. /\ PoolSound(r) /\ SameLayout(q, r)
        /\ CentralHeld(r) = CentralHeld(q)
        /\ Linked(r) \subseteq Linked(q)
        /\ Discarded(q, r) \in SUBSET CentralHeld(q)
        /\ Disjoint(Discarded(q, r), Linked(q))
    BY <1>1, <2>1, SweepSound
  <2>3. SameLayout(p, r)
    BY <1>1, <2>2 DEF SameLayout
  <2>4. Disjoint(Discarded(q, r), Linked(r))
    BY <2>2 DEF Disjoint
  <2> QED
    BY <1>1, <2>2, <2>3, <2>4 DEF q
<1> QED
  BY <1>2, <1>3

\* drain_remote_inbox moves the inbox into the pool.
LEMMA DrainedSound ==
    ASSUME OwnInv, NEW c \in Caches, NEW p \in Drained
    PROVE  /\ PoolSound(p) /\ SameLayout(pool, p) /\ SlabArea(p) = SlabArea(pool)
           /\ CentralHeld(p) = CentralHeld(pool) \cup inbox.pending
           /\ Linked(p) \subseteq Linked(pool) \cup inbox.pending
           /\ Discarded(ReturnBatch(pool, inbox.pending), p) \in SUBSET CentralHeld(p)
           /\ Disjoint(Discarded(ReturnBatch(pool, inbox.pending), p), Linked(p))
<1>1. PoolSound(pool) /\ inbox.pending \in SUBSET SlabArea(pool)
  BY OwnFacts, InSlabs
<1>2. Disjoint(inbox.pending, CentralHeld(pool))
  BY DEF OwnInv, Accounted, ExclusiveOwnership, Disjoint
<1>3. p \in Returns(pool, inbox.pending)
  BY DEF Drained
<1>4. /\ PoolSound(p) /\ SameLayout(pool, p)
      /\ CentralHeld(p) = CentralHeld(pool) \cup inbox.pending
      /\ Linked(p) \subseteq Linked(pool) \cup inbox.pending
      /\ Discarded(ReturnBatch(pool, inbox.pending), p) \in SUBSET CentralHeld(p)
      /\ Disjoint(Discarded(ReturnBatch(pool, inbox.pending), p), Linked(p))
  BY <1>1, <1>2, <1>3, ReturnsSound
<1> QED
  BY <1>4, SameArea

\* The inbox is empty after a section under the class mutex.
LEMMA SectionEmptiesInbox ==
    ASSUME NEW p, NEW q, NEW r, PoolSection(p, q, r)
    PROVE  pool' = r /\ inbox'.pending = {} /\ inbox'.pending_len = Cardinality(inbox'.pending)
  BY CardSmall DEF PoolSection, NoPending

\* A thread's whole change: the five parts together.
LEMMA Settle ==
    ASSUME OwnInv, NEW c \in Caches, Frame(c), PoolSound(pool'), CacheSound(cache'[c]),
           inbox'.pending_len = Cardinality(inbox'.pending),
           remote'[c].pending_len = Cardinality(remote'[c].pending),
           Layout',
           pc'[c] # "register" => span'[c] = NoSpan,
           pc'[c] \notin {"return", "publish", "drain_return", "drain_publish"} => batch'[c] = {},
           ExclusiveOwnership', NothingLost'
    PROVE  Accounted'
  BY CountersKept, TransitKept DEF Accounted

\* Redistribute, for a step that takes nothing from the arena.
LEMMA Shuffle ==
    ASSUME OwnInv, NEW c \in Caches, Frame(c), next' = next,
           Apart(Live', CentralHeld(pool'), inbox'.pending, others',
                 Held(cache'[c]), remote'[c].pending, batch'[c], SpanBlocks(c)'),
           Joined(Live', CentralHeld(pool'), inbox'.pending, others',
                  Held(cache'[c]), remote'[c].pending, batch'[c], SpanBlocks(c)')
             = Joined(Live, CentralHeld(pool), inbox.pending, others,
                      Held(cache[c]), remote[c].pending, batch[c], SpanBlocks(c))
    PROVE  ExclusiveOwnership' /\ NothingLost'
<1> DEFINE n == 0
<1>1. next \in Nat /\ n \in Nat /\ next' = next + n /\ next .. next + n - 1 = {}
  BY OwnFacts
<1>2. \A d \in Caches \ {c} :
              /\ cache'[d] = cache[d] /\ remote'[d] = remote[d]
              /\ batch'[d] = batch[d] /\ span'[d] = span[d]
  BY DEF Frame
<1>3. ExclusiveOwnership /\ NothingLost
  BY DEF OwnInv, Accounted
<1> HIDE DEF n
<1>4. Joined(Live', CentralHeld(pool'), inbox'.pending, others',
                  Held(cache'[c]), remote'[c].pending, batch'[c], SpanBlocks(c)')
             = Joined(Live, CentralHeld(pool), inbox.pending, others,
                      Held(cache[c]), remote[c].pending, batch[c], SpanBlocks(c))
               \cup (next .. next + n - 1)
  BY <1>1
<1> QED
  BY <1>1, <1>2, <1>3, <1>4, Redistribute

-----------------------------------------------------------------------------
(***************************************************************************)
(* One lemma per operation: which blocks it moves from where to where.     *)
(***************************************************************************)

\* An allocation adds its block to those in use.
LEMMA LiveTake ==
    ASSUME OwnInv, NEW b \in Addr, NEW size \in Sizes, NEW o,
           grant' = [grant EXCEPT ![b] = [size |-> size, owner |-> o]]
    PROVE  Live' = Live \cup {b}
<1> DEFINE g == [size |-> size, owner |-> o]
<1>1. grant \in [Addr -> Grant] /\ size # 0 /\ g.size = size
  BY SmallPathAssumption DEF OwnInv, TypeInv, TypeOK, Grant
<1> HIDE DEF g
<1>2. \A a \in Addr : grant'[a].size # 0 <=> grant[a].size # 0 \/ a = b
  <2>1. \A a \in Addr : grant'[a] = IF a = b THEN g ELSE grant[a]
    BY <1>1 DEF g
  <2> QED
    BY <1>1, <2>1
<1> QED
  BY <1>2 DEF Live

\* An accepted free takes its block out of those in use; it was one of them.
LEMMA LiveFree ==
    ASSUME OwnInv, NEW c \in Caches, NEW b \in Addr, Accepted(c, b)
    PROVE  Live' = Live \ {b} /\ b \in Live /\ pc[c] = "idle"
<1>1. grant \in [Addr -> Grant] /\ grant' = [grant EXCEPT ![b] = NoGrant] /\ NoGrant.size = 0
  BY DEF OwnInv, TypeInv, TypeOK, Grant, Accepted, NoGrant
<1>2. \A a \in Addr : grant'[a].size # 0 <=> grant[a].size # 0 /\ a # b
  <2>1. \A a \in Addr : grant'[a] = IF a = b THEN NoGrant ELSE grant[a]
    BY <1>1
  <2> QED
    BY <1>1, <2>1
<1>3. b \in Live
  BY DEF OwnInv, StaleFreeRejected, Accepted
<1> QED
  BY <1>2, <1>3 DEF Live, Accepted

\* pop_block and the stamped header: one block from the thread's cache to its caller.
LEMMA TakeAccounted ==
    ASSUME OwnInv, NEW c \in Caches, NEW size \in Sizes, TakeBlock(c, size),
           pc[c] \in {"idle", "pop"},
           pc' = [pc EXCEPT ![c] = "idle"],
           UNCHANGED <<next, others, pool, inbox, remote, span, batch>>
    PROVE  Accounted'
<1>1. PICK pop \in PopBlock(cache[c]) :
        /\ cache' = [cache EXCEPT ![c] = pop.cache]
        /\ grant' = [grant EXCEPT ![pop.block] = [size |-> size, owner |-> id[c]]]
  BY DEF TakeBlock
<1>2. PopSound(cache[c], pop) /\ pop.block \in Addr
  BY OwnFacts, PopBlockSound, PopBlockTyped, SoundParts DEF PopTyped, CacheSound
<1>3. cache'[c] = pop.cache /\ Frame(c) /\ pc'[c] = "idle"
  BY <1>1 DEF OwnInv, TypeInv, TypeOK, Frame
<1>4. /\ CacheSound(cache'[c]) /\ SameSlabs(cache[c], cache'[c])
      /\ Held(cache'[c]) = Held(cache[c]) \ {pop.block}
      /\ pop.block \in Held(cache[c])
  BY <1>2, <1>3 DEF PopSound, Taken
<1>5. Live' = Live \cup {pop.block}
  BY <1>1, <1>2, LiveTake
<1>6. span[c] = NoSpan /\ batch[c] = {}
  BY DEF OwnInv, Accounted, InTransit
<1>7. Layout'
  BY <1>3, <1>4, LayoutSame
<1>8. SpanBlocks(c)' = SpanBlocks(c)
  BY DEF SpanBlocks
<1>9. ExclusiveOwnership' /\ NothingLost'
  <2> DEFINE L == Live
             C == CentralHeld(pool)
             I == inbox.pending
             H == Held(cache[c])
             R == remote[c].pending
             B == batch[c]
             S == SpanBlocks(c)
             b == pop.block
  <2>1. Apart(L, C, I, others, H, R, B, S)
    BY SplitAt DEF OwnInv, Accounted
  <2> HIDE DEF L, C, I, H, R, B, S, b
  <2>2. b \in H
    BY <1>4 DEF b, H
  <2>3. Apart(L \cup {b}, C, I, others, H \ {b}, R, B, S)
    BY <2>1, <2>2 DEF Apart, Disjoint
  <2>4. Joined(L \cup {b}, C, I, others, H \ {b}, R, B, S) = Joined(L, C, I, others, H, R, B, S)
    BY <2>2 DEF Joined
  <2> QED
    BY <1>3, <1>4, <1>5, <1>8, <2>3, <2>4, Shuffle DEF L, C, I, H, R, B, S, b
<1> QED
  BY <1>3, <1>4, <1>6, <1>7, <1>9, OwnFacts, Settle

\* A refill moves the inbox into the pool and some blocks G of the pool into the cache.
LEMMA RefillAccounted ==
    ASSUME OwnInv, NEW c \in Caches, NEW G, NEW l \in {"pop", "carve"}, pc[c] = "idle",
           PoolSound(pool'), SameLayout(pool, pool'),
           CentralHeld(pool') = (CentralHeld(pool) \cup inbox.pending) \ G,
           G \subseteq CentralHeld(pool) \cup inbox.pending,
           inbox'.pending = {}, inbox'.pending_len = Cardinality(inbox'.pending),
           \A d \in Caches \ {c} : cache'[d] = cache[d],
           CacheSound(cache'[c]), Held(cache'[c]) = Held(cache[c]) \cup G,
           \A s \in KnownSlabs(cache'[c]) :
              s \in Registered(pool) /\ pool[s].capacity = cache'[c].slabs[s].capacity,
           pc' = [pc EXCEPT ![c] = l],
           UNCHANGED <<next, others, remote, span, batch, grant>>
    PROVE  Accounted'
<1>1. Frame(c) /\ pc'[c] = l
  BY DEF OwnInv, TypeInv, TypeOK, Frame
<1>2. span[c] = NoSpan /\ batch[c] = {}
  BY DEF OwnInv, Accounted, InTransit
<1>3. Layout'
  BY <1>1, LayoutKept
<1>4. SpanBlocks(c)' = SpanBlocks(c) /\ Live' = Live
  BY DEF SpanBlocks, Live
<1>5. ExclusiveOwnership' /\ NothingLost'
  <2> DEFINE L == Live
             C == CentralHeld(pool)
             I == inbox.pending
             H == Held(cache[c])
             R == remote[c].pending
             B == batch[c]
             S == SpanBlocks(c)
  <2>1. Apart(L, C, I, others, H, R, B, S)
    BY SplitAt DEF OwnInv, Accounted
  <2> HIDE DEF L, C, I, H, R, B, S
  <2>2. G \subseteq C \cup I
    BY DEF C, I
  <2>3. Apart(L, (C \cup I) \ G, {}, others, H \cup G, R, B, S)
    BY <2>1, <2>2 DEF Apart, Disjoint
  <2>4. Joined(L, (C \cup I) \ G, {}, others, H \cup G, R, B, S)
          = Joined(L, C, I, others, H, R, B, S)
    BY <2>2 DEF Joined
  <2> QED
    BY <1>1, <1>4, <2>3, <2>4, Shuffle DEF L, C, I, H, R, B, S
<1> QED
  BY <1>1, <1>2, <1>3, <1>5, OwnFacts, Settle

\* take_partial_batch: from the drained pool to the shared list.
LEMMA RefillBatchAccounted ==
    ASSUME OwnInv, NEW c \in Caches, NEW size \in Sizes, RefillBatch(c, size)
    PROVE  Accounted'
<1>0. PICK p \in Drained : \E s \in BatchSlabs(p) :
      \E B \in Batches(Least(RefillCount, Cardinality(p[s].partial_free)), p[s].partial_free) :
      \E r \in Sweep(TakePartialBatch(p, s, B)) :
            /\ PoolSection(p, TakePartialBatch(p, s, B), r)
            /\ cache' = [cache EXCEPT ![c] = PushSharedBatch(@, B)]
  BY DEF RefillBatch
<1>1. PICK s \in BatchSlabs(p) :
      \E B \in Batches(Least(RefillCount, Cardinality(p[s].partial_free)), p[s].partial_free) :
      \E r \in Sweep(TakePartialBatch(p, s, B)) :
            /\ PoolSection(p, TakePartialBatch(p, s, B), r)
            /\ cache' = [cache EXCEPT ![c] = PushSharedBatch(@, B)]
  BY <1>0
<1>2. PICK B \in Batches(Least(RefillCount, Cardinality(p[s].partial_free)), p[s].partial_free) :
      \E r \in Sweep(TakePartialBatch(p, s, B)) :
            /\ PoolSection(p, TakePartialBatch(p, s, B), r)
            /\ cache' = [cache EXCEPT ![c] = PushSharedBatch(@, B)]
  BY <1>1
<1> DEFINE q == TakePartialBatch(p, s, B)
           w == PushSharedBatch(cache[c], B)
<1>3. PICK r \in Sweep(q) :
            /\ PoolSection(p, q, r)
            /\ cache' = [cache EXCEPT ![c] = w]
  BY <1>2
<1>4. /\ PoolSound(p) /\ SameLayout(pool, p)
      /\ CentralHeld(p) = CentralHeld(pool) \cup inbox.pending
  BY DrainedSound
<1>5. s \in Bucket(p, "Partial") /\ s \in Addr /\ B \in SUBSET p[s].partial_free
  BY DEF BatchSlabs, Bucket, Batches
<1>6. /\ PoolSound(q) /\ SameLayout(p, q) /\ CentralHeld(q) = CentralHeld(p) \ B
      /\ B \in SUBSET Linked(p)
  BY <1>4, <1>5, TakePartialSound
<1> HIDE DEF q
<1>7. PoolSound(r) /\ SameLayout(q, r) /\ CentralHeld(r) = CentralHeld(q)
  BY <1>6, SweepSound
<1>8. B \subseteq CentralHeld(p) /\ B \in SUBSET Addr
  BY <1>4, <1>6, HeldInArea
<1>9. Disjoint(B, Held(cache[c]))
  <2>1. CacheSound(cache[c]) /\ cache[c].total_len = 0
    BY OwnFacts DEF RefillBatch
  <2> QED
    BY <2>1, EmptyCache DEF Disjoint
<1>10. /\ CacheSound(w) /\ SameSlabs(cache[c], w)
       /\ Held(w) = Held(cache[c]) \cup B
  BY <1>5, <1>8, <1>9, OwnFacts, PushSharedSound
<1> HIDE DEF w
<1>11. cache'[c] = w /\ \A d \in Caches \ {c} : cache'[d] = cache[d]
  BY <1>3 DEF OwnInv, TypeInv, TypeOK
<1>12. pool' = r /\ inbox'.pending = {} /\ inbox'.pending_len = Cardinality(inbox'.pending)
  BY <1>3, SectionEmptiesInbox
<1>13. SameLayout(pool, pool')
  BY <1>4, <1>6, <1>7, <1>12 DEF SameLayout
<1>14. CentralHeld(pool') = (CentralHeld(pool) \cup inbox.pending) \ B
  BY <1>4, <1>6, <1>7, <1>12
<1>15. /\ pc[c] = "idle" /\ pc' = [pc EXCEPT ![c] = "pop"]
       /\ UNCHANGED <<next, others, remote, span, batch, grant>>
  BY DEF RefillBatch
<1> QED
  BY <1>4, <1>7, <1>8, <1>10, <1>11, <1>12, <1>13, <1>14, <1>15, KnownKept, RefillAccounted

\* loan_whole_slab: a full slab of the drained pool to the cache.
LEMMA RefillSlabAccounted ==
    ASSUME OwnInv, NEW c \in Caches, NEW size \in Sizes, RefillSlab(c, size)
    PROVE  Accounted'
<1>0. PICK p \in Drained : \E s \in LoanableSlabs(p) :
      \E r \in Sweep(LoanWholeSlab(p, s)) :
            /\ PoolSection(p, LoanWholeSlab(p, s), r)
            /\ cache' = [cache EXCEPT ![c] = PushOwnedSlab(@, s, p[s].capacity)]
  BY DEF RefillSlab
<1>1. PICK s \in LoanableSlabs(p) :
      \E r \in Sweep(LoanWholeSlab(p, s)) :
            /\ PoolSection(p, LoanWholeSlab(p, s), r)
            /\ cache' = [cache EXCEPT ![c] = PushOwnedSlab(@, s, p[s].capacity)]
  BY <1>0
<1> DEFINE q == LoanWholeSlab(p, s)
           n == p[s].capacity
           w == PushOwnedSlab(cache[c], s, n)
           G == SlabBlocks(p, s)
<1>2. PICK r \in Sweep(q) :
            /\ PoolSection(p, q, r)
            /\ cache' = [cache EXCEPT ![c] = w]
  BY <1>1
<1>3. /\ PoolSound(p) /\ SameLayout(pool, p)
      /\ CentralHeld(p) = CentralHeld(pool) \cup inbox.pending
  BY DrainedSound
<1>4. /\ PoolSound(q) /\ SameLayout(p, q) /\ CentralHeld(q) = CentralHeld(p) \ G
      /\ G \in SUBSET CentralHeld(p) /\ s \in Registered(p)
  BY <1>3, LoanSound
<1> HIDE DEF q
<1>5. PoolSound(r) /\ SameLayout(q, r) /\ CentralHeld(r) = CentralHeld(q)
  BY <1>4, SweepSound
<1>6. /\ s \in Addr /\ n \in Nat \ {0} /\ s + n <= ArenaBlocks /\ G = s .. s + n - 1
      /\ s \in Registered(pool) /\ pool[s].capacity = n
  <2>1. s \in Registered(pool) /\ s \in Addr /\ pool[s].capacity = n
    BY <1>3, <1>4, SameArea DEF SameLayout, Registered
  <2>2. n \in Nat \ {0} /\ s + n <= ArenaBlocks
    BY <1>3, <1>4, <2>1 DEF PoolSound, PoolTyped, Pool, SlabRecord
  <2> QED
    BY <2>1, <2>2 DEF SlabBlocks
<1>7. Held(cache[c]) = {}
  <2>1. CacheSound(cache[c]) /\ cache[c].total_len = 0
    BY OwnFacts DEF RefillSlab
  <2> QED
    BY <2>1, EmptyCache
<1>8. s \in KnownSlabs(cache[c]) => cache[c].slabs[s].capacity = n
  BY <1>6 DEF OwnInv, Accounted, Layout, SlabsAgree
<1> HIDE DEF n, G
<1>9. Disjoint(s .. s + n - 1, Held(cache[c]))
  BY <1>7 DEF Disjoint
<1>10. /\ CacheSound(w)
       /\ Held(w) = Held(cache[c]) \cup (s .. s + n - 1)
       /\ w.slabs[s].capacity = n
       /\ \A t \in Addr \ {s} : w.slabs[t].capacity = cache[c].slabs[t].capacity
  BY <1>6, <1>8, <1>9, OwnFacts, PushOwnedSound
<1> HIDE DEF w
<1>11. \A t \in KnownSlabs(w) : t \in Registered(pool) /\ pool[t].capacity = w.slabs[t].capacity
  BY <1>6, <1>10 DEF OwnInv, Accounted, Layout, SlabsAgree, KnownSlabs
<1>12. cache'[c] = w /\ \A d \in Caches \ {c} : cache'[d] = cache[d]
  BY <1>2 DEF OwnInv, TypeInv, TypeOK
<1>13. pool' = r /\ inbox'.pending = {} /\ inbox'.pending_len = Cardinality(inbox'.pending)
  BY <1>2, SectionEmptiesInbox
<1>14. SameLayout(pool, pool')
  BY <1>3, <1>4, <1>5, <1>13 DEF SameLayout
<1>15. /\ CentralHeld(pool') = (CentralHeld(pool) \cup inbox.pending) \ G
       /\ G \subseteq CentralHeld(pool) \cup inbox.pending
       /\ Held(cache'[c]) = Held(cache[c]) \cup G
  BY <1>3, <1>4, <1>5, <1>6, <1>10, <1>12, <1>13
<1>16. /\ pc[c] = "idle" /\ pc' = [pc EXCEPT ![c] = "pop"]
       /\ UNCHANGED <<next, others, remote, span, batch, grant>>
  BY DEF RefillSlab
<1> QED
  BY <1>5, <1>10, <1>11, <1>12, <1>13, <1>14, <1>15, <1>16, RefillAccounted

\* CentralRefill::Empty: the inbox was drained all the same.
LEMMA RefillMissAccounted ==
    ASSUME OwnInv, NEW c \in Caches, NEW size \in Sizes, RefillMiss(c, size)
    PROVE  Accounted'
<1>1. PICK p \in Drained : PoolSection(p, p, p)
  BY DEF RefillMiss
<1>2. /\ PoolSound(p) /\ SameLayout(pool, p)
      /\ CentralHeld(p) = CentralHeld(pool) \cup inbox.pending
  BY DrainedSound
<1>3. pool' = p /\ inbox'.pending = {} /\ inbox'.pending_len = Cardinality(inbox'.pending)
  BY <1>1, SectionEmptiesInbox
<1>4. /\ pc[c] = "idle" /\ pc' = [pc EXCEPT ![c] = "carve"] /\ cache' = cache
      /\ UNCHANGED <<next, others, remote, span, batch, grant>>
  BY DEF RefillMiss
<1> DEFINE G == {}
<1>5. /\ CentralHeld(pool') = (CentralHeld(pool) \cup inbox.pending) \ G
      /\ G \subseteq CentralHeld(pool) \cup inbox.pending
      /\ Held(cache'[c]) = Held(cache[c]) \cup G
  BY <1>2, <1>3, <1>4
<1>6. \A s \in KnownSlabs(cache'[c]) :
         s \in Registered(pool) /\ pool[s].capacity = cache'[c].slabs[s].capacity
  BY <1>4 DEF OwnInv, Accounted, Layout, SlabsAgree
<1> HIDE DEF G
<1> QED
  BY <1>2, <1>3, <1>4, <1>5, <1>6, OwnFacts, RefillAccounted

-----------------------------------------------------------------------------
\* Slabs lie below `next`.
LEMMA AreaBelow ==
    ASSUME OwnInv, NEW c \in Caches
    PROVE  SlabArea(pool) \subseteq 0 .. next - 1
<1>1. PoolSound(pool) /\ next \in Nat
  BY OwnFacts
<1>2. ASSUME NEW s \in Registered(pool) PROVE SlabBlocks(pool, s) \subseteq 0 .. next - 1
  <2>1. s \in Nat /\ pool[s].capacity \in Nat
    BY <1>1, SlabFacts, AddrNat DEF Registered, SlabRecord
  <2>2. s + pool[s].capacity <= next
    BY DEF OwnInv, Accounted, Layout, Parcelled
  <2> QED
    BY <1>1, <2>1, <2>2 DEF SlabBlocks
<1> QED
  BY <1>2 DEF SlabArea

\* reserve_block_span: new blocks of the arena to the thread's span.
LEMMA CarveAccounted ==
    ASSUME OwnInv, NEW c \in Caches, Carve(c)
    PROVE  Accounted'
<1> DEFINE n  == Least(RefillCount, ArenaBlocks - next)
           sp == [start |-> next, count |-> n]
           N  == next .. next + n - 1
<1>1. /\ pc[c] = "carve" /\ n # 0
      /\ span' = [span EXCEPT ![c] = sp]
      /\ next' = next + n
      /\ pc' = [pc EXCEPT ![c] = "register"]
      /\ UNCHANGED <<others, pool, inbox, cache, remote, batch, grant>>
  BY DEF Carve
<1>2. next \in Nat /\ n \in Nat
  BY OwnFacts, SmallPathAssumption, ArenaBlocksAssumption DEF Least
<1> HIDE DEF n
<1>3. sp.start = next /\ sp.count = n
  OBVIOUS
<1> HIDE DEF sp
<1>4. Frame(c) /\ span'[c] = sp /\ pc'[c] = "register"
  BY <1>1 DEF OwnInv, TypeInv, TypeOK, Frame
<1>5. span[c] = NoSpan /\ batch[c] = {} /\ SpanBlocks(c) = {}
  BY <1>1, NoSpanEmpty DEF OwnInv, Accounted, InTransit
<1>6. SpanBlocks(c)' = N /\ \A d \in Caches \ {c} : SpanBlocks(d)' = SpanBlocks(d)
  BY <1>3, <1>4 DEF SpanBlocks, Frame
<1>7. 0 .. next' - 1 = (0 .. next - 1) \cup N /\ Disjoint(N, 0 .. next - 1)
  BY <1>1, <1>2 DEF Disjoint
<1> HIDE DEF N
<1>8. Layout'
  <2>1. \A s \in Registered(pool) : s + pool[s].capacity <= next'
    <3>1. ASSUME NEW s \in Registered(pool) PROVE s + pool[s].capacity <= next'
      <4>1. s \in Nat /\ pool[s].capacity \in Nat
        BY OwnFacts, SlabFacts, AddrNat DEF Registered, SlabRecord
      <4>2. s + pool[s].capacity <= next
        BY DEF OwnInv, Accounted, Layout, Parcelled
      <4> QED
        BY <1>1, <1>2, <4>1, <4>2
    <3> QED
      BY <3>1
  <2>2. \A d \in Caches : Disjoint(SlabArea(pool), SpanBlocks(d)')
    BY <1>6, <1>7, AreaBelow DEF OwnInv, Accounted, Layout, Parcelled, Disjoint
  <2>3. 0 .. next' - 1 \subseteq SlabArea(pool) \cup others \cup UNION {SpanBlocks(d)' : d \in Caches}
    <3>1. \A d \in Caches : SpanBlocks(d) \subseteq SpanBlocks(d)'
      BY <1>5, <1>6
    <3>2. N \subseteq UNION {SpanBlocks(d)' : d \in Caches}
      BY <1>6
    <3> QED
      BY <1>7, <3>1, <3>2 DEF OwnInv, Accounted, Layout, Parcelled
  <2>4. Parcelled'
    BY <1>1, <2>1, <2>2, <2>3 DEF OwnInv, Accounted, Layout, Parcelled
  <2>5. SlabsAgree'
    BY <1>1 DEF OwnInv, Accounted, Layout, SlabsAgree
  <2> QED
    BY <2>4, <2>5 DEF Layout
<1>9. ExclusiveOwnership' /\ NothingLost'
  <2> DEFINE L == Live
             C == CentralHeld(pool)
             I == inbox.pending
             H == Held(cache[c])
             R == remote[c].pending
             B == batch[c]
             S == SpanBlocks(c)
             J == Joined(L, C, I, others, H, R, B, S)
  <2>1. Apart(L, C, I, others, H, R, B, S) /\ J \subseteq 0 .. next - 1
    BY SplitAt DEF OwnInv, Accounted
  <2>2. Live' = L
    BY <1>1 DEF Live
  <2> HIDE DEF L, C, I, H, R, B, S
  <2>3. S = {}
    BY <1>5 DEF S
  <2>4. Apart(L, C, I, others, H, R, B, N)
    BY <1>7, <2>1 DEF Apart, Disjoint, Joined
  <2>5. Joined(L, C, I, others, H, R, B, N) = J \cup N
    BY <2>3 DEF Joined
  <2>6. \A d \in Caches \ {c} :
          /\ cache'[d] = cache[d] /\ remote'[d] = remote[d]
          /\ batch'[d] = batch[d] /\ span'[d] = span[d]
    BY <1>4 DEF Frame
  <2> QED
    BY <1>1, <1>2, <1>6, <2>2, <2>4, <2>5, <2>6, Redistribute
    DEF L, C, I, H, R, B, S, N, OwnInv, Accounted
<1> QED
  BY <1>1, <1>4, <1>5, <1>8, <1>9, OwnFacts, Settle

\* register_slab and push_owned_slab: the span becomes a slab, its blocks go to the cache.
LEMMA RegisterAccounted ==
    ASSUME OwnInv, NEW c \in Caches, Register(c)
    PROVE  Accounted'
<1> DEFINE start == span[c].start
           n == span[c].count
           q == RegisterSlab(pool, start, n)
           w == PushOwnedSlab(cache[c], start, n)
           G == start .. start + n - 1
<1>1. PICK r \in Sweep(q) : pool' = r
  BY DEF Register
<1>2. /\ pc[c] = "register"
      /\ cache' = [cache EXCEPT ![c] = w]
      /\ span' = [span EXCEPT ![c] = NoSpan]
      /\ pc' = [pc EXCEPT ![c] = "pop"]
      /\ UNCHANGED <<next, others, inbox, remote, batch, grant>>
  BY DEF Register
<1>3. /\ start \in Addr /\ start \in Nat /\ n \in Nat \ {0} /\ start + n <= ArenaBlocks
      /\ next \in Nat
  BY <1>2, OwnFacts, AddrNat DEF OwnInv, TypeInv, SpansFit
<1>4. SpanBlocks(c) = G /\ batch[c] = {}
  BY <1>2 DEF SpanBlocks, OwnInv, Accounted, InTransit
<1>5. Disjoint(SlabArea(pool), G)
  BY <1>4 DEF OwnInv, Accounted, Layout, Parcelled
<1>6. /\ Disjoint(G, Held(cache[c])) /\ Disjoint(G, others) /\ G \subseteq 0 .. next - 1
      /\ \A d \in Caches \ {c} : Disjoint(G, SpanBlocks(d))
  <2>1. G \subseteq Owned(c) /\ \A d \in Caches : SpanBlocks(d) \subseteq Owned(d)
    BY <1>4 DEF Owned
  <2>2. ExclusiveOwnership /\ NothingLost
    BY DEF OwnInv, Accounted
  <2> HIDE DEF G
  <2>3. Disjoint(G, Held(cache[c])) /\ Disjoint(G, others)
    BY <1>4, <2>1, <2>2 DEF ExclusiveOwnership, Disjoint
  <2>4. \A d \in Caches \ {c} : Disjoint(G, SpanBlocks(d))
    BY <2>1, <2>2 DEF ExclusiveOwnership, Disjoint
  <2>5. G \subseteq 0 .. next - 1
    BY <2>1, <2>2 DEF NothingLost
  <2> QED
    BY <2>3, <2>4, <2>5
<1>7. start + n <= next
  <2>1. start + n - 1 \in G
    BY <1>3
  <2> QED
    BY <1>3, <1>6, <2>1
<1>8. /\ PoolSound(q)
      /\ CentralHeld(q) = CentralHeld(pool)
      /\ Registered(q) = Registered(pool) \cup {start}
      /\ start \notin Registered(pool)
      /\ q[start].capacity = n
      /\ \A s \in Addr \ {start} : q[s] = pool[s]
      /\ SlabArea(q) = SlabArea(pool) \cup G
  BY <1>3, <1>5, OwnFacts, RegisterSound
<1> HIDE DEF q
<1>9. PoolSound(r) /\ SameLayout(q, r) /\ CentralHeld(r) = CentralHeld(q)
  BY <1>8, SweepSound
<1>10. Registered(r) = Registered(q) /\ SlabArea(r) = SlabArea(q)
  BY <1>9, SameArea
<1>11. start \notin KnownSlabs(cache[c])
  BY <1>8 DEF OwnInv, Accounted, Layout, SlabsAgree
<1>12. /\ CacheSound(w) /\ Held(w) = Held(cache[c]) \cup G
       /\ w.slabs[start].capacity = n
       /\ \A t \in Addr \ {start} : w.slabs[t].capacity = cache[c].slabs[t].capacity
  <2>1. CacheSound(cache[c])
    BY OwnFacts
  <2>2. Disjoint(start .. start + n - 1, Held(cache[c]))
    BY <1>6 DEF Disjoint
  <2>3. /\ start \in Addr /\ n \in Nat \ {0} /\ start + n <= ArenaBlocks
        /\ start \in KnownSlabs(cache[c]) => cache[c].slabs[start].capacity = n
    BY <1>3, <1>11
  <2> HIDE DEF start, n
  <2> QED
    BY <2>1, <2>2, <2>3, PushOwnedSound DEF G
<1> HIDE DEF w
<1>13. /\ Frame(c) /\ cache'[c] = w /\ span'[c] = NoSpan /\ pc'[c] = "pop"
  BY <1>2 DEF OwnInv, TypeInv, TypeOK, Frame
<1>14. SpanBlocks(c)' = {} /\ \A d \in Caches \ {c} : SpanBlocks(d)' = SpanBlocks(d)
  BY <1>13 DEF SpanBlocks, Frame, NoSpan
<1> HIDE DEF G, n, start
<1>15. Parcelled'
  <2>1. \A s \in Registered(r) : s + r[s].capacity <= next
    BY <1>7, <1>8, <1>9, <1>10 DEF OwnInv, Accounted, Layout, Parcelled, SameLayout, Registered
  <2>2. Disjoint(SlabArea(r), others)
    BY <1>6, <1>8, <1>10 DEF OwnInv, Accounted, Layout, Parcelled, Disjoint
  <2>3. \A d \in Caches : Disjoint(SlabArea(r), SpanBlocks(d)')
    BY <1>6, <1>8, <1>10, <1>14 DEF OwnInv, Accounted, Layout, Parcelled, Disjoint
  <2>4. 0 .. next - 1 \subseteq SlabArea(r) \cup others \cup UNION {SpanBlocks(d)' : d \in Caches}
    <3>1. \A d \in Caches : SpanBlocks(d) \subseteq G \cup SpanBlocks(d)'
      BY <1>4, <1>14
    <3> QED
      BY <1>8, <1>10, <3>1 DEF OwnInv, Accounted, Layout, Parcelled
  <2> QED
    BY <1>1, <1>2, <2>1, <2>2, <2>3, <2>4 DEF Parcelled
<1>16. SlabsAgree'
  <2>1. ASSUME NEW d \in Caches, NEW s \in KnownSlabs(cache'[d])
        PROVE  s \in Registered(r) /\ r[s].capacity = cache'[d].slabs[s].capacity
    <3>1. s \in Addr /\ r[s].capacity = q[s].capacity
      BY <1>9, <2>1 DEF KnownSlabs, SameLayout
    <3>2. CASE d = c /\ s = start
      BY <1>8, <1>10, <1>12, <1>13, <3>1, <3>2
    <3>3. CASE d # c \/ s # start
      <4>1. s \in KnownSlabs(cache[d]) /\ cache'[d].slabs[s].capacity = cache[d].slabs[s].capacity
        BY <1>12, <1>13, <2>1, <3>1, <3>3 DEF KnownSlabs, Frame
      <4>2. s \in Registered(pool) /\ pool[s].capacity = cache[d].slabs[s].capacity
        BY <4>1 DEF OwnInv, Accounted, Layout, SlabsAgree
      <4>3. s # start
        BY <1>8, <4>2
      <4> QED
        BY <1>8, <1>10, <3>1, <4>1, <4>2, <4>3
    <3> QED
      BY <3>2, <3>3
  <2> QED
    BY <1>1, <2>1 DEF SlabsAgree
<1>17. ExclusiveOwnership' /\ NothingLost'
  <2> DEFINE L == Live
             C == CentralHeld(pool)
             I == inbox.pending
             H == Held(cache[c])
             R == remote[c].pending
             B == batch[c]
  <2>1. Apart(L, C, I, others, H, R, B, G)
    BY <1>4, SplitAt DEF OwnInv, Accounted
  <2>2. Live' = L
    BY <1>2 DEF Live
  <2> HIDE DEF L, C, I, H, R, B
  <2>3. Apart(L, C, I, others, H \cup G, R, B, {})
    BY <2>1 DEF Apart, Disjoint
  <2>4. Joined(L, C, I, others, H \cup G, R, B, {}) = Joined(L, C, I, others, H, R, B, G)
    BY DEF Joined
  <2> QED
    BY <1>1, <1>2, <1>4, <1>8, <1>9, <1>12, <1>13, <1>14, <2>2, <2>3, <2>4, Shuffle
    DEF L, C, I, H, R, B
<1> QED
  BY <1>1, <1>2, <1>4, <1>9, <1>12, <1>13, <1>15, <1>16, <1>17, OwnFacts, Settle DEF Layout

-----------------------------------------------------------------------------
\* A free moves its block to the cache or the staging list of the freeing thread; from
\* there a batch may be detached in the same step.
LEMMA FreeAccounted ==
    ASSUME OwnInv, NEW c \in Caches, NEW b \in Addr, Accepted(c, b), Frame(c),
           CacheSound(cache'[c]), SameSlabs(cache[c], cache'[c]),
           remote'[c].pending_len = Cardinality(remote'[c].pending),
           Disjoint(Held(cache'[c]), remote'[c].pending \cup batch'[c]),
           Disjoint(remote'[c].pending, batch'[c]),
           Held(cache'[c]) \cup remote'[c].pending \cup batch'[c]
             = Held(cache[c]) \cup remote[c].pending \cup {b},
           pc'[c] # "register",
           pc'[c] \notin {"return", "publish", "drain_return", "drain_publish"} => batch'[c] = {},
           UNCHANGED <<next, others, pool, inbox, span>>
    PROVE  Accounted'
<1>1. Live' = Live \ {b} /\ b \in Live /\ pc[c] = "idle"
  BY LiveFree
<1>2. span[c] = NoSpan /\ batch[c] = {}
  BY <1>1 DEF OwnInv, Accounted, InTransit
<1>3. Layout'
  BY LayoutSame
<1>4. SpanBlocks(c)' = SpanBlocks(c)
  BY DEF SpanBlocks
<1>5. ExclusiveOwnership' /\ NothingLost'
  <2> DEFINE L  == Live
             C  == CentralHeld(pool)
             I  == inbox.pending
             H  == Held(cache[c])
             R  == remote[c].pending
             B  == batch[c]
             S  == SpanBlocks(c)
             H2 == Held(cache'[c])
             R2 == remote'[c].pending
             B2 == batch'[c]
  <2>1. Apart(L, C, I, others, H, R, B, S)
    BY SplitAt DEF OwnInv, Accounted
  <2> HIDE DEF L, C, I, H, R, B, S, H2, R2, B2
  <2>2. /\ b \in L /\ B = {}
        /\ Disjoint(H2, R2 \cup B2) /\ Disjoint(R2, B2) /\ H2 \cup R2 \cup B2 = H \cup R \cup {b}
    BY <1>1, <1>2 DEF L, B, H, R, H2, R2, B2
  <2>3. Apart(L \ {b}, C, I, others, H2, R2, B2, S)
    BY <2>1, <2>2 DEF Apart, Disjoint
  <2>4. Joined(L \ {b}, C, I, others, H2, R2, B2, S) = Joined(L, C, I, others, H, R, B, S)
    BY <2>2 DEF Joined
  <2> QED
    BY <1>1, <1>4, <2>3, <2>4, Shuffle DEF L, C, I, H, R, B, S, H2, R2, B2
<1> QED
  BY <1>2, <1>3, <1>5, OwnFacts, Settle

\* Where a block in use is not.
LEMMA LiveApart ==
    ASSUME OwnInv, NEW c \in Caches, NEW b \in Live
    PROVE  /\ b \notin Held(cache[c]) /\ b \notin remote[c].pending
           /\ Disjoint(Held(cache[c]), remote[c].pending)
  BY SplitAt DEF OwnInv, Accounted, Apart, Disjoint

\* The owner's free.
LEMMA FreeLocalAccounted ==
    ASSUME OwnInv, NEW c \in Caches, NEW b \in Addr, FreeLocal(c, b)
    PROVE  Accounted'
<1> DEFINE w == PushBlock(cache[c], b)
<1>1. /\ Accepted(c, b)
      /\ cache' = [cache EXCEPT ![c] = w]
      /\ UNCHANGED <<next, others, pool, inbox, remote, pc, span, batch>>
  BY DEF FreeLocal
<1>2. b \in Live /\ pc[c] = "idle"
  BY <1>1, LiveFree
<1>3. b \notin Held(cache[c]) /\ b \notin remote[c].pending /\ Disjoint(Held(cache[c]), remote[c].pending)
  BY <1>2, LiveApart
<1>4. CacheSound(w) /\ SameSlabs(cache[c], w) /\ Held(w) = Held(cache[c]) \cup {b}
  BY <1>3, OwnFacts, PushBlockSound
<1> HIDE DEF w
<1>5. Frame(c) /\ cache'[c] = w
  BY <1>1 DEF OwnInv, TypeInv, TypeOK, Frame
<1>6. batch[c] = {}
  BY <1>2 DEF OwnInv, Accounted, InTransit
<1>7. Disjoint(Held(w), remote[c].pending \cup batch[c]) /\ Disjoint(remote[c].pending, batch[c])
      /\ Held(w) \cup remote[c].pending \cup batch[c] = Held(cache[c]) \cup remote[c].pending \cup {b}
  BY <1>3, <1>4, <1>6 DEF Disjoint
<1> QED
  BY <1>1, <1>2, <1>4, <1>5, <1>6, <1>7, OwnFacts, FreeAccounted

\* The owner's free into a full cache: part of the cache goes into a batch.
LEMMA FreeLocalOverflowAccounted ==
    ASSUME OwnInv, NEW c \in Caches, NEW b \in Addr, FreeLocalOverflow(c, b)
    PROVE  Accounted'
<1> DEFINE w == PushBlock(cache[c], b)
<1>1. /\ Accepted(c, b)
      /\ pc' = [pc EXCEPT ![c] = "return"]
      /\ UNCHANGED <<next, others, pool, inbox, remote, span>>
  BY DEF FreeLocalOverflow
<1>2. PICK out \in PopBatch(w, DrainCount) :
        cache' = [cache EXCEPT ![c] = out.cache] /\ batch' = [batch EXCEPT ![c] = out.batch]
  BY DEF FreeLocalOverflow
<1>3. b \in Live
  BY <1>1, LiveFree
<1>4. b \notin Held(cache[c]) /\ b \notin remote[c].pending /\ Disjoint(Held(cache[c]), remote[c].pending)
  BY <1>3, LiveApart
<1>5. CacheSound(w) /\ SameSlabs(cache[c], w) /\ Held(w) = Held(cache[c]) \cup {b}
  BY <1>4, OwnFacts, PushBlockSound
<1> HIDE DEF w
<1>6. /\ CacheSound(out.cache) /\ SameSlabs(w, out.cache)
      /\ out.batch \in SUBSET Held(w) /\ Held(out.cache) = Held(w) \ out.batch
  BY <1>5, DrainCountNat, PopBatchSound DEF BatchSound, Taken
<1>7. /\ Frame(c) /\ cache'[c] = out.cache /\ batch'[c] = out.batch /\ pc'[c] = "return"
      /\ remote'[c] = remote[c]
  BY <1>1, <1>2 DEF OwnInv, TypeInv, TypeOK, Frame
<1>8. SameSlabs(cache[c], out.cache)
  BY <1>5, <1>6 DEF SameSlabs
<1>9. /\ Disjoint(Held(out.cache), remote[c].pending \cup out.batch)
      /\ Disjoint(remote[c].pending, out.batch)
      /\ Held(out.cache) \cup remote[c].pending \cup out.batch
           = Held(cache[c]) \cup remote[c].pending \cup {b}
  BY <1>4, <1>5, <1>6 DEF Disjoint
<1> QED
  BY <1>1, <1>6, <1>7, <1>8, <1>9, OwnFacts, FreeAccounted

\* Staging counts the block it adds.
LEMMA StagedExact ==
    ASSUME NEW l \in PendingList, l.pending_len = Cardinality(l.pending),
           NEW B \in SUBSET Addr, Disjoint(l.pending, B)
    PROVE  /\ PushPending(l, B).pending = l.pending \cup B
           /\ PushPending(l, B).pending_len = Cardinality(l.pending \cup B)
<1>1. l.pending \in SUBSET Addr
  BY DEF PendingList
<1>2. Cardinality(l.pending \cup B) = Cardinality(l.pending) + Cardinality(B)
  BY <1>1, CardDisjoint
<1> QED
  BY <1>2 DEF PushPending

\* Another thread's free: staged, or flushed with what was staged before.
LEMMA FreeRemoteAccounted ==
    ASSUME OwnInv, NEW c \in Caches, NEW b \in Addr, FreeRemote(c, b) \/ FreeRemoteFlush(c, b)
    PROVE  Accounted'
<1> DEFINE staged == PushPending(remote[c], {b})
<1>1. Accepted(c, b) /\ UNCHANGED <<next, others, pool, inbox, cache, span>>
  BY DEF FreeRemote, FreeRemoteFlush
<1>2. b \in Live /\ pc[c] = "idle"
  BY <1>1, LiveFree
<1>3. b \notin Held(cache[c]) /\ b \notin remote[c].pending /\ Disjoint(Held(cache[c]), remote[c].pending)
  BY <1>2, LiveApart
<1>4. staged.pending = remote[c].pending \cup {b} /\ staged.pending_len = Cardinality(staged.pending)
  <2> DEFINE N == {b}
  <2>1. N \in SUBSET Addr /\ Disjoint(remote[c].pending, N)
    BY <1>3 DEF Disjoint
  <2> HIDE DEF N
  <2>2. /\ PushPending(remote[c], N).pending = remote[c].pending \cup N
        /\ PushPending(remote[c], N).pending_len = Cardinality(remote[c].pending \cup N)
    BY <2>1, OwnFacts, StagedExact
  <2> QED
    BY <2>2 DEF N
<1>5. batch[c] = {}
  BY <1>2 DEF OwnInv, Accounted, InTransit
<1>6. SameSlabs(cache[c], cache'[c]) /\ cache'[c] = cache[c]
  BY <1>1 DEF SameSlabs
<1>7. CASE FreeRemote(c, b)
  <2>1. remote' = [remote EXCEPT ![c] = staged] /\ UNCHANGED <<pc, batch>>
    BY <1>7 DEF FreeRemote
  <2> HIDE DEF staged
  <2>2. Frame(c) /\ remote'[c] = staged /\ batch'[c] = {} /\ pc'[c] = "idle"
    BY <1>1, <1>2, <1>5, <2>1 DEF OwnInv, TypeInv, TypeOK, Frame
  <2>3. /\ Disjoint(Held(cache[c]), staged.pending \cup {}) /\ Disjoint(staged.pending, {})
        /\ Held(cache[c]) \cup staged.pending \cup {} = Held(cache[c]) \cup remote[c].pending \cup {b}
    BY <1>3, <1>4 DEF Disjoint
  <2> QED
    BY <1>1, <1>4, <1>6, <2>2, <2>3, OwnFacts, FreeAccounted
<1>8. CASE FreeRemoteFlush(c, b)
  <2>1. /\ remote' = [remote EXCEPT ![c] = NoPending]
        /\ batch' = [batch EXCEPT ![c] = staged.pending]
        /\ pc' = [pc EXCEPT ![c] = "publish"]
    BY <1>8 DEF FreeRemoteFlush
  <2> HIDE DEF staged
  <2>2. Frame(c) /\ remote'[c] = NoPending /\ batch'[c] = staged.pending /\ pc'[c] = "publish"
    BY <1>1, <2>1 DEF OwnInv, TypeInv, TypeOK, Frame
  <2>3. remote'[c].pending = {} /\ remote'[c].pending_len = Cardinality(remote'[c].pending)
    BY <2>2, CardSmall DEF NoPending
  <2>4. /\ Disjoint(Held(cache[c]), {} \cup staged.pending) /\ Disjoint({}, staged.pending)
        /\ Held(cache[c]) \cup {} \cup staged.pending = Held(cache[c]) \cup remote[c].pending \cup {b}
    BY <1>3, <1>4 DEF Disjoint
  <2> QED
    BY <1>1, <1>6, <2>2, <2>3, <2>4, OwnFacts, FreeAccounted
<1> QED
  BY <1>7, <1>8

-----------------------------------------------------------------------------
\* A step outside the arena and the callers: blocks move between pool, inbox, cache,
\* staging list and batch.
LEMMA TransferAccounted ==
    ASSUME OwnInv, NEW c \in Caches, Frame(c),
           PoolSound(pool'), SameLayout(pool, pool'), CacheSound(cache'[c]),
           \A s \in KnownSlabs(cache'[c]) :
              s \in Registered(pool) /\ pool[s].capacity = cache'[c].slabs[s].capacity,
           inbox'.pending_len = Cardinality(inbox'.pending),
           remote'[c].pending_len = Cardinality(remote'[c].pending),
           Apart({}, CentralHeld(pool'), inbox'.pending, {},
                 Held(cache'[c]), remote'[c].pending, batch'[c], {}),
           Joined({}, CentralHeld(pool'), inbox'.pending, {},
                  Held(cache'[c]), remote'[c].pending, batch'[c], {})
             = Joined({}, CentralHeld(pool), inbox.pending, {},
                      Held(cache[c]), remote[c].pending, batch[c], {}),
           pc[c] # "register", pc'[c] # "register",
           pc'[c] \notin {"return", "publish", "drain_return", "drain_publish"} => batch'[c] = {},
           UNCHANGED <<next, others, span, grant>>
    PROVE  Accounted'
<1>1. span[c] = NoSpan
  BY DEF OwnInv, Accounted, InTransit
<1>2. Layout'
  BY LayoutKept
<1>3. SpanBlocks(c)' = SpanBlocks(c) /\ Live' = Live
  BY DEF SpanBlocks, Live
<1>4. ExclusiveOwnership' /\ NothingLost'
  <2> DEFINE L  == Live
             C  == CentralHeld(pool)
             I  == inbox.pending
             H  == Held(cache[c])
             R  == remote[c].pending
             B  == batch[c]
             S  == SpanBlocks(c)
             C2 == CentralHeld(pool')
             I2 == inbox'.pending
             H2 == Held(cache'[c])
             R2 == remote'[c].pending
             B2 == batch'[c]
  <2>1. Apart(L, C, I, others, H, R, B, S)
    BY SplitAt DEF OwnInv, Accounted
  <2> HIDE DEF L, C, I, H, R, B, S, C2, I2, H2, R2, B2
  <2>2. /\ Apart({}, C2, I2, {}, H2, R2, B2, {})
        /\ Joined({}, C2, I2, {}, H2, R2, B2, {}) = Joined({}, C, I, {}, H, R, B, {})
    BY DEF C, I, H, R, B, C2, I2, H2, R2, B2
  <2>3. C2 \cup I2 \cup H2 \cup R2 \cup B2 = C \cup I \cup H \cup R \cup B
    BY <2>2 DEF Joined
  <2>4. Apart(L, C2, I2, others, H2, R2, B2, S)
    BY <2>1, <2>2, <2>3 DEF Apart, Disjoint
  <2>5. Joined(L, C2, I2, others, H2, R2, B2, S) = Joined(L, C, I, others, H, R, B, S)
    BY <2>3 DEF Joined
  <2> QED
    BY <1>3, <2>4, <2>5, Shuffle DEF L, C, I, H, R, B, S, C2, I2, H2, R2, B2
<1> QED
  BY <1>1, <1>2, <1>4, Settle

\* The five sets a transfer works on.
LEMMA FiveApart ==
    ASSUME OwnInv, NEW c \in Caches
    PROVE  Apart({}, CentralHeld(pool), inbox.pending, {},
                 Held(cache[c]), remote[c].pending, batch[c], {})
  BY SplitAt DEF OwnInv, Accounted, Apart, Disjoint

\* return_batch: the inbox and the thread's batch go to the pool.
LEMMA ReturnAccounted ==
    ASSUME OwnInv, NEW c \in Caches, Return(c)
    PROVE  Accounted'
<1> DEFINE C == CentralHeld(pool)
           I == inbox.pending
           H == Held(cache[c])
           R == remote[c].pending
           B == batch[c]
<1>1. PICK p \in Drained : \E r \in Returns(p, B) : PoolSection(p, ReturnBatch(p, B), r)
  BY DEF Return
<1>2. PICK r \in Returns(p, B) : PoolSection(p, ReturnBatch(p, B), r)
  BY <1>1
<1>3. /\ pc[c] \in {"return", "drain_return"}
      /\ batch' = [batch EXCEPT ![c] = {}]
      /\ pc' = [pc EXCEPT ![c] = IF pc[c] = "return" THEN "idle" ELSE "drain"]
      /\ UNCHANGED <<next, others, cache, remote, span, grant>>
  BY DEF Return
<1>4. /\ PoolSound(p) /\ SameLayout(pool, p) /\ SlabArea(p) = SlabArea(pool)
      /\ CentralHeld(p) = C \cup I
  BY DrainedSound
<1>5. Apart({}, C, I, {}, H, R, B, {})
  BY FiveApart
<1>6. B \in SUBSET SlabArea(p)
  BY <1>4, InSlabs
<1>7. Frame(c) /\ batch'[c] = {} /\ pc'[c] \in {"idle", "drain"} /\ cache'[c] = cache[c]
      /\ remote'[c] = remote[c]
  BY <1>3 DEF OwnInv, TypeInv, TypeOK, Frame
<1>8. pool' = r /\ inbox'.pending = {} /\ inbox'.pending_len = Cardinality(inbox'.pending)
  BY <1>2, SectionEmptiesInbox
<1> HIDE DEF C, I, H, R, B
<1>9. Disjoint(B, CentralHeld(p))
  BY <1>4, <1>5 DEF Apart, Disjoint
<1>10. PoolSound(r) /\ SameLayout(p, r) /\ CentralHeld(r) = CentralHeld(p) \cup B
  BY <1>4, <1>6, <1>9, ReturnsSound
<1>11. SameLayout(pool, pool')
  BY <1>4, <1>8, <1>10 DEF SameLayout
<1>12. /\ Apart({}, C \cup I \cup B, {}, {}, H, R, {}, {})
       /\ Joined({}, C \cup I \cup B, {}, {}, H, R, {}, {}) = Joined({}, C, I, {}, H, R, B, {})
  BY <1>5 DEF Apart, Joined, Disjoint
<1>13. CentralHeld(pool') = C \cup I \cup B
  BY <1>4, <1>8, <1>10
<1>14. \A s \in KnownSlabs(cache'[c]) :
         s \in Registered(pool) /\ pool[s].capacity = cache'[c].slabs[s].capacity
  BY <1>7 DEF OwnInv, Accounted, Layout, SlabsAgree
<1> QED
  BY <1>3, <1>7, <1>8, <1>10, <1>11, <1>12, <1>13, <1>14, OwnFacts, TransferAccounted
  DEF C, I, H, R, B

\* publish_remote_batch: the thread's batch goes to the inbox.
LEMMA PublishAccounted ==
    ASSUME OwnInv, NEW c \in Caches, Publish(c)
    PROVE  Accounted'
<1> DEFINE C == CentralHeld(pool)
           I == inbox.pending
           H == Held(cache[c])
           R == remote[c].pending
           B == batch[c]
<1>1. /\ pc[c] \in {"publish", "drain_publish"}
      /\ inbox' = PushPending(inbox, B)
      /\ batch' = [batch EXCEPT ![c] = {}]
      /\ pc' = [pc EXCEPT ![c] = IF pc[c] = "publish" THEN "idle" ELSE "drain"]
      /\ UNCHANGED <<next, others, pool, cache, remote, span, grant>>
  BY DEF Publish
<1>2. Apart({}, C, I, {}, H, R, B, {})
  BY FiveApart
<1>3. Frame(c) /\ batch'[c] = {} /\ pc'[c] \in {"idle", "drain"} /\ cache'[c] = cache[c]
      /\ remote'[c] = remote[c]
  BY <1>1 DEF OwnInv, TypeInv, TypeOK, Frame
<1>4. SameLayout(pool, pool')
  BY <1>1 DEF SameLayout
<1>5. inbox'.pending = I \cup B /\ inbox'.pending_len = Cardinality(inbox'.pending)
  <2>1. Disjoint(I, B)
    BY <1>2 DEF Apart, Disjoint
  <2>2. B \in SUBSET Addr /\ inbox \in PendingList /\ inbox.pending_len = Cardinality(inbox.pending)
    BY OwnFacts
  <2> HIDE DEF B
  <2> QED
    BY <1>1, <2>1, <2>2, StagedExact
<1> HIDE DEF C, I, H, R, B
<1>6. /\ Apart({}, C, I \cup B, {}, H, R, {}, {})
      /\ Joined({}, C, I \cup B, {}, H, R, {}, {}) = Joined({}, C, I, {}, H, R, B, {})
  BY <1>2 DEF Apart, Joined, Disjoint
<1>7. \A s \in KnownSlabs(cache'[c]) :
        s \in Registered(pool) /\ pool[s].capacity = cache'[c].slabs[s].capacity
  BY <1>3 DEF OwnInv, Accounted, Layout, SlabsAgree
<1>8. CentralHeld(pool') = C /\ PoolSound(pool')
  BY <1>1, OwnFacts DEF C
<1> QED
  BY <1>1, <1>3, <1>4, <1>5, <1>6, <1>7, <1>8, OwnFacts, TransferAccounted
  DEF C, I, H, R, B

\* drain_thread_cache starts with the staged remote frees.
LEMMA StartDrainAccounted ==
    ASSUME OwnInv, NEW c \in Caches, StartDrain(c)
    PROVE  Accounted'
<1> DEFINE C == CentralHeld(pool)
           I == inbox.pending
           H == Held(cache[c])
           R == remote[c].pending
           B == batch[c]
           l == IF remote[c].pending_len = 0 THEN "drain" ELSE "drain_publish"
<1>1. /\ pc[c] = "idle"
      /\ batch' = [batch EXCEPT ![c] = R]
      /\ remote' = [remote EXCEPT ![c] = NoPending]
      /\ pc' = [pc EXCEPT ![c] = l]
      /\ UNCHANGED <<next, others, pool, inbox, cache, span, grant>>
  BY DEF StartDrain
<1>2. Apart({}, C, I, {}, H, R, B, {}) /\ B = {}
  BY <1>1, FiveApart DEF OwnInv, Accounted, InTransit
<1>3. l = "drain" => R = {}
  BY OwnFacts, CardSmall
<1> HIDE DEF l
<1>4. /\ Frame(c) /\ batch'[c] = R /\ pc'[c] = l /\ cache'[c] = cache[c]
      /\ remote'[c] = NoPending
  BY <1>1 DEF OwnInv, TypeInv, TypeOK, Frame
<1>5. SameLayout(pool, pool') /\ l \in {"drain", "drain_publish"}
  BY <1>1 DEF SameLayout, l
<1>6. remote'[c].pending = {} /\ remote'[c].pending_len = Cardinality(remote'[c].pending)
  BY <1>4, CardSmall DEF NoPending
<1> HIDE DEF C, I, H, R, B
<1>7. /\ Apart({}, C, I, {}, H, {}, R, {})
      /\ Joined({}, C, I, {}, H, {}, R, {}) = Joined({}, C, I, {}, H, R, B, {})
  BY <1>2 DEF Apart, Joined, Disjoint
<1>8. \A s \in KnownSlabs(cache'[c]) :
        s \in Registered(pool) /\ pool[s].capacity = cache'[c].slabs[s].capacity
  BY <1>4 DEF OwnInv, Accounted, Layout, SlabsAgree
<1>9. CentralHeld(pool') = C /\ PoolSound(pool')
  BY <1>1, OwnFacts DEF C
<1> QED
  BY <1>1, <1>3, <1>4, <1>5, <1>6, <1>7, <1>8, <1>9, OwnFacts, TransferAccounted
  DEF C, I, H, R, B

\* pop_batch in the drain loop: from the cache into a batch.
LEMMA DrainPopAccounted ==
    ASSUME OwnInv, NEW c \in Caches, DrainPop(c)
    PROVE  Accounted'
<1> DEFINE C == CentralHeld(pool)
           I == inbox.pending
           H == Held(cache[c])
           R == remote[c].pending
           B == batch[c]
           max == cache[c].total_len
<1>1. PICK out \in PopBatch(cache[c], max) :
        cache' = [cache EXCEPT ![c] = out.cache] /\ batch' = [batch EXCEPT ![c] = out.batch]
  BY DEF DrainPop
<1>2. /\ pc[c] = "drain" /\ pc' = [pc EXCEPT ![c] = "drain_return"] /\ max # 0
      /\ UNCHANGED <<next, others, pool, inbox, remote, span, grant>>
  BY DEF DrainPop
<1>3. Apart({}, C, I, {}, H, R, B, {}) /\ B = {}
  BY <1>2, FiveApart DEF OwnInv, Accounted, InTransit
<1>4. max \in Nat /\ Addr # {}
  <2>1. max = Cardinality(H) /\ H \in SUBSET Addr
    BY OwnFacts, HeldInArena DEF CacheSound, CacheCoherent
  <2> QED
    BY <1>2, <2>1, AddrFinite, CardSmall
<1> HIDE DEF max
<1>5. /\ CacheSound(out.cache) /\ SameSlabs(cache[c], out.cache)
      /\ out.batch \in SUBSET H /\ Held(out.cache) = H \ out.batch
  BY <1>4, OwnFacts, PopBatchSound DEF BatchSound, Taken
<1>6. /\ Frame(c) /\ cache'[c] = out.cache /\ batch'[c] = out.batch /\ pc'[c] = "drain_return"
      /\ remote'[c] = remote[c]
  BY <1>1, <1>2 DEF OwnInv, TypeInv, TypeOK, Frame
<1>7. SameLayout(pool, pool')
  BY <1>2 DEF SameLayout
<1> HIDE DEF C, I, H, R, B
<1>8. /\ Apart({}, C, I, {}, H \ out.batch, R, out.batch, {})
      /\ Joined({}, C, I, {}, H \ out.batch, R, out.batch, {}) = Joined({}, C, I, {}, H, R, B, {})
  BY <1>3, <1>5 DEF Apart, Joined, Disjoint
<1>9. CentralHeld(pool') = C /\ PoolSound(pool')
  BY <1>2, OwnFacts DEF C
<1> QED
  BY <1>2, <1>5, <1>6, <1>7, <1>8, <1>9, OwnFacts, KnownKept, TransferAccounted
  DEF C, I, H, R, B

\* A drained cache that is dropped, or a call that ends, moves nothing.
LEMMA EndAccounted ==
    ASSUME OwnInv, NEW c \in Caches, OutOfMemory(c) \/ DrainDone(c) \/ ExitThread(c)
    PROVE  Accounted'
<1> DEFINE C == CentralHeld(pool)
           I == inbox.pending
           H == Held(cache[c])
           R == remote[c].pending
           B == batch[c]
<1>1. /\ pc[c] \in {"carve", "drain"} /\ pc' = [pc EXCEPT ![c] = "idle"]
      /\ UNCHANGED <<next, others, pool, inbox, remote, span, batch, grant>>
      /\ \/ cache' = cache
         \/ cache[c].total_len = 0 /\ cache' = [cache EXCEPT ![c] = NewClassCache]
  BY DEF OutOfMemory, DrainDone, ExitThread
<1>2. /\ CacheSound(cache'[c]) /\ Held(cache'[c]) = H
      /\ \A s \in KnownSlabs(cache'[c]) :
            s \in Registered(pool) /\ pool[s].capacity = cache'[c].slabs[s].capacity
  <2>1. CASE cache' = cache
    BY <2>1, OwnFacts DEF OwnInv, Accounted, Layout, SlabsAgree
  <2>2. CASE cache[c].total_len = 0 /\ cache' = [cache EXCEPT ![c] = NewClassCache]
    <3>1. cache'[c] = NewClassCache
      BY <2>2 DEF OwnInv, TypeInv, TypeOK
    <3>2. H = {}
      BY <2>2, OwnFacts, EmptyCache
    <3> QED
      BY <3>1, <3>2, NewCacheSound
  <2> QED
    BY <1>1, <2>1, <2>2
<1>3. Apart({}, C, I, {}, H, R, B, {}) /\ B = {}
  BY <1>1, FiveApart DEF OwnInv, Accounted, InTransit
<1>4. Frame(c) /\ pc'[c] = "idle" /\ batch'[c] = batch[c] /\ remote'[c] = remote[c]
  BY <1>1 DEF OwnInv, TypeInv, TypeOK, Frame
<1>5. SameLayout(pool, pool') /\ PoolSound(pool')
  BY <1>1, OwnFacts DEF SameLayout
<1> QED
  BY <1>1, <1>2, <1>3, <1>4, <1>5, OwnFacts, TransferAccounted

\* Another class takes a block of the arena that nobody had.
LEMMA ReserveAccounted ==
    ASSUME OwnInv, ReserveElsewhere
    PROVE  Accounted'
<1>1. /\ others' = others \cup {next} /\ next' = next + 1
      /\ UNCHANGED <<pool, inbox, cache, remote, id, pc, want, span, batch, grant>>
  BY DEF ReserveElsewhere
<1>2. next \in Nat /\ 0 .. next' - 1 = (0 .. next - 1) \cup {next} /\ next \notin 0 .. next - 1
  <2>1. next \in Nat
    BY ArenaBlocksAssumption DEF OwnInv, TypeInv, TypeOK
  <2> QED
    BY <1>1, <2>1
<1> DEFINE L == Live
           C == CentralHeld(pool)
           I == inbox.pending
           U == UNION {Owned(c) : c \in Caches}
<1>3. /\ Live' = L /\ CentralHeld(pool') = C /\ inbox'.pending = I
      /\ \A c \in Caches : Owned(c)' = Owned(c) /\ SpanBlocks(c)' = SpanBlocks(c)
  BY <1>1 DEF Live, Owned, SpanBlocks
<1>4. 0 .. next - 1 = L \cup C \cup I \cup others \cup U
  BY DEF OwnInv, Accounted, NothingLost
<1>5. next \notin L \cup C \cup I \cup U /\ \A c \in Caches : next \notin Owned(c)
  <2>1. \A c \in Caches : Owned(c) \subseteq U
    OBVIOUS
  <2> HIDE DEF L, C, I, U
  <2> QED
    BY <1>2, <1>4, <2>1
<1>6. ExclusiveOwnership'
  <2>1. Disjoint(others', L \cup C \cup I)
    BY <1>1, <1>5 DEF OwnInv, Accounted, ExclusiveOwnership, Disjoint
  <2>2. \A c \in Caches : Disjoint(Owned(c), L \cup C \cup I \cup others')
    BY <1>1, <1>5 DEF OwnInv, Accounted, ExclusiveOwnership, Disjoint
  <2> QED
    BY <1>1, <1>3, <2>1, <2>2 DEF OwnInv, Accounted, ExclusiveOwnership
<1>7. NothingLost'
  <2>1. U' = U
    BY <1>3
  <2> HIDE DEF L, C, I, U
  <2>2. 0 .. next' - 1 = L \cup C \cup I \cup others' \cup U
    BY <1>1, <1>2, <1>4
  <2> QED
    BY <1>3, <2>1, <2>2 DEF NothingLost, U
<1>8. Layout'
  <2>1. \A s \in Registered(pool) : s + pool[s].capacity <= next + 1
    <3>1. ASSUME NEW s \in Registered(pool) PROVE s + pool[s].capacity <= next + 1
      <4>1. s \in Nat /\ pool[s].capacity \in Nat
        BY AddrNat DEF OwnInv, TypeInv, TypeOK, Pool, SlabRecord, Registered
      <4>2. s + pool[s].capacity <= next
        BY DEF OwnInv, Accounted, Layout, Parcelled
      <4> QED
        BY <1>2, <4>1, <4>2
    <3> QED
      BY <3>1
  <2>2. next \notin SlabArea(pool)
    <3>1. ASSUME NEW s \in Registered(pool), next \in SlabBlocks(pool, s) PROVE FALSE
      <4>1. s \in Nat /\ pool[s].capacity \in Nat
        BY AddrNat DEF OwnInv, TypeInv, TypeOK, Pool, SlabRecord, Registered
      <4>2. s + pool[s].capacity <= next
        BY DEF OwnInv, Accounted, Layout, Parcelled
      <4> QED
        BY <1>2, <3>1, <4>1, <4>2 DEF SlabBlocks
    <3> QED
      BY <3>1 DEF SlabArea
  <2>3. Disjoint(SlabArea(pool), others')
    BY <1>1, <2>2 DEF OwnInv, Accounted, Layout, Parcelled, Disjoint
  <2>4. UNION {SpanBlocks(c)' : c \in Caches} = UNION {SpanBlocks(c) : c \in Caches}
    BY <1>3
  <2>5. 0 .. next' - 1 \subseteq SlabArea(pool) \cup others' \cup UNION {SpanBlocks(c)' : c \in Caches}
    BY <1>1, <1>2, <2>4 DEF OwnInv, Accounted, Layout, Parcelled
  <2>6. Parcelled'
    BY <1>1, <1>3, <2>1, <2>3, <2>5 DEF OwnInv, Accounted, Layout, Parcelled
  <2>7. SlabsAgree'
    BY <1>1 DEF OwnInv, Accounted, Layout, SlabsAgree
  <2> QED
    BY <2>6, <2>7 DEF Layout
<1>9. CountersExact' /\ InTransit'
  BY <1>1 DEF OwnInv, Accounted, CountersExact, InTransit
<1> QED
  BY <1>6, <1>7, <1>8, <1>9 DEF Accounted

\* What depends on none of the variables a step changes.
LEMMA UnchangedAccounted ==
    ASSUME OwnInv, UNCHANGED <<next, others, pool, inbox, cache, remote, pc, span, batch, grant>>
    PROVE  Accounted'
<1>1. Live' = Live /\ \A c \in Caches : Owned(c)' = Owned(c) /\ SpanBlocks(c)' = SpanBlocks(c)
  BY DEF Live, Owned, SpanBlocks
<1>2. /\ UNION {Owned(c)' : c \in Caches} = UNION {Owned(c) : c \in Caches}
      /\ UNION {SpanBlocks(c)' : c \in Caches} = UNION {SpanBlocks(c) : c \in Caches}
  BY <1>1
<1>3. CountersExact' /\ InTransit'
  BY DEF OwnInv, Accounted, CountersExact, InTransit
<1>4. ExclusiveOwnership'
  BY <1>1 DEF OwnInv, Accounted, ExclusiveOwnership
<1>5. NothingLost'
  BY <1>1, <1>2 DEF OwnInv, Accounted, NothingLost
<1>6. Parcelled'
  BY <1>1, <1>2 DEF OwnInv, Accounted, Layout, Parcelled
<1>7. SlabsAgree'
  BY DEF OwnInv, Accounted, Layout, SlabsAgree
<1> QED
  BY <1>3, <1>4, <1>5, <1>6, <1>7 DEF Accounted, Layout

\* A new allocator: nothing is anywhere.
LEMMA InitAccounted == Init => Accounted
<1> SUFFICES ASSUME Init PROVE Accounted
  OBVIOUS
<1>1. /\ next = 0 /\ others = {} /\ pool = EmptyPool /\ inbox.pending = {} /\ inbox.pending_len = 0
      /\ \A c \in Caches : /\ cache[c] = NewClassCache /\ remote[c].pending = {}
                           /\ remote[c].pending_len = 0 /\ pc[c] = "idle"
                           /\ span[c] = NoSpan /\ batch[c] = {}
      /\ \A b \in Addr : grant[b].size = 0
  BY DEF Init, NoPending, NoGrant
<1>2. Live = {} /\ CentralHeld(pool) = {} /\ Registered(pool) = {} /\ PoolCoherent(pool)
  BY <1>1, EmptyPoolSound DEF Live, PoolSound
<1>3. SlabArea(pool) = {}
  BY <1>2 DEF SlabArea
<1>4. \A c \in Caches : /\ SpanBlocks(c) = {} /\ Held(cache[c]) = {} /\ KnownSlabs(cache[c]) = {}
                        /\ CacheCoherent(cache[c]) /\ Owned(c) = {}
  BY <1>1, NoSpanEmpty, NewCacheSound DEF Owned, CacheSound
<1>5. CountersExact
  BY <1>1, <1>2, <1>4, CardSmall DEF CountersExact
<1>6. ExclusiveOwnership
  BY <1>1, <1>2, <1>4 DEF ExclusiveOwnership, Disjoint
<1>7. 0 .. next - 1 = {}
  BY <1>1
<1>8. NothingLost
  BY <1>1, <1>2, <1>4, <1>7 DEF NothingLost
<1>9. Layout
  BY <1>1, <1>2, <1>3, <1>4, <1>7 DEF Layout, Parcelled, SlabsAgree, Disjoint
<1>10. InTransit
  BY <1>1 DEF InTransit
<1> QED
  BY <1>5, <1>6, <1>8, <1>9, <1>10 DEF Accounted

\* Every step keeps every block in exactly one place.
LEMMA NextAccounted == OwnInv /\ [Next]_vars => Accounted'
<1> SUFFICES ASSUME OwnInv, [Next]_vars PROVE Accounted'
  OBVIOUS
<1>1. ASSUME NEW c \in Caches, Step(c) PROVE Accounted'
  <2>1. CASE AllocateRefilled(c)
    <3>1. TakeBlock(c, want[c]) /\ want[c] \in Sizes
      BY <2>1 DEF AllocateRefilled, OwnInv, TypeInv, WantsFit
    <3> QED
      BY <2>1, <3>1, TakeAccounted DEF AllocateRefilled
  <2> QED
    BY <1>1, <2>1, CarveAccounted, RegisterAccounted, ReturnAccounted, PublishAccounted,
       DrainPopAccounted, EndAccounted DEF Step
<1>2. ASSUME NEW c \in Caches, Call(c) PROVE Accounted'
  <2>1. ASSUME NEW size \in Sizes, AllocateHit(c, size) PROVE Accounted'
    <3>1. pc' = [pc EXCEPT ![c] = "idle"] /\ pc[c] = "idle" /\ TakeBlock(c, size)
          /\ UNCHANGED <<next, others, pool, inbox, remote, span, batch>>
      BY <2>1 DEF AllocateHit, OwnInv, TypeInv, TypeOK
    <3> QED
      BY <3>1, TakeAccounted
  <2> QED
    BY <1>2, <2>1, RefillBatchAccounted, RefillSlabAccounted, RefillMissAccounted,
       FreeLocalAccounted, FreeLocalOverflowAccounted, FreeRemoteAccounted,
       StartDrainAccounted DEF Call
<1>3. ASSUME NEW b \in Addr, KernelReclaim(b) PROVE Accounted'
  BY <1>3, UnchangedAccounted DEF KernelReclaim
<1>4. CASE ReserveElsewhere
  BY <1>4, ReserveAccounted
<1>5. CASE UNCHANGED vars
  BY <1>5, UnchangedAccounted DEF vars
<1> QED
  BY <1>1, <1>2, <1>3, <1>4, <1>5 DEF Next

-----------------------------------------------------------------------------
\* The inductive invariant holds in every reachable state.
LEMMA OwnInvHolds == Spec => []OwnInv
<1>1. Init => StaleFreeRejected
  BY VerdictFacts DEF Init, StaleFreeRejected, Freeable
<1>2. Init => OwnInv
  BY <1>1, InitTypeInv, InitAccounted DEF OwnInv
<1>3. OwnInv /\ [Next]_vars => OwnInv'
  BY NextTypeInv, NextStale, NextAccounted DEF OwnInv
<1> QED
  BY <1>2, <1>3, PTL DEF Spec

\* No block is ever in two places: in use and on a list, in two caches, in a cache and
\* in the pool; for any number of threads, whatever the order of their steps.
THEOREM OwnershipExclusive == Spec => []ExclusiveOwnership
<1>1. OwnInv => ExclusiveOwnership
  BY DEF OwnInv, Accounted
<1> QED
  BY <1>1, OwnInvHolds, PTL

\* No transfer between caches, staging lists, inbox and pool loses a block.
THEOREM NoBlockLost == Spec => []NothingLost
<1>1. OwnInv => NothingLost
  BY DEF OwnInv, Accounted
<1> QED
  BY <1>1, OwnInvHolds, PTL

\* Every occupancy counter counts exactly what it stands for in every state, so that
\* the unchecked pops that trust them are legal.
THEOREM CountersAreExact == Spec => []CountersExact
<1>1. OwnInv => CountersExact
  BY DEF OwnInv, Accounted
<1> QED
  BY <1>1, OwnInvHolds, PTL

-----------------------------------------------------------------------------
(***************************************************************************)
(* The small path is an allocator: every step is a step of module Malloc   *)
(* or leaves what a program sees of it alone.                              *)
(***************************************************************************)

\* The free blocks are the carved ones that are neither in use nor of another class.
Stocked ==
    /\ FreeBlocks = (0 .. next - 1) \ (Live \cup others)
    /\ Live \cup others \subseteq 0 .. next - 1
    /\ Disjoint(Live, others)

\* The places of a free block are all the places there are besides these two.
LEMMA StockIs == OwnInv => Stocked
<1> SUFFICES ASSUME OwnInv PROVE Stocked
  OBVIOUS
<1> DEFINE L == Live
           F == FreeBlocks
           U == UNION {Owned(c) : c \in Caches}
<1>1. 0 .. next - 1 = L \cup others \cup F
  BY DEF OwnInv, Accounted, NothingLost, FreeBlocks
<1>2. Disjoint(L, others) /\ Disjoint(F, L \cup others)
  <2>1. \A c \in Caches : Disjoint(Owned(c), Live \cup others)
    BY DEF OwnInv, Accounted, ExclusiveOwnership, Disjoint
  <2>2. Disjoint(U, Live \cup others)
    BY <2>1 DEF Disjoint
  <2> HIDE DEF U
  <2>3. F = CentralHeld(pool) \cup inbox.pending \cup U
    BY DEF FreeBlocks, U
  <2>4. /\ Disjoint(Live, CentralHeld(pool)) /\ Disjoint(Live, inbox.pending)
        /\ Disjoint(others, Live \cup CentralHeld(pool) \cup inbox.pending)
    BY DEF OwnInv, Accounted, ExclusiveOwnership
  <2> QED
    BY <2>2, <2>3, <2>4 DEF Disjoint
<1> HIDE DEF L, F
<1> QED
  BY <1>1, <1>2 DEF L, F, Disjoint, Stocked

\* And so they are after a step.
LEMMA StockIsNext == OwnInv' => Stocked'
  BY StockIs, PTL

\* What the program sees changes only with grant, and the stock with it, next and others.
LEMMA SameStock ==
    ASSUME OwnInv, OwnInv', UNCHANGED <<next, others, grant>>
    PROVE  UNCHANGED <<[b \in Addr |-> grant[b].size], FreeBlocks>>
<1>1. Live' = Live
  BY DEF Live
<1>2. FreeBlocks' = (0 .. next' - 1) \ (Live' \cup others')
  BY StockIsNext DEF Stocked
<1> QED
  BY <1>1, <1>2, StockIs DEF Stocked

\* An allocation is an Allocate: the block leaves the stock and gets its size.
LEMMA TakeAllocates ==
    ASSUME OwnInv, OwnInv', NEW c \in Caches, NEW size \in Sizes, TakeBlock(c, size),
           UNCHANGED <<next, others>>
    PROVE  Abstract!MallocNext
<1>1. PICK pop \in PopBlock(cache[c]) :
        grant' = [grant EXCEPT ![pop.block] = [size |-> size, owner |-> id[c]]]
  BY DEF TakeBlock
<1>2. pop.block \in Addr /\ pop.block \in Held(cache[c])
  BY OwnFacts, PopBlockSound, PopBlockTyped, SoundParts DEF PopTyped, CacheSound, PopSound, Taken
<1>3. Live' = Live \cup {pop.block}
  BY <1>1, <1>2, LiveTake
<1>4. pop.block \in FreeBlocks /\ pop.block \notin Live
  <2>1. pop.block \in Owned(c)
    BY <1>2 DEF Owned
  <2>2. pop.block \in FreeBlocks
    BY <2>1 DEF FreeBlocks
  <2> QED
    BY <2>2, StockIs DEF Stocked
<1> DEFINE a  == [b \in Addr |-> grant[b].size]
           a2 == [b \in Addr |-> grant'[b].size]
<1>5. a2 = [a EXCEPT ![pop.block] = size]
  <2> DEFINE g == [size |-> size, owner |-> id[c]]
  <2>1. grant \in [Addr -> Grant] /\ g.size = size
    BY DEF OwnInv, TypeInv, TypeOK, Grant
  <2> HIDE DEF g
  <2>2. \A b \in Addr : grant'[b] = IF b = pop.block THEN g ELSE grant[b]
    BY <1>1, <2>1 DEF g
  <2> QED
    BY <2>1, <2>2
<1>6. FreeBlocks' = FreeBlocks \ {pop.block}
  <2>1. FreeBlocks' = (0 .. next' - 1) \ (Live' \cup others')
    BY StockIsNext DEF Stocked
  <2>2. FreeBlocks = (0 .. next - 1) \ (Live \cup others)
    BY StockIs DEF Stocked
  <2> QED
    BY <1>3, <2>1, <2>2
<1>7. a[pop.block] = 0
  BY <1>2, <1>4 DEF Live
<1>8. Abstract!Allocate(pop.block, size)
  BY <1>4, <1>5, <1>6, <1>7 DEF Abstract!Allocate
<1> QED
  BY <1>2, <1>8 DEF Abstract!MallocNext

\* An accepted free is a Deallocate of a block that was handed out.
LEMMA FreeDeallocates ==
    ASSUME OwnInv, OwnInv', NEW c \in Caches, NEW b \in Addr, Accepted(c, b),
           UNCHANGED <<next, others>>
    PROVE  Abstract!MallocNext
<1>1. Live' = Live \ {b} /\ b \in Live
  BY LiveFree
<1>2. FreeBlocks' = (0 .. next' - 1) \ (Live' \cup others')
  BY StockIsNext DEF Stocked
<1>3. /\ FreeBlocks = (0 .. next - 1) \ (Live \cup others)
      /\ b \in 0 .. next - 1 /\ b \notin others
  BY <1>1, StockIs DEF Stocked, Disjoint
<1>4. FreeBlocks' = FreeBlocks \cup {b} /\ b \notin FreeBlocks
  BY <1>1, <1>2, <1>3
<1> DEFINE a  == [d \in Addr |-> grant[d].size]
           a2 == [d \in Addr |-> grant'[d].size]
<1>5. a2 = [a EXCEPT ![b] = 0] /\ a[b] # 0
  <2>1. grant \in [Addr -> Grant] /\ grant' = [grant EXCEPT ![b] = NoGrant] /\ NoGrant.size = 0
    BY DEF OwnInv, TypeInv, TypeOK, Grant, Accepted, NoGrant
  <2>2. \A d \in Addr : grant'[d] = IF d = b THEN NoGrant ELSE grant[d]
    BY <2>1
  <2> QED
    BY <1>1, <2>1, <2>2 DEF Live
<1>6. Abstract!Deallocate(b)
  BY <1>4, <1>5 DEF Abstract!Deallocate
<1> QED
  BY <1>6 DEF Abstract!MallocNext

\* reserve_block_span is a Grow by the blocks of the span.
LEMMA CarveGrows ==
    ASSUME OwnInv, OwnInv', NEW c \in Caches, Carve(c)
    PROVE  Abstract!MallocNext
<1> DEFINE n == Least(RefillCount, ArenaBlocks - next)
           G == next .. next + n - 1
<1>1. next \in Nat /\ next <= ArenaBlocks
  BY OwnFacts
<1>2. n \in Nat /\ next + n <= ArenaBlocks
  BY <1>1, ArenaBlocksAssumption, SmallPathAssumption DEF Least
<1>3. next' = next + n /\ UNCHANGED <<others, grant>>
  BY DEF Carve
<1> HIDE DEF n
<1>4. /\ 0 .. next' - 1 = (0 .. next - 1) \cup G /\ Disjoint(G, 0 .. next - 1)
      /\ G \in SUBSET Addr
  BY <1>1, <1>2, <1>3, ArenaBlocksAssumption DEF Disjoint, Addr
<1> HIDE DEF G
<1>5. Live' = Live
  BY <1>3 DEF Live
<1>6. /\ FreeBlocks' = (0 .. next' - 1) \ (Live' \cup others')
      /\ FreeBlocks = (0 .. next - 1) \ (Live \cup others)
      /\ Live \cup others \subseteq 0 .. next - 1
  BY StockIs, StockIsNext DEF Stocked
<1>7. FreeBlocks' = FreeBlocks \cup G /\ \A b \in G : b \notin Live /\ b \notin FreeBlocks
  BY <1>3, <1>4, <1>5, <1>6 DEF Disjoint
<1>8. \A b \in G : [d \in Addr |-> grant[d].size][b] = 0
  BY <1>4, <1>7 DEF Live
<1>9. Abstract!Grow(G)
  BY <1>3, <1>7, <1>8 DEF Abstract!Grow
<1> QED
  BY <1>4, <1>9 DEF Abstract!MallocNext

\* Blocks that other classes take are not of this allocator's stock, before or after.
LEMMA ReserveStutters ==
    ASSUME OwnInv, OwnInv', ReserveElsewhere
    PROVE  UNCHANGED <<[b \in Addr |-> grant[b].size], FreeBlocks>>
<1>1. others' = others \cup {next} /\ next' = next + 1 /\ UNCHANGED grant
  BY DEF ReserveElsewhere
<1>2. next \in Nat /\ 0 .. next' - 1 = (0 .. next - 1) \cup {next} /\ next \notin 0 .. next - 1
  <2>1. next \in Nat
    BY ArenaBlocksAssumption DEF OwnInv, TypeInv, TypeOK
  <2> QED
    BY <1>1, <2>1
<1>3. Live' = Live
  BY <1>1 DEF Live
<1>4. /\ FreeBlocks' = (0 .. next' - 1) \ (Live' \cup others')
      /\ FreeBlocks = (0 .. next - 1) \ (Live \cup others)
  BY StockIs, StockIsNext DEF Stocked
<1>5. FreeBlocks' = FreeBlocks
  BY <1>1, <1>2, <1>3, <1>4
<1> QED
  BY <1>1, <1>5

\* Every step is a step of Malloc or stutters.
LEMMA NextImplements ==
    OwnInv /\ OwnInv' /\ [Next]_vars
      => [Abstract!MallocNext]_<<[b \in Addr |-> grant[b].size], FreeBlocks>>
<1> SUFFICES ASSUME OwnInv, OwnInv', [Next]_vars
             PROVE  \/ Abstract!MallocNext
                    \/ UNCHANGED <<[b \in Addr |-> grant[b].size], FreeBlocks>>
  OBVIOUS
<1> USE SameStock
<1>1. CASE UNCHANGED <<next, others, grant>>
  BY <1>1
<1>2. ASSUME NEW c \in Caches, Step(c), ~UNCHANGED <<next, others, grant>>
      PROVE  Abstract!MallocNext
  <2>1. Carve(c) \/ AllocateRefilled(c)
    BY <1>2 DEF Step, OutOfMemory, Register, Return, Publish, DrainPop, DrainDone, ExitThread
  <2>2. CASE AllocateRefilled(c)
    <3>1. TakeBlock(c, want[c]) /\ want[c] \in Sizes /\ UNCHANGED <<next, others>>
      BY <2>2 DEF AllocateRefilled, OwnInv, TypeInv, WantsFit
    <3> QED
      BY <3>1, TakeAllocates
  <2> QED
    BY <2>1, <2>2, CarveGrows
<1>3. ASSUME NEW c \in Caches, Call(c), ~UNCHANGED <<next, others, grant>>
      PROVE  Abstract!MallocNext
  <2>1. CASE \E size \in Sizes : AllocateHit(c, size)
    BY <2>1, TakeAllocates DEF AllocateHit
  <2>2. ASSUME NEW b \in Addr, \/ FreeLocal(c, b) \/ FreeLocalOverflow(c, b)
                               \/ FreeRemote(c, b) \/ FreeRemoteFlush(c, b)
        PROVE  Abstract!MallocNext
    <3>1. Accepted(c, b) /\ UNCHANGED <<next, others>>
      BY <2>2 DEF FreeLocal, FreeLocalOverflow, FreeRemote, FreeRemoteFlush
    <3> QED
      BY <3>1, FreeDeallocates
  <2> QED
    BY <1>3, <2>1, <2>2 DEF Call, RefillBatch, RefillSlab, RefillMiss, StartDrain
<1>4. ASSUME NEW b \in Addr, KernelReclaim(b) PROVE UNCHANGED <<next, others, grant>>
  BY <1>4 DEF KernelReclaim
<1> QED
  BY <1>1, <1>2, <1>3, <1>4, ReserveStutters DEF Next, vars

\* The small path implements Malloc: for any number of threads, an allocation takes a
\* block that nobody has out of the stock, a free puts back one that was handed out, and
\* no transfer between caches, inbox and pool changes what can be handed out.
THEOREM RefinesMalloc == Spec => ImplementsMalloc
<1>1. Init => Abstract!MallocInit
  <2> SUFFICES ASSUME Init PROVE Abstract!MallocInit
    OBVIOUS
  <2>1. OwnInv /\ next = 0 /\ Live = {} /\ \A b \in Addr : grant[b].size = 0
    BY InitAccounted, InitTypeInv, VerdictFacts DEF Init, NoGrant, Live, OwnInv,
       StaleFreeRejected, Freeable
  <2>2. FreeBlocks = {}
    BY <2>1, StockIs DEF Stocked
  <2> QED
    BY <2>1, <2>2 DEF Abstract!MallocInit
<1> QED
  BY <1>1, NextImplements, OwnInvHolds, PTL DEF Spec, ImplementsMalloc, Abstract!MallocSpec

-----------------------------------------------------------------------------
(***************************************************************************)
(* Headers and discarded pages.  Each needs the other: a header survives   *)
(* until its block is used again because its page was not given back, and  *)
(* a block leaves the discarded pages when its header is written.  Both    *)
(* need ownership, which keeps the writes of one thread off the blocks of  *)
(* all others.                                                             *)
(***************************************************************************)
Ready(c) == cache[c].shared \cup remote[c].pending \cup batch[c]

\* The headers of what thread c keeps are fit for reuse and on pages that are kept.
FitAt(c) ==
    /\ \A b \in Ready(c) : hdr[b].magic
    /\ \A b \in KeepsOwner(cache[c]) : hdr[b].magic /\ hdr[b].owner = id[c]
    /\ Disjoint(lazy, Ready(c) \cup KeepsOwner(cache[c]))

PoolFit == \A b \in Listed : hdr[b].magic /\ b \notin lazy

LiveFit == LiveHeaderSound /\ Disjoint(lazy, Live)

FitInv == HeadersSound /\ DiscardedPagesUnused

\* The two invariants, sorted by where a block is.
LEMMA FitParts == FitInv <=> LiveFit /\ PoolFit /\ \A c \in Caches : FitAt(c)
<1>1. FitInv => LiveFit /\ PoolFit
  BY DEF FitInv, HeadersSound, RecycledHeaderFit, DiscardedPagesUnused, LiveFit, PoolFit, Disjoint
<1>2. ASSUME FitInv, NEW c \in Caches PROVE FitAt(c)
  BY <1>2 DEF FitInv, HeadersSound, RecycledHeaderFit, DiscardedPagesUnused, FitAt, Ready, Disjoint
<1>3. ASSUME LiveFit, PoolFit, \A c \in Caches : FitAt(c) PROVE FitInv
  <2>1. Disjoint(lazy, Live \cup Listed)
    BY <1>3 DEF LiveFit, PoolFit, Disjoint
  <2>2. ASSUME NEW c \in Caches
        PROVE  /\ Disjoint(lazy, KeepsOwner(cache[c]) \cup cache[c].shared
                                   \cup remote[c].pending \cup batch[c])
               /\ \A b \in cache[c].shared \cup remote[c].pending \cup batch[c] : hdr[b].magic
               /\ \A b \in KeepsOwner(cache[c]) : hdr[b].magic /\ hdr[b].owner = id[c]
    BY <1>3 DEF FitAt, Ready, Disjoint
  <2> QED
    BY <1>3, <2>1, <2>2 DEF FitInv, HeadersSound, RecycledHeaderFit, DiscardedPagesUnused, LiveFit, PoolFit
<1> QED
  BY <1>1, <1>2, <1>3

\* The same after a step.
LEMMA FitPartsNext == FitInv' <=> LiveFit' /\ PoolFit' /\ \A c \in Caches : FitAt(c)'
<1>1. (FitInv <=> LiveFit /\ PoolFit /\ \A c \in Caches : FitAt(c))'
  BY FitParts, PTL
<1> QED
  BY <1>1

\* Where the blocks with a kept header are.
LEMMA FitPlaces ==
    ASSUME OwnInv, NEW c \in Caches
    PROVE  /\ Ready(c) \cup KeepsOwner(cache[c]) \subseteq Owned(c)
           /\ Listed = Linked(pool) \cup inbox.pending
           /\ Linked(pool) \subseteq CentralHeld(pool)
<1>1. KeepsOwner(cache[c]) \cup cache[c].shared \subseteq Held(cache[c])
  BY KeptHeld
<1>2. Ready(c) \cup KeepsOwner(cache[c]) \subseteq Owned(c)
  BY <1>1 DEF Ready, Owned
<1> QED
  BY <1>2, OwnFacts, HeldInArea DEF Listed, Linked

\* A thread's writes and the pages given back in its step are not those of others.
LEMMA OthersFit ==
    ASSUME OwnInv, FitInv, NEW c \in Caches, Frame(c),
           \A d \in Caches \ {c} : id'[d] = id[d],
           NEW T, T \subseteq Live \cup Owned(c), \A b \in Addr \ T : hdr'[b] = hdr[b],
           NEW D, D \subseteq CentralHeld(pool) \cup inbox.pending \cup Owned(c),
           lazy' \subseteq lazy \cup D
    PROVE  \A d \in Caches \ {c} : FitAt(d)'
<1> SUFFICES ASSUME NEW d \in Caches \ {c} PROVE FitAt(d)'
  OBVIOUS
<1> DEFINE K == KeepsOwner(cache[d])
           R == Ready(d)
           O == Owned(d)
<1>1. R \cup K \subseteq O /\ FitAt(d)
  BY FitPlaces, FitParts
<1>2. Disjoint(O, Owned(c)) /\ Disjoint(O, Live \cup CentralHeld(pool) \cup inbox.pending)
  BY DEF OwnInv, Accounted, ExclusiveOwnership, Disjoint
<1>3. K \cup R \subseteq Addr
  <2>1. Held(cache[d]) \in SUBSET Addr
    BY OwnFacts, HeldInArena
  <2> QED
    BY <2>1, OwnFacts, KeptHeld DEF Ready
<1>4. KeepsOwner(cache'[d]) = K /\ Ready(d)' = R /\ id'[d] = id[d]
  BY DEF Frame, Ready
<1> HIDE DEF K, R, O
<1>5. \A b \in K \cup R : hdr'[b] = hdr[b] /\ b \notin D
  BY <1>1, <1>2, <1>3 DEF Disjoint
<1>6. /\ \A b \in R : hdr[b].magic
      /\ \A b \in K : hdr[b].magic /\ hdr[b].owner = id[d]
      /\ Disjoint(lazy, R \cup K)
  BY <1>1 DEF FitAt, K, R
<1>7. Disjoint(lazy', R \cup K)
  BY <1>5, <1>6 DEF Disjoint
<1> QED
  BY <1>4, <1>5, <1>6, <1>7 DEF FitAt

\* A step that writes no header: blocks move between lists, and pages that no list
\* uses may be given back.
LEMMA MoveFit ==
    ASSUME OwnInv, FitInv, NEW c \in Caches, Frame(c), UNCHANGED <<hdr, grant>>,
           \A d \in Caches \ {c} : id'[d] = id[d],
           NEW D, D \subseteq CentralHeld(pool) \cup inbox.pending \cup batch[c],
           lazy' \subseteq lazy \cup D,
           Listed' \subseteq Listed \cup Ready(c), Ready(c)' \subseteq Listed \cup Ready(c),
           Disjoint(D, Listed' \cup Ready(c)'),
           KeepsOwner(cache'[c]) \subseteq KeepsOwner(cache[c]),
           id'[c] = id[c] \/ KeepsOwner(cache'[c]) = {}
    PROVE  FitInv'
<1>1. LiveFit /\ PoolFit /\ FitAt(c)
  BY FitParts
<1>2. \A d \in Caches \ {c} : FitAt(d)'
  <2> DEFINE T == {}
  <2>1. T \subseteq Live \cup Owned(c) /\ \A b \in Addr \ T : hdr'[b] = hdr[b]
    OBVIOUS
  <2>2. D \subseteq CentralHeld(pool) \cup inbox.pending \cup Owned(c)
    BY DEF Owned
  <2> HIDE DEF T
  <2> QED
    BY <2>1, <2>2, OthersFit
<1>3. LiveFit'
  <2>1. Live' = Live
    BY DEF Live
  <2>2. Disjoint(Live, CentralHeld(pool) \cup inbox.pending \cup Owned(c))
    BY DEF OwnInv, Accounted, ExclusiveOwnership, Disjoint
  <2>3. Disjoint(lazy', Live)
    BY <1>1, <2>2 DEF LiveFit, Disjoint, Owned
  <2> QED
    BY <1>1, <2>1, <2>3 DEF LiveFit, LiveHeaderSound
<1>4. \A b \in Listed \cup Ready(c) : hdr[b].magic /\ b \notin lazy
  BY <1>1 DEF PoolFit, FitAt, Disjoint
<1>5. PoolFit'
  BY <1>4 DEF PoolFit, Disjoint
<1>6. FitAt(c)'
  <2>1. Disjoint(D, KeepsOwner(cache[c]))
    <3>1. KeepsOwner(cache[c]) \subseteq Held(cache[c])
      BY KeptHeld
    <3>2. Apart({}, CentralHeld(pool), inbox.pending, {},
                 Held(cache[c]), remote[c].pending, batch[c], {})
      BY FiveApart
    <3> QED
      BY <3>1, <3>2 DEF Apart, Disjoint
  <2>2. Disjoint(lazy, KeepsOwner(cache[c]))
        /\ \A b \in KeepsOwner(cache[c]) : hdr[b].magic /\ hdr[b].owner = id[c]
    BY <1>1 DEF FitAt, Disjoint
  <2>3. Disjoint(lazy', Ready(c)' \cup KeepsOwner(cache'[c]))
    BY <1>4, <2>1, <2>2 DEF Disjoint
  <2>4. \A b \in KeepsOwner(cache'[c]) : hdr'[b].magic /\ hdr'[b].owner = id'[c]
    BY <2>2
  <2>5. \A b \in Ready(c)' : hdr'[b].magic
    BY <1>4
  <2> QED
    BY <2>3, <2>4, <2>5 DEF FitAt
<1> QED
  BY <1>2, <1>3, <1>5, <1>6, FitPartsNext

\* Steps outside the class mutex that write no header.
LEMMA QuietFit ==
    ASSUME OwnInv, FitInv, NEW c \in Caches,
           \/ Carve(c) \/ OutOfMemory(c) \/ Publish(c) \/ StartDrain(c)
           \/ DrainDone(c) \/ ExitThread(c)
    PROVE  FitInv'
<1> DEFINE D == {}
<1>1. UNCHANGED <<hdr, lazy, grant, pool>>
  BY DEF Carve, OutOfMemory, Publish, StartDrain, DrainDone, ExitThread
<1>2. Frame(c) /\ \A d \in Caches \ {c} : id'[d] = id[d]
  BY DEF OwnInv, TypeInv, TypeOK, Frame, Carve, OutOfMemory, Publish, StartDrain, DrainDone, ExitThread
<1>3. Listed' = Linked(pool) \cup inbox'.pending /\ Listed = Linked(pool) \cup inbox.pending
  BY <1>1 DEF Listed, Linked
<1>4. /\ inbox'.pending \subseteq inbox.pending \cup batch[c]
      /\ remote'[c].pending \cup batch'[c] \subseteq remote[c].pending \cup batch[c]
      /\ KeepsOwner(cache'[c]) \subseteq KeepsOwner(cache[c])
      /\ cache'[c].shared \subseteq cache[c].shared
      /\ id'[c] = id[c] \/ KeepsOwner(cache'[c]) = {}
  <2>1. CASE Carve(c) \/ OutOfMemory(c) \/ DrainDone(c)
    BY <2>1 DEF Carve, OutOfMemory, DrainDone
  <2>2. CASE Publish(c)
    <3>1. /\ inbox' = PushPending(inbox, batch[c]) /\ batch' = [batch EXCEPT ![c] = {}]
          /\ UNCHANGED <<cache, remote, id>>
      BY <2>2 DEF Publish
    <3>2. batch'[c] = {} /\ inbox'.pending = inbox.pending \cup batch[c]
      BY <3>1 DEF OwnInv, TypeInv, TypeOK, PushPending
    <3> QED
      BY <3>1, <3>2
  <2>3. CASE StartDrain(c)
    <3>1. /\ batch' = [batch EXCEPT ![c] = remote[c].pending]
          /\ remote' = [remote EXCEPT ![c] = NoPending]
          /\ UNCHANGED <<cache, inbox, id>>
      BY <2>3 DEF StartDrain
    <3>2. batch'[c] = remote[c].pending /\ remote'[c].pending = {}
      BY <3>1 DEF OwnInv, TypeInv, TypeOK, NoPending
    <3> QED
      BY <3>1, <3>2
  <2>4. CASE ExitThread(c)
    <3>1. cache' = [cache EXCEPT ![c] = NewClassCache] /\ UNCHANGED <<inbox, remote, batch>>
      BY <2>4 DEF ExitThread
    <3>2. cache'[c] = NewClassCache
      BY <3>1 DEF OwnInv, TypeInv, TypeOK
    <3> QED
      BY <3>1, <3>2, NewCacheSound
  <2> QED
    BY <2>1, <2>2, <2>3, <2>4
<1>5. /\ Ready(c)' \subseteq Ready(c)
      /\ Listed' \subseteq Listed \cup Ready(c)
  BY <1>3, <1>4 DEF Ready
<1>6. /\ D \subseteq CentralHeld(pool) \cup inbox.pending \cup batch[c]
      /\ lazy' \subseteq lazy \cup D /\ Disjoint(D, Listed' \cup Ready(c)')
  BY <1>1 DEF Disjoint
<1> HIDE DEF D
<1> QED
  BY <1>1, <1>2, <1>4, <1>5, <1>6, MoveFit

\* What a section under the class mutex does to lists and pages: the pool ends with
\* some listed blocks Out taken and the batch In filed, and what it discards is on no list.
LEMMA SectionFit ==
    ASSUME OwnInv, FitInv, NEW c \in Caches, Frame(c), UNCHANGED <<hdr, grant, id, remote>>,
           batch'[c] \subseteq batch[c],
           NEW p \in Drained, NEW q, NEW r, PoolSection(p, q, r),
           Linked(r) \subseteq Linked(p) \cup batch[c],
           Discarded(q, r) \subseteq CentralHeld(p) \cup batch[c],
           Disjoint(Discarded(q, r), Linked(r)),
           Disjoint(Discarded(q, r), batch'[c]),
           Disjoint(Discarded(ReturnBatch(pool, inbox.pending), p), Linked(r)),
           KeepsOwner(cache'[c]) \subseteq KeepsOwner(cache[c]),
           cache'[c].shared \subseteq cache[c].shared \cup (Linked(p) \ Discarded(q, r))
    PROVE  FitInv'
<1> DEFINE D1 == Discarded(ReturnBatch(pool, inbox.pending), p)
           D2 == Discarded(q, r)
           D  == D1 \cup D2
           C  == CentralHeld(pool)
           I  == inbox.pending
           H  == Held(cache[c])
           R  == remote[c].pending
           B  == batch[c]
           B2 == batch'[c]
           L  == Linked(pool)
           Lp == Linked(p)
           Lr == Linked(r)
           S  == cache[c].shared
           S2 == cache'[c].shared
<1>1. /\ CentralHeld(p) = C \cup I /\ Lp \subseteq L \cup I
      /\ D1 \subseteq CentralHeld(p) /\ Disjoint(D1, Lp)
  BY DrainedSound
<1>2. pool' = r /\ inbox'.pending = {} /\ lazy' = lazy \cup D1 \cup D2
  BY SectionEmptiesInbox DEF PoolSection
<1>3. Apart({}, C, I, {}, H, R, B, {}) /\ S \subseteq H
  BY FiveApart, KeptHeld
<1>4. /\ Ready(c) = S \cup R \cup B /\ Ready(c)' = S2 \cup R \cup B2
      /\ Listed = L \cup I /\ Listed' = Lr /\ L \subseteq C
  BY <1>2, FitPlaces DEF Ready, Listed, Linked
<1>5. /\ Lr \subseteq Lp \cup B /\ D2 \subseteq C \cup I \cup B /\ Disjoint(D2, Lr)
      /\ Disjoint(D2, B2) /\ Disjoint(D1, Lr) /\ S2 \subseteq S \cup (Lp \ D2) /\ B2 \subseteq B
  BY <1>1
<1> HIDE DEF D1, D2, C, I, H, R, B, B2, L, Lp, Lr, S, S2
<1>6. D \subseteq C \cup I \cup B /\ lazy' \subseteq lazy \cup D
  BY <1>1, <1>2, <1>5
<1>7. /\ Listed' \subseteq Listed \cup Ready(c) /\ Ready(c)' \subseteq Listed \cup Ready(c)
  BY <1>1, <1>4, <1>5
<1>8. Disjoint(D, Lr)
  BY <1>5 DEF Disjoint
<1>9. Disjoint(D, S2 \cup R \cup B2)
  <2>1. Disjoint(C \cup I, S \cup R \cup B) /\ Disjoint(B, S \cup R)
    BY <1>3 DEF Apart, Disjoint
  <2>2. Disjoint(D1, S2 \cup R \cup B2)
    BY <1>1, <1>5, <2>1 DEF Disjoint
  <2>3. Disjoint(D2, S2 \cup R \cup B2)
    BY <1>5, <2>1 DEF Disjoint
  <2> QED
    BY <2>2, <2>3 DEF Disjoint
<1>10. Disjoint(D, Listed' \cup Ready(c)')
  BY <1>4, <1>8, <1>9 DEF Disjoint
<1> HIDE DEF D
<1>11. D \subseteq CentralHeld(pool) \cup inbox.pending \cup batch[c]
  BY <1>6 DEF C, I, B
<1> QED
  BY <1>6, <1>7, <1>10, <1>11, MoveFit

\* The three outcomes of a refill.
LEMMA RefillBatchFit ==
    ASSUME OwnInv, FitInv, NEW c \in Caches, NEW size \in Sizes, RefillBatch(c, size)
    PROVE  FitInv'
<1>0. PICK p \in Drained : \E s \in BatchSlabs(p) :
      \E B \in Batches(Least(RefillCount, Cardinality(p[s].partial_free)), p[s].partial_free) :
      \E r \in Sweep(TakePartialBatch(p, s, B)) :
            /\ PoolSection(p, TakePartialBatch(p, s, B), r)
            /\ cache' = [cache EXCEPT ![c] = PushSharedBatch(@, B)]
  BY DEF RefillBatch
<1>1. PICK s \in BatchSlabs(p) :
      \E B \in Batches(Least(RefillCount, Cardinality(p[s].partial_free)), p[s].partial_free) :
      \E r \in Sweep(TakePartialBatch(p, s, B)) :
            /\ PoolSection(p, TakePartialBatch(p, s, B), r)
            /\ cache' = [cache EXCEPT ![c] = PushSharedBatch(@, B)]
  BY <1>0
<1>2. PICK B \in Batches(Least(RefillCount, Cardinality(p[s].partial_free)), p[s].partial_free) :
      \E r \in Sweep(TakePartialBatch(p, s, B)) :
            /\ PoolSection(p, TakePartialBatch(p, s, B), r)
            /\ cache' = [cache EXCEPT ![c] = PushSharedBatch(@, B)]
  BY <1>1
<1> DEFINE q == TakePartialBatch(p, s, B)
           w == PushSharedBatch(cache[c], B)
<1>3. PICK r \in Sweep(q) : PoolSection(p, q, r) /\ cache' = [cache EXCEPT ![c] = w]
  BY <1>2
<1>4. PoolSound(p) /\ Disjoint(Discarded(ReturnBatch(pool, inbox.pending), p), Linked(p))
  BY DrainedSound
<1>5. s \in Bucket(p, "Partial") /\ s \in Addr /\ B \in SUBSET p[s].partial_free
  BY DEF BatchSlabs, Bucket, Batches
<1>6. /\ PoolSound(q) /\ CentralHeld(q) = CentralHeld(p) \ B
      /\ Linked(q) \subseteq Linked(p) /\ B \in SUBSET Linked(p)
  BY <1>4, <1>5, TakePartialSound
<1> HIDE DEF q
<1>7. /\ Linked(r) \subseteq Linked(q) /\ Discarded(q, r) \in SUBSET CentralHeld(q)
      /\ Disjoint(Discarded(q, r), Linked(q))
  BY <1>6, SweepSound
<1>8. B \in SUBSET Addr
  BY <1>4, <1>6, HeldInArea
<1>9. Held(cache[c]) = {}
  BY OwnFacts, EmptyCache DEF RefillBatch
<1>10. KeepsOwner(w) = KeepsOwner(cache[c]) /\ w.shared = cache[c].shared \cup B
  <2>1. Disjoint(B, Held(cache[c]))
    BY <1>9 DEF Disjoint
  <2> QED
    BY <1>5, <1>8, <2>1, OwnFacts, PushSharedSound
<1> HIDE DEF w
<1>11. /\ Frame(c) /\ cache'[c] = w /\ UNCHANGED <<hdr, grant, id, remote>> /\ batch' = batch
       /\ batch[c] = {}
  BY <1>3 DEF RefillBatch, OwnInv, TypeInv, TypeOK, Frame, Accounted, InTransit
<1>12. /\ Linked(r) \subseteq Linked(p) \cup batch[c]
       /\ Discarded(q, r) \subseteq CentralHeld(p) \cup batch[c]
       /\ Disjoint(Discarded(q, r), Linked(r))
       /\ Disjoint(Discarded(q, r), batch'[c])
       /\ Disjoint(Discarded(ReturnBatch(pool, inbox.pending), p), Linked(r))
  BY <1>4, <1>6, <1>7, <1>11 DEF Disjoint
<1>13. B \subseteq Linked(p) \ Discarded(q, r)
  BY <1>6, <1>7
<1> QED
  BY <1>3, <1>10, <1>11, <1>12, <1>13, SectionFit

\* A reissued slab is all fresh: none of its headers is kept.
LEMMA RefillSlabFit ==
    ASSUME OwnInv, FitInv, NEW c \in Caches, NEW size \in Sizes, RefillSlab(c, size)
    PROVE  FitInv'
<1>0. PICK p \in Drained : \E s \in LoanableSlabs(p) :
      \E r \in Sweep(LoanWholeSlab(p, s)) :
            /\ PoolSection(p, LoanWholeSlab(p, s), r)
            /\ cache' = [cache EXCEPT ![c] = PushOwnedSlab(@, s, p[s].capacity)]
  BY DEF RefillSlab
<1>1. PICK s \in LoanableSlabs(p) :
      \E r \in Sweep(LoanWholeSlab(p, s)) :
            /\ PoolSection(p, LoanWholeSlab(p, s), r)
            /\ cache' = [cache EXCEPT ![c] = PushOwnedSlab(@, s, p[s].capacity)]
  BY <1>0
<1> DEFINE q == LoanWholeSlab(p, s)
           n == p[s].capacity
           w == PushOwnedSlab(cache[c], s, n)
<1>2. PICK r \in Sweep(q) : PoolSection(p, q, r) /\ cache' = [cache EXCEPT ![c] = w]
  BY <1>1
<1>3. /\ PoolSound(p) /\ SameLayout(pool, p)
      /\ Disjoint(Discarded(ReturnBatch(pool, inbox.pending), p), Linked(p))
  BY DrainedSound
<1>4. /\ PoolSound(q) /\ CentralHeld(q) \subseteq CentralHeld(p)
      /\ Linked(q) \subseteq Linked(p) /\ s \in Registered(p)
  BY <1>3, LoanSound
<1> HIDE DEF q
<1>5. /\ Linked(r) \subseteq Linked(q) /\ Discarded(q, r) \in SUBSET CentralHeld(q)
      /\ Disjoint(Discarded(q, r), Linked(q))
  BY <1>4, SweepSound
<1>6. /\ s \in Addr /\ n \in Nat \ {0} /\ s + n <= ArenaBlocks
      /\ s \in Registered(pool) /\ pool[s].capacity = n
  <2>1. s \in Registered(pool) /\ s \in Addr /\ pool[s].capacity = n
    BY <1>3, <1>4, SameArea DEF SameLayout, Registered
  <2>2. n \in Nat \ {0} /\ s + n <= ArenaBlocks
    BY <1>3, <1>4, <2>1 DEF PoolSound, PoolTyped, Pool, SlabRecord
  <2> QED
    BY <2>1, <2>2
<1>7. s \in KnownSlabs(cache[c]) => cache[c].slabs[s].capacity = n
  BY <1>6 DEF OwnInv, Accounted, Layout, SlabsAgree
<1> HIDE DEF n
<1>8. Disjoint(s .. s + n - 1, Held(cache[c]))
  BY OwnFacts, EmptyCache DEF RefillSlab, Disjoint
<1>9. KeepsOwner(w) \subseteq KeepsOwner(cache[c]) /\ w.shared = cache[c].shared
  BY <1>6, <1>7, <1>8, OwnFacts, PushOwnedSound
<1> HIDE DEF w
<1>10. /\ Frame(c) /\ cache'[c] = w /\ UNCHANGED <<hdr, grant, id, remote>> /\ batch' = batch
       /\ batch[c] = {}
  BY <1>2 DEF RefillSlab, OwnInv, TypeInv, TypeOK, Frame, Accounted, InTransit
<1>11. /\ Linked(r) \subseteq Linked(p) \cup batch[c]
       /\ Discarded(q, r) \subseteq CentralHeld(p) \cup batch[c]
       /\ Disjoint(Discarded(q, r), Linked(r))
       /\ Disjoint(Discarded(q, r), batch'[c])
       /\ Disjoint(Discarded(ReturnBatch(pool, inbox.pending), p), Linked(r))
  BY <1>3, <1>4, <1>5, <1>10 DEF Disjoint
<1> QED
  BY <1>2, <1>9, <1>10, <1>11, SectionFit

\* A miss only drains the inbox.
LEMMA RefillMissFit ==
    ASSUME OwnInv, FitInv, NEW c \in Caches, NEW size \in Sizes, RefillMiss(c, size)
    PROVE  FitInv'
<1>1. PICK p \in Drained : PoolSection(p, p, p)
  BY DEF RefillMiss
<1>2. Disjoint(Discarded(ReturnBatch(pool, inbox.pending), p), Linked(p))
  BY DrainedSound
<1>3. Discarded(p, p) = {}
  BY DEF Discarded
<1>4. /\ Frame(c) /\ cache'[c] = cache[c] /\ UNCHANGED <<hdr, grant, id, remote>> /\ batch' = batch
      /\ batch[c] = {}
  BY DEF RefillMiss, OwnInv, TypeInv, TypeOK, Frame, Accounted, InTransit
<1>5. /\ Linked(p) \subseteq Linked(p) \cup batch[c]
      /\ Discarded(p, p) \subseteq CentralHeld(p) \cup batch[c]
      /\ Disjoint(Discarded(p, p), Linked(p))
      /\ Disjoint(Discarded(p, p), batch'[c])
  BY <1>3 DEF Disjoint
<1> QED
  BY <1>1, <1>2, <1>4, <1>5, SectionFit

\* A returned batch has initialised headers, and the sweep behind it spares listed blocks.
LEMMA ReturnFit ==
    ASSUME OwnInv, FitInv, NEW c \in Caches, Return(c)
    PROVE  FitInv'
<1> DEFINE B  == batch[c]
           D1(p) == Discarded(ReturnBatch(pool, inbox.pending), p)
<1>1. PICK p \in Drained : \E r \in Returns(p, B) : PoolSection(p, ReturnBatch(p, B), r)
  BY DEF Return
<1>2. PICK r \in Returns(p, B) : PoolSection(p, ReturnBatch(p, B), r)
  BY <1>1
<1>3. /\ PoolSound(p) /\ SlabArea(p) = SlabArea(pool)
      /\ CentralHeld(p) = CentralHeld(pool) \cup inbox.pending
      /\ D1(p) \subseteq CentralHeld(p) /\ Disjoint(D1(p), Linked(p))
  BY DrainedSound
<1>4. B \in SUBSET SlabArea(p) /\ Disjoint(B, CentralHeld(p))
  <2>1. Apart({}, CentralHeld(pool), inbox.pending, {},
               Held(cache[c]), remote[c].pending, batch[c], {})
    BY FiveApart
  <2>2. B \in SUBSET SlabArea(p)
    BY <1>3, InSlabs
  <2> QED
    BY <1>3, <2>1, <2>2 DEF Apart, Disjoint
<1>5. /\ Frame(c) /\ cache'[c] = cache[c] /\ UNCHANGED <<hdr, grant, id, remote>> /\ batch'[c] = {}
  BY DEF Return, OwnInv, TypeInv, TypeOK, Frame
<1> HIDE DEF B, D1
<1> DEFINE q == ReturnBatch(p, B)
<1>6. /\ CentralHeld(r) = CentralHeld(p) \cup B
      /\ Linked(r) \subseteq Linked(p) \cup B
      /\ Discarded(q, r) \in SUBSET CentralHeld(r)
      /\ Disjoint(Discarded(q, r), Linked(r))
  BY <1>3, <1>4, ReturnsSound
<1> HIDE DEF q
<1>7. /\ Linked(r) \subseteq Linked(p) \cup batch[c]
      /\ Discarded(q, r) \subseteq CentralHeld(p) \cup batch[c]
      /\ Disjoint(Discarded(q, r), batch'[c])
  BY <1>5, <1>6 DEF B, Disjoint
<1>8. Disjoint(Discarded(ReturnBatch(pool, inbox.pending), p), Linked(r))
  <2>1. Disjoint(D1(p), Linked(r))
    BY <1>3, <1>4, <1>6 DEF Disjoint
  <2> QED
    BY <2>1 DEF D1
<1>9. PoolSection(p, q, r)
  BY <1>2 DEF q
<1> QED
  BY <1>5, <1>6, <1>7, <1>8, <1>9, SectionFit

\* A registered slab is all fresh as well.
LEMMA RegisterFit ==
    ASSUME OwnInv, FitInv, NEW c \in Caches, Register(c)
    PROVE  FitInv'
<1> DEFINE start == span[c].start
           n == span[c].count
           q == RegisterSlab(pool, start, n)
           w == PushOwnedSlab(cache[c], start, n)
           G == start .. start + n - 1
<1>1. PICK r \in Sweep(q) : pool' = r /\ lazy' = lazy \cup Discarded(q, r)
  BY DEF Register
<1>2. /\ pc[c] = "register"
      /\ cache' = [cache EXCEPT ![c] = w]
      /\ span' = [span EXCEPT ![c] = NoSpan]
      /\ pc' = [pc EXCEPT ![c] = "pop"]
      /\ UNCHANGED <<inbox, remote, id, batch, hdr, grant>>
  BY DEF Register
<1>3. start \in Addr /\ n \in Nat \ {0} /\ start + n <= ArenaBlocks
  BY <1>2 DEF OwnInv, TypeInv, SpansFit
<1>4. SpanBlocks(c) = G
  BY DEF SpanBlocks
<1>5. Disjoint(SlabArea(pool), G)
  BY <1>4 DEF OwnInv, Accounted, Layout, Parcelled
<1>6. Disjoint(G, Held(cache[c]))
  BY <1>4 DEF OwnInv, Accounted, ExclusiveOwnership, Disjoint
<1>7. /\ PoolSound(q) /\ CentralHeld(q) = CentralHeld(pool) /\ Linked(q) = Linked(pool)
      /\ start \notin Registered(pool)
  BY <1>3, <1>5, OwnFacts, RegisterSound
<1> HIDE DEF q
<1>8. /\ Linked(r) \subseteq Linked(q) /\ Discarded(q, r) \in SUBSET CentralHeld(q)
      /\ Disjoint(Discarded(q, r), Linked(q))
  BY <1>7, SweepSound
<1>9. start \notin KnownSlabs(cache[c])
  BY <1>7 DEF OwnInv, Accounted, Layout, SlabsAgree
<1>10. KeepsOwner(w) \subseteq KeepsOwner(cache[c]) /\ w.shared = cache[c].shared
  BY <1>3, <1>6, <1>9, OwnFacts, PushOwnedSound
<1> HIDE DEF w
<1>11. Frame(c) /\ cache'[c] = w
  BY <1>2 DEF OwnInv, TypeInv, TypeOK, Frame
<1> DEFINE D == Discarded(q, r)
<1>12. /\ Listed' = Linked(r) \cup inbox.pending /\ Ready(c)' = Ready(c)
       /\ Listed = Linked(pool) \cup inbox.pending
  BY <1>1, <1>2, <1>10, <1>11 DEF Listed, Linked, Ready
<1>13. Ready(c) \subseteq Owned(c)
  BY FitPlaces
<1>14. Disjoint(CentralHeld(pool), inbox.pending \cup Owned(c))
  BY DEF OwnInv, Accounted, ExclusiveOwnership, Disjoint
<1> HIDE DEF D
<1>15. /\ D \subseteq CentralHeld(pool) /\ Disjoint(D, Linked(r))
       /\ Linked(r) \subseteq Linked(pool) /\ lazy' = lazy \cup D
  BY <1>1, <1>7, <1>8 DEF D, Disjoint
<1>16. Disjoint(D, Listed' \cup Ready(c)')
  BY <1>12, <1>13, <1>14, <1>15 DEF Disjoint
<1>17. /\ Listed' \subseteq Listed \cup Ready(c) /\ Ready(c)' \subseteq Listed \cup Ready(c)
       /\ D \subseteq CentralHeld(pool) \cup inbox.pending \cup batch[c] /\ lazy' \subseteq lazy \cup D
  BY <1>12, <1>15
<1> QED
  BY <1>2, <1>10, <1>11, <1>16, <1>17, MoveFit

-----------------------------------------------------------------------------
\* A stamped header is the allocation's own, provided that what the reuse kind leaves
\* in place was right already.
LEMMA StampFit ==
    ASSUME NEW h \in Header, NEW reuse \in BlockReuse, NEW size \in Sizes, NEW owner \in Ids,
           reuse = "HotReuseRequestedOnly" => h.magic /\ h.owner = owner,
           reuse = "NeedsOwnerAndRequestedSizeRefresh" => h.magic
    PROVE  LET g == StampHeader(h, reuse, size, owner)
           IN  FreeVerdict(g) = "Ok" /\ g.requested = size /\ g.owner = owner
<1> DEFINE g == StampHeader(h, reuse, size, owner)
<1>1. g.magic = TRUE /\ g.freed = FALSE /\ g.requested = size /\ g.owner = owner
  <2>1. CASE reuse = "HotReuseRequestedOnly"
    <3> DEFINE h1 == [h EXCEPT !.freed = FALSE]
               h2 == [h1 EXCEPT !.requested = size]
    <3>1. h1 \in Header /\ h1.freed = FALSE /\ h1.magic = h.magic /\ h1.owner = h.owner
      BY DEF Header
    <3> HIDE DEF h1
    <3>2. h2.freed = FALSE /\ h2.magic = h.magic /\ h2.owner = h.owner /\ h2.requested = size
      BY <3>1 DEF Header
    <3>3. g = h2
      BY <2>1, Zenon DEF StampHeader, h1
    <3>4. h.magic = TRUE
      BY <2>1 DEF Header
    <3> QED
      BY <2>1, <3>2, <3>3, <3>4
  <2>2. CASE reuse = "NeedsOwnerAndRequestedSizeRefresh"
    <3> DEFINE h1 == [h EXCEPT !.freed = FALSE]
               h2 == [h1 EXCEPT !.requested = size]
               h3 == [h2 EXCEPT !.owner = owner]
    <3>1. h1 \in Header /\ h1.freed = FALSE /\ h1.magic = h.magic
      BY DEF Header
    <3>2. h2 \in Header /\ h2.freed = FALSE /\ h2.magic = h.magic /\ h2.requested = size
      <4> HIDE DEF h1
      <4> QED
        BY <3>1 DEF Header
    <3>3. /\ h3.freed = FALSE /\ h3.magic = h.magic /\ h3.requested = size /\ h3.owner = owner
      <4> HIDE DEF h2
      <4> QED
        BY <3>2 DEF Header
    <3>4. g = [h EXCEPT !.freed = FALSE, !.requested = size, !.owner = owner]
      BY <2>2 DEF StampHeader
    <3>5. g = h3
      BY <3>4, Zenon
    <3>6. h.magic = TRUE
      BY <2>2 DEF Header
    <3> HIDE DEF h3
    <3> QED
      BY <3>3, <3>5, <3>6
  <2>3. CASE reuse = "NeedsHeaderRewrite"
    BY <2>3 DEF StampHeader
  <2> QED
    BY <2>1, <2>2, <2>3 DEF BlockReuse
<1>2. size # 0
  BY SmallPathAssumption
<1> HIDE DEF g
<1>3. FreeVerdict(g) = "Ok"
  BY <1>1, <1>2 DEF FreeVerdict
<1> QED
  BY <1>1, <1>3 DEF g

\* What an accepted free and the freed marker tell about a header.
LEMMA MarkFit ==
    ASSUME NEW h \in Header
    PROVE  /\ MarkFreed(h).owner = h.owner /\ MarkFreed(h).magic = h.magic
           /\ FreeVerdict(h) = "Ok" => h.magic = TRUE
<1>1. FreeVerdict(h) = "Ok" => h.magic = TRUE
  BY DEF FreeVerdict, Header
<1> QED
  BY <1>1 DEF MarkFreed, Header

\* A step of one thread that writes headers of blocks it has, or frees or takes.
LEMMA WriteFit ==
    ASSUME OwnInv, FitInv, NEW c \in Caches, Frame(c), UNCHANGED <<pool, inbox, id>>,
           NEW T, T \subseteq Live \cup Owned(c), \A b \in Addr \ T : hdr'[b] = hdr[b],
           lazy' \subseteq lazy,
           \A b \in Live' : \/ b \in Live \ T /\ grant'[b] = grant[b]
                            \/ /\ FreeVerdict(hdr'[b]) = "Ok" /\ hdr'[b].requested = grant'[b].size
                               /\ hdr'[b].owner = grant'[b].owner /\ b \notin lazy',
           FitAt(c)'
    PROVE  FitInv'
<1>1. LiveFit /\ PoolFit
  BY FitParts
<1>2. \A d \in Caches \ {c} : FitAt(d)'
  <2> DEFINE D == {}
  <2>1. D \subseteq CentralHeld(pool) \cup inbox.pending \cup Owned(c) /\ lazy' \subseteq lazy \cup D
    OBVIOUS
  <2> HIDE DEF D
  <2> QED
    BY <2>1, OthersFit
<1>3. LiveFit'
  <2>1. Live \subseteq Addr
    BY DEF Live
  <2>2. ASSUME NEW b \in Live'
        PROVE  /\ FreeVerdict(hdr'[b]) = "Ok" /\ hdr'[b].requested = grant'[b].size
               /\ hdr'[b].owner = grant'[b].owner /\ b \notin lazy'
    <3>1. CASE b \in Live \ T /\ grant'[b] = grant[b]
      BY <1>1, <2>1, <3>1 DEF LiveFit, LiveHeaderSound, Disjoint
    <3> QED
      BY <2>2, <3>1
  <2> QED
    BY <2>2 DEF LiveFit, LiveHeaderSound, Disjoint
<1>4. PoolFit'
  <2>1. Listed' = Listed
    BY DEF Listed
  <2>2. Listed = Linked(pool) \cup inbox.pending /\ Linked(pool) \subseteq CentralHeld(pool)
    BY FitPlaces
  <2>3. Disjoint(Live \cup Owned(c), CentralHeld(pool) \cup inbox.pending)
    BY DEF OwnInv, Accounted, ExclusiveOwnership, Disjoint
  <2>4. Listed \subseteq Addr
    <3>1. CentralHeld(pool) \cup inbox.pending \subseteq Addr
      BY OwnFacts, HeldInArea
    <3> QED
      BY <2>2, <3>1
  <2>5. \A b \in Listed : b \in Addr \ T
    BY <2>2, <2>3, <2>4 DEF Disjoint
  <2> QED
    BY <1>1, <2>1, <2>5 DEF PoolFit
<1> QED
  BY <1>2, <1>3, <1>4, FitPartsNext

\* An allocation.
LEMMA TakeFit ==
    ASSUME OwnInv, FitInv, NEW c \in Caches, NEW size \in Sizes, TakeBlock(c, size),
           pc' = [pc EXCEPT ![c] = "idle"],
           UNCHANGED <<pool, inbox, remote, id, span, batch>>
    PROVE  FitInv'
<1>1. PICK pop \in PopBlock(cache[c]) :
        /\ cache' = [cache EXCEPT ![c] = pop.cache]
        /\ hdr' = [hdr EXCEPT ![pop.block] = StampHeader(@, pop.reuse, size, id[c])]
        /\ lazy' = lazy \ {pop.block}
        /\ grant' = [grant EXCEPT ![pop.block] = [size |-> size, owner |-> id[c]]]
  BY DEF TakeBlock
<1> DEFINE b == pop.block
           T == {b}
           g == StampHeader(hdr[b], pop.reuse, size, id[c])
<1>2. PopSound(cache[c], pop) /\ b \in Addr /\ pop.reuse \in BlockReuse
  BY OwnFacts, PopBlockSound, PopBlockTyped, SoundParts DEF PopTyped, CacheSound
<1>3. cache'[c] = pop.cache /\ Frame(c)
  BY <1>1 DEF OwnInv, TypeInv, TypeOK, Frame
<1>4. /\ Held(cache'[c]) = Held(cache[c]) \ {b} /\ b \in Held(cache[c])
      /\ KeepsOwner(cache'[c]) \subseteq KeepsOwner(cache[c])
      /\ cache'[c].shared \subseteq cache[c].shared
  BY <1>2, <1>3 DEF PopSound, Taken
<1>5. Live' = Live \cup {b}
  BY <1>1, <1>2, LiveTake
<1>6. FitAt(c)
  BY FitParts
<1>7. /\ hdr \in [Addr -> Header] /\ grant \in [Addr -> Grant] /\ id[c] \in Ids
  BY DEF OwnInv, TypeInv, TypeOK, Grant
<1>8. FreeVerdict(g) = "Ok" /\ g.requested = size /\ g.owner = id[c]
  <2>1. /\ pop.reuse = "HotReuseRequestedOnly" => hdr[b].magic /\ hdr[b].owner = id[c]
        /\ pop.reuse = "NeedsOwnerAndRequestedSizeRefresh" => hdr[b].magic
    BY <1>2, <1>6 DEF PopSound, FitAt, Ready
  <2> QED
    BY <1>2, <1>7, <2>1, StampFit
<1> HIDE DEF g
<1>9. hdr'[b] = g /\ \A a \in Addr \ T : hdr'[a] = hdr[a] /\ grant'[a] = grant[a]
  BY <1>1, <1>2, <1>7 DEF g
<1>10. grant'[b].size = size /\ grant'[b].owner = id[c]
  BY <1>1, <1>2, <1>7
<1>11. \A a \in Live' : \/ a \in Live \ T /\ grant'[a] = grant[a]
                        \/ /\ FreeVerdict(hdr'[a]) = "Ok" /\ hdr'[a].requested = grant'[a].size
                           /\ hdr'[a].owner = grant'[a].owner /\ a \notin lazy'
  BY <1>1, <1>5, <1>8, <1>9, <1>10 DEF Live
<1>12. T \subseteq Live \cup Owned(c)
  BY <1>4 DEF Owned
<1>13. FitAt(c)'
  <2>1. KeepsOwner(cache'[c]) \cup cache'[c].shared \subseteq Held(cache[c]) \ {b}
    BY <1>3, <1>4, KeptHeld
  <2>2. b \notin remote[c].pending \cup batch[c]
    BY <1>4 DEF OwnInv, Accounted, ExclusiveOwnership, Disjoint
  <2>3. Ready(c)' = cache'[c].shared \cup remote[c].pending \cup batch[c]
    BY DEF Ready
  <2>4. Ready(c)' \cup KeepsOwner(cache'[c]) \subseteq Addr \ {b}
    <3>1. Held(cache[c]) \cup remote[c].pending \cup batch[c] \subseteq Addr
      BY OwnFacts, HeldInArena
    <3> QED
      BY <2>1, <2>2, <2>3, <3>1
  <2>5. Ready(c)' \subseteq Ready(c)
    BY <1>4, <2>3 DEF Ready
  <2>6. \A a \in Ready(c)' \cup KeepsOwner(cache'[c]) : hdr'[a] = hdr[a]
    BY <1>9, <2>4
  <2>7. Disjoint(lazy', Ready(c)' \cup KeepsOwner(cache'[c]))
    BY <1>1, <1>4, <1>6, <2>5 DEF FitAt, Disjoint
  <2> QED
    BY <1>4, <1>6, <2>5, <2>6, <2>7 DEF FitAt
<1>14. \A a \in Addr \ T : hdr'[a] = hdr[a]
  BY <1>9
<1>15. lazy' \subseteq lazy
  BY <1>1
<1> HIDE DEF T
<1> QED
  BY <1>3, <1>11, <1>12, <1>13, <1>14, <1>15, WriteFit

\* The header of a fresh block that leaves in a batch is initialised.
LEMMA InitializedFit == InitializedHeader.magic = TRUE
  BY DEF InitializedHeader, ZeroHeader

\* A free: its block keeps an initialised header with the owner it had, and blocks that
\* leave in the same step have one as well.
LEMMA FreeFit ==
    ASSUME OwnInv, FitInv, NEW c \in Caches, NEW b \in Addr, Accepted(c, b), Frame(c),
           UNCHANGED <<pool, inbox, id>>,
           NEW F, F \subseteq Owned(c) \cup {b},
           \A a \in Addr : hdr'[a] = IF a \in F THEN InitializedHeader
                                     ELSE IF a = b THEN MarkFreed(hdr[b]) ELSE hdr[a],
           lazy' = lazy \ (F \cup {b}),
           KeepsOwner(cache'[c]) \subseteq KeepsOwner(cache[c]) \cup {b},
           b \in KeepsOwner(cache'[c]) => hdr[b].owner = id[c],
           Disjoint(KeepsOwner(cache'[c]), F),
           KeepsOwner(cache'[c]) \cup Ready(c)' \subseteq Addr,
           Ready(c)' \subseteq Ready(c) \cup KeepsOwner(cache[c]) \cup {b} \cup F
    PROVE  FitInv'
<1> DEFINE T == F \cup {b}
           K == KeepsOwner(cache[c])
           K2 == KeepsOwner(cache'[c])
           R == Ready(c)
           R2 == Ready(c)'
<1>1. Live' = Live \ {b} /\ b \in Live
  BY LiveFree
<1>2. T \subseteq Live \cup Owned(c) /\ \A a \in Addr \ T : hdr'[a] = hdr[a]
  BY <1>1
<1>3. \A a \in Live' : a \in Live \ T /\ grant'[a] = grant[a]
  <2>1. Disjoint(Owned(c), Live)
    BY DEF OwnInv, Accounted, ExclusiveOwnership, Disjoint
  <2>2. \A a \in Live' : a \in Addr /\ a \in Live /\ a # b /\ a \notin F
    BY <1>1, <2>1 DEF Disjoint, Live
  <2> QED
    BY <2>2 DEF Accepted, OwnInv, TypeInv, TypeOK
<1>4. hdr[b] \in Header /\ FreeVerdict(hdr[b]) = "Ok"
  BY DEF OwnInv, TypeInv, TypeOK, Accepted
<1>5. /\ MarkFreed(hdr[b]).magic = TRUE /\ MarkFreed(hdr[b]).owner = hdr[b].owner
      /\ InitializedHeader.magic = TRUE
  BY <1>4, MarkFit, InitializedFit
<1>6. FitAt(c)
  BY FitParts
<1>7. /\ \A a \in R \cup K : hdr[a].magic /\ a \notin lazy
      /\ \A a \in K : hdr[a].owner = id[c]
  BY <1>6 DEF FitAt, Disjoint
<1> HIDE DEF K, R, K2, R2
<1>8. /\ K2 \subseteq K \cup {b} /\ (b \in K2 => hdr[b].owner = id[c])
      /\ Disjoint(K2, F) /\ K2 \cup R2 \subseteq Addr /\ R2 \subseteq R \cup K \cup {b} \cup F
  BY DEF K, R, K2, R2
<1>9. \A a \in R2 : hdr'[a].magic
  BY <1>5, <1>7, <1>8
<1>10. \A a \in K2 : hdr'[a].magic /\ hdr'[a].owner = id[c]
  BY <1>5, <1>7, <1>8 DEF Disjoint
<1>11. Disjoint(lazy', R2 \cup K2)
  BY <1>7, <1>8 DEF Disjoint
<1>12. FitAt(c)'
  BY <1>9, <1>10, <1>11 DEF FitAt, K2, R2
<1> HIDE DEF T
<1> QED
  BY <1>2, <1>3, <1>12, WriteFit

\* The owner's free.
LEMMA FreeLocalFit ==
    ASSUME OwnInv, FitInv, NEW c \in Caches, NEW b \in Addr, FreeLocal(c, b)
    PROVE  FitInv'
<1> DEFINE w == PushBlock(cache[c], b)
           F == {}
<1>1. /\ Accepted(c, b) /\ hdr[b].owner = id[c]
      /\ cache' = [cache EXCEPT ![c] = w]
      /\ hdr' = [hdr EXCEPT ![b] = MarkFreed(hdr[b])]
      /\ lazy' = lazy \ {b}
      /\ UNCHANGED <<pool, inbox, remote, id, pc, span, batch>>
  BY DEF FreeLocal
<1>2. b \notin Held(cache[c])
  BY <1>1, LiveFree, LiveApart
<1>3. /\ CacheSound(w) /\ KeepsOwner(w) \subseteq KeepsOwner(cache[c]) \cup {b}
      /\ w.shared \subseteq cache[c].shared \cup cache[c].hot
  BY <1>2, OwnFacts, PushBlockSound
<1> HIDE DEF w
<1>4. Frame(c) /\ cache'[c] = w
  BY <1>1 DEF OwnInv, TypeInv, TypeOK, Frame
<1>5. \A a \in Addr : hdr'[a] = IF a \in F THEN InitializedHeader
                                ELSE IF a = b THEN MarkFreed(hdr[b]) ELSE hdr[a]
  BY <1>1 DEF OwnInv, TypeInv, TypeOK
<1>6. Ready(c)' = w.shared \cup remote[c].pending \cup batch[c]
  BY <1>1, <1>4 DEF Ready
<1>7. Ready(c)' \subseteq Ready(c) \cup KeepsOwner(cache[c]) \cup {b} \cup F
  BY <1>3, <1>6 DEF Ready, KeepsOwner
<1>8. KeepsOwner(cache'[c]) \cup Ready(c)' \subseteq Addr
  <2>1. Held(w) \in SUBSET Addr
    BY <1>3, HeldInArena DEF CacheSound
  <2> QED
    BY <1>4, <1>6, <2>1, OwnFacts, KeptHeld
<1>9. /\ F \subseteq Owned(c) \cup {b} /\ lazy' = lazy \ (F \cup {b})
      /\ Disjoint(KeepsOwner(cache'[c]), F)
  BY <1>1 DEF Disjoint
<1> HIDE DEF F
<1> QED
  BY <1>1, <1>3, <1>4, <1>5, <1>7, <1>8, <1>9, FreeFit

\* The owner's free into a full cache.
LEMMA FreeLocalOverflowFit ==
    ASSUME OwnInv, FitInv, NEW c \in Caches, NEW b \in Addr, FreeLocalOverflow(c, b)
    PROVE  FitInv'
<1> DEFINE w == PushBlock(cache[c], b)
<1>1. /\ Accepted(c, b) /\ hdr[b].owner = id[c]
      /\ pc' = [pc EXCEPT ![c] = "return"]
      /\ UNCHANGED <<pool, inbox, remote, id, span>>
  BY DEF FreeLocalOverflow
<1>2. PICK out \in PopBatch(w, DrainCount) :
        /\ cache' = [cache EXCEPT ![c] = out.cache] /\ batch' = [batch EXCEPT ![c] = out.batch]
        /\ hdr' = InitializeFresh([hdr EXCEPT ![b] = MarkFreed(hdr[b])], out.fresh)
        /\ lazy' = lazy \ (out.fresh \cup {b})
  BY DEF FreeLocalOverflow
<1>3. b \notin Held(cache[c])
  BY <1>1, LiveFree, LiveApart
<1>4. /\ CacheSound(w) /\ Held(w) = Held(cache[c]) \cup {b}
      /\ KeepsOwner(w) \subseteq KeepsOwner(cache[c]) \cup {b}
      /\ w.shared \subseteq cache[c].shared \cup cache[c].hot
  BY <1>3, OwnFacts, PushBlockSound
<1> HIDE DEF w
<1> DEFINE F == out.fresh
<1>5. /\ out.batch \in SUBSET Held(w) /\ Held(out.cache) = Held(w) \ out.batch
      /\ KeepsOwner(out.cache) \subseteq KeepsOwner(w) /\ out.cache.shared \subseteq w.shared
      /\ F \in SUBSET out.batch /\ out.batch \ F \subseteq KeepsOwner(w) \cup w.shared
  BY <1>4, DrainCountNat, PopBatchSound DEF BatchSound, Taken
<1>6. Frame(c) /\ cache'[c] = out.cache /\ batch'[c] = out.batch
  BY <1>1, <1>2 DEF OwnInv, TypeInv, TypeOK, Frame
<1>7. \A a \in Addr : hdr'[a] = IF a \in F THEN InitializedHeader
                                ELSE IF a = b THEN MarkFreed(hdr[b]) ELSE hdr[a]
  BY <1>2 DEF OwnInv, TypeInv, TypeOK, InitializeFresh
<1>8. Ready(c)' = out.cache.shared \cup remote[c].pending \cup out.batch
  BY <1>1, <1>6 DEF Ready
<1> HIDE DEF F
<1>9. cache[c].hot \subseteq KeepsOwner(cache[c]) /\ cache[c].shared \cup remote[c].pending \subseteq Ready(c)
  BY DEF KeepsOwner, Ready
<1>10. Ready(c)' \subseteq Ready(c) \cup KeepsOwner(cache[c]) \cup {b} \cup F
  BY <1>4, <1>5, <1>8, <1>9
<1>11. KeepsOwner(out.cache) \cup out.cache.shared \subseteq Held(w) \ out.batch
  BY <1>5, KeptHeld
<1>12. KeepsOwner(cache'[c]) \cup Ready(c)' \subseteq Addr
  <2>1. Held(w) \in SUBSET Addr
    BY <1>4, HeldInArena DEF CacheSound
  <2> QED
    BY <1>5, <1>6, <1>8, <1>11, <2>1, OwnFacts
<1>13. /\ F \subseteq Owned(c) \cup {b} /\ lazy' = lazy \ (F \cup {b})
       /\ Disjoint(KeepsOwner(cache'[c]), F)
  <2>1. Held(cache[c]) \subseteq Owned(c)
    BY DEF Owned
  <2>2. lazy' = lazy \ (F \cup {b})
    BY <1>2 DEF F
  <2> QED
    BY <1>4, <1>5, <1>6, <1>11, <2>1, <2>2 DEF Disjoint
<1>14. KeepsOwner(cache'[c]) \subseteq KeepsOwner(cache[c]) \cup {b}
  BY <1>4, <1>5, <1>6
<1> QED
  BY <1>1, <1>6, <1>7, <1>10, <1>12, <1>13, <1>14, FreeFit

\* Another thread's free.
LEMMA FreeRemoteFit ==
    ASSUME OwnInv, FitInv, NEW c \in Caches, NEW b \in Addr, FreeRemote(c, b) \/ FreeRemoteFlush(c, b)
    PROVE  FitInv'
<1> DEFINE staged == PushPending(remote[c], {b})
           F == {}
<1>1. /\ Accepted(c, b)
      /\ hdr' = [hdr EXCEPT ![b] = MarkFreed(hdr[b])]
      /\ lazy' = lazy \ {b}
      /\ UNCHANGED <<pool, inbox, cache, id, span>>
  BY DEF FreeRemote, FreeRemoteFlush
<1>2. staged.pending = remote[c].pending \cup {b}
  BY DEF PushPending
<1>3. Frame(c) /\ remote'[c].pending \cup batch'[c] \subseteq remote[c].pending \cup batch[c] \cup {b}
  <2>1. CASE FreeRemote(c, b)
    <3>1. remote' = [remote EXCEPT ![c] = staged] /\ UNCHANGED <<pc, batch>>
      BY <2>1 DEF FreeRemote
    <3> HIDE DEF staged
    <3>2. Frame(c) /\ remote'[c] = staged
      BY <1>1, <3>1 DEF OwnInv, TypeInv, TypeOK, Frame
    <3> QED
      BY <1>2, <3>1, <3>2
  <2>2. CASE FreeRemoteFlush(c, b)
    <3>1. /\ remote' = [remote EXCEPT ![c] = NoPending]
          /\ batch' = [batch EXCEPT ![c] = staged.pending]
          /\ pc' = [pc EXCEPT ![c] = "publish"]
      BY <2>2 DEF FreeRemoteFlush
    <3> HIDE DEF staged
    <3>2. Frame(c) /\ remote'[c] = NoPending /\ batch'[c] = staged.pending
      BY <1>1, <3>1 DEF OwnInv, TypeInv, TypeOK, Frame
    <3>3. NoPending.pending = {}
      BY DEF NoPending
    <3> QED
      BY <1>2, <3>2, <3>3
  <2> QED
    BY <2>1, <2>2
<1>4. \A a \in Addr : hdr'[a] = IF a \in F THEN InitializedHeader
                                ELSE IF a = b THEN MarkFreed(hdr[b]) ELSE hdr[a]
  BY <1>1 DEF OwnInv, TypeInv, TypeOK
<1>5. Ready(c)' \subseteq Ready(c) \cup {b}
  BY <1>1, <1>3 DEF Ready
<1>6. Held(cache[c]) \in SUBSET Addr
  BY OwnFacts, HeldInArena
<1>7. KeepsOwner(cache[c]) \cup Ready(c) \subseteq Addr
  BY <1>6, OwnFacts, KeptHeld DEF Ready
<1>8. b \notin KeepsOwner(cache[c])
  BY <1>1, LiveFree, LiveApart, KeptHeld
<1>9. /\ KeepsOwner(cache'[c]) = KeepsOwner(cache[c]) /\ F \subseteq Owned(c) \cup {b}
      /\ lazy' = lazy \ (F \cup {b}) /\ Disjoint(KeepsOwner(cache'[c]), F)
  BY <1>1 DEF Disjoint
<1> HIDE DEF F
<1>10. /\ KeepsOwner(cache'[c]) \subseteq KeepsOwner(cache[c]) \cup {b}
       /\ KeepsOwner(cache'[c]) \cup Ready(c)' \subseteq Addr
       /\ b \in KeepsOwner(cache'[c]) => hdr[b].owner = id[c]
       /\ Ready(c)' \subseteq Ready(c) \cup KeepsOwner(cache[c]) \cup {b} \cup F
  BY <1>5, <1>7, <1>8, <1>9
<1> QED
  BY <1>1, <1>3, <1>4, <1>9, <1>10, FreeFit

\* One round of the drain loop.
LEMMA DrainPopFit ==
    ASSUME OwnInv, FitInv, NEW c \in Caches, DrainPop(c)
    PROVE  FitInv'
<1> DEFINE max == cache[c].total_len
           cc  == cache[c]
<1>1. PICK out \in PopBatch(cc, max) :
        /\ cache' = [cache EXCEPT ![c] = out.cache] /\ batch' = [batch EXCEPT ![c] = out.batch]
        /\ hdr' = InitializeFresh(hdr, out.fresh)
        /\ lazy' = lazy \ out.fresh
  BY DEF DrainPop
<1>2. /\ pc[c] = "drain" /\ pc' = [pc EXCEPT ![c] = "drain_return"] /\ max # 0
      /\ UNCHANGED <<pool, inbox, remote, id, span, grant>>
  BY DEF DrainPop
<1>3. max \in Nat /\ Addr # {}
  <2>1. max = Cardinality(Held(cc)) /\ Held(cc) \in SUBSET Addr
    BY OwnFacts, HeldInArena DEF CacheSound, CacheCoherent
  <2> QED
    BY <1>2, <2>1, AddrFinite, CardSmall
<1> HIDE DEF max
<1> DEFINE F == out.fresh
<1>4. /\ out.batch \in SUBSET Held(cc) /\ Held(out.cache) = Held(cc) \ out.batch
      /\ KeepsOwner(out.cache) \subseteq KeepsOwner(cc) /\ out.cache.shared \subseteq cc.shared
      /\ F \in SUBSET out.batch /\ out.batch \ F \subseteq KeepsOwner(cc) \cup cc.shared
  BY <1>3, OwnFacts, PopBatchSound DEF BatchSound, Taken
<1>5. Frame(c) /\ cache'[c] = out.cache /\ batch'[c] = out.batch
  BY <1>1, <1>2 DEF OwnInv, TypeInv, TypeOK, Frame
<1>6. \A a \in Addr : hdr'[a] = IF a \in F THEN InitializedHeader ELSE hdr[a]
  BY <1>1 DEF InitializeFresh
<1> DEFINE K == KeepsOwner(cc)
           R == Ready(c)
           K2 == KeepsOwner(out.cache)
           R2 == out.cache.shared \cup remote[c].pending \cup out.batch
<1>7. Ready(c)' = R2 /\ cc.shared \cup remote[c].pending \subseteq R
  BY <1>2, <1>5 DEF Ready
<1>8. K2 \cup out.cache.shared \subseteq Held(cc) \ out.batch
  BY <1>4, KeptHeld
<1>9. Held(cc) \subseteq Addr /\ remote[c].pending \subseteq Addr
  BY OwnFacts, HeldInArena
<1>10. /\ \A a \in R \cup K : hdr[a].magic /\ a \notin lazy
       /\ \A a \in K : hdr[a].owner = id[c]
  BY FitParts DEF FitAt, Disjoint
<1>11. K2 \cup R2 \subseteq Addr /\ R2 \subseteq R \cup K \cup F /\ K2 \subseteq K /\ Disjoint(K2, F)
  BY <1>4, <1>7, <1>8, <1>9 DEF Disjoint
<1>12. lazy' = lazy \ F
  BY <1>1
<1> HIDE DEF K, R, K2, R2, F
<1>13. /\ \A a \in R2 : hdr'[a].magic
       /\ \A a \in K2 : hdr'[a].magic /\ hdr'[a].owner = id[c]
  BY <1>6, <1>10, <1>11, InitializedFit DEF Disjoint
<1>14. Disjoint(lazy', R2 \cup K2)
  BY <1>10, <1>11, <1>12 DEF Disjoint
<1>15. FitAt(c)'
  BY <1>2, <1>5, <1>7, <1>13, <1>14 DEF FitAt, K2
<1>16. F \subseteq Live \cup Owned(c) /\ Disjoint(F, Live)
  <2>1. Held(cc) \subseteq Owned(c) /\ Disjoint(Owned(c), Live)
    BY DEF Owned, OwnInv, Accounted, ExclusiveOwnership, Disjoint
  <2> QED
    BY <1>4, <2>1 DEF Disjoint
<1>17. \A a \in Live' : a \in Live \ F /\ grant'[a] = grant[a]
  BY <1>2, <1>16 DEF Live, Disjoint
<1>18. lazy' \subseteq lazy /\ \A a \in Addr \ F : hdr'[a] = hdr[a]
  BY <1>6, <1>12
<1> QED
  BY <1>2, <1>5, <1>15, <1>16, <1>17, <1>18, WriteFit

\* The kernel zeroes only pages on which nothing is kept.
LEMMA ReclaimFit ==
    ASSUME OwnInv, FitInv, NEW b \in Addr, KernelReclaim(b)
    PROVE  FitInv'
<1>1. /\ b \in lazy /\ lazy' = lazy \ {b}
      /\ UNCHANGED <<pool, inbox, cache, remote, id, batch, grant>>
      /\ \A a : a \in Addr /\ a # b => hdr'[a] = hdr[a]
  BY DEF KernelReclaim, OwnInv, TypeInv, TypeOK
<1>2. LiveFit /\ PoolFit /\ \A c \in Caches : FitAt(c)
  BY FitParts
<1>3. LiveFit'
  <2>1. Live' = Live /\ Live \subseteq Addr /\ b \notin Live
    BY <1>1, <1>2 DEF Live, LiveFit, Disjoint
  <2> QED
    BY <1>1, <1>2, <2>1 DEF LiveFit, LiveHeaderSound, Disjoint
<1>4. PoolFit'
  <2>1. Listed' = Listed /\ Listed \subseteq Addr
    BY <1>1 DEF Listed, OwnInv, TypeInv, TypeOK, Pool, SlabRecord, PendingList
  <2> QED
    BY <1>1, <1>2, <2>1 DEF PoolFit
<1>5. ASSUME NEW c \in Caches PROVE FitAt(c)'
  <2>1. Held(cache[c]) \in SUBSET Addr
    BY OwnFacts, HeldInArena
  <2>2. KeepsOwner(cache[c]) \cup Ready(c) \subseteq Addr
    BY <2>1, OwnFacts, KeptHeld DEF Ready
  <2>3. Ready(c)' = Ready(c) /\ FitAt(c)
    BY <1>1, <1>2 DEF Ready
  <2>4. b \notin KeepsOwner(cache[c]) \cup Ready(c)
    BY <1>1, <2>3 DEF FitAt, Disjoint
  <2> QED
    BY <1>1, <2>2, <2>3, <2>4 DEF FitAt, Disjoint
<1> QED
  BY <1>3, <1>4, <1>5, FitPartsNext

\* Headers and pages depend on none of the variables a step leaves alone.
LEMMA UnchangedFit ==
    ASSUME FitInv, UNCHANGED <<pool, inbox, cache, remote, id, batch, hdr, lazy, grant>>
    PROVE  FitInv'
<1>1. Live' = Live /\ Listed' = Listed
  BY DEF Live, Listed
<1> QED
  BY <1>1 DEF FitInv, HeadersSound, LiveHeaderSound, RecycledHeaderFit, DiscardedPagesUnused

\* A new allocator: no block is in use or on a list.
LEMMA InitFit == Init => FitInv
<1> SUFFICES ASSUME Init PROVE FitInv
  OBVIOUS
<1>1. /\ lazy = {} /\ Listed = {}
  BY DEF Init, Listed, EmptyPool, NoPending
<1>2. Live = {}
  BY DEF Init, Live, NoGrant
<1>3. ASSUME NEW c \in Caches PROVE Ready(c) = {} /\ KeepsOwner(cache[c]) = {}
  BY NewCacheSound DEF Init, Ready, NoPending
<1>4. LiveFit /\ PoolFit /\ \A c \in Caches : FitAt(c)
  BY <1>1, <1>2, <1>3 DEF LiveFit, LiveHeaderSound, PoolFit, FitAt, Disjoint
<1> QED
  BY <1>4, FitParts

\* Every step keeps headers right and discarded pages unused.
LEMMA NextFit == OwnInv /\ FitInv /\ [Next]_vars => FitInv'
<1> SUFFICES ASSUME OwnInv, FitInv, [Next]_vars PROVE FitInv'
  OBVIOUS
<1>1. ASSUME NEW c \in Caches, Step(c) PROVE FitInv'
  <2>1. CASE AllocateRefilled(c)
    <3>1. TakeBlock(c, want[c]) /\ want[c] \in Sizes
      BY <2>1 DEF AllocateRefilled, OwnInv, TypeInv, WantsFit
    <3> QED
      BY <2>1, <3>1, TakeFit DEF AllocateRefilled
  <2> QED
    BY <1>1, <2>1, QuietFit, RegisterFit, ReturnFit, DrainPopFit DEF Step
<1>2. ASSUME NEW c \in Caches, Call(c) PROVE FitInv'
  <2>1. ASSUME NEW size \in Sizes, AllocateHit(c, size) PROVE FitInv'
    <3>1. pc' = [pc EXCEPT ![c] = "idle"] /\ TakeBlock(c, size)
          /\ UNCHANGED <<pool, inbox, remote, id, span, batch>>
      BY <2>1 DEF AllocateHit, OwnInv, TypeInv, TypeOK
    <3> QED
      BY <3>1, TakeFit
  <2> QED
    BY <1>2, <2>1, RefillBatchFit, RefillSlabFit, RefillMissFit, FreeLocalFit,
       FreeLocalOverflowFit, FreeRemoteFit, QuietFit DEF Call
<1>3. CASE ReserveElsewhere \/ UNCHANGED vars
  BY <1>3, UnchangedFit DEF ReserveElsewhere, vars
<1> QED
  BY <1>1, <1>2, <1>3, ReclaimFit DEF Next

\* The two invariants together, on top of ownership.
LEMMA FitInvHolds == Spec => []FitInv
  BY InitFit, NextFit, OwnInvHolds, PTL DEF Spec

\* The header of a block in use is the one its allocation wrote, and a header that the
\* next allocation does not rewrite is initialised and names the cache that keeps it,
\* whatever threads, kernel and reissued slabs did in between.
THEOREM HeadersAreSound == Spec => []HeadersSound
<1>1. FitInv => HeadersSound
  BY DEF FitInv
<1> QED
  BY <1>1, FitInvHolds, PTL

\* No page the sweep gave back to the kernel holds a block in use, a list node or a
\* header that is still read.
THEOREM DiscardIsSafe == Spec => []DiscardedPagesUnused
<1>1. FitInv => DiscardedPagesUnused
  BY DEF FitInv
<1> QED
  BY <1>1, FitInvHolds, PTL

-----------------------------------------------------------------------------
(***************************************************************************)
(* Bounds.  Between calls a cache is within its limit because a refill     *)
(* brings at most refill_count blocks, into an empty cache, and takes one  *)
(* out again, and because a free over the limit drains at least one block. *)
(***************************************************************************)
SlabsWithin == \A s \in Addr : pool[s].capacity <= RefillCount

WithinAt(c) ==
    /\ pc[c] = "register" => span[c].count <= RefillCount
    /\ remote[c].pending_len < DrainCount
    /\ pc[c] \in {"carve", "register"} => cache[c].total_len = 0
    /\ pc[c] = "pop" => cache[c].total_len <= RefillCount
    /\ pc[c] # "pop" => cache[c].total_len <= LocalLimit \/ cache[c].total_len < RefillCount

Within == SlabsWithin /\ \A c \in Caches : WithinAt(c)

\* Counts and bounds are numbers.
LEMMA BoundFacts ==
    ASSUME OwnInv, NEW c \in Caches
    PROVE  /\ cache[c].total_len \in Nat /\ remote[c].pending_len \in Nat
           /\ DrainCount \in Nat \ {0} /\ LocalLimit \in Nat /\ RefillCount \in Nat \ {0}
<1>1. cache[c].total_len \in Nat
  <2>1. Held(cache[c]) \in SUBSET Addr /\ cache[c].total_len = Cardinality(Held(cache[c]))
    BY OwnFacts, HeldInArena DEF CacheSound, CacheCoherent
  <2> QED
    BY <2>1, AddrFinite
<1>2. remote[c].pending_len \in Nat
  BY OwnFacts, AddrFinite
<1> QED
  BY <1>1, <1>2, SmallPathAssumption DEF DrainCount

\* A step of one thread leaves the bounds of the others; slabs keep their size.
LEMMA WithinKept ==
    ASSUME Within, NEW c \in Caches, Frame(c), SameLayout(pool, pool'), WithinAt(c)'
    PROVE  Within'
<1>1. \A d \in Caches \ {c} : WithinAt(d)'
  BY DEF Within, WithinAt, Frame
<1>2. SlabsWithin'
  BY DEF Within, SlabsWithin, SameLayout
<1> QED
  BY <1>1, <1>2 DEF Within

\* An allocation takes one block out of the cache.
LEMMA TakeWithin ==
    ASSUME OwnInv, Within, NEW c \in Caches, NEW size \in Sizes, TakeBlock(c, size),
           pc[c] \in {"idle", "pop"}, pc' = [pc EXCEPT ![c] = "idle"],
           UNCHANGED <<pool, remote, span, batch>>
    PROVE  Within'
<1>1. PICK pop \in PopBlock(cache[c]) : cache' = [cache EXCEPT ![c] = pop.cache]
  BY DEF TakeBlock
<1>2. PopSound(cache[c], pop)
  BY OwnFacts, PopBlockSound
<1>3. cache'[c] = pop.cache /\ Frame(c) /\ pc'[c] = "idle" /\ SameLayout(pool, pool')
  BY <1>1 DEF OwnInv, TypeInv, TypeOK, Frame, SameLayout
<1>4. cache'[c].total_len = cache[c].total_len - 1
  BY <1>2, <1>3, CardSmall DEF PopSound, Taken
<1>5. WithinAt(c)'
  BY <1>3, <1>4, BoundFacts DEF Within, WithinAt
<1> QED
  BY <1>3, <1>5, WithinKept

\* A batch of a partial slab: at most refill_count blocks.
LEMMA RefillBatchWithin ==
    ASSUME OwnInv, Within, NEW c \in Caches, NEW size \in Sizes, RefillBatch(c, size)
    PROVE  Within'
<1>0. PICK p \in Drained : \E s \in BatchSlabs(p) :
      \E B \in Batches(Least(RefillCount, Cardinality(p[s].partial_free)), p[s].partial_free) :
      \E r \in Sweep(TakePartialBatch(p, s, B)) :
            /\ PoolSection(p, TakePartialBatch(p, s, B), r)
            /\ cache' = [cache EXCEPT ![c] = PushSharedBatch(@, B)]
  BY DEF RefillBatch
<1>1. PICK s \in BatchSlabs(p) :
      \E B \in Batches(Least(RefillCount, Cardinality(p[s].partial_free)), p[s].partial_free) :
      \E r \in Sweep(TakePartialBatch(p, s, B)) :
            /\ PoolSection(p, TakePartialBatch(p, s, B), r)
            /\ cache' = [cache EXCEPT ![c] = PushSharedBatch(@, B)]
  BY <1>0
<1>2. PICK B \in Batches(Least(RefillCount, Cardinality(p[s].partial_free)), p[s].partial_free) :
      \E r \in Sweep(TakePartialBatch(p, s, B)) :
            /\ PoolSection(p, TakePartialBatch(p, s, B), r)
            /\ cache' = [cache EXCEPT ![c] = PushSharedBatch(@, B)]
  BY <1>1
<1> DEFINE q == TakePartialBatch(p, s, B)
           w == PushSharedBatch(cache[c], B)
<1>3. PICK r \in Sweep(q) : PoolSection(p, q, r) /\ cache' = [cache EXCEPT ![c] = w]
  BY <1>2
<1>4. PoolSound(p) /\ SameLayout(pool, p)
  BY DrainedSound
<1>5. s \in Bucket(p, "Partial") /\ s \in Addr /\ B \in SUBSET p[s].partial_free
  BY DEF BatchSlabs, Bucket, Batches
<1>6. PoolSound(q) /\ SameLayout(p, q) /\ B \in SUBSET Linked(p)
  BY <1>4, <1>5, TakePartialSound
<1> HIDE DEF q
<1>7. SameLayout(q, r) /\ pool' = r
  BY <1>3, <1>6, SweepSound DEF PoolSection
<1>8. SameLayout(pool, pool')
  BY <1>4, <1>6, <1>7 DEF SameLayout
<1>9. p[s].partial_free \in SUBSET Addr /\ B \in SUBSET Addr
  BY <1>4, <1>5 DEF PoolSound, PoolTyped, Pool, SlabRecord
<1>10. Cardinality(B) <= RefillCount /\ Cardinality(B) \in Nat
  <2>1. Cardinality(B) = Least(RefillCount, Cardinality(p[s].partial_free))
    BY DEF Batches
  <2>2. Cardinality(p[s].partial_free) \in Nat /\ RefillCount \in Nat
    BY <1>9, AddrFinite, SmallPathAssumption
  <2> QED
    BY <2>1, <2>2 DEF Least
<1>11. cache[c].total_len = 0
  BY DEF RefillBatch
<1>12. w.total_len = Cardinality(B)
  <2>1. Disjoint(B, Held(cache[c]))
    BY <1>11, OwnFacts, EmptyCache DEF Disjoint
  <2>2. w.total_len = cache[c].total_len + Cardinality(B)
    BY <1>5, <1>9, <2>1, OwnFacts, PushSharedSound
  <2> QED
    BY <1>10, <1>11, <2>2
<1> HIDE DEF w
<1>13. Frame(c) /\ cache'[c] = w /\ pc'[c] = "pop" /\ remote' = remote
  BY <1>3 DEF RefillBatch, OwnInv, TypeInv, TypeOK, Frame
<1>14. WithinAt(c)'
  BY <1>10, <1>12, <1>13 DEF Within, WithinAt
<1> QED
  BY <1>8, <1>13, <1>14, WithinKept

\* A loaned slab: no slab is larger than refill_count.
LEMMA RefillSlabWithin ==
    ASSUME OwnInv, Within, NEW c \in Caches, NEW size \in Sizes, RefillSlab(c, size)
    PROVE  Within'
<1>0. PICK p \in Drained : \E s \in LoanableSlabs(p) :
      \E r \in Sweep(LoanWholeSlab(p, s)) :
            /\ PoolSection(p, LoanWholeSlab(p, s), r)
            /\ cache' = [cache EXCEPT ![c] = PushOwnedSlab(@, s, p[s].capacity)]
  BY DEF RefillSlab
<1>1. PICK s \in LoanableSlabs(p) :
      \E r \in Sweep(LoanWholeSlab(p, s)) :
            /\ PoolSection(p, LoanWholeSlab(p, s), r)
            /\ cache' = [cache EXCEPT ![c] = PushOwnedSlab(@, s, p[s].capacity)]
  BY <1>0
<1> DEFINE q == LoanWholeSlab(p, s)
           n == p[s].capacity
           w == PushOwnedSlab(cache[c], s, n)
<1>2. PICK r \in Sweep(q) : PoolSection(p, q, r) /\ cache' = [cache EXCEPT ![c] = w]
  BY <1>1
<1>3. PoolSound(p) /\ SameLayout(pool, p)
  BY DrainedSound
<1>4. PoolSound(q) /\ SameLayout(p, q) /\ s \in Registered(p)
  BY <1>3, LoanSound
<1> HIDE DEF q
<1>5. SameLayout(q, r) /\ pool' = r
  BY <1>2, <1>4, SweepSound DEF PoolSection
<1>6. SameLayout(pool, pool')
  BY <1>3, <1>4, <1>5 DEF SameLayout
<1>7. /\ s \in Addr /\ n \in Nat \ {0} /\ s + n <= ArenaBlocks
      /\ s \in Registered(pool) /\ pool[s].capacity = n
  <2>1. s \in Registered(pool) /\ s \in Addr /\ pool[s].capacity = n
    BY <1>3, <1>4, SameArea DEF SameLayout, Registered
  <2>2. n \in Nat \ {0} /\ s + n <= ArenaBlocks
    BY <1>3, <1>4, <2>1 DEF PoolSound, PoolTyped, Pool, SlabRecord
  <2> QED
    BY <2>1, <2>2
<1>8. s \in KnownSlabs(cache[c]) => cache[c].slabs[s].capacity = n
  BY <1>7 DEF OwnInv, Accounted, Layout, SlabsAgree
<1>9. n <= RefillCount
  BY <1>7 DEF Within, SlabsWithin
<1> HIDE DEF n
<1>10. w.total_len = n
  <2>1. cache[c].total_len = 0
    BY DEF RefillSlab
  <2>2. Disjoint(s .. s + n - 1, Held(cache[c]))
    BY <2>1, OwnFacts, EmptyCache DEF Disjoint
  <2>3. w.total_len = cache[c].total_len + n
    BY <1>7, <1>8, <2>2, OwnFacts, PushOwnedSound
  <2> QED
    BY <1>7, <2>1, <2>3
<1> HIDE DEF w
<1>11. Frame(c) /\ cache'[c] = w /\ pc'[c] = "pop" /\ remote' = remote
  BY <1>2 DEF RefillSlab, OwnInv, TypeInv, TypeOK, Frame
<1>12. WithinAt(c)'
  BY <1>9, <1>10, <1>11 DEF Within, WithinAt
<1> QED
  BY <1>6, <1>11, <1>12, WithinKept

\* The span of an empty central pool becomes the only content of an empty cache.
LEMMA RegisterWithin ==
    ASSUME OwnInv, Within, NEW c \in Caches, Register(c)
    PROVE  Within'
<1> DEFINE start == span[c].start
           n == span[c].count
           q == RegisterSlab(pool, start, n)
           w == PushOwnedSlab(cache[c], start, n)
           G == start .. start + n - 1
<1>1. PICK r \in Sweep(q) : pool' = r
  BY DEF Register
<1>2. /\ pc[c] = "register"
      /\ cache' = [cache EXCEPT ![c] = w]
      /\ span' = [span EXCEPT ![c] = NoSpan]
      /\ pc' = [pc EXCEPT ![c] = "pop"]
      /\ UNCHANGED <<inbox, remote, id, batch, hdr, grant>>
  BY DEF Register
<1>3. start \in Addr /\ n \in Nat \ {0} /\ start + n <= ArenaBlocks
  BY <1>2 DEF OwnInv, TypeInv, SpansFit
<1>4. SpanBlocks(c) = G
  BY DEF SpanBlocks
<1>5. Disjoint(SlabArea(pool), G)
  BY <1>4 DEF OwnInv, Accounted, Layout, Parcelled
<1>6. Disjoint(G, Held(cache[c]))
  BY <1>4 DEF OwnInv, Accounted, ExclusiveOwnership, Disjoint
<1>7. /\ PoolSound(q) /\ q[start].capacity = n /\ \A s \in Addr \ {start} : q[s] = pool[s]
      /\ start \notin Registered(pool)
  BY <1>3, <1>5, OwnFacts, RegisterSound
<1> HIDE DEF q
<1>8. SameLayout(q, r)
  BY <1>7, SweepSound
<1>9. start \notin KnownSlabs(cache[c])
  BY <1>7 DEF OwnInv, Accounted, Layout, SlabsAgree
<1>10. w.total_len = cache[c].total_len + n
  BY <1>3, <1>6, <1>9, OwnFacts, PushOwnedSound
<1>11. n <= RefillCount /\ cache[c].total_len = 0
  BY <1>2 DEF Within, WithinAt
<1> HIDE DEF w
<1>12. Frame(c) /\ cache'[c] = w /\ pc'[c] = "pop" /\ remote' = remote
  BY <1>2 DEF OwnInv, TypeInv, TypeOK, Frame
<1>13. \A d \in Caches \ {c} : WithinAt(d)'
  BY <1>12 DEF Within, WithinAt, Frame
<1>14. WithinAt(c)'
  BY <1>3, <1>10, <1>11, <1>12 DEF Within, WithinAt
<1>15. SlabsWithin'
  BY <1>1, <1>7, <1>8, <1>11 DEF Within, SlabsWithin, SameLayout
<1> QED
  BY <1>13, <1>14, <1>15 DEF Within

\* Sections that only drain the inbox or file a batch.
LEMMA SectionWithin ==
    ASSUME OwnInv, Within, NEW c \in Caches,
           Return(c) \/ \E size \in Sizes : RefillMiss(c, size)
    PROVE  Within'
<1>1. SameLayout(pool, pool')
  <2>1. ASSUME NEW size \in Sizes, RefillMiss(c, size) PROVE SameLayout(pool, pool')
    <3>1. PICK p \in Drained : PoolSection(p, p, p)
      BY <2>1 DEF RefillMiss
    <3> QED
      BY <3>1, DrainedSound DEF PoolSection
  <2>2. CASE Return(c)
    <3> DEFINE B == batch[c]
    <3>1. PICK p \in Drained : \E r \in Returns(p, B) : PoolSection(p, ReturnBatch(p, B), r)
      BY <2>2 DEF Return
    <3>2. PICK r \in Returns(p, B) : PoolSection(p, ReturnBatch(p, B), r)
      BY <3>1
    <3>3. /\ PoolSound(p) /\ SlabArea(p) = SlabArea(pool) /\ SameLayout(pool, p)
          /\ CentralHeld(p) = CentralHeld(pool) \cup inbox.pending
      BY DrainedSound
    <3>4. Apart({}, CentralHeld(pool), inbox.pending, {},
                Held(cache[c]), remote[c].pending, batch[c], {})
      BY FiveApart
    <3>5. B \in SUBSET SlabArea(p) /\ Disjoint(B, CentralHeld(p))
      BY <3>3, <3>4, InSlabs DEF Apart, Disjoint
    <3> HIDE DEF B
    <3>6. SameLayout(p, r)
      BY <3>3, <3>5, ReturnsSound
    <3> QED
      BY <3>2, <3>3, <3>6 DEF SameLayout, PoolSection
  <2> QED
    BY <2>1, <2>2
<1>2. Frame(c) /\ cache' = cache /\ remote' = remote /\ pc'[c] \in {"idle", "drain", "carve"}
      /\ (pc'[c] = "carve" => cache[c].total_len = 0) /\ pc[c] # "pop"
  BY DEF Return, RefillMiss, OwnInv, TypeInv, TypeOK, Frame
<1>3. WithinAt(c)'
  BY <1>2 DEF Within, WithinAt
<1> QED
  BY <1>1, <1>2, <1>3, WithinKept

\* Steps that leave the pool and fill no cache.
LEMMA QuietWithin ==
    ASSUME OwnInv, Within, NEW c \in Caches,
           \/ Carve(c) \/ OutOfMemory(c) \/ Publish(c) \/ StartDrain(c)
           \/ DrainDone(c) \/ ExitThread(c)
    PROVE  Within'
<1>1. pool' = pool /\ SameLayout(pool, pool') /\ pc[c] # "pop"
  BY DEF Carve, OutOfMemory, Publish, StartDrain, DrainDone, ExitThread, SameLayout
<1>2. Frame(c)
  BY DEF OwnInv, TypeInv, TypeOK, Frame, Carve, OutOfMemory, Publish, StartDrain, DrainDone, ExitThread
<1>3. WithinAt(c)'
  <2>1. CASE Carve(c)
    <3> DEFINE n == Least(RefillCount, ArenaBlocks - next)
    <3>1. n <= RefillCount
      BY OwnFacts, ArenaBlocksAssumption, SmallPathAssumption DEF Least
    <3> HIDE DEF n
    <3>2. span' = [span EXCEPT ![c] = [start |-> next, count |-> n]]
      BY <2>1 DEF Carve, n
    <3>3. span'[c].count = n
      BY <3>2 DEF OwnInv, TypeInv, TypeOK
    <3>4. /\ pc[c] = "carve" /\ pc'[c] = "register" /\ cache' = cache /\ remote' = remote
      BY <2>1 DEF Carve, OwnInv, TypeInv, TypeOK
    <3> QED
      BY <3>1, <3>3, <3>4 DEF Within, WithinAt
  <2>2. CASE OutOfMemory(c) \/ Publish(c) \/ DrainDone(c)
    <3>1. pc'[c] \in {"idle", "drain"} /\ cache' = cache /\ remote' = remote
      BY <2>2 DEF OutOfMemory, Publish, DrainDone, OwnInv, TypeInv, TypeOK
    <3> QED
      BY <1>1, <3>1 DEF Within, WithinAt
  <2>3. CASE StartDrain(c)
    <3>1. remote'[c] = NoPending /\ NoPending.pending_len = 0 /\ cache' = cache
          /\ pc'[c] \in {"drain", "drain_publish"}
      BY <2>3 DEF StartDrain, NoPending, OwnInv, TypeInv, TypeOK
    <3> QED
      BY <1>1, <3>1, BoundFacts DEF Within, WithinAt
  <2>4. CASE ExitThread(c)
    <3>1. cache'[c] = NewClassCache /\ remote' = remote /\ pc'[c] = "idle"
      BY <2>4 DEF ExitThread, OwnInv, TypeInv, TypeOK
    <3>2. cache'[c].total_len = 0
      BY <3>1, NewCacheSound
    <3> QED
      BY <3>1, <3>2, BoundFacts DEF Within, WithinAt
  <2> QED
    BY <2>1, <2>2, <2>3, <2>4
<1> QED
  BY <1>1, <1>2, <1>3, WithinKept

\* A batch that leaves the cache makes it no larger.
LEMMA BatchShrinks ==
    ASSUME NEW cc, CacheSound(cc), NEW max \in Nat, NEW out \in PopBatch(cc, max), Addr # {}
    PROVE  /\ out.cache.total_len <= cc.total_len
           /\ max # 0 /\ cc.total_len # 0 => out.cache.total_len < cc.total_len
<1>1. BatchSound(cc, max, out)
  BY PopBatchSound
<1>2. /\ out.cache.total_len = cc.total_len - Cardinality(out.batch)
      /\ out.batch \in SUBSET Addr
      /\ max # 0 /\ cc.total_len # 0 => out.batch # {}
  BY <1>1, HeldInArena DEF BatchSound, Taken, CacheSound
<1>3. Cardinality(out.batch) \in Nat /\ (Cardinality(out.batch) = 0 => out.batch = {})
  BY <1>2, AddrFinite, CardSmall
<1>4. cc.total_len \in Nat
  BY HeldInArena, AddrFinite DEF CacheSound, CacheCoherent
<1> QED
  BY <1>2, <1>3, <1>4

\* A free adds a block within the limit, or drains at least one block.
LEMMA FreeWithin ==
    ASSUME OwnInv, Within, NEW c \in Caches, NEW b \in Addr,
           FreeLocal(c, b) \/ FreeLocalOverflow(c, b) \/ FreeRemote(c, b) \/ FreeRemoteFlush(c, b)
    PROVE  Within'
<1> DEFINE w == PushBlock(cache[c], b)
           staged == PushPending(remote[c], {b})
<1>1. Accepted(c, b) /\ pool' = pool /\ span' = span
  BY DEF FreeLocal, FreeLocalOverflow, FreeRemote, FreeRemoteFlush
<1>2. pc[c] = "idle" /\ b \notin Held(cache[c])
  BY <1>1, LiveFree, LiveApart
<1>3. CacheSound(w) /\ w.total_len = cache[c].total_len + 1
  BY <1>2, OwnFacts, PushBlockSound
<1> HIDE DEF w, staged
<1>4. Frame(c) /\ WithinAt(c)'
  <2>1. CASE FreeLocal(c, b)
    <3>1. w.total_len <= LocalLimit /\ cache' = [cache EXCEPT ![c] = w] /\ UNCHANGED <<remote, pc, batch>>
      BY <2>1 DEF FreeLocal, w
    <3>2. Frame(c) /\ cache'[c] = w
      BY <1>1, <3>1 DEF OwnInv, TypeInv, TypeOK, Frame
    <3> QED
      BY <1>2, <3>1, <3>2 DEF Within, WithinAt
  <2>2. CASE FreeLocalOverflow(c, b)
    <3>1. PICK out \in PopBatch(w, DrainCount) :
            /\ cache' = [cache EXCEPT ![c] = out.cache] /\ batch' = [batch EXCEPT ![c] = out.batch]
      BY <2>2 DEF FreeLocalOverflow, w
    <3>2. Frame(c) /\ cache'[c] = out.cache /\ pc'[c] = "return" /\ remote' = remote
      BY <1>1, <2>2, <3>1 DEF FreeLocalOverflow, OwnInv, TypeInv, TypeOK, Frame
    <3>3. DrainCount \in Nat /\ DrainCount # 0 /\ w.total_len # 0 /\ cache[c].total_len \in Nat
      BY <1>3, BoundFacts
    <3>4. out.cache.total_len < w.total_len
      BY <1>3, <3>3, BatchShrinks
    <3>5. out.cache.total_len \in Int
      <4>1. BatchSound(w, DrainCount, out)
        BY <1>3, <3>3, PopBatchSound
      <4> QED
        BY <4>1 DEF BatchSound, Taken, CacheSound, CacheTyped, ClassCache
    <3>6. out.cache.total_len <= cache[c].total_len
      BY <1>3, <3>3, <3>4, <3>5
    <3>7. cache[c].total_len <= LocalLimit \/ cache[c].total_len < RefillCount
      BY <1>2 DEF Within, WithinAt
    <3>8. cache'[c].total_len <= LocalLimit \/ cache'[c].total_len < RefillCount
      BY <3>2, <3>3, <3>5, <3>6, <3>7, BoundFacts
    <3> QED
      BY <3>2, <3>8 DEF Within, WithinAt
  <2>3. CASE FreeRemote(c, b)
    <3>1. staged.pending_len < DrainCount /\ remote' = [remote EXCEPT ![c] = staged]
          /\ UNCHANGED <<cache, pc, batch>>
      BY <2>3 DEF FreeRemote, staged
    <3>2. Frame(c) /\ remote'[c] = staged
      BY <1>1, <3>1 DEF OwnInv, TypeInv, TypeOK, Frame
    <3> QED
      BY <1>2, <3>1, <3>2 DEF Within, WithinAt
  <2>4. CASE FreeRemoteFlush(c, b)
    <3>1. Frame(c) /\ remote'[c] = NoPending /\ cache' = cache /\ pc'[c] = "publish"
      BY <1>1, <2>4 DEF FreeRemoteFlush, OwnInv, TypeInv, TypeOK, Frame
    <3>2. NoPending.pending_len = 0
      BY DEF NoPending
    <3> QED
      BY <1>2, <3>1, <3>2, BoundFacts DEF Within, WithinAt
  <2> QED
    BY <2>1, <2>2, <2>3, <2>4
<1> QED
  BY <1>1, <1>4, WithinKept DEF SameLayout

\* The drain loop only takes out.
LEMMA DrainPopWithin ==
    ASSUME OwnInv, Within, NEW c \in Caches, DrainPop(c)
    PROVE  Within'
<1> DEFINE max == cache[c].total_len
<1>1. PICK out \in PopBatch(cache[c], max) :
        cache' = [cache EXCEPT ![c] = out.cache] /\ batch' = [batch EXCEPT ![c] = out.batch]
  BY DEF DrainPop
<1>2. /\ pc[c] = "drain" /\ max # 0 /\ max \in Nat
      /\ pool' = pool /\ remote' = remote /\ span' = span
      /\ pc' = [pc EXCEPT ![c] = "drain_return"]
  BY BoundFacts DEF DrainPop
<1>3. Frame(c) /\ cache'[c] = out.cache /\ pc'[c] = "drain_return" /\ SameLayout(pool, pool')
  BY <1>1, <1>2 DEF OwnInv, TypeInv, TypeOK, Frame, SameLayout
<1>4. Addr # {}
  <2>1. max = Cardinality(Held(cache[c])) /\ Held(cache[c]) \in SUBSET Addr
    BY OwnFacts, HeldInArena DEF CacheSound, CacheCoherent
  <2> QED
    BY <1>2, <2>1, CardSmall
<1>5. out.cache.total_len <= max
  BY <1>2, <1>4, OwnFacts, BatchShrinks
<1>6. out.cache.total_len \in Int
  <2>1. BatchSound(cache[c], max, out)
    BY <1>2, <1>4, OwnFacts, PopBatchSound
  <2> QED
    BY <2>1 DEF BatchSound, Taken, CacheSound, CacheTyped, ClassCache
<1>7. max <= LocalLimit \/ max < RefillCount
  BY <1>2 DEF Within, WithinAt
<1>8. cache'[c].total_len <= LocalLimit \/ cache'[c].total_len < RefillCount
  BY <1>2, <1>3, <1>5, <1>6, <1>7, BoundFacts
<1>9. WithinAt(c)'
  BY <1>2, <1>3, <1>8 DEF Within, WithinAt
<1> QED
  BY <1>3, <1>9, WithinKept

\* The bounds at the start.
LEMMA InitWithin == Init => Within
<1> SUFFICES ASSUME Init PROVE Within
  OBVIOUS
<1>1. SlabsWithin
  BY SmallPathAssumption DEF Init, EmptyPool, SlabsWithin
<1>2. DrainCount \in Nat \ {0} /\ LocalLimit \in Nat
  BY SmallPathAssumption DEF DrainCount
<1>3. ASSUME NEW c \in Caches PROVE WithinAt(c)
  <2>1. cache[c].total_len = 0 /\ remote[c].pending_len = 0 /\ pc[c] = "idle"
    BY NewCacheSound DEF Init, NoPending
  <2> QED
    BY <1>2, <2>1 DEF WithinAt
<1> QED
  BY <1>1, <1>3 DEF Within

\* The bounds after every step.
LEMMA NextWithin == OwnInv /\ Within /\ [Next]_vars => Within'
<1> SUFFICES ASSUME OwnInv, Within, [Next]_vars PROVE Within'
  OBVIOUS
<1>1. ASSUME NEW c \in Caches, Step(c) PROVE Within'
  <2>1. CASE AllocateRefilled(c)
    <3>1. TakeBlock(c, want[c]) /\ want[c] \in Sizes
      BY <2>1 DEF AllocateRefilled, OwnInv, TypeInv, WantsFit
    <3> QED
      BY <2>1, <3>1, TakeWithin DEF AllocateRefilled
  <2> QED
    BY <1>1, <2>1, QuietWithin, RegisterWithin, SectionWithin, DrainPopWithin DEF Step
<1>2. ASSUME NEW c \in Caches, Call(c) PROVE Within'
  <2>1. ASSUME NEW size \in Sizes, AllocateHit(c, size) PROVE Within'
    <3>1. pc' = [pc EXCEPT ![c] = "idle"] /\ TakeBlock(c, size) /\ pc[c] = "idle"
          /\ UNCHANGED <<pool, remote, span, batch>>
      BY <2>1 DEF AllocateHit, OwnInv, TypeInv, TypeOK
    <3> QED
      BY <3>1, TakeWithin
  <2> QED
    BY <1>2, <2>1, RefillBatchWithin, RefillSlabWithin, SectionWithin, FreeWithin, QuietWithin DEF Call
<1>3. ASSUME UNCHANGED <<pool, cache, remote, pc, span>> PROVE Within'
  BY <1>3 DEF Within, SlabsWithin, WithinAt
<1> QED
  BY <1>1, <1>2, <1>3 DEF Next, vars, KernelReclaim, ReserveElsewhere

\* Between calls every cache is within local_limit, or holds less than one refill, and
\* stages fewer remote frees than one batch: memory that threads keep for themselves is
\* bounded, for any refill count and any limit.
THEOREM CachesAreBounded == Spec => []CacheBounded
<1>1. Within => CacheBounded
  BY DEF Within, WithinAt, CacheBounded
<1> QED
  BY <1>1, InitWithin, NextWithin, OwnInvHolds, PTL DEF Spec
=============================================================================
