------------------------- MODULE SlabVectorsProofs --------------------------
(***************************************************************************)
(* Proofs about the represented slab tables: the class cache of a thread   *)
(* (LocalClassCache) and the class pool (ClassPool).  The first parts are  *)
(* about what they share: the index sorted by start, and vectors with      *)
(* back-pointers under push and swap_remove.                               *)
(***************************************************************************)
EXTENDS ClassPool, LocalClassCache, FiniteSetTheorems, SequenceTheorems, TLAPS

-----------------------------------------------------------------------------
\* The index of a table is sorted by start and names every slab record.
Indexed(c) ==
    /\ \A k \in DOMAIN c.by_start : c.by_start[k] \in DOMAIN c.slabs
    /\ \A i \in DOMAIN c.slabs : \E k \in DOMAIN c.by_start : c.by_start[k] = i
    /\ \A j, k \in DOMAIN c.by_start :
          j < k => c.slabs[c.by_start[j]].start < c.slabs[c.by_start[k]].start

\* The slab records are spans of the arena, each recorded once.
SpansRecorded(c) ==
    /\ \A i \in DOMAIN c.slabs :
          \E sp \in Spans : c.slabs[i].start = sp.start /\ c.slabs[i].capacity = sp.count
    /\ \A i, j \in DOMAIN c.slabs : c.slabs[i].start = c.slabs[j].start => i = j

\* The vector v lists the slabs of M, each once, and their slots point back into v.
Listed(slabs, v, M) ==
    /\ \A k \in DOMAIN v : v[k] \in M /\ slabs[v[k]].slot = k
    /\ \A i \in M : slabs[i].slot \in DOMAIN v /\ v[slabs[i].slot] = i

-----------------------------------------------------------------------------
LocalSlabRecord ==
    [start : Nat, capacity : Nat, next_fresh : Nat, free : Seq(Nat), slot : Nat]

LocalCacheRecord ==
    [hot : SUBSET Nat, slabs : Seq(LocalSlabRecord), by_start : Seq(Nat), avail : Seq(Nat),
     recent : Nat, shared : Seq(Nat), shared_len : Int, total_len : Int]

\* No block twice in a list.
Once(s) == \A j, k \in DOMAIN s : s[j] = s[k] => j = k

\* The blocks a slab can give: the reclaimed ones and the fresh ones.
Stock(slab) == ToSet(slab.free) \cup (slab.start + slab.next_fresh .. slab.start + slab.capacity - 1)

\* Reclaimed blocks were handed out before, and are listed once.
StockSound(slab) ==
    /\ slab.next_fresh <= slab.capacity
    /\ Once(slab.free)
    /\ ToSet(slab.free) \subseteq slab.start .. slab.start + slab.next_fresh - 1

CacheHeld(c) ==
    c.hot \cup ToSet(c.shared) \cup UNION {Stock(c.slabs[i]) : i \in DOMAIN c.slabs}

Ready(c) == {i \in DOMAIN c.slabs : HasAvailable(c.slabs[i])}

\* The shape of the cache when the slabs of M are listed as available: index,
\* back-pointers and shortcut.  Between calls M is Ready(c).
CacheShape(c, M) ==
    /\ c \in LocalCacheRecord
    /\ c.recent \in 0 .. Len(c.slabs)
    /\ Indexed(c)
    /\ SpansRecorded(c)
    /\ M \subseteq DOMAIN c.slabs
    /\ Listed(c.slabs, c.avail, M)
    /\ \A i \in DOMAIN c.slabs : c.slabs[i].slot = 0 <=> i \notin M

\* What the cache holds: each block once, in one place.
CacheStock(c) ==
    /\ \A i \in DOMAIN c.slabs : StockSound(c.slabs[i])
    /\ c.hot = {} \/ \E b \in 0 .. ArenaBlocks - 1 : c.hot = {b}
    /\ Once(c.shared)
    /\ c.shared_len = Len(c.shared)
    /\ ToSet(c.shared) \subseteq 0 .. ArenaBlocks - 1
    /\ c.hot \cap ToSet(c.shared) = {}
    /\ \A i \in DOMAIN c.slabs : Stock(c.slabs[i]) \cap (c.hot \cup ToSet(c.shared)) = {}

\* A cache between two calls: its vectors agree with its slabs and its parts are apart.
CacheSound(c) == CacheShape(c, Ready(c)) /\ CacheStock(c)

Addresses == 0 .. ArenaBlocks - 1

\* The inductive invariant of LocalClassCache: the shape, the stock, and the counter
\* total_len, which counts exactly the blocks that are not outside.
CacheInv ==
    /\ CacheSound(cc)
    /\ out = Addresses \ CacheHeld(cc)
    /\ cc.total_len = Cardinality(CacheHeld(cc))

-----------------------------------------------------------------------------
(* Sequences as the vectors and lists of the code use them.                *)

\* A pushed list: the new node is first, the others move up by one.
LEMMA PrependIs ==
    ASSUME NEW v \in Seq(Nat), NEW e \in Nat
    PROVE  /\ <<e>> \o v \in Seq(Nat)
           /\ Len(<<e>> \o v) = Len(v) + 1
           /\ \A k \in 1 .. Len(v) + 1 : (<<e>> \o v)[k] = IF k = 1 THEN e ELSE v[k - 1]
    OBVIOUS

\* Vec::push: the others stay, the new element is last.
LEMMA AppendIs ==
    ASSUME NEW v \in Seq(Nat), NEW e \in Nat
    PROVE  /\ Append(v, e) \in Seq(Nat)
           /\ Len(Append(v, e)) = Len(v) + 1
           /\ \A k \in 1 .. Len(v) + 1 :
                 Append(v, e)[k] = IF k = Len(v) + 1 THEN e ELSE v[k]
    OBVIOUS

\* Two lists one after the other.
LEMMA ConcatIs ==
    ASSUME NEW u \in Seq(Nat), NEW v \in Seq(Nat)
    PROVE  /\ u \o v \in Seq(Nat)
           /\ Len(u \o v) = Len(u) + Len(v)
           /\ \A k \in 1 .. Len(u) : (u \o v)[k] = u[k]
           /\ \A k \in 1 .. Len(v) : (u \o v)[Len(u) + k] = v[k]
    OBVIOUS

\* The list that is left when its first n nodes have gone.
LEMMA RestIs ==
    ASSUME NEW v \in Seq(Nat), NEW n \in 0 .. Len(v)
    PROVE  /\ SubSeq(v, n + 1, Len(v)) \in Seq(Nat)
           /\ Len(SubSeq(v, n + 1, Len(v))) = Len(v) - n
           /\ \A k \in 1 .. Len(v) - n : SubSeq(v, n + 1, Len(v))[k] = v[n + k]
    OBVIOUS

\* Vec::swap_remove: the last element fills the hole, the others stay.
LEMMA SwapRemoveIs ==
    ASSUME NEW v \in Seq(Nat), NEW slot \in 1 .. Len(v)
    PROVE  /\ SwapRemove(v, slot) \in Seq(Nat)
           /\ Len(SwapRemove(v, slot)) = Len(v) - 1
           /\ \A k \in 1 .. Len(v) - 1 :
                 /\ k = slot => SwapRemove(v, slot)[k] = v[Len(v)]
                 /\ k # slot => SwapRemove(v, slot)[k] = v[k]
<1> DEFINE w == [v EXCEPT ![slot] = Last(v)]
<1>1. w \in Seq(Nat) /\ Len(w) = Len(v)
    BY DEF Last
<1>2. \A k \in 1 .. Len(v) : (k = slot => w[k] = v[Len(v)]) /\ (k # slot => w[k] = v[k])
    BY DEF Last
<1> HIDE DEF w
<1>3. /\ SubSeq(w, 1, Len(w) - 1) \in Seq(Nat)
      /\ Len(SubSeq(w, 1, Len(w) - 1)) = Len(v) - 1
      /\ \A k \in 1 .. Len(v) - 1 : SubSeq(w, 1, Len(w) - 1)[k] = w[k]
    BY SMTT(30), <1>1
<1>4. SwapRemove(v, slot) = SubSeq(w, 1, Len(w) - 1)
    BY DEF SwapRemove, Front, w
<1> QED BY SMTT(30), <1>2, <1>3, <1>4

\* Vec::insert: the elements from the slot on move up by one.
LEMMA InsertAtIs ==
    ASSUME NEW v \in Seq(Nat), NEW e \in Nat, NEW n \in 1 .. Len(v) + 1
    PROVE  /\ InsertAt(v, n, e) \in Seq(Nat)
           /\ Len(InsertAt(v, n, e)) = Len(v) + 1
           /\ \A k \in 1 .. n - 1 : InsertAt(v, n, e)[k] = v[k]
           /\ InsertAt(v, n, e)[n] = e
           /\ \A k \in n .. Len(v) : InsertAt(v, n, e)[k + 1] = v[k]
<1> DEFINE a == SubSeq(v, 1, n - 1)
           b == SubSeq(v, n, Len(v))
           m == <<e>>
<1>1. a \in Seq(Nat) /\ Len(a) = n - 1 /\ \A k \in 1 .. n - 1 : a[k] = v[k]
    OBVIOUS
<1>2. /\ b \in Seq(Nat) /\ Len(b) = Len(v) - n + 1
      /\ \A k \in n .. Len(v) : b[k - n + 1] = v[k]
    OBVIOUS
<1>3. m \in Seq(Nat) /\ Len(m) = 1 /\ m[1] = e
    OBVIOUS
<1>4. InsertAt(v, n, e) = a \o m \o b
    BY DEF InsertAt
<1> HIDE DEF a, b, m
<1> DEFINE am == a \o m
<1>5. /\ am \in Seq(Nat) /\ Len(am) = Len(a) + Len(m)
      /\ \A k \in 1 .. Len(a) : am[k] = a[k]
      /\ \A k \in 1 .. Len(m) : am[Len(a) + k] = m[k]
    BY ONLY <1>1, <1>3, ConcatIs
<1> HIDE DEF am
<1>6. /\ Len(am) = n
      /\ \A k \in 1 .. n - 1 : am[k] = v[k]
      /\ am[n] = e
    <2>1. Len(am) = n /\ \A k \in 1 .. n - 1 : am[k] = v[k]
        BY <1>1, <1>3, <1>5
    <2>2. am[Len(a) + 1] = m[1] /\ Len(a) + 1 = n
        BY <1>1, <1>3, <1>5
    <2> QED BY <2>1, <2>2, <1>3
<1> DEFINE w == am \o b
<1>7. /\ w \in Seq(Nat) /\ Len(w) = Len(am) + Len(b)
      /\ \A k \in 1 .. Len(am) : w[k] = am[k]
      /\ \A k \in 1 .. Len(b) : w[Len(am) + k] = b[k]
    BY ONLY <1>2, <1>5, ConcatIs
<1>8. InsertAt(v, n, e) = w
    BY <1>4 DEF am
<1> HIDE DEF w
<1>9. Len(w) = Len(v) + 1 /\ \A k \in 1 .. n - 1 : w[k] = v[k]
    BY <1>2, <1>6, <1>7
<1>10. w[n] = e
    BY <1>6, <1>7
<1>11. ASSUME NEW k \in n .. Len(v) PROVE w[k + 1] = v[k]
    <2>1. k - n + 1 \in 1 .. Len(b) /\ Len(am) + (k - n + 1) = k + 1
        BY <1>2, <1>6
    <2>2. w[Len(am) + (k - n + 1)] = b[k - n + 1]
        BY ONLY <2>1, <1>7
    <2> QED BY <2>1, <2>2, <1>2
<1> QED BY <1>7, <1>8, <1>9, <1>10, <1>11

-----------------------------------------------------------------------------
(* The index sorted by start.                                              *)

\* An initial part of 1 .. n with m elements is 1 .. m.
LEMMA InitialPart ==
    ASSUME NEW n \in Nat, NEW S \in SUBSET (1 .. n),
           \A j, k \in 1 .. n : j < k /\ k \in S => j \in S
    PROVE  Cardinality(S) \in 0 .. n /\ S = 1 .. Cardinality(S)
<1> DEFINE m == Cardinality(S)
<1>1. IsFiniteSet(1 .. n) /\ Cardinality(1 .. n) = n
    BY FS_Interval
<1>2. IsFiniteSet(S) /\ m \in Nat /\ m <= n
    BY <1>1, FS_Subset, FS_CardinalityType
<1>3. ASSUME NEW k \in S PROVE k <= m
    <2>1. 1 .. k \subseteq S
        OBVIOUS
    <2>2. Cardinality(1 .. k) = k
        BY FS_Interval
    <2> QED BY <2>1, <2>2, <1>2, FS_Subset
<1>4. S \subseteq 1 .. m
    BY <1>2, <1>3
<1>5. IsFiniteSet(1 .. m) /\ Cardinality(1 .. m) = m
    BY <1>2, FS_Interval
<1>6. S = 1 .. m
    BY <1>4, <1>5, FS_Subset
<1> QED BY <1>2, <1>6

\* partition_point on the sorted index: the slabs that start at or below b are the
\* first ones of the index.
LEMMA StartsUpToIs ==
    ASSUME NEW c, NEW b \in Nat, Indexed(c), c.by_start \in Seq(Nat),
           \A i \in DOMAIN c.slabs : c.slabs[i].start \in Nat
    PROVE  /\ StartsUpTo(c, b) \in 0 .. Len(c.by_start)
           /\ \A k \in 1 .. Len(c.by_start) :
                 c.slabs[c.by_start[k]].start <= b <=> k <= StartsUpTo(c, b)
<1> DEFINE n == Len(c.by_start)
           S == {k \in DOMAIN c.by_start : c.slabs[c.by_start[k]].start <= b}
<1>1. n \in Nat /\ S \in SUBSET (1 .. n) /\ DOMAIN c.by_start = 1 .. n
    OBVIOUS
<1> DEFINE s(k) == c.slabs[c.by_start[k]].start
<1>9. \A k \in 1 .. n : s(k) \in Nat
    BY <1>1 DEF Indexed
<1>10. \A j, k \in 1 .. n : j < k => s(j) < s(k)
    BY <1>1 DEF Indexed
<1>11. \A k \in 1 .. n : k \in S <=> s(k) <= b
    BY <1>1
<1>2. \A j, k \in 1 .. n : j < k /\ k \in S => j \in S
    <2> HIDE DEF s, S, n
    <2> QED BY <1>9, <1>10, <1>11
<1>3. StartsUpTo(c, b) = Cardinality(S)
    BY DEF StartsUpTo
<1>4. \A k \in 1 .. n : c.slabs[c.by_start[k]].start <= b <=> k \in S
    BY <1>1
<1> HIDE DEF S, n
<1>5. Cardinality(S) \in 0 .. n /\ S = 1 .. Cardinality(S)
    BY <1>1, <1>2, InitialPart
<1>6. \A k \in 1 .. n : k \in S <=> k <= Cardinality(S)
    BY <1>5
<1> QED BY <1>3, <1>4, <1>5, <1>6 DEF n

\* Slabs that are spans of the arena overlap only if they are the same slab.
LEMMA SlabsApart ==
    ASSUME NEW c, SpansRecorded(c), NEW i \in DOMAIN c.slabs, NEW j \in DOMAIN c.slabs,
           NEW b \in Int, SlabContains(c.slabs[i], b), SlabContains(c.slabs[j], b)
    PROVE  i = j
<1>1. PICK sp \in Spans : c.slabs[i].start = sp.start /\ c.slabs[i].capacity = sp.count
    BY DEF SpansRecorded
<1>2. PICK tp \in Spans : c.slabs[j].start = tp.start /\ c.slabs[j].capacity = tp.count
    BY DEF SpansRecorded
<1>3. sp.start = tp.start
    BY <1>1, <1>2, SpansAssumption DEF SlabContains
<1> QED BY <1>1, <1>2, <1>3 DEF SpansRecorded

\* The lookup in the sorted index finds the slab that contains b, if there is one.
LEMMA LookupFinds ==
    ASSUME NEW c, NEW b \in Nat, Indexed(c), SpansRecorded(c), c.by_start \in Seq(Nat),
           NEW i \in DOMAIN c.slabs, SlabContains(c.slabs[i], b)
    PROVE  /\ StartsUpTo(c, b) \in DOMAIN c.by_start
           /\ c.by_start[StartsUpTo(c, b)] = i
<1>1. \A j \in DOMAIN c.slabs : c.slabs[j].start \in Nat
    BY SpansAssumption DEF SpansRecorded
<1> DEFINE m == StartsUpTo(c, b)
<1>2. m \in 0 .. Len(c.by_start)
      /\ \A k \in 1 .. Len(c.by_start) : c.slabs[c.by_start[k]].start <= b <=> k <= m
    BY <1>1, StartsUpToIs
<1>3. PICK k \in DOMAIN c.by_start : c.by_start[k] = i
    BY DEF Indexed
<1> HIDE DEF m
<1>4. k <= m /\ m \in DOMAIN c.by_start
    BY <1>2, <1>3 DEF SlabContains
<1> DEFINE j == c.by_start[m]
<1>5. j \in DOMAIN c.slabs /\ c.slabs[j].start <= b /\ c.slabs[i].start <= c.slabs[j].start
    <2>1. j \in DOMAIN c.slabs
        BY <1>4 DEF Indexed
    <2>2. c.slabs[j].start <= b
        BY <1>2, <1>4
    <2>3. CASE k = m
        <3>1. i = j
            BY <2>3, <1>3
        <3> QED BY <3>1, <2>1, <2>2, <1>1
    <2>4. CASE k # m
        <3>1. k < m
            BY <2>4, <1>2, <1>4
        <3>2. c.slabs[c.by_start[k]].start < c.slabs[c.by_start[m]].start
            BY <3>1, <1>4 DEF Indexed
        <3> QED BY <3>2, <2>1, <2>2, <1>1, <1>3
    <2> QED BY <2>3, <2>4
<1>6. PICK sp \in Spans : c.slabs[i].start = sp.start /\ c.slabs[i].capacity = sp.count
    BY DEF SpansRecorded
<1>7. PICK tp \in Spans : c.slabs[j].start = tp.start /\ c.slabs[j].capacity = tp.count
    BY <1>5 DEF SpansRecorded
<1>8. c.slabs[i].start = c.slabs[j].start
    <2> HIDE DEF j
    <2>1. sp.start <= tp.start /\ tp.start <= b /\ b < sp.start + sp.count
        BY <1>5, <1>6, <1>7 DEF SlabContains
    <2>2. sp.start = tp.start
        BY SMTT(30), <2>1, SpansAssumption
    <2> QED BY <2>2, <1>6, <1>7
<1>9. i = j
    BY <1>5, <1>8 DEF SpansRecorded
<1> QED BY <1>4, <1>9 DEF m

\* v lists 1 .. n, by increasing values of f.
SortedBy(f, v, n) ==
    /\ \A k \in 1 .. Len(v) : v[k] \in 1 .. n
    /\ \A i \in 1 .. n : \E k \in 1 .. Len(v) : v[k] = i
    /\ \A j, k \in 1 .. Len(v) : j < k => f[v[j]] < f[v[k]]

\* A number inserted before the first one that it does not exceed keeps a listing of
\* 1 .. n by increasing f a listing of 1 .. n+1.
LEMMA InsertSorted ==
    ASSUME NEW n \in Nat, NEW f \in [1 .. n + 1 -> Nat], NEW v \in Seq(Nat), NEW w,
           SortedBy(f, v, n),
           \A i \in 1 .. n : f[i] # f[n + 1],
           NEW slot \in 0 .. Len(v),
           \A k \in 1 .. Len(v) : f[v[k]] < f[n + 1] <=> k <= slot,
           w = InsertAt(v, slot + 1, n + 1)
    PROVE  w \in Seq(Nat) /\ SortedBy(f, w, n + 1)
<1> DEFINE L == Len(v)
<1>1. /\ w \in Seq(Nat) /\ Len(w) = L + 1 /\ L \in Nat /\ slot \in 0 .. L
      /\ \A k \in 1 .. slot : w[k] = v[k]
      /\ w[slot + 1] = n + 1
      /\ \A k \in slot + 1 .. L : w[k + 1] = v[k]
    <2> DEFINE p == slot + 1
               e == n + 1
    <2>1. p \in 1 .. Len(v) + 1 /\ e \in Nat /\ w = InsertAt(v, p, e) /\ p - 1 = slot
        OBVIOUS
    <2> HIDE DEF p, e
    <2>2. v \in Seq(Nat)
        OBVIOUS
    <2>3. /\ InsertAt(v, p, e) \in Seq(Nat)
          /\ Len(InsertAt(v, p, e)) = Len(v) + 1
          /\ \A k \in 1 .. p - 1 : InsertAt(v, p, e)[k] = v[k]
          /\ InsertAt(v, p, e)[p] = e
          /\ \A k \in p .. Len(v) : InsertAt(v, p, e)[k + 1] = v[k]
        BY ONLY ZenonT(40), <2>1, <2>2, InsertAtIs
    <2> QED BY <2>1, <2>3 DEF p, e
<1> HIDE DEF L
<1>2. ASSUME NEW k \in 1 .. L + 1
      PROVE  \/ k \in 1 .. slot
             \/ k = slot + 1
             \/ k - 1 \in slot + 1 .. L
    BY <1>1
<1>3. ASSUME NEW k \in 1 .. L + 1
      PROVE  \/ k <= slot /\ w[k] = v[k] /\ k \in 1 .. L
             \/ k = slot + 1 /\ w[k] = n + 1
             \/ k > slot + 1 /\ w[k] = v[k - 1] /\ k - 1 \in 1 .. L
    <2>1. CASE k \in 1 .. slot
        BY ONLY SMTT(30), <2>1, <1>1
    <2>2. CASE k = slot + 1
        BY ONLY <2>2, <1>1
    <2>3. CASE k - 1 \in slot + 1 .. L
        <3>1. w[(k - 1) + 1] = v[k - 1]
            BY ONLY <2>3, <1>1
        <3>2. (k - 1) + 1 = k /\ k > slot + 1 /\ k - 1 \in 1 .. L
            BY <2>3, <1>1
        <3> QED BY ONLY <3>1, <3>2
    <2> QED BY ONLY <2>1, <2>2, <2>3, <1>2
<1>4. \A k \in 1 .. L : v[k] \in 1 .. n
    BY DEF L, SortedBy
<1>5. ASSUME NEW k \in 1 .. L + 1 PROVE w[k] \in 1 .. n + 1
    <2>1. CASE w[k] = v[k] /\ k \in 1 .. L
        BY <2>1, <1>4
    <2>2. CASE w[k] = n + 1
        BY <2>2
    <2>3. CASE w[k] = v[k - 1] /\ k - 1 \in 1 .. L
        BY <2>3, <1>4
    <2> QED BY <2>1, <2>2, <2>3, <1>3
<1>6. ASSUME NEW i \in 1 .. n + 1 PROVE \E k \in 1 .. L + 1 : w[k] = i
    <2>1. CASE i = n + 1
        <3>1. slot + 1 \in 1 .. L + 1
            BY ONLY <1>1
        <3> QED BY ONLY <2>1, <3>1, <1>1
    <2>2. CASE i # n + 1
        <3>1. PICK k \in 1 .. L : v[k] = i
            <4>1. i \in 1 .. n
                BY <2>2
            <4> QED BY <4>1 DEF L, SortedBy
        <3>2. CASE k <= slot
            <4>1. w[k] = v[k] /\ k \in 1 .. L + 1
                BY ONLY <3>2, <1>1, k \in 1 .. L
            <4> QED BY ONLY <4>1, <3>1
        <3>3. CASE k > slot
            <4>1. w[k + 1] = v[k] /\ k + 1 \in 1 .. L + 1
                BY ONLY <3>3, <1>1, k \in 1 .. L
            <4> QED BY ONLY <4>1, <3>1
        <3> QED BY ONLY <3>2, <3>3, <1>1, k \in 1 .. L
    <2> QED BY <2>1, <2>2
<1> DEFINE g == [k \in 1 .. L |-> f[v[k]]]
           h == [k \in 1 .. L + 1 |-> f[w[k]]]
           x == f[n + 1]
<1>7. g \in [1 .. L -> Nat] /\ x \in Nat
    BY <1>4
<1>8. \A j, k \in 1 .. L : j < k => g[j] < g[k]
    BY DEF L, SortedBy
<1>9. \A k \in 1 .. L : g[k] # x /\ (g[k] < x <=> k <= slot)
    BY <1>4 DEF L
<1>10. ASSUME NEW k \in 1 .. L + 1
       PROVE  \/ k <= slot /\ h[k] = g[k] /\ k \in 1 .. L
              \/ k = slot + 1 /\ h[k] = x
              \/ k > slot + 1 /\ h[k] = g[k - 1] /\ k - 1 \in 1 .. L
    <2>1. h[k] = f[w[k]]
        OBVIOUS
    <2>2. \A m \in 1 .. L : g[m] = f[v[m]]
        OBVIOUS
    <2> HIDE DEF g, h
    <2> QED BY ONLY <2>1, <2>2, <1>3 DEF x
<1> HIDE DEF g, h, x
<1>11. ASSUME NEW j \in 1 .. L + 1, NEW k \in 1 .. L + 1, j < k PROVE h[j] < h[k]
    <2>1. j \in Int /\ k \in Int /\ slot \in Int
        BY <1>1
    <2>2. \A m \in 1 .. L + 1 : \/ m <= slot /\ h[m] = g[m] /\ m \in 1 .. L
                                \/ m = slot + 1 /\ h[m] = x
                                \/ m > slot + 1 /\ h[m] = g[m - 1] /\ m - 1 \in 1 .. L
        BY <1>10
    <2>3. CASE k <= slot
        <3>1. h[k] = g[k] /\ k \in 1 .. L /\ h[j] = g[j] /\ j \in 1 .. L
            <4>1. h[k] = g[k] /\ k \in 1 .. L
                BY ONLY <2>1, <2>2, <2>3, k \in 1 .. L + 1
            <4>2. j <= slot
                BY <2>1, <2>3, <1>11
            <4>3. h[j] = g[j] /\ j \in 1 .. L
                BY ONLY <2>1, <2>2, <4>2, j \in 1 .. L + 1
            <4> QED BY <4>1, <4>3
        <3> QED BY <3>1, <1>8, <1>11
    <2>4. CASE k = slot + 1
        <3>1. j <= slot
            BY ONLY <2>1, <2>4, j < k
        <3>2. h[j] = g[j] /\ j \in 1 .. L
            BY ONLY <2>1, <2>2, <3>1, j \in 1 .. L + 1
        <3>3. h[k] = x
            BY ONLY <2>1, <2>2, <2>4, k \in 1 .. L + 1
        <3> QED BY <3>1, <3>2, <3>3, <1>9
    <2>5. CASE k > slot + 1
        <3>1. h[k] = g[k - 1] /\ k - 1 \in 1 .. L /\ k - 1 > slot
            BY <2>1, <2>2, <2>5
        <3>2. CASE j <= slot
            <4>1. h[j] = g[j] /\ j \in 1 .. L /\ j < k - 1
                BY <2>1, <2>2, <2>5, <3>2
            <4> QED BY <3>1, <4>1, <1>8
        <3>3. CASE j = slot + 1
            <4>1. h[j] = x
                BY <2>1, <2>2, <3>3
            <4>2. g[k - 1] \in Nat /\ g[k - 1] # x /\ ~(g[k - 1] < x)
                <5>1. g[k - 1] \in Nat
                    BY ONLY <3>1, <1>7
                <5>2. g[k - 1] # x /\ (g[k - 1] < x <=> k - 1 <= slot)
                    BY ONLY <3>1, <1>9
                <5> QED BY ONLY <2>1, <3>1, <5>1, <5>2
            <4> QED BY <3>1, <4>1, <4>2, <1>7
        <3>4. CASE j > slot + 1
            <4>1. h[j] = g[j - 1] /\ j - 1 \in 1 .. L /\ j - 1 < k - 1
                BY <2>1, <2>2, <3>4, <1>11
            <4> QED BY <3>1, <4>1, <1>8
        <3> QED BY <3>2, <3>3, <3>4, <2>1
    <2> QED BY <2>3, <2>4, <2>5, <2>1
<1>12. \A k \in 1 .. L + 1 : h[k] = f[w[k]]
    BY DEF h
<1>13. \A j, k \in 1 .. L + 1 : j < k => f[w[j]] < f[w[k]]
    BY ONLY <1>11, <1>12
<1> QED BY ONLY <1>1, <1>5, <1>6, <1>13 DEF SortedBy

\* A new record, inserted at the slot the search gave, keeps the index sorted.
LEMMA IndexInsert ==
    ASSUME NEW c, NEW d, Indexed(c), c.by_start \in Seq(Nat),
           NEW n \in Nat, DOMAIN c.slabs = 1 .. n, DOMAIN d.slabs = 1 .. n + 1,
           \A i \in 1 .. n : c.slabs[i].start \in Nat /\ d.slabs[i].start = c.slabs[i].start,
           d.slabs[n + 1].start \in Nat,
           \A i \in 1 .. n : c.slabs[i].start # d.slabs[n + 1].start,
           NEW slot \in 0 .. Len(c.by_start),
           \A k \in 1 .. Len(c.by_start) :
              c.slabs[c.by_start[k]].start < d.slabs[n + 1].start <=> k <= slot,
           d.by_start = InsertAt(c.by_start, slot + 1, n + 1)
    PROVE  Indexed(d) /\ d.by_start \in Seq(Nat)
<1> DEFINE f == [i \in 1 .. n + 1 |-> d.slabs[i].start]
           v == c.by_start
           w == d.by_start
<1>1. f \in [1 .. n + 1 -> Nat]
    <2>1. \A i \in 1 .. n + 1 : i \in 1 .. n \/ i = n + 1
        OBVIOUS
    <2> QED BY <2>1
<1>2. v \in Seq(Nat) /\ DOMAIN v = 1 .. Len(v) /\ slot \in 0 .. Len(v)
    OBVIOUS
<1>3. /\ \A k \in 1 .. Len(v) : v[k] \in 1 .. n
      /\ \A i \in 1 .. n : \E k \in 1 .. Len(v) : v[k] = i
    BY <1>2 DEF Indexed
<1>4. \A i \in 1 .. n : f[i] = c.slabs[i].start /\ f[i] # f[n + 1]
    OBVIOUS
<1>5. f[n + 1] = d.slabs[n + 1].start /\ \A k \in 1 .. Len(v) : f[v[k]] = c.slabs[v[k]].start
    <2>1. f[n + 1] = d.slabs[n + 1].start
        OBVIOUS
    <2> HIDE DEF f, v
    <2> QED BY ONLY <2>1, <1>3, <1>4
<1>6. \A j, k \in 1 .. Len(v) : j < k => c.slabs[v[j]].start < c.slabs[v[k]].start
    BY <1>2 DEF Indexed
<1>7. \A j, k \in 1 .. Len(v) : j < k => f[v[j]] < f[v[k]]
    <2> HIDE DEF f, v
    <2> QED BY <1>5, <1>6
<1>8. \A k \in 1 .. Len(v) : f[v[k]] < f[n + 1] <=> k <= slot
    <2>1. \A k \in 1 .. Len(v) : c.slabs[v[k]].start < d.slabs[n + 1].start <=> k <= slot
        OBVIOUS
    <2> HIDE DEF f, v
    <2> QED BY <2>1, <1>5
<1>9. w = InsertAt(v, slot + 1, n + 1)
    OBVIOUS
<1> HIDE DEF f, v, w
<1>10. w \in Seq(Nat) /\ SortedBy(f, w, n + 1)
    <2>1. n \in Nat
        OBVIOUS
    <2>2. \A i \in 1 .. n : f[i] # f[n + 1]
        BY <1>4
    <2>3. SortedBy(f, v, n)
        BY ONLY <1>3, <1>7 DEF SortedBy
    <2> QED BY ONLY <2>1, <2>2, <2>3, <1>1, <1>2, <1>8, <1>9, InsertSorted
<1>11. DOMAIN w = 1 .. Len(w)
    BY <1>10
<1>12. \A k \in 1 .. Len(w) : f[w[k]] = d.slabs[w[k]].start
    BY <1>10 DEF f, SortedBy
<1>13. \A j, k \in 1 .. Len(w) : j < k => d.slabs[w[j]].start < d.slabs[w[k]].start
    BY ONLY <1>10, <1>12 DEF SortedBy
<1> QED BY <1>10, <1>11, <1>13 DEF Indexed, SortedBy, w

\* Changes that leave the starts and capacities alone keep the index and the spans.
LEMMA TableKept ==
    ASSUME NEW c, NEW d, Indexed(c), SpansRecorded(c), d.by_start = c.by_start,
           DOMAIN d.slabs = DOMAIN c.slabs,
           \A i \in DOMAIN c.slabs : /\ d.slabs[i].start = c.slabs[i].start
                                     /\ d.slabs[i].capacity = c.slabs[i].capacity
    PROVE  Indexed(d) /\ SpansRecorded(d)
<1>1. Indexed(d)
    BY DEF Indexed
<1>2. SpansRecorded(d)
    BY DEF SpansRecorded
<1> QED BY <1>1, <1>2

\* The table d is c with one more slab, the span sp.
SlabAdded(c, d, sp, n) ==
    /\ DOMAIN c.slabs = 1 .. n /\ DOMAIN d.slabs = 1 .. n + 1
    /\ \A i \in 1 .. n : /\ d.slabs[i].start = c.slabs[i].start
                         /\ d.slabs[i].capacity = c.slabs[i].capacity
                         /\ c.slabs[i].start # sp.start
    /\ d.slabs[n + 1].start = sp.start /\ d.slabs[n + 1].capacity = sp.count

\* A new record of a span keeps the records spans.
LEMMA SpansAppend ==
    ASSUME NEW c, NEW d, SpansRecorded(c), NEW sp \in Spans, NEW n \in Nat, SlabAdded(c, d, sp, n)
    PROVE  SpansRecorded(d)
<1>1. ASSUME NEW i \in DOMAIN d.slabs
      PROVE  \E tp \in Spans : d.slabs[i].start = tp.start /\ d.slabs[i].capacity = tp.count
    BY <1>1 DEF SpansRecorded, SlabAdded
<1>2. ASSUME NEW i \in DOMAIN d.slabs, NEW j \in DOMAIN d.slabs,
             d.slabs[i].start = d.slabs[j].start
      PROVE  i = j
    BY <1>2 DEF SpansRecorded, SlabAdded
<1> QED BY <1>1, <1>2 DEF SpansRecorded

-----------------------------------------------------------------------------
(* Vectors with back-pointers.                                             *)

\* A slab pushed to a vector gets the last slot.
LEMMA ListedPush ==
    ASSUME NEW slabs, NEW after, NEW v \in Seq(Nat), NEW M, Listed(slabs, v, M),
           NEW i \in Nat, i \notin M,
           \A j \in M : after[j].slot = slabs[j].slot,
           after[i].slot = Len(v) + 1
    PROVE  Listed(after, Append(v, i), M \cup {i})
<1>1. /\ DOMAIN Append(v, i) = 1 .. Len(v) + 1 /\ DOMAIN v = 1 .. Len(v) /\ Len(v) \in Nat
      /\ \A k \in 1 .. Len(v) + 1 : Append(v, i)[k] = IF k = Len(v) + 1 THEN i ELSE v[k]
    OBVIOUS
<1> DEFINE w == Append(v, i)
<1> HIDE DEF w
<1>2. ASSUME NEW k \in 1 .. Len(v) + 1 PROVE w[k] \in M \cup {i} /\ after[w[k]].slot = k
    BY <1>1 DEF Listed, w
<1>3. ASSUME NEW j \in M \cup {i}
      PROVE  after[j].slot \in 1 .. Len(v) + 1 /\ w[after[j].slot] = j
    BY <1>1 DEF Listed, w
<1> QED BY <1>1, <1>2, <1>3 DEF Listed, w

\* After a swap_remove at its slot, a slab is gone from the vector, the slab that moved
\* into the hole has the slot of the hole, and all others keep theirs.
LEMMA ListedSwapRemove ==
    ASSUME NEW slabs, NEW after, NEW v \in Seq(Nat), NEW M, Listed(slabs, v, M),
           NEW i \in M,
           \A j \in M \ {i} : after[j].slot = IF slabs[j].slot = Len(v) THEN slabs[i].slot
                                             ELSE slabs[j].slot
    PROVE  Listed(after, SwapRemove(v, slabs[i].slot), M \ {i})
<1> DEFINE slot == slabs[i].slot
           w == SwapRemove(v, slot)
<1>1. slot \in 1 .. Len(v) /\ v[slot] = i /\ DOMAIN v = 1 .. Len(v) /\ Len(v) \in Nat
    BY DEF Listed
<1>2. /\ DOMAIN w = 1 .. Len(v) - 1
      /\ \A k \in 1 .. Len(v) - 1 : (k = slot => w[k] = v[Len(v)]) /\ (k # slot => w[k] = v[k])
    <2> HIDE DEF slot
    <2>1. v \in Seq(Nat) /\ slot \in 1 .. Len(v)
        BY <1>1
    <2>2. /\ w \in Seq(Nat) /\ Len(w) = Len(v) - 1
          /\ \A k \in 1 .. Len(v) - 1 : (k = slot => w[k] = v[Len(v)]) /\ (k # slot => w[k] = v[k])
        BY ONLY <2>1, SwapRemoveIs DEF w
    <2> HIDE DEF w
    <2> QED BY <2>2
<1> HIDE DEF w, slot
<1>3. \A k \in 1 .. Len(v) : v[k] \in M /\ slabs[v[k]].slot = k
    BY <1>1 DEF Listed
<1>4. \A j \in M : slabs[j].slot \in 1 .. Len(v) /\ v[slabs[j].slot] = j
    BY <1>1 DEF Listed
<1>5. \A j \in M \ {i} : slabs[j].slot # slot
    BY <1>1, <1>4 DEF slot
<1>6. ASSUME NEW k \in 1 .. Len(v) - 1 PROVE w[k] \in M \ {i} /\ after[w[k]].slot = k
    <2>1. CASE k = slot
        <3> DEFINE j == v[Len(v)]
        <3>1. Len(v) \in 1 .. Len(v) /\ w[k] = j
            BY <2>1, <1>1, <1>2
        <3>2. j \in M /\ slabs[j].slot = Len(v)
            BY <3>1, <1>3
        <3>3. j # i
            BY <2>1, <3>2, <1>1 DEF slot
        <3> HIDE DEF j
        <3>4. after[j].slot = slabs[i].slot
            BY <3>2, <3>3
        <3> QED BY <2>1, <3>1, <3>2, <3>3, <3>4 DEF slot
    <2>2. CASE k # slot
        <3> DEFINE j == v[k]
        <3>1. w[k] = j /\ k \in 1 .. Len(v) /\ k # Len(v)
            <4>1. Len(v) \in Nat /\ k \in 1 .. Len(v) - 1
                BY <1>1
            <4>2. w[k] = v[k]
                BY ONLY <2>2, <4>1, <1>2
            <4> QED BY <4>1, <4>2
        <3>2. j \in M /\ slabs[j].slot = k
            BY <3>1, <1>3
        <3>3. j # i
            BY <2>2, <3>2 DEF slot
        <3> HIDE DEF j
        <3>4. after[j].slot = k
            BY <3>1, <3>2, <3>3
        <3> QED BY <3>1, <3>2, <3>3, <3>4
    <2> QED BY <2>1, <2>2
<1>7. ASSUME NEW j \in M \ {i}
      PROVE  after[j].slot \in 1 .. Len(v) - 1 /\ w[after[j].slot] = j
    <2>1. CASE slabs[j].slot = Len(v)
        BY <2>1, <1>1, <1>2, <1>4, <1>5 DEF slot
    <2>2. CASE slabs[j].slot # Len(v)
        BY <2>2, <1>1, <1>2, <1>4, <1>5 DEF slot
    <2> QED BY <2>1, <2>2
<1> QED BY <1>2, <1>6, <1>7 DEF Listed, w, slot

-----------------------------------------------------------------------------
(* Free lists: sequences without repetitions, and the blocks on them.      *)

\* A block pushed to a list that does not have it.
LEMMA ListPush ==
    ASSUME NEW v \in Seq(Nat), NEW e \in Nat, Once(v), e \notin ToSet(v), NEW s, s = <<e>> \o v
    PROVE  /\ s \in Seq(Nat) /\ Len(s) = Len(v) + 1 /\ s # <<>>
           /\ Once(s) /\ ToSet(s) = ToSet(v) \cup {e}
<1> DEFINE n == Len(v)
<1>1. n \in Nat /\ DOMAIN v = 1 .. n
    OBVIOUS
<1>2. /\ s \in Seq(Nat) /\ Len(s) = n + 1 /\ s # <<>> /\ DOMAIN s = 1 .. n + 1
      /\ s[1] = e /\ \A k \in 1 .. n : s[k + 1] = v[k]
    <2>1. s \in Seq(Nat) /\ Len(s) = n + 1
        BY PrependIs
    <2>2. s[1] = e /\ \A k \in 1 .. n : s[k + 1] = v[k]
        OBVIOUS
    <2> HIDE DEF n
    <2> QED BY <2>1, <2>2, <1>1
<1> HIDE DEF n
<1>3. \A k \in 1 .. n + 1 : k = 1 \/ \E j \in 1 .. n : k = j + 1
    <2> TAKE k \in 1 .. n + 1
    <2>1. CASE k # 1
        <3>1. k - 1 \in 1 .. n /\ k = (k - 1) + 1
            BY <2>1, <1>1
        <3> QED BY <3>1
    <2> QED BY <2>1
<1>4. \A k \in 1 .. n : v[k] # e
    BY <1>1 DEF ToSet
<1>5. \A j, k \in 1 .. n : v[j] = v[k] => j = k
    BY <1>1 DEF Once
<1>6. ASSUME NEW j \in 1 .. n + 1, NEW k \in 1 .. n + 1, s[j] = s[k] PROVE j = k
    <2>1. CASE j = 1 /\ k = 1
        BY <2>1
    <2>2. CASE j = 1 /\ k # 1
        BY <2>2, <1>2, <1>3, <1>4, <1>6
    <2>3. CASE j # 1 /\ k = 1
        BY <2>3, <1>2, <1>3, <1>4, <1>6
    <2>4. CASE j # 1 /\ k # 1
        BY ONLY <2>4, <1>2, <1>3, <1>5, <1>6
    <2> QED BY <2>1, <2>2, <2>3, <2>4
<1>7. ASSUME NEW x PROVE x \in ToSet(s) <=> x \in ToSet(v) \cup {e}
    <2>1. x \in ToSet(s) <=> \E k \in 1 .. n + 1 : s[k] = x
        BY <1>2 DEF ToSet
    <2>2. x \in ToSet(v) <=> \E k \in 1 .. n : v[k] = x
        BY <1>1 DEF ToSet
    <2>3. \A k \in 1 .. n : k + 1 \in 1 .. n + 1
        BY <1>1
    <2>4. 1 \in 1 .. n + 1
        BY <1>1
    <2> QED BY ONLY <2>1, <2>2, <2>3, <2>4, <1>2, <1>3
<1> QED BY <1>2, <1>6, <1>7 DEF Once, n

\* A list without its first n nodes.
LEMMA ListDrop ==
    ASSUME NEW v \in Seq(Nat), Once(v), NEW n \in 0 .. Len(v), NEW s,
           s = SubSeq(v, n + 1, Len(v))
    PROVE  /\ s \in Seq(Nat) /\ Len(s) = Len(v) - n
           /\ Once(s) /\ ToSet(s) = ToSet(v) \ {v[k] : k \in 1 .. n}
           /\ {v[k] : k \in 1 .. n} \subseteq ToSet(v)
<1> DEFINE L == Len(v)
<1>1. L \in Nat /\ DOMAIN v = 1 .. L /\ n \in 0 .. L
    OBVIOUS
<1>2. s \in Seq(Nat) /\ Len(s) = L - n /\ \A k \in 1 .. L - n : s[k] = v[n + k]
    BY RestIs
<1>3. DOMAIN s = 1 .. L - n
    BY <1>2
<1> HIDE DEF L
<1>4. \A j, k \in 1 .. L : v[j] = v[k] => j = k
    BY <1>1 DEF Once
<1>5. \A k \in 1 .. L - n : n + k \in 1 .. L
    BY <1>1
<1>6. ASSUME NEW j \in 1 .. L - n, NEW k \in 1 .. L - n, s[j] = s[k] PROVE j = k
    <2>1. v[n + j] = v[n + k] /\ n + j \in 1 .. L /\ n + k \in 1 .. L
        BY <1>2, <1>5, <1>6
    <2>2. n + j = n + k
        BY ONLY <2>1, <1>4
    <2> QED BY <2>2, <1>1
<1>7. \A k \in 1 .. L : k \in 1 .. n \/ \E j \in 1 .. L - n : k = n + j
    <2> TAKE k \in 1 .. L
    <2>1. CASE k > n
        <3>1. k - n \in 1 .. L - n /\ k = n + (k - n)
            BY <2>1, <1>1
        <3> QED BY <3>1
    <2>2. CASE ~(k > n)
        BY <2>2, <1>1
    <2> QED BY <2>1, <2>2
<1>8. \A k \in 1 .. n : k \in 1 .. L /\ \A j \in 1 .. L - n : k # n + j
    BY <1>1
<1>9. ASSUME NEW x PROVE x \in ToSet(s) <=> x \in ToSet(v) \ {v[k] : k \in 1 .. n}
    <2>1. x \in ToSet(s) <=> \E k \in 1 .. L - n : v[n + k] = x
        BY <1>2, <1>3 DEF ToSet
    <2>2. x \in ToSet(v) <=> \E k \in 1 .. L : v[k] = x
        BY <1>1 DEF ToSet
    <2>3. ASSUME NEW k \in 1 .. L - n, v[n + k] = x PROVE \A j \in 1 .. n : v[j] # x
        BY ONLY <2>3, <1>4, <1>5, <1>8
    <2> QED BY ONLY <2>1, <2>2, <2>3, <1>5, <1>7
<1>10. {v[k] : k \in 1 .. n} \subseteq ToSet(v)
    BY <1>1, <1>8 DEF ToSet
<1> QED BY <1>2, <1>3, <1>6, <1>9, <1>10 DEF Once, L

\* Two lists without a common block, one after the other.
LEMMA ListJoin ==
    ASSUME NEW u \in Seq(Nat), NEW v \in Seq(Nat), Once(u), Once(v), ToSet(u) \cap ToSet(v) = {},
           NEW s, s = u \o v
    PROVE  /\ s \in Seq(Nat) /\ Len(s) = Len(u) + Len(v)
           /\ Once(s) /\ ToSet(s) = ToSet(u) \cup ToSet(v)
<1> DEFINE m == Len(u)
           n == Len(v)
<1>1. m \in Nat /\ n \in Nat /\ DOMAIN u = 1 .. m /\ DOMAIN v = 1 .. n
    OBVIOUS
<1>2. /\ s \in Seq(Nat) /\ Len(s) = m + n
      /\ \A k \in 1 .. m : s[k] = u[k]
      /\ \A k \in 1 .. n : s[m + k] = v[k]
    BY ConcatIs
<1>3. DOMAIN s = 1 .. m + n
    BY <1>2
<1> HIDE DEF m, n
<1>4. \A j, k \in 1 .. m : u[j] = u[k] => j = k
    BY <1>1 DEF Once
<1>5. \A j, k \in 1 .. n : v[j] = v[k] => j = k
    BY <1>1 DEF Once
<1>6. \A j \in 1 .. m : \A k \in 1 .. n : u[j] # v[k]
    BY <1>1 DEF ToSet
<1>7. \A k \in 1 .. m + n : k \in 1 .. m \/ \E j \in 1 .. n : k = m + j
    <2> TAKE k \in 1 .. m + n
    <2>1. CASE k > m
        <3>1. k - m \in 1 .. n /\ k = m + (k - m)
            BY <2>1, <1>1
        <3> QED BY <3>1
    <2>2. CASE ~(k > m)
        BY <2>2, <1>1
    <2> QED BY <2>1, <2>2
<1>8. /\ \A k \in 1 .. m : k \in 1 .. m + n
      /\ \A k \in 1 .. n : m + k \in 1 .. m + n
    BY <1>1
<1>9. ASSUME NEW j \in 1 .. m + n, NEW k \in 1 .. m + n, s[j] = s[k] PROVE j = k
    <2>1. CASE j \in 1 .. m /\ k \in 1 .. m
        BY ONLY <2>1, <1>2, <1>4, <1>9
    <2>2. CASE j \in 1 .. m /\ k \notin 1 .. m
        <3>1. PICK i \in 1 .. n : k = m + i
            BY <2>2, <1>7
        <3>2. s[j] = u[j] /\ s[k] = v[i]
            BY <3>1, <2>2, <1>2
        <3> QED BY ONLY <3>2, <2>2, <1>6, <1>9, i \in 1 .. n
    <2>3. CASE j \notin 1 .. m /\ k \in 1 .. m
        <3>1. PICK i \in 1 .. n : j = m + i
            BY <2>3, <1>7
        <3>2. s[j] = v[i] /\ s[k] = u[k]
            BY <3>1, <2>3, <1>2
        <3> QED BY ONLY <3>2, <2>3, <1>6, <1>9, i \in 1 .. n
    <2>4. CASE j \notin 1 .. m /\ k \notin 1 .. m
        BY ONLY SMTT(30), <2>4, <1>2, <1>5, <1>7, <1>9
    <2> QED BY <2>1, <2>2, <2>3, <2>4
<1>10. ASSUME NEW x PROVE x \in ToSet(s) <=> x \in ToSet(u) \cup ToSet(v)
    <2>1. x \in ToSet(s) <=> \E k \in 1 .. m + n : s[k] = x
        BY <1>3 DEF ToSet
    <2>2. x \in ToSet(u) <=> \E k \in 1 .. m : u[k] = x
        BY <1>1 DEF ToSet
    <2>3. x \in ToSet(v) <=> \E k \in 1 .. n : v[k] = x
        BY <1>1 DEF ToSet
    <2> QED BY ONLY <2>1, <2>2, <2>3, <1>2, <1>7, <1>8
<1> QED BY <1>2, <1>3, <1>9, <1>10 DEF Once, m, n

-----------------------------------------------------------------------------
(* LocalClassCache: the helpers that keep available_slabs.                 *)

\* d is c but for the list of available slabs and the slots.
SlotsOnly(c, d) ==
    /\ d \in LocalCacheRecord
    /\ d.hot = c.hot /\ d.by_start = c.by_start /\ d.recent = c.recent
    /\ d.shared = c.shared /\ d.shared_len = c.shared_len /\ d.total_len = c.total_len
    /\ DOMAIN d.slabs = DOMAIN c.slabs
    /\ \A j \in DOMAIN c.slabs : /\ d.slabs[j].start = c.slabs[j].start
                                 /\ d.slabs[j].capacity = c.slabs[j].capacity
                                 /\ d.slabs[j].next_fresh = c.slabs[j].next_fresh
                                 /\ d.slabs[j].free = c.slabs[j].free

\* A record of the vector keeps its type when its slot is written.
LEMMA SlotWritten ==
    ASSUME NEW slabs \in Seq(LocalSlabRecord), NEW i \in DOMAIN slabs, NEW s \in Nat
    PROVE  /\ [slabs EXCEPT ![i].slot = s] \in Seq(LocalSlabRecord)
           /\ DOMAIN [slabs EXCEPT ![i].slot = s] = DOMAIN slabs
           /\ [slabs EXCEPT ![i].slot = s][i].slot = s
           /\ \A j \in DOMAIN slabs : j # i => [slabs EXCEPT ![i].slot = s][j] = slabs[j]
           /\ \A j \in DOMAIN slabs : /\ [slabs EXCEPT ![i].slot = s][j].start = slabs[j].start
                                      /\ [slabs EXCEPT ![i].slot = s][j].capacity = slabs[j].capacity
                                      /\ [slabs EXCEPT ![i].slot = s][j].next_fresh = slabs[j].next_fresh
                                      /\ [slabs EXCEPT ![i].slot = s][j].free = slabs[j].free
<1> DEFINE r == [slabs[i] EXCEPT !.slot = s]
           w == [slabs EXCEPT ![i] = r]
<1>1. slabs[i] \in LocalSlabRecord
    OBVIOUS
<1>2. r \in LocalSlabRecord /\ r.slot = s /\ r.start = slabs[i].start
      /\ r.capacity = slabs[i].capacity /\ r.next_fresh = slabs[i].next_fresh
      /\ r.free = slabs[i].free
    BY <1>1 DEF LocalSlabRecord
<1>3. w = [slabs EXCEPT ![i].slot = s]
    OBVIOUS
<1> HIDE DEF r
<1>4. w \in Seq(LocalSlabRecord) /\ DOMAIN w = DOMAIN slabs
    BY <1>2
<1>5. w[i] = r /\ \A j \in DOMAIN slabs : j # i => w[j] = slabs[j]
    OBVIOUS
<1> HIDE DEF w
<1> QED BY <1>2, <1>3, <1>4, <1>5

\* A cache whose slots and available list agree again has the shape for the new list.
LEMMA ShapeFromSlots ==
    ASSUME NEW c, NEW M, CacheShape(c, M), NEW d, SlotsOnly(c, d), NEW N \in SUBSET DOMAIN c.slabs,
           Listed(d.slabs, d.avail, N),
           \A i \in DOMAIN c.slabs : d.slabs[i].slot = 0 <=> i \notin N
    PROVE  CacheShape(d, N)
<1>1. Indexed(c) /\ SpansRecorded(c) /\ c \in LocalCacheRecord /\ c.recent \in 0 .. Len(c.slabs)
    BY DEF CacheShape
<1>2. Indexed(d) /\ SpansRecorded(d)
    BY <1>1, TableKept DEF SlotsOnly
<1>3. d \in LocalCacheRecord /\ DOMAIN d.slabs = DOMAIN c.slabs /\ d.recent = c.recent
    BY DEF SlotsOnly
<1>4. Len(d.slabs) = Len(c.slabs)
    BY <1>1, <1>3 DEF LocalCacheRecord
<1> QED BY <1>1, <1>2, <1>3, <1>4 DEF CacheShape

\* mark_slab_available: the slab gets the last slot.
LEMMA MarkAvailableIs ==
    ASSUME NEW c, NEW M, CacheShape(c, M), NEW i \in DOMAIN c.slabs, i \notin M
    PROVE  CacheShape(MarkAvailable(c, i), M \cup {i}) /\ SlotsOnly(c, MarkAvailable(c, i))
<1> DEFINE s == Len(c.avail) + 1
           w == [c.slabs EXCEPT ![i].slot = s]
           v == Append(c.avail, i)
           d == [c EXCEPT !.avail = v, !.slabs = w]
<1>1. c \in LocalCacheRecord /\ c.slabs \in Seq(LocalSlabRecord) /\ c.avail \in Seq(Nat) /\ i \in Nat
    BY DEF CacheShape, LocalCacheRecord
<1>2. c.slabs[i].slot = 0 /\ Listed(c.slabs, c.avail, M) /\ M \subseteq DOMAIN c.slabs
    BY DEF CacheShape
<1>3. MarkAvailable(c, i) = d
    BY <1>1, <1>2 DEF MarkAvailable, LocalCacheRecord
<1>4. s \in Nat \ {0} /\ v \in Seq(Nat)
    BY <1>1
<1> HIDE DEF s, v
<1>5. /\ w \in Seq(LocalSlabRecord) /\ DOMAIN w = DOMAIN c.slabs /\ w[i].slot = s
      /\ \A j \in DOMAIN c.slabs : j # i => w[j] = c.slabs[j]
      /\ \A j \in DOMAIN c.slabs : /\ w[j].start = c.slabs[j].start
                                   /\ w[j].capacity = c.slabs[j].capacity
                                   /\ w[j].next_fresh = c.slabs[j].next_fresh
                                   /\ w[j].free = c.slabs[j].free
    BY <1>1, <1>4, SlotWritten
<1> HIDE DEF w
<1>6. SlotsOnly(c, d) /\ d.avail = v /\ d.slabs = w
    <2>1. d = [c EXCEPT !.avail = v, !.slabs = w]
        OBVIOUS
    <2> HIDE DEF d
    <2>2. /\ d \in LocalCacheRecord /\ d.avail = v /\ d.slabs = w
          /\ d.hot = c.hot /\ d.by_start = c.by_start /\ d.recent = c.recent
          /\ d.shared = c.shared /\ d.shared_len = c.shared_len /\ d.total_len = c.total_len
        BY ONLY <2>1, <1>1, <1>4, <1>5 DEF LocalCacheRecord
    <2> QED BY ONLY <2>2, <1>5 DEF SlotsOnly
<1> HIDE DEF d
<1>7. Listed(w, v, M \cup {i})
    <2>1. \A j \in M : w[j].slot = c.slabs[j].slot
        BY <1>2, <1>5
    <2>2. w[i].slot = Len(c.avail) + 1
        BY <1>5 DEF s
    <2> QED BY <2>1, <2>2, <1>1, <1>2, ListedPush DEF v
<1>8. \A j \in DOMAIN c.slabs : w[j].slot = 0 <=> j \notin M \cup {i}
    BY <1>4, <1>5 DEF CacheShape
<1> QED BY <1>2, <1>3, <1>6, <1>7, <1>8, ShapeFromSlots

\* mark_slab_unavailable: the slab leaves the vector, the one that fills its place
\* learns its slot.
LEMMA MarkUnavailableIs ==
    ASSUME NEW c, NEW M, CacheShape(c, M), NEW i \in M
    PROVE  CacheShape(MarkUnavailable(c, i), M \ {i}) /\ SlotsOnly(c, MarkUnavailable(c, i))
<1> DEFINE slot == c.slabs[i].slot
           v == SwapRemove(c.avail, slot)
           f == [c.slabs EXCEPT ![i].slot = 0]
           g == [f EXCEPT ![v[slot]].slot = slot]
           w == IF slot <= Len(v) THEN g ELSE f
           d == [c EXCEPT !.avail = v, !.slabs = w]
<1>1. c \in LocalCacheRecord /\ c.slabs \in Seq(LocalSlabRecord) /\ c.avail \in Seq(Nat)
    BY DEF CacheShape, LocalCacheRecord
<1>2. /\ i \in DOMAIN c.slabs /\ slot # 0 /\ Listed(c.slabs, c.avail, M) /\ M \subseteq DOMAIN c.slabs
      /\ slot \in 1 .. Len(c.avail) /\ slot \in Nat
    <2>1. i \in DOMAIN c.slabs /\ Listed(c.slabs, c.avail, M) /\ M \subseteq DOMAIN c.slabs
        BY DEF CacheShape
    <2>2. slot \in DOMAIN c.avail /\ DOMAIN c.avail = 1 .. Len(c.avail) /\ Len(c.avail) \in Nat
        BY <1>1, <2>1 DEF Listed
    <2> HIDE DEF slot
    <2> QED BY <2>1, <2>2
<1>3. MarkUnavailable(c, i) = d
    BY <1>1, <1>2 DEF MarkUnavailable
<1> HIDE DEF slot
<1>4. /\ v \in Seq(Nat) /\ Len(v) = Len(c.avail) - 1
      /\ \A k \in 1 .. Len(c.avail) - 1 : (k = slot => v[k] = c.avail[Len(c.avail)])
                                          /\ (k # slot => v[k] = c.avail[k])
    <2> DEFINE a == c.avail
    <2>1. a \in Seq(Nat) /\ slot \in 1 .. Len(a)
        BY <1>1, <1>2
    <2> HIDE DEF a
    <2>2. /\ SwapRemove(a, slot) \in Seq(Nat) /\ Len(SwapRemove(a, slot)) = Len(a) - 1
          /\ \A k \in 1 .. Len(a) - 1 : (k = slot => SwapRemove(a, slot)[k] = a[Len(a)])
                                        /\ (k # slot => SwapRemove(a, slot)[k] = a[k])
        BY ONLY <2>1, SwapRemoveIs
    <2> QED BY <2>2 DEF a
<1> HIDE DEF v
<1>5. /\ f \in Seq(LocalSlabRecord) /\ DOMAIN f = DOMAIN c.slabs /\ f[i].slot = 0
      /\ \A j \in DOMAIN c.slabs : j # i => f[j] = c.slabs[j]
      /\ \A j \in DOMAIN c.slabs : /\ f[j].start = c.slabs[j].start
                                   /\ f[j].capacity = c.slabs[j].capacity
                                   /\ f[j].next_fresh = c.slabs[j].next_fresh
                                   /\ f[j].free = c.slabs[j].free
    <2> DEFINE z == 0
    <2>1. z \in Nat /\ f = [c.slabs EXCEPT ![i].slot = z]
        OBVIOUS
    <2> HIDE DEF z, f
    <2>2. /\ f \in Seq(LocalSlabRecord) /\ DOMAIN f = DOMAIN c.slabs /\ f[i].slot = z
          /\ \A j \in DOMAIN c.slabs : j # i => f[j] = c.slabs[j]
          /\ \A j \in DOMAIN c.slabs : /\ f[j].start = c.slabs[j].start
                                       /\ f[j].capacity = c.slabs[j].capacity
                                       /\ f[j].next_fresh = c.slabs[j].next_fresh
                                       /\ f[j].free = c.slabs[j].free
        BY <2>1, <1>1, <1>2, SlotWritten
    <2> QED BY <2>2 DEF z
<1> HIDE DEF f
<1>6. \A j \in M : c.slabs[j].slot \in 1 .. Len(c.avail) /\ c.avail[c.slabs[j].slot] = j
    <2>1. DOMAIN c.avail = 1 .. Len(c.avail)
        BY <1>1
    <2> QED BY ONLY <2>1, <1>2 DEF Listed
<1>7. \A k \in 1 .. Len(c.avail) : c.avail[k] \in M /\ c.slabs[c.avail[k]].slot = k
    <2>1. DOMAIN c.avail = 1 .. Len(c.avail)
        BY <1>1
    <2>2. Listed(c.slabs, c.avail, M)
        BY <1>2
    <2> QED BY ONLY <2>1, <2>2 DEF Listed
<1>8. /\ w \in Seq(LocalSlabRecord) /\ DOMAIN w = DOMAIN c.slabs /\ w[i].slot = 0
      /\ \A j \in DOMAIN c.slabs \ M : w[j].slot = c.slabs[j].slot
      /\ \A j \in M \ {i} : w[j].slot = IF c.slabs[j].slot = Len(c.avail) THEN slot
                                        ELSE c.slabs[j].slot
      /\ \A j \in DOMAIN c.slabs : /\ w[j].start = c.slabs[j].start
                                   /\ w[j].capacity = c.slabs[j].capacity
                                   /\ w[j].next_fresh = c.slabs[j].next_fresh
                                   /\ w[j].free = c.slabs[j].free
    <2>1. CASE slot <= Len(v)
        <3> DEFINE m == v[slot]
        <3>1. Len(c.avail) \in Nat /\ slot \in 1 .. Len(c.avail) - 1
            BY <2>1, <1>1, <1>2, <1>4
        <3>2. m = c.avail[Len(c.avail)]
            BY ONLY <3>1, <1>4
        <3>3. m \in M /\ c.slabs[m].slot = Len(c.avail)
            BY <3>1, <3>2, <1>7
        <3>4. m # i
            BY <3>1, <3>3 DEF slot
        <3>5. w = [f EXCEPT ![m].slot = slot]
            BY <2>1
        <3>6. m \in DOMAIN f /\ slot \in Nat
            BY <3>3, <1>2, <1>5
        <3> HIDE DEF m, w
        <3>7. /\ w \in Seq(LocalSlabRecord) /\ DOMAIN w = DOMAIN f /\ w[m].slot = slot
              /\ \A j \in DOMAIN f : j # m => w[j] = f[j]
              /\ \A j \in DOMAIN f : /\ w[j].start = f[j].start
                                     /\ w[j].capacity = f[j].capacity
                                     /\ w[j].next_fresh = f[j].next_fresh
                                     /\ w[j].free = f[j].free
            BY <3>5, <3>6, <1>5, SlotWritten
        <3>8. \A j \in M \ {i} : c.slabs[j].slot = Len(c.avail) <=> j = m
            BY <3>2, <3>3, <1>6
        <3>9. w \in Seq(LocalSlabRecord) /\ DOMAIN w = DOMAIN c.slabs /\ w[i].slot = 0
            BY <3>4, <3>7, <1>2, <1>5
        <3>10. \A j \in DOMAIN c.slabs \ M : w[j].slot = c.slabs[j].slot
            BY <3>3, <3>7, <1>2, <1>5
        <3>11. \A j \in M \ {i} : w[j].slot = IF c.slabs[j].slot = Len(c.avail) THEN slot
                                              ELSE c.slabs[j].slot
            BY <3>7, <3>8, <1>2, <1>5
        <3>12. \A j \in DOMAIN c.slabs : /\ w[j].start = c.slabs[j].start
                                         /\ w[j].capacity = c.slabs[j].capacity
                                         /\ w[j].next_fresh = c.slabs[j].next_fresh
                                         /\ w[j].free = c.slabs[j].free
            BY <3>7, <1>5
        <3> QED BY <3>9, <3>10, <3>11, <3>12
    <2>2. CASE ~(slot <= Len(v))
        <3>1. slot = Len(c.avail)
            BY <2>2, <1>1, <1>2, <1>4
        <3>2. \A j \in M \ {i} : c.slabs[j].slot # Len(c.avail)
            BY <3>1, <1>2, <1>6 DEF slot
        <3>3. w = f
            BY <2>2
        <3> HIDE DEF w
        <3> QED BY <3>2, <3>3, <1>2, <1>5
    <2> QED BY <2>1, <2>2
<1> HIDE DEF w
<1>9. SlotsOnly(c, d) /\ d.avail = v /\ d.slabs = w
    <2>1. d = [c EXCEPT !.avail = v, !.slabs = w]
        OBVIOUS
    <2> HIDE DEF d
    <2>2. /\ d \in LocalCacheRecord /\ d.avail = v /\ d.slabs = w
          /\ d.hot = c.hot /\ d.by_start = c.by_start /\ d.recent = c.recent
          /\ d.shared = c.shared /\ d.shared_len = c.shared_len /\ d.total_len = c.total_len
        BY ONLY <2>1, <1>1, <1>4, <1>8 DEF LocalCacheRecord
    <2> QED BY ONLY <2>2, <1>8 DEF SlotsOnly
<1> HIDE DEF d
<1>10. Listed(w, v, M \ {i})
    BY <1>1, <1>2, <1>8, ListedSwapRemove DEF v, slot
<1>11. \A j \in DOMAIN c.slabs : w[j].slot = 0 <=> j \notin M \ {i}
    <2>1. \A j \in M \ {i} : w[j].slot # 0
        BY <1>1, <1>2, <1>6, <1>8
    <2> QED BY <2>1, <1>2, <1>8 DEF CacheShape
<1> QED BY <1>2, <1>3, <1>9, <1>10, <1>11, ShapeFromSlots

\* Changes of slots and of the available list leave the stock alone.
LEMMA SlotsOnlyKeeps ==
    ASSUME NEW c, NEW d, SlotsOnly(c, d)
    PROVE  /\ \A j \in DOMAIN c.slabs : /\ Stock(d.slabs[j]) = Stock(c.slabs[j])
                                        /\ StockSound(d.slabs[j]) <=> StockSound(c.slabs[j])
                                        /\ HasAvailable(d.slabs[j]) <=> HasAvailable(c.slabs[j])
           /\ Ready(d) = Ready(c)
           /\ CacheHeld(d) = CacheHeld(c)
           /\ CacheStock(c) => CacheStock(d)
<1>1. \A j \in DOMAIN c.slabs : /\ d.slabs[j].start = c.slabs[j].start
                                /\ d.slabs[j].capacity = c.slabs[j].capacity
                                /\ d.slabs[j].next_fresh = c.slabs[j].next_fresh
                                /\ d.slabs[j].free = c.slabs[j].free
    BY DEF SlotsOnly
<1>2. DOMAIN d.slabs = DOMAIN c.slabs /\ d.hot = c.hot /\ d.shared = c.shared
      /\ d.shared_len = c.shared_len
    BY DEF SlotsOnly
<1>3. \A j \in DOMAIN c.slabs : Stock(d.slabs[j]) = Stock(c.slabs[j])
    BY ONLY <1>1 DEF Stock
<1>4. \A j \in DOMAIN c.slabs : StockSound(d.slabs[j]) <=> StockSound(c.slabs[j])
    BY ONLY <1>1 DEF StockSound
<1>5. \A j \in DOMAIN c.slabs : HasAvailable(d.slabs[j]) <=> HasAvailable(c.slabs[j])
    BY ONLY <1>1 DEF HasAvailable
<1>6. Ready(d) = Ready(c)
    BY ONLY <1>2, <1>5 DEF Ready
<1>7. {Stock(d.slabs[i]) : i \in DOMAIN d.slabs} = {Stock(c.slabs[i]) : i \in DOMAIN c.slabs}
    BY ONLY <1>2, <1>3
<1>8. CacheHeld(d) = CacheHeld(c)
    BY ONLY <1>2, <1>7 DEF CacheHeld
<1>9. CacheStock(c) => CacheStock(d)
    BY ONLY <1>2, <1>3, <1>4 DEF CacheStock
<1> QED BY <1>3, <1>4, <1>5, <1>6, <1>8, <1>9

\* The end of a pop: the slab is listed exactly if it still has a block.
LEMMA SettleIs ==
    ASSUME NEW c, NEW M, CacheShape(c, M), NEW i \in M,
           \A j \in DOMAIN c.slabs : j # i => (j \in M <=> HasAvailable(c.slabs[j]))
    PROVE  CacheShape(Settle(c, i), Ready(Settle(c, i))) /\ SlotsOnly(c, Settle(c, i))
<1>1. M \subseteq DOMAIN c.slabs /\ c \in LocalCacheRecord
    BY DEF CacheShape
<1>2. CASE HasAvailable(c.slabs[i])
    <2>1. Settle(c, i) = c
        BY <1>2 DEF Settle
    <2>2. Ready(c) = M
        BY <1>1, <1>2 DEF Ready
    <2>3. SlotsOnly(c, c)
        BY <1>1 DEF SlotsOnly
    <2> QED BY <2>1, <2>2, <2>3
<1>3. CASE ~HasAvailable(c.slabs[i])
    <2> DEFINE d == MarkUnavailable(c, i)
    <2>1. Settle(c, i) = d
        BY <1>3 DEF Settle
    <2>2. CacheShape(d, M \ {i}) /\ SlotsOnly(c, d)
        BY MarkUnavailableIs
    <2> HIDE DEF d
    <2>3. Ready(d) = Ready(c)
        BY <2>2, SlotsOnlyKeeps
    <2>4. Ready(c) = M \ {i}
        BY <1>1, <1>3 DEF Ready
    <2> QED BY <2>1, <2>2, <2>3, <2>4
<1> QED BY <1>2, <1>3

\* A change of the contents of slabs, of the hot slot, the shared list or a counter
\* leaves the shape alone.
LEMMA ContentsKeepShape ==
    ASSUME NEW c, NEW M, CacheShape(c, M), NEW d \in LocalCacheRecord,
           d.by_start = c.by_start, d.avail = c.avail, DOMAIN d.slabs = DOMAIN c.slabs,
           \A j \in DOMAIN c.slabs : /\ d.slabs[j].start = c.slabs[j].start
                                     /\ d.slabs[j].capacity = c.slabs[j].capacity
                                     /\ d.slabs[j].slot = c.slabs[j].slot,
           d.recent = c.recent \/ d.recent \in DOMAIN c.slabs
    PROVE  CacheShape(d, M)
<1>1. Indexed(c) /\ SpansRecorded(c) /\ c \in LocalCacheRecord /\ c.recent \in 0 .. Len(c.slabs)
      /\ Listed(c.slabs, c.avail, M) /\ M \subseteq DOMAIN c.slabs
    BY DEF CacheShape
<1>2. Indexed(d) /\ SpansRecorded(d)
    BY <1>1, TableKept
<1>3. Len(d.slabs) = Len(c.slabs) /\ DOMAIN c.slabs = 1 .. Len(c.slabs)
    BY <1>1 DEF LocalCacheRecord
<1>4. d.recent \in 0 .. Len(d.slabs)
    BY <1>1, <1>3
<1>5. Listed(d.slabs, d.avail, M)
    <2>1. \A j \in M : d.slabs[j].slot = c.slabs[j].slot
        BY <1>1
    <2>2. d.avail = c.avail /\ Listed(c.slabs, c.avail, M)
        BY <1>1
    <2> QED BY ONLY <2>1, <2>2 DEF Listed
<1>6. \A j \in DOMAIN d.slabs : d.slabs[j].slot = 0 <=> j \notin M
    BY DEF CacheShape
<1> QED BY <1>1, <1>2, <1>4, <1>5, <1>6 DEF CacheShape

-----------------------------------------------------------------------------
(* LocalClassCache: the blocks it holds.                                   *)

\* The blocks of a slab's stock lie in the slab.
LEMMA StockInSlab ==
    ASSUME NEW slab \in LocalSlabRecord, StockSound(slab), NEW x \in Stock(slab)
    PROVE  x \in Nat /\ SlabContains(slab, x)
<1>1. slab.start \in Nat /\ slab.capacity \in Nat /\ slab.next_fresh \in Nat
    BY DEF LocalSlabRecord
<1>2. x \in slab.start .. slab.start + slab.next_fresh - 1
      \/ x \in slab.start + slab.next_fresh .. slab.start + slab.capacity - 1
    BY DEF Stock, StockSound
<1>3. slab.next_fresh <= slab.capacity
    BY DEF StockSound
<1> QED BY ONLY <1>1, <1>2, <1>3 DEF SlabContains

\* A block of a recorded slab is an address.
LEMMA SlabInArena ==
    ASSUME NEW c, SpansRecorded(c), NEW i \in DOMAIN c.slabs, NEW x \in Int,
           SlabContains(c.slabs[i], x)
    PROVE  x \in Addresses
<1>1. PICK sp \in Spans : c.slabs[i].start = sp.start /\ c.slabs[i].capacity = sp.count
    BY DEF SpansRecorded
<1> QED BY <1>1, SpansAssumption DEF SlabContains, Addresses

\* What the cache holds are addresses, and no two slabs hold the same one.
LEMMA HeldApart ==
    ASSUME NEW c, NEW M, CacheShape(c, M), CacheStock(c)
    PROVE  /\ CacheHeld(c) \subseteq Addresses
           /\ \A i, j \in DOMAIN c.slabs : i # j => Stock(c.slabs[i]) \cap Stock(c.slabs[j]) = {}
           /\ \A i \in DOMAIN c.slabs : \A x \in Stock(c.slabs[i]) :
                 x \in Nat /\ SlabContains(c.slabs[i], x)
<1>1. SpansRecorded(c) /\ \A i \in DOMAIN c.slabs : c.slabs[i] \in LocalSlabRecord
    BY DEF CacheShape, LocalCacheRecord
<1>2. ASSUME NEW i \in DOMAIN c.slabs, NEW x \in Stock(c.slabs[i])
      PROVE  x \in Nat /\ SlabContains(c.slabs[i], x)
    <2>1. StockSound(c.slabs[i]) /\ c.slabs[i] \in LocalSlabRecord
        BY <1>1 DEF CacheStock
    <2> QED BY ONLY <2>1, <1>2, StockInSlab
<1>3. ASSUME NEW i \in DOMAIN c.slabs, NEW x \in Stock(c.slabs[i]) PROVE x \in Addresses
    <2>1. x \in Int /\ SlabContains(c.slabs[i], x)
        BY <1>2
    <2> QED BY ONLY <2>1, <1>1, <1>3, SlabInArena
<1>4. ASSUME NEW x \in CacheHeld(c) PROVE x \in Addresses
    <2>1. CASE x \in c.hot \cup ToSet(c.shared)
        BY <2>1 DEF CacheStock, Addresses
    <2>2. CASE \E i \in DOMAIN c.slabs : x \in Stock(c.slabs[i])
        BY <2>2, <1>3
    <2> QED BY <2>1, <2>2 DEF CacheHeld
<1>5. ASSUME NEW i \in DOMAIN c.slabs, NEW j \in DOMAIN c.slabs,
             NEW x, x \in Stock(c.slabs[i]), x \in Stock(c.slabs[j])
      PROVE  i = j
    <2>1. x \in Int /\ SlabContains(c.slabs[i], x) /\ SlabContains(c.slabs[j], x)
        BY <1>2, <1>5
    <2> QED BY ONLY <2>1, <1>1, <1>5, SlabsApart
<1> QED BY <1>2, <1>4, <1>5

\* Addresses that leave a set of addresses, counted.
LEMMA CountOut ==
    ASSUME NEW H \in SUBSET Addresses, NEW B \in SUBSET H
    PROVE  /\ IsFiniteSet(H) /\ IsFiniteSet(B)
           /\ Cardinality(H) \in Nat /\ Cardinality(B) \in Nat
           /\ Cardinality(H \ B) = Cardinality(H) - Cardinality(B)
<1>1. IsFiniteSet(Addresses)
    BY SpansAssumption, FS_Interval DEF Addresses
<1>2. IsFiniteSet(H)
    BY <1>1, FS_Subset
<1>3. IsFiniteSet(B)
    BY <1>2, FS_Subset
<1>4. Cardinality(H \ B) = Cardinality(H) - Cardinality(H \cap B)
    BY <1>2, <1>3, FS_Difference
<1>5. H \cap B = B
    OBVIOUS
<1> QED BY <1>2, <1>3, <1>4, <1>5, FS_CardinalityType

\* Addresses that come into a set of addresses, counted.
LEMMA CountIn ==
    ASSUME NEW H \in SUBSET Addresses, NEW B \in SUBSET Addresses, H \cap B = {}
    PROVE  /\ IsFiniteSet(H) /\ IsFiniteSet(B)
           /\ Cardinality(H) \in Nat /\ Cardinality(B) \in Nat
           /\ Cardinality(H \cup B) = Cardinality(H) + Cardinality(B)
<1>1. IsFiniteSet(Addresses)
    BY SpansAssumption, FS_Interval DEF Addresses
<1>2. IsFiniteSet(H) /\ IsFiniteSet(B)
    BY <1>1, FS_Subset
<1>3. Cardinality(H \cup B) = Cardinality(H) + Cardinality(B) - Cardinality(H \cap B)
    BY <1>2, FS_Union
<1>4. Cardinality(H \cap B) = 0
    BY FS_EmptySet
<1> QED BY <1>2, <1>3, <1>4, FS_CardinalityType

\* The first n nodes of a list without repetitions are n blocks.
LEMMA ListCount ==
    ASSUME NEW s \in Seq(Nat), Once(s), NEW n \in 0 .. Len(s)
    PROVE  /\ IsFiniteSet({s[k] : k \in 1 .. n})
           /\ Cardinality({s[k] : k \in 1 .. n}) = n
<1> DEFINE S == {s[k] : k \in 1 .. n}
           f == [k \in 1 .. n |-> s[k]]
<1>1. n \in Nat /\ IsFiniteSet(1 .. n) /\ Cardinality(1 .. n) = n
    BY FS_Interval
<1>2. f \in Injection(1 .. n, S) /\ f \in Surjection(1 .. n, S)
    <2>1. f \in [1 .. n -> S]
        OBVIOUS
    <2>2. \A a, b \in 1 .. n : f[a] = f[b] => a = b
        BY DEF Once
    <2>3. \A t \in S : \E k \in 1 .. n : f[k] = t
        OBVIOUS
    <2> HIDE DEF f, S
    <2>4. DOMAIN f = 1 .. n
        BY <2>1
    <2> QED BY <2>1, <2>2, <2>3, <2>4 DEF Injection, Surjection, IsInjective
<1> HIDE DEF S, f
<1>3. IsFiniteSet(S) /\ Cardinality(S) = Cardinality(1 .. n)
    BY <1>1, <1>2, FS_Surjection
<1> QED BY <1>1, <1>3 DEF S

\* d is c with other contents of slab i.
OneSlab(c, d, i) ==
    /\ d.hot = c.hot /\ d.shared = c.shared /\ d.shared_len = c.shared_len
    /\ DOMAIN d.slabs = DOMAIN c.slabs
    /\ \A j \in DOMAIN c.slabs : j # i => d.slabs[j] = c.slabs[j]

\* Blocks that a slab gives are gone from what the cache holds, and only they.
LEMMA SlabGives ==
    ASSUME NEW c, NEW M, CacheShape(c, M), CacheStock(c), NEW d, NEW i \in DOMAIN c.slabs,
           OneSlab(c, d, i), StockSound(d.slabs[i]), NEW B \in SUBSET Stock(c.slabs[i]),
           Stock(d.slabs[i]) = Stock(c.slabs[i]) \ B
    PROVE  CacheStock(d) /\ CacheHeld(d) = CacheHeld(c) \ B /\ B \subseteq CacheHeld(c)
<1>1. \A j \in DOMAIN c.slabs : j # i => Stock(c.slabs[j]) \cap B = {}
    BY HeldApart
<1>2. \A j \in DOMAIN c.slabs : j # i => Stock(d.slabs[j]) = Stock(c.slabs[j])
                                          /\ StockSound(d.slabs[j])
    BY DEF OneSlab, CacheStock
<1>3. B \cap (c.hot \cup ToSet(c.shared)) = {}
    BY DEF CacheStock
<1>4. DOMAIN d.slabs = DOMAIN c.slabs /\ d.hot = c.hot /\ d.shared = c.shared
      /\ d.shared_len = c.shared_len
    BY DEF OneSlab
<1>5. CacheStock(d)
    <2>1. \A j \in DOMAIN d.slabs : StockSound(d.slabs[j])
        BY <1>2, <1>4
    <2>2. \A j \in DOMAIN d.slabs : Stock(d.slabs[j]) \cap (d.hot \cup ToSet(d.shared)) = {}
        BY <1>2, <1>4 DEF CacheStock
    <2> QED BY <2>1, <2>2, <1>4 DEF CacheStock
<1>6. ASSUME NEW x PROVE x \in CacheHeld(d) <=> x \in CacheHeld(c) \ B
    <2>1. (\E j \in DOMAIN d.slabs : x \in Stock(d.slabs[j]))
             <=> (\E j \in DOMAIN c.slabs : x \in Stock(c.slabs[j])) /\ x \notin B
        BY ONLY <1>1, <1>2, <1>4, i \in DOMAIN c.slabs, B \in SUBSET Stock(c.slabs[i]),
                Stock(d.slabs[i]) = Stock(c.slabs[i]) \ B
    <2> QED BY ONLY <2>1, <1>3, <1>4 DEF CacheHeld
<1>7. CacheHeld(d) = CacheHeld(c) \ B
    BY <1>6
<1>8. B \subseteq CacheHeld(c)
    BY DEF CacheHeld
<1> QED BY <1>5, <1>7, <1>8

\* Blocks that a slab gets are held from then on, and no others are.
LEMMA SlabGets ==
    ASSUME NEW c, CacheStock(c), NEW d, NEW i \in DOMAIN c.slabs,
           OneSlab(c, d, i), StockSound(d.slabs[i]), NEW B,
           B \cap (c.hot \cup ToSet(c.shared)) = {},
           Stock(d.slabs[i]) = Stock(c.slabs[i]) \cup B
    PROVE  CacheStock(d) /\ CacheHeld(d) = CacheHeld(c) \cup B
<1>2. \A j \in DOMAIN c.slabs : j # i => Stock(d.slabs[j]) = Stock(c.slabs[j])
                                          /\ StockSound(d.slabs[j])
    BY DEF OneSlab, CacheStock
<1>4. DOMAIN d.slabs = DOMAIN c.slabs /\ d.hot = c.hot /\ d.shared = c.shared
      /\ d.shared_len = c.shared_len
    BY DEF OneSlab
<1>5. CacheStock(d)
    <2>1. \A j \in DOMAIN d.slabs : StockSound(d.slabs[j])
        BY <1>2, <1>4
    <2>2. \A j \in DOMAIN d.slabs : Stock(d.slabs[j]) \cap (d.hot \cup ToSet(d.shared)) = {}
        BY <1>2, <1>4 DEF CacheStock
    <2> QED BY <2>1, <2>2, <1>4 DEF CacheStock
<1>6. ASSUME NEW x PROVE x \in CacheHeld(d) <=> x \in CacheHeld(c) \cup B
    <2>1. (\E j \in DOMAIN d.slabs : x \in Stock(d.slabs[j]))
             <=> (\E j \in DOMAIN c.slabs : x \in Stock(c.slabs[j])) \/ x \in B
        BY ONLY <1>2, <1>4, i \in DOMAIN c.slabs,
                Stock(d.slabs[i]) = Stock(c.slabs[i]) \cup B
    <2> QED BY ONLY <2>1, <1>4 DEF CacheHeld
<1> QED BY <1>5, <1>6

\* A change of the hot slot and of the shared list alone.
LEMMA EdgeChange ==
    ASSUME NEW c, CacheSound(c), NEW d \in LocalCacheRecord,
           d.slabs = c.slabs, d.by_start = c.by_start, d.avail = c.avail, d.recent = c.recent,
           d.hot = {} \/ \E b \in Addresses : d.hot = {b},
           Once(d.shared), d.shared_len = Len(d.shared), ToSet(d.shared) \subseteq Addresses,
           d.hot \cap ToSet(d.shared) = {},
           \A i \in DOMAIN c.slabs : Stock(c.slabs[i]) \cap (d.hot \cup ToSet(d.shared)) = {}
    PROVE  /\ CacheSound(d)
           /\ CacheHeld(d) = (CacheHeld(c) \ (c.hot \cup ToSet(c.shared)))
                             \cup d.hot \cup ToSet(d.shared)
<1>1. Ready(d) = Ready(c)
    BY DEF Ready
<1>2. CacheShape(d, Ready(d))
    BY <1>1, ContentsKeepShape DEF CacheSound
<1>3. CacheStock(d)
    BY DEF CacheSound, CacheStock, Addresses
<1>4. \A i \in DOMAIN c.slabs : Stock(c.slabs[i]) \cap (c.hot \cup ToSet(c.shared)) = {}
    BY DEF CacheSound, CacheStock
<1>5. ASSUME NEW x
      PROVE  x \in CacheHeld(d) <=> x \in (CacheHeld(c) \ (c.hot \cup ToSet(c.shared)))
                                          \cup d.hot \cup ToSet(d.shared)
    BY <1>4 DEF CacheHeld
<1> QED BY <1>2, <1>3, <1>5 DEF CacheSound

-----------------------------------------------------------------------------
(* LocalClassCache: its calls.                                             *)

\* The lookup of push_spilled_block gives the slab that contains the block, or none.
LEMMA SlabOfIs ==
    ASSUME NEW c, NEW M, CacheShape(c, M), NEW b \in Nat
    PROVE  \/ /\ SlabOf(c, b) = 0
              /\ \A i \in DOMAIN c.slabs : ~SlabContains(c.slabs[i], b)
           \/ /\ SlabOf(c, b) \in DOMAIN c.slabs
              /\ SlabOf(c, b) # 0
              /\ SlabContains(c.slabs[SlabOf(c, b)], b)
<1>1. /\ Indexed(c) /\ SpansRecorded(c) /\ c.by_start \in Seq(Nat) /\ c.recent \in 0 .. Len(c.slabs)
      /\ DOMAIN c.slabs = 1 .. Len(c.slabs) /\ Len(c.slabs) \in Nat
      /\ \A i \in DOMAIN c.slabs : c.slabs[i].start \in Nat
    <2>1. Indexed(c) /\ SpansRecorded(c) /\ c \in LocalCacheRecord /\ c.recent \in 0 .. Len(c.slabs)
        BY DEF CacheShape
    <2>2. c.by_start \in Seq(Nat) /\ c.slabs \in Seq(LocalSlabRecord)
        BY <2>1 DEF LocalCacheRecord
    <2>4. \A i \in DOMAIN c.slabs : c.slabs[i] \in LocalSlabRecord
        BY <2>2
    <2>3. \A i \in DOMAIN c.slabs : c.slabs[i].start \in Nat
        BY ONLY <2>4 DEF LocalSlabRecord
    <2> QED BY ONLY <2>1, <2>2, <2>3
<1>2. CASE c.recent # 0 /\ SlabContains(c.slabs[c.recent], b)
    BY <1>1, <1>2 DEF SlabOf
<1>3. CASE ~(c.recent # 0 /\ SlabContains(c.slabs[c.recent], b))
    <2> DEFINE m == StartsUpTo(c, b)
               j == c.by_start[m]
    <2>1. SlabOf(c, b) = IF m # 0 /\ SlabContains(c.slabs[j], b) THEN j ELSE 0
        BY <1>3 DEF SlabOf, FindSlab
    <2>2. m \in 0 .. Len(c.by_start)
        BY <1>1, StartsUpToIs
    <2>3. m # 0 => j \in DOMAIN c.slabs
        BY <2>2, <1>1 DEF Indexed
    <2>4. ASSUME NEW i \in DOMAIN c.slabs, SlabContains(c.slabs[i], b) PROVE m # 0 /\ j = i
        <3>1. m \in DOMAIN c.by_start /\ j = i
            BY <2>4, <1>1, LookupFinds
        <3> HIDE DEF m, j
        <3> QED BY <3>1, <1>1
    <2> HIDE DEF m, j
    <2> QED BY <2>1, <2>3, <2>4, <1>1
<1> QED BY <1>2, <1>3

\* A record written at an index of the vector of slabs.
LEMMA RecordWritten ==
    ASSUME NEW slabs \in Seq(LocalSlabRecord), NEW i \in DOMAIN slabs, NEW r \in LocalSlabRecord
    PROVE  /\ [slabs EXCEPT ![i] = r] \in Seq(LocalSlabRecord)
           /\ DOMAIN [slabs EXCEPT ![i] = r] = DOMAIN slabs
           /\ [slabs EXCEPT ![i] = r][i] = r
           /\ \A j \in DOMAIN slabs : j # i => [slabs EXCEPT ![i] = r][j] = slabs[j]
    OBVIOUS

\* The cache with a new record of slab i, a new shortcut and a new counter.
WithRecord(c, i, r, q, n) ==
    [c EXCEPT !.slabs = [c.slabs EXCEPT ![i] = r], !.recent = q, !.total_len = n]

\* New contents of a slab leave the shape of the cache alone.
LEMMA SlabWritten ==
    ASSUME NEW c, NEW M, CacheShape(c, M), NEW i \in DOMAIN c.slabs, NEW r \in LocalSlabRecord,
           r.start = c.slabs[i].start, r.capacity = c.slabs[i].capacity,
           r.slot = c.slabs[i].slot, NEW n \in Int, NEW q \in DOMAIN c.slabs \cup {c.recent}
    PROVE  /\ CacheShape(WithRecord(c, i, r, q, n), M)
           /\ OneSlab(c, WithRecord(c, i, r, q, n), i)
           /\ WithRecord(c, i, r, q, n).slabs[i] = r
           /\ WithRecord(c, i, r, q, n).total_len = n
           /\ WithRecord(c, i, r, q, n) \in LocalCacheRecord
<1> DEFINE w == [c.slabs EXCEPT ![i] = r]
           d == WithRecord(c, i, r, q, n)
<1>1. c \in LocalCacheRecord /\ c.slabs \in Seq(LocalSlabRecord) /\ q \in Nat
    BY DEF CacheShape, LocalCacheRecord
<1>2. /\ w \in Seq(LocalSlabRecord) /\ DOMAIN w = DOMAIN c.slabs
      /\ w[i] = r /\ \A j \in DOMAIN c.slabs : j # i => w[j] = c.slabs[j]
    BY <1>1, RecordWritten
<1>3. d = [c EXCEPT !.slabs = w, !.recent = q, !.total_len = n]
    BY DEF WithRecord
<1> HIDE DEF w, d
<1>4. /\ d \in LocalCacheRecord /\ d.slabs = w /\ d.recent = q /\ d.total_len = n
      /\ d.hot = c.hot /\ d.by_start = c.by_start /\ d.avail = c.avail
      /\ d.shared = c.shared /\ d.shared_len = c.shared_len
    BY ONLY <1>1, <1>2, <1>3, n \in Int DEF LocalCacheRecord
<1>5. \A j \in DOMAIN c.slabs : /\ d.slabs[j].start = c.slabs[j].start
                                /\ d.slabs[j].capacity = c.slabs[j].capacity
                                /\ d.slabs[j].slot = c.slabs[j].slot
    BY <1>2, <1>4
<1>6. CacheShape(d, M)
    <2>1. d.recent = c.recent \/ d.recent \in DOMAIN c.slabs
        BY <1>4
    <2>2. d.by_start = c.by_start /\ d.avail = c.avail /\ DOMAIN d.slabs = DOMAIN c.slabs
        BY <1>2, <1>4
    <2>3. CacheShape(c, M) /\ d \in LocalCacheRecord
        BY <1>4
    <2> QED BY ONLY <2>1, <2>2, <2>3, <1>5, ContentsKeepShape
<1>7. OneSlab(c, d, i) /\ d.slabs[i] = r
    BY <1>2, <1>4 DEF OneSlab
<1> QED BY <1>4, <1>6, <1>7 DEF d

\* d is c but for the contents of slab i, the vectors and the counter.
SlabChanged(c, d, i) ==
    /\ d.hot = c.hot /\ d.shared = c.shared /\ d.shared_len = c.shared_len
    /\ DOMAIN d.slabs = DOMAIN c.slabs
    /\ \A j \in DOMAIN c.slabs : /\ d.slabs[j].start = c.slabs[j].start
                                 /\ d.slabs[j].capacity = c.slabs[j].capacity
    /\ \A j \in DOMAIN c.slabs : j # i => /\ d.slabs[j].next_fresh = c.slabs[j].next_fresh
                                          /\ d.slabs[j].free = c.slabs[j].free

\* A new record of one slab, and then changes of slots only.
LEMMA ChangedSlab ==
    ASSUME NEW c, NEW d, NEW e, NEW i \in DOMAIN c.slabs, OneSlab(c, d, i), SlotsOnly(d, e),
           d.slabs[i].start = c.slabs[i].start, d.slabs[i].capacity = c.slabs[i].capacity
    PROVE  /\ SlabChanged(c, e, i)
           /\ e.slabs[i].next_fresh = d.slabs[i].next_fresh /\ e.slabs[i].free = d.slabs[i].free
    BY DEF OneSlab, SlotsOnly, SlabChanged

\* Where a spilled block went: on the shared list if no slab contains it, else on the
\* list of the slab that does.
Spilled(c, d, b) ==
    \/ /\ \A i \in DOMAIN c.slabs : ~SlabContains(c.slabs[i], b)
       /\ d.slabs = c.slabs /\ d.hot = c.hot
       /\ ToSet(d.shared) = ToSet(c.shared) \cup {b} /\ d.shared_len = c.shared_len + 1
    \/ \E i \in DOMAIN c.slabs :
          /\ SlabContains(c.slabs[i], b) /\ SlabChanged(c, d, i)
          /\ d.slabs[i].free # <<>> /\ ToSet(d.slabs[i].free) = ToSet(c.slabs[i].free) \cup {b}
          /\ d.slabs[i].next_fresh = c.slabs[i].next_fresh

\* push_spilled_block: the block joins the cache, in the slab that contains it or on the
\* shared list, and the vectors agree again.
LEMMA PushSpilledIs ==
    ASSUME NEW c, CacheSound(c), NEW b \in Addresses \ CacheHeld(c)
    PROVE  /\ CacheSound(PushSpilled(c, b))
           /\ CacheHeld(PushSpilled(c, b)) = CacheHeld(c) \cup {b}
           /\ PushSpilled(c, b).total_len = c.total_len
           /\ Spilled(c, PushSpilled(c, b), b)
<1> DEFINE i == SlabOf(c, b)
           M == Ready(c)
<1>1. CacheShape(c, M) /\ CacheStock(c) /\ c \in LocalCacheRecord /\ b \in Nat
    BY SpansAssumption DEF CacheSound, CacheShape, Addresses
<1>2. CASE i = 0
    <2> DEFINE d == [c EXCEPT !.shared = <<b>> \o @, !.shared_len = @ + 1]
    <2>1. PushSpilled(c, b) = d
        BY <1>2 DEF PushSpilled
    <2> DEFINE s == <<b>> \o c.shared
    <2>2. c.shared \in Seq(Nat) /\ c.shared_len = Len(c.shared) /\ Len(c.shared) \in Nat
        BY <1>1 DEF LocalCacheRecord, CacheStock
    <2>7. b \notin c.hot /\ b \notin ToSet(c.shared)
          /\ \A j \in DOMAIN c.slabs : b \notin Stock(c.slabs[j])
        BY DEF CacheHeld
    <2>3. /\ s \in Seq(Nat) /\ Len(s) = Len(c.shared) + 1
          /\ Once(s) /\ ToSet(s) = ToSet(c.shared) \cup {b}
        <3>1. Once(c.shared)
            BY <1>1 DEF CacheStock
        <3> QED BY ONLY <3>1, <2>2, <2>7, <1>1, ListPush
    <2>4. d = [c EXCEPT !.shared = s, !.shared_len = c.shared_len + 1]
        BY <1>1 DEF LocalCacheRecord
    <2> HIDE DEF s, d
    <2>5. /\ d \in LocalCacheRecord /\ d.shared = s /\ d.shared_len = c.shared_len + 1
          /\ d.slabs = c.slabs /\ d.recent = c.recent /\ d.total_len = c.total_len
          /\ d.hot = c.hot /\ d.by_start = c.by_start /\ d.avail = c.avail
        <3>1. c.shared_len + 1 \in Int /\ c \in LocalCacheRecord /\ s \in Seq(Nat)
            BY <2>2, <2>3, <1>1
        <3> QED BY ONLY <3>1, <2>4 DEF LocalCacheRecord
    <2>9. CacheSound(d) /\ CacheHeld(d) = (CacheHeld(c) \ (c.hot \cup ToSet(c.shared)))
                                         \cup d.hot \cup ToSet(d.shared)
        <3>1. d.hot = {} \/ \E x \in Addresses : d.hot = {x}
            BY <2>5, <1>1 DEF CacheStock, Addresses
        <3>2. Once(d.shared) /\ d.shared_len = Len(d.shared) /\ ToSet(d.shared) \subseteq Addresses
            BY <2>2, <2>3, <2>5, <1>1 DEF CacheStock, Addresses
        <3>3. d.hot \cap ToSet(d.shared) = {}
            BY <2>3, <2>5, <2>7, <1>1 DEF CacheStock
        <3>4. \A j \in DOMAIN c.slabs : Stock(c.slabs[j]) \cap (d.hot \cup ToSet(d.shared)) = {}
            BY <2>3, <2>5, <2>7, <1>1 DEF CacheStock
        <3> QED BY <3>1, <3>2, <3>3, <3>4, <2>5, EdgeChange
    <2>10. c.hot \cup ToSet(c.shared) \subseteq CacheHeld(c)
        BY DEF CacheHeld
    <2>11. \A j \in DOMAIN c.slabs : ~SlabContains(c.slabs[j], b)
        BY <1>1, <1>2, SlabOfIs
    <2>12. Spilled(c, d, b)
        BY ONLY <2>3, <2>5, <2>11 DEF Spilled
    <2> QED BY <2>1, <2>3, <2>5, <2>9, <2>10, <2>12
<1>3. CASE i # 0
    <2>1. i \in DOMAIN c.slabs /\ SlabContains(c.slabs[i], b)
        BY <1>1, <1>3, SlabOfIs
    <2> DEFINE sl == c.slabs[i]
               r == [sl EXCEPT !.free = <<b>> \o sl.free]
               d == WithRecord(c, i, r, i, c.total_len)
               pushed == [c EXCEPT !.recent = i, !.slabs[i].free = <<b>> \o @]
    <2>2. pushed = d
        BY <1>1 DEF LocalCacheRecord, WithRecord
    <2>3. PushSpilled(c, b) = IF HasAvailable(sl) THEN pushed ELSE MarkAvailable(pushed, i)
        BY <1>3 DEF PushSpilled
    <2>4. sl \in LocalSlabRecord /\ c.total_len \in Int
        BY <2>1, <1>1 DEF LocalCacheRecord
    <2>5. /\ sl.free \in Seq(Nat) /\ sl.start \in Nat /\ sl.capacity \in Nat /\ sl.next_fresh \in Nat
        BY <2>4 DEF LocalSlabRecord
    <2> HIDE DEF pushed, d, sl, i
    <2> DEFINE s == <<b>> \o sl.free
    <2>10. b \notin c.hot /\ b \notin ToSet(c.shared) /\ b \notin Stock(sl)
        BY <2>1 DEF CacheHeld, sl
    <2>12. StockSound(sl)
        BY <2>1, <1>1 DEF CacheStock, sl
    <2>6. s \in Seq(Nat) /\ s # <<>> /\ Once(s) /\ ToSet(s) = ToSet(sl.free) \cup {b}
        <3>1. Once(sl.free) /\ b \notin ToSet(sl.free)
            BY <2>10, <2>12 DEF StockSound, Stock
        <3> QED BY ONLY <3>1, <2>5, <1>1, ListPush
    <2>7. r = [sl EXCEPT !.free = s]
        OBVIOUS
    <2> HIDE DEF s, r
    <2>8. /\ r \in LocalSlabRecord /\ r.start = sl.start /\ r.capacity = sl.capacity
          /\ r.slot = sl.slot /\ r.next_fresh = sl.next_fresh /\ r.free = s
        BY ONLY <2>4, <2>6, <2>7 DEF LocalSlabRecord
    <2>9. /\ CacheShape(d, M) /\ OneSlab(c, d, i) /\ d.slabs[i] = r /\ d.total_len = c.total_len
          /\ d \in LocalCacheRecord
        <3>2. r.start = c.slabs[i].start /\ r.capacity = c.slabs[i].capacity /\ r.slot = c.slabs[i].slot
            BY <2>8 DEF sl
        <3> HIDE DEF M
        <3>1. CacheShape(c, M) /\ i \in DOMAIN c.slabs /\ i \in DOMAIN c.slabs \cup {c.recent}
              /\ c.total_len \in Int /\ r \in LocalSlabRecord
            BY <2>1, <2>4, <2>8, <1>1
        <3> QED BY ONLY <3>1, <3>2, SlabWritten DEF d
    <2>13. b \in sl.start .. sl.start + sl.next_fresh - 1
        <3>1. SlabContains(sl, b)
            BY <2>1 DEF sl
        <3> QED BY <3>1, <2>5, <2>10, <1>1 DEF Stock, SlabContains
    <2>15. StockSound(r) /\ Stock(r) = Stock(sl) \cup {b}
        <3>1. Stock(r) = Stock(sl) \cup {b}
            BY <2>6, <2>8 DEF Stock
        <3>2. StockSound(r)
            BY <2>6, <2>8, <2>12, <2>13 DEF StockSound
        <3> QED BY <3>1, <3>2
    <2>16. CacheStock(d) /\ CacheHeld(d) = CacheHeld(c) \cup {b}
        <3> DEFINE B == {b}
        <3>1. B \cap (c.hot \cup ToSet(c.shared)) = {}
            BY <2>10
        <3>2. StockSound(d.slabs[i]) /\ Stock(d.slabs[i]) = Stock(c.slabs[i]) \cup B
            BY <2>9, <2>15 DEF sl
        <3>3. OneSlab(c, d, i) /\ CacheStock(c) /\ i \in DOMAIN c.slabs
            BY <2>1, <2>9, <1>1
        <3> HIDE DEF B
        <3>4. CacheStock(d) /\ CacheHeld(d) = CacheHeld(c) \cup B
            BY ONLY <3>1, <3>2, <3>3, SlabGets
        <3> QED BY <3>4 DEF B
    <2>17. HasAvailable(d.slabs[i])
        BY <2>6, <2>8, <2>9 DEF HasAvailable
    <2>18. DOMAIN d.slabs = DOMAIN c.slabs /\ \A j \in DOMAIN c.slabs : j # i => d.slabs[j] = c.slabs[j]
        BY <2>9 DEF OneSlab
    <2>19. Ready(d) = M \cup {i}
        BY <2>1, <2>17, <2>18 DEF Ready
    <2>22. ASSUME NEW e, SlotsOnly(d, e) PROVE Spilled(c, e, b)
        <3>1. d.slabs[i].start = c.slabs[i].start /\ d.slabs[i].capacity = c.slabs[i].capacity
            BY <2>8, <2>9 DEF sl
        <3>2. SlabChanged(c, e, i) /\ e.slabs[i].next_fresh = r.next_fresh /\ e.slabs[i].free = r.free
            BY <3>1, <2>1, <2>9, <2>22, ChangedSlab
        <3>3. /\ e.slabs[i].free # <<>> /\ ToSet(e.slabs[i].free) = ToSet(c.slabs[i].free) \cup {b}
              /\ e.slabs[i].next_fresh = c.slabs[i].next_fresh
            BY <3>2, <2>6, <2>8 DEF sl
        <3> QED BY ONLY <3>2, <3>3, <2>1 DEF Spilled
    <2>20. CASE HasAvailable(sl)
        <3>1. i \in M
            BY <2>20, <2>1 DEF Ready, sl
        <3>2. Ready(d) = M
            BY <3>1, <2>19
        <3>3. PushSpilled(c, b) = d
            BY <2>2, <2>3, <2>20
        <3>4. SlotsOnly(d, d)
            BY <2>9 DEF SlotsOnly
        <3>5. Spilled(c, d, b)
            BY <3>4, <2>22
        <3> HIDE DEF M
        <3> QED BY <3>2, <3>3, <3>5, <2>9, <2>16 DEF CacheSound
    <2>21. CASE ~HasAvailable(sl)
        <3>1. i \notin M
            BY <2>21 DEF Ready, sl
        <3> DEFINE e == MarkAvailable(d, i)
        <3>2. PushSpilled(c, b) = e
            BY <2>2, <2>3, <2>21
        <3>3. CacheShape(e, M \cup {i}) /\ SlotsOnly(d, e)
            <4> HIDE DEF M
            <4> QED BY <3>1, <2>1, <2>9, <2>18, MarkAvailableIs
        <3> HIDE DEF e
        <3>4. Ready(e) = Ready(d) /\ CacheHeld(e) = CacheHeld(d) /\ CacheStock(e)
            BY <3>3, <2>16, SlotsOnlyKeeps
        <3>5. e.total_len = c.total_len
            BY <3>3, <2>9 DEF SlotsOnly
        <3>6. CacheShape(e, Ready(e))
            BY <3>3, <3>4, <2>19
        <3>7. Spilled(c, e, b)
            BY <3>3, <2>22
        <3> QED BY <3>2, <3>4, <3>5, <3>6, <3>7, <2>16 DEF CacheSound
    <2> QED BY <2>20, <2>21
<1> QED BY <1>2, <1>3

\* The cache with another hot slot, shared list and counters.
WithEdges(c, h, s, n, t) ==
    [c EXCEPT !.hot = h, !.shared = s, !.shared_len = n, !.total_len = t]

\* Blocks for the hot slot and a shared list: addresses, apart and not in a slab's stock.
EdgesFit(c, h, s) ==
    /\ h = {} \/ \E b \in Addresses : h = {b}
    /\ s \in Seq(Nat) /\ Once(s) /\ ToSet(s) \subseteq Addresses /\ h \cap ToSet(s) = {}
    /\ \A i \in DOMAIN c.slabs : Stock(c.slabs[i]) \cap (h \cup ToSet(s)) = {}

\* Changes of the hot slot and the shared list keep the cache sound if the blocks on
\* them are addresses, and apart.
LEMMA EdgesWritten ==
    ASSUME NEW c, CacheSound(c), NEW h, NEW s, EdgesFit(c, h, s), NEW t \in Int
    PROVE  /\ CacheSound(WithEdges(c, h, s, Len(s), t))
           /\ CacheHeld(WithEdges(c, h, s, Len(s), t)) =
                 (CacheHeld(c) \ (c.hot \cup ToSet(c.shared))) \cup h \cup ToSet(s)
           /\ WithEdges(c, h, s, Len(s), t).total_len = t
<1> DEFINE d == WithEdges(c, h, s, Len(s), t)
           n == Len(s)
<1>6. s \in Seq(Nat)
    BY DEF EdgesFit
<1>1. c \in LocalCacheRecord /\ h \in SUBSET Nat /\ n \in Int
    BY <1>6, SpansAssumption DEF CacheSound, CacheShape, Addresses, EdgesFit
<1>2. d = [c EXCEPT !.hot = h, !.shared = s, !.shared_len = n, !.total_len = t]
    BY DEF WithEdges
<1> HIDE DEF d, n
<1>3. /\ d \in LocalCacheRecord /\ d.hot = h /\ d.shared = s /\ d.shared_len = n
      /\ d.total_len = t /\ d.slabs = c.slabs /\ d.by_start = c.by_start
      /\ d.avail = c.avail /\ d.recent = c.recent
    BY ONLY <1>1, <1>2, <1>6, t \in Int DEF LocalCacheRecord
<1>4. /\ d.hot = {} \/ \E b \in Addresses : d.hot = {b}
      /\ Once(d.shared) /\ d.shared_len = Len(d.shared) /\ ToSet(d.shared) \subseteq Addresses
      /\ d.hot \cap ToSet(d.shared) = {}
      /\ \A i \in DOMAIN c.slabs : Stock(c.slabs[i]) \cap (d.hot \cup ToSet(d.shared)) = {}
    BY <1>3 DEF n, EdgesFit
<1>5. CacheSound(d) /\ CacheHeld(d) = (CacheHeld(c) \ (c.hot \cup ToSet(c.shared)))
                                      \cup d.hot \cup ToSet(d.shared)
    BY ONLY CacheSound(c), <1>3, <1>4, EdgeChange
<1> QED BY <1>3, <1>5 DEF d, n

\* A slab record without its first m reclaimed and its first f fresh blocks.
Drained(sl, m, f) ==
    [sl EXCEPT !.free = SubSeq(sl.free, m + 1, Len(sl.free)), !.next_fresh = sl.next_fresh + f]

\* The blocks that leave.
Drawn(sl, m, f) ==
    {sl.free[k] : k \in 1 .. m}
        \cup (sl.start + sl.next_fresh .. sl.start + sl.next_fresh + f - 1)

\* LocalSlab::pop_block_unchecked and pop_batch give m + f different blocks of the stock.
LEMMA DrainedIs ==
    ASSUME NEW sl \in LocalSlabRecord, StockSound(sl), NEW m \in 0 .. Len(sl.free),
           NEW f \in 0 .. sl.capacity - sl.next_fresh
    PROVE  /\ Drained(sl, m, f) \in LocalSlabRecord
           /\ Drained(sl, m, f).start = sl.start
           /\ Drained(sl, m, f).capacity = sl.capacity
           /\ Drained(sl, m, f).slot = sl.slot
           /\ StockSound(Drained(sl, m, f))
           /\ Stock(Drained(sl, m, f)) = Stock(sl) \ Drawn(sl, m, f)
           /\ Drawn(sl, m, f) \subseteq Stock(sl)
           /\ Cardinality(Drawn(sl, m, f)) = m + f
<1> DEFINE r == Drained(sl, m, f)
           s == SubSeq(sl.free, m + 1, Len(sl.free))
           a == sl.start + sl.next_fresh
           z == sl.start + sl.capacity
           G == {sl.free[k] : k \in 1 .. m}
           F == a .. a + f - 1
<1>1. /\ sl.free \in Seq(Nat) /\ sl.start \in Nat /\ sl.capacity \in Nat /\ sl.next_fresh \in Nat
      /\ f \in Nat /\ m \in Nat
    BY DEF LocalSlabRecord
<1>2. /\ Once(sl.free) /\ sl.next_fresh <= sl.capacity
      /\ ToSet(sl.free) \subseteq sl.start .. a - 1
    <2>1. sl.start + sl.next_fresh - 1 = a - 1
        BY <1>1
    <2> QED BY <2>1 DEF StockSound
<1>3. s \in Seq(Nat) /\ Once(s) /\ ToSet(s) = ToSet(sl.free) \ G /\ G \subseteq ToSet(sl.free)
    BY ONLY <1>1, <1>2, m \in 0 .. Len(sl.free), ListDrop
<1>4. sl.next_fresh + f \in Nat /\ r = [sl EXCEPT !.free = s, !.next_fresh = sl.next_fresh + f]
    BY <1>1 DEF Drained
<1> HIDE DEF r, s
<1>5. /\ r \in LocalSlabRecord /\ r.start = sl.start /\ r.capacity = sl.capacity
      /\ r.slot = sl.slot /\ r.free = s /\ r.next_fresh = sl.next_fresh + f
    BY ONLY <1>3, <1>4, sl \in LocalSlabRecord DEF LocalSlabRecord
<1>6. a \in Nat /\ z \in Nat /\ a + f <= z /\ a <= a + f /\ sl.start + (sl.next_fresh + f) = a + f
    BY SMTT(30), <1>1, <1>2
<1>7. Stock(sl) = ToSet(sl.free) \cup (a .. z - 1) /\ Stock(r) = ToSet(s) \cup (a + f .. z - 1)
    <2>1. Stock(r) = ToSet(s) \cup (sl.start + (sl.next_fresh + f) .. sl.start + sl.capacity - 1)
        BY ONLY <1>5 DEF Stock
    <2>2. sl.start + sl.capacity - 1 = z - 1
        BY <1>1
    <2>3. Stock(sl) = ToSet(sl.free) \cup (a .. z - 1)
        BY ONLY <2>2 DEF Stock, a
    <2> QED BY ONLY <2>1, <2>2, <2>3, <1>6
<1>8. Drawn(sl, m, f) = G \cup F
    BY DEF Drawn
<1>9. StockSound(r)
    <2>1. r.next_fresh <= r.capacity
        BY <1>1, <1>2, <1>5
    <2>2. ToSet(s) \subseteq sl.start .. a + f - 1
        <3> HIDE DEF a
        <3>1. sl.start .. a - 1 \subseteq sl.start .. a + f - 1
            BY <1>1, <1>6
        <3> QED BY ONLY <3>1, <1>2, <1>3
    <2>3. r.start + r.next_fresh - 1 = a + f - 1
        <3> DEFINE p == r.start
                   q == r.next_fresh
        <3>1. p + q = a + f
            BY ONLY <1>5, <1>6
        <3>2. p \in Nat /\ q \in Nat /\ a \in Nat
            BY <1>1, <1>4, <1>5, <1>6
        <3> HIDE DEF p, q, a
        <3>3. p + q - 1 = a + f - 1
            BY ONLY <3>1, <3>2, <1>1
        <3> QED BY <3>3 DEF p, q
    <2> QED BY <2>1, <2>2, <2>3, <1>3, <1>5 DEF StockSound
<1>10. ToSet(sl.free) \cap (a .. z - 1) = {}
    <2> HIDE DEF a, z
    <2> QED BY <1>1, <1>2, <1>6
<1>11. a .. z - 1 = F \cup (a + f .. z - 1) /\ F \cap (a + f .. z - 1) = {}
    <2> HIDE DEF a, z
    <2> QED BY <1>1, <1>6
<1> HIDE DEF a, z, G, F
<1>12. Stock(r) = Stock(sl) \ (G \cup F) /\ G \cup F \subseteq Stock(sl)
    BY ONLY <1>3, <1>7, <1>10, <1>11
<1>13. IsFiniteSet(G) /\ Cardinality(G) = m
    BY <1>1, <1>2, ListCount DEF G
<1>14. IsFiniteSet(F) /\ Cardinality(F) = f
    <2>1. a \in Int /\ a + f - 1 \in Int
        BY <1>1, <1>6
    <2> DEFINE y == a + f - 1
    <2>2. IsFiniteSet(a .. y) /\ Cardinality(a .. y) = IF a > y THEN 0 ELSE y - a + 1
        BY <2>1, FS_Interval
    <2> QED BY <2>2, <1>1, <1>6 DEF F
<1>15. G \cap F = {}
    BY ONLY <1>3, <1>10, <1>11
<1>16. Cardinality(G \cup F) = m + f
    <2>1. Cardinality(G \cup F) = Cardinality(G) + Cardinality(F) - Cardinality(G \cap F)
        BY <1>13, <1>14, FS_Union
    <2>2. Cardinality(G \cap F) = 0
        BY <1>15, FS_EmptySet
    <2> QED BY <2>1, <2>2, <1>1, <1>13, <1>14
<1> QED BY <1>5, <1>8, <1>9, <1>12, <1>16 DEF r

\* Slab i after it gave m reclaimed and f fresh blocks, with available_slabs settled.
Popped(c, i, m, f, q) ==
    Settle(WithRecord(c, i, Drained(c.slabs[i], m, f), q, c.total_len - (m + f)), i)

\* A pop from a listed slab takes the blocks from the cache and counts them.
LEMMA PoppedIs ==
    ASSUME NEW c, CacheSound(c), NEW i \in Ready(c), NEW m \in 0 .. Len(c.slabs[i].free),
           NEW f \in 0 .. c.slabs[i].capacity - c.slabs[i].next_fresh,
           NEW q \in DOMAIN c.slabs \cup {c.recent}
    PROVE  /\ CacheSound(Popped(c, i, m, f, q))
           /\ CacheHeld(Popped(c, i, m, f, q)) = CacheHeld(c) \ Drawn(c.slabs[i], m, f)
           /\ Drawn(c.slabs[i], m, f) \subseteq CacheHeld(c)
           /\ Cardinality(Drawn(c.slabs[i], m, f)) = m + f
           /\ Popped(c, i, m, f, q).total_len = c.total_len - (m + f)
           /\ SlabChanged(c, Popped(c, i, m, f, q), i)
           /\ Popped(c, i, m, f, q).slabs[i].free = Drained(c.slabs[i], m, f).free
           /\ Popped(c, i, m, f, q).slabs[i].next_fresh = Drained(c.slabs[i], m, f).next_fresh
<1> DEFINE M == Ready(c)
           sl == c.slabs[i]
           r == Drained(sl, m, f)
           B == Drawn(sl, m, f)
           t == c.total_len - (m + f)
           d == WithRecord(c, i, r, q, t)
           e == Settle(d, i)
<1>1. CacheShape(c, M) /\ CacheStock(c) /\ c \in LocalCacheRecord /\ i \in DOMAIN c.slabs
      /\ i \in M
    BY DEF CacheSound, CacheShape, Ready
<1>2. sl \in LocalSlabRecord /\ c.total_len \in Int
    BY <1>1 DEF LocalCacheRecord
<1>3. StockSound(sl) /\ m \in 0 .. Len(sl.free) /\ f \in 0 .. sl.capacity - sl.next_fresh
    BY <1>1 DEF CacheStock
<1>4. t \in Int
    <2>1. sl.free \in Seq(Nat) /\ sl.capacity \in Nat /\ sl.next_fresh \in Nat
        BY <1>2 DEF LocalSlabRecord
    <2>2. m \in Nat /\ f \in Nat
        BY <2>1
    <2> QED BY <2>2, <1>2
<1> HIDE DEF M, sl
<1>5. /\ r \in LocalSlabRecord /\ r.start = sl.start /\ r.capacity = sl.capacity
      /\ r.slot = sl.slot /\ StockSound(r) /\ Stock(r) = Stock(sl) \ B
      /\ B \subseteq Stock(sl) /\ Cardinality(B) = m + f
    BY ONLY <1>2, <1>3, DrainedIs
<1> HIDE DEF r, B, t
<1>6. /\ CacheShape(d, M) /\ OneSlab(c, d, i) /\ d.slabs[i] = r /\ d.total_len = t
      /\ d \in LocalCacheRecord
    <2>1. r.start = c.slabs[i].start /\ r.capacity = c.slabs[i].capacity /\ r.slot = c.slabs[i].slot
        BY <1>5 DEF sl
    <2>2. CacheShape(c, M) /\ i \in DOMAIN c.slabs /\ r \in LocalSlabRecord /\ t \in Int
        BY <1>1, <1>4, <1>5
    <2>3. q \in DOMAIN c.slabs \cup {c.recent}
        OBVIOUS
    <2>4. /\ CacheShape(WithRecord(c, i, r, q, t), M)
          /\ OneSlab(c, WithRecord(c, i, r, q, t), i)
          /\ WithRecord(c, i, r, q, t).slabs[i] = r
          /\ WithRecord(c, i, r, q, t).total_len = t
          /\ WithRecord(c, i, r, q, t) \in LocalCacheRecord
        BY ONLY <2>1, <2>2, <2>3, SlabWritten
    <2> QED BY <2>4
<1> HIDE DEF d
<1>7. CacheStock(d) /\ CacheHeld(d) = CacheHeld(c) \ B /\ B \subseteq CacheHeld(c)
    <2>1. StockSound(d.slabs[i]) /\ Stock(d.slabs[i]) = Stock(c.slabs[i]) \ B
          /\ B \in SUBSET Stock(c.slabs[i])
        BY <1>5, <1>6 DEF sl
    <2>2. CacheShape(c, M) /\ CacheStock(c) /\ i \in DOMAIN c.slabs /\ OneSlab(c, d, i)
        BY <1>1, <1>6
    <2> QED BY ONLY <2>1, <2>2, SlabGives
<1>8. \A j \in DOMAIN d.slabs : j # i => (j \in M <=> HasAvailable(d.slabs[j]))
    BY <1>6 DEF OneSlab, M, Ready
<1>9. CacheShape(e, Ready(e)) /\ SlotsOnly(d, e)
    BY ONLY <1>1, <1>6, <1>8, SettleIs
<1> HIDE DEF e
<1>10. CacheHeld(e) = CacheHeld(d) /\ CacheStock(e)
    BY <1>7, <1>9, SlotsOnlyKeeps
<1>11. e.total_len = t
    BY <1>6, <1>9 DEF SlotsOnly
<1>12. Popped(c, i, m, f, q) = e
    BY DEF Popped, e, d, t, r, sl
<1>13. SlabChanged(c, e, i) /\ e.slabs[i].next_fresh = r.next_fresh /\ e.slabs[i].free = r.free
    <2>1. d.slabs[i].start = c.slabs[i].start /\ d.slabs[i].capacity = c.slabs[i].capacity
        BY <1>5, <1>6 DEF sl
    <2>2. OneSlab(c, d, i) /\ SlotsOnly(d, e) /\ i \in DOMAIN c.slabs /\ d.slabs[i] = r
        BY <1>1, <1>6, <1>9
    <2>3. /\ SlabChanged(c, e, i)
          /\ e.slabs[i].next_fresh = d.slabs[i].next_fresh /\ e.slabs[i].free = d.slabs[i].free
        BY ONLY <2>1, <2>2 DEF OneSlab, SlotsOnly, SlabChanged
    <2> QED BY ONLY <2>2, <2>3
<1>14. SlabChanged(c, e, i) /\ e.slabs[i].next_fresh = Drained(c.slabs[i], m, f).next_fresh
       /\ e.slabs[i].free = Drained(c.slabs[i], m, f).free
    BY <1>13 DEF r, sl
<1>15. CacheSound(e) /\ CacheHeld(e) = CacheHeld(c) \ Drawn(c.slabs[i], m, f)
       /\ Drawn(c.slabs[i], m, f) \subseteq CacheHeld(c)
       /\ Cardinality(Drawn(c.slabs[i], m, f)) = m + f /\ e.total_len = c.total_len - (m + f)
    BY <1>5, <1>7, <1>9, <1>10, <1>11 DEF CacheSound, B, t, sl
<1> QED BY ONLY <1>12, <1>14, <1>15

\* Blocks that come in, counted by total_len.
LEMMA InvIn ==
    ASSUME CacheInv, NEW B \in SUBSET out, CacheSound(cc'), CacheHeld(cc') = CacheHeld(cc) \cup B,
           cc'.total_len = cc.total_len + Cardinality(B), out' = out \ B
    PROVE  CacheInv'
<1>1. CacheHeld(cc) \subseteq Addresses
    BY HeldApart DEF CacheInv, CacheSound
<1>2. B \in SUBSET Addresses /\ CacheHeld(cc) \cap B = {}
    BY DEF CacheInv
<1>3. cc'.total_len = Cardinality(CacheHeld(cc'))
    BY <1>1, <1>2, CountIn DEF CacheInv
<1>4. out' = Addresses \ CacheHeld(cc')
    BY DEF CacheInv
<1> QED BY <1>3, <1>4 DEF CacheInv, Addresses

\* Blocks that go out, counted by total_len.
LEMMA InvOut ==
    ASSUME CacheInv, NEW B \in SUBSET CacheHeld(cc), CacheSound(cc'),
           CacheHeld(cc') = CacheHeld(cc) \ B,
           cc'.total_len = cc.total_len - Cardinality(B), out' = out \cup B
    PROVE  CacheInv'
<1>1. CacheHeld(cc) \subseteq Addresses
    BY HeldApart DEF CacheInv, CacheSound
<1>3. cc'.total_len = Cardinality(CacheHeld(cc'))
    BY <1>1, CountOut DEF CacheInv
<1>4. out' = Addresses \ CacheHeld(cc')
    BY <1>1 DEF CacheInv
<1> QED BY <1>3, <1>4 DEF CacheInv, Addresses

\* What the invariant says of the hot slot, the shared list and the listed slabs.
LEMMA InvFacts ==
    ASSUME CacheInv
    PROVE  /\ CacheSound(cc) /\ cc \in LocalCacheRecord /\ cc.total_len \in Int
           /\ cc.hot = {} \/ \E b \in Addresses : cc.hot = {b}
           /\ cc.shared \in Seq(Nat) /\ Once(cc.shared) /\ cc.shared_len = Len(cc.shared)
           /\ ToSet(cc.shared) \subseteq Addresses /\ cc.hot \cap ToSet(cc.shared) = {}
           /\ \A i \in DOMAIN cc.slabs : Stock(cc.slabs[i]) \cap (cc.hot \cup ToSet(cc.shared)) = {}
           /\ cc.hot \cup ToSet(cc.shared) \subseteq CacheHeld(cc)
           /\ cc.avail # <<>> => Last(cc.avail) \in Ready(cc)
           /\ cc.avail = <<>> => Ready(cc) = {}
<1>1. CacheShape(cc, Ready(cc)) /\ CacheStock(cc) /\ cc \in LocalCacheRecord
    BY DEF CacheInv, CacheSound, CacheShape
<1>2. cc.avail \in Seq(Nat) /\ Listed(cc.slabs, cc.avail, Ready(cc))
      /\ cc.shared \in Seq(Nat) /\ cc.total_len \in Int
    BY <1>1 DEF CacheShape, LocalCacheRecord
<1>3. cc.avail # <<>> => Last(cc.avail) \in Ready(cc)
    <2>1. cc.avail # <<>> => Len(cc.avail) \in DOMAIN cc.avail
        BY <1>2
    <2> QED BY <2>1, <1>2 DEF Listed, Last
<1>4. cc.avail = <<>> => Ready(cc) = {}
    <2>1. cc.avail = <<>> => DOMAIN cc.avail = {}
        OBVIOUS
    <2> QED BY <2>1, <1>2 DEF Listed
<1>5. cc.hot \cup ToSet(cc.shared) \subseteq CacheHeld(cc)
    BY DEF CacheHeld
<1> QED BY <1>1, <1>2, <1>3, <1>4, <1>5 DEF CacheInv, CacheStock, Addresses

\* pop_block_unchecked with a hot block, and pop_batch of the hot block alone.
LEMMA HotLeaves ==
    ASSUME CacheInv, cc.hot # {}, cc' = [cc EXCEPT !.hot = {}, !.total_len = @ - 1],
           out' = out \cup cc.hot
    PROVE  CacheInv'
<1> DEFINE h == {}
           s == cc.shared
           t == cc.total_len - 1
<1>1. /\ CacheSound(cc) /\ cc \in LocalCacheRecord /\ t \in Int /\ s \in Seq(Nat) /\ Once(s)
      /\ cc.shared_len = Len(s)
      /\ ToSet(s) \subseteq Addresses /\ h \cap ToSet(s) = {}
      /\ \A i \in DOMAIN cc.slabs : Stock(cc.slabs[i]) \cap (h \cup ToSet(s)) = {}
      /\ cc.hot \cap ToSet(s) = {} /\ cc.hot \cup ToSet(s) \subseteq CacheHeld(cc)
    BY InvFacts
<1>2. cc' = WithEdges(cc, h, s, Len(s), t)
    BY <1>1 DEF WithEdges, LocalCacheRecord
<1>3. h = {} \/ \E b \in Addresses : h = {b}
    OBVIOUS
<1> HIDE DEF h, s, t
<1>4. /\ CacheSound(cc') /\ cc'.total_len = t
      /\ CacheHeld(cc') = (CacheHeld(cc) \ (cc.hot \cup ToSet(cc.shared))) \cup h \cup ToSet(s)
    <2>1. CacheSound(cc) /\ s \in Seq(Nat) /\ t \in Int /\ Once(s) /\ ToSet(s) \subseteq Addresses
          /\ h \cap ToSet(s) = {}
        BY <1>1
    <2>2. \A i \in DOMAIN cc.slabs : Stock(cc.slabs[i]) \cap (h \cup ToSet(s)) = {}
        BY <1>1
    <2>3. EdgesFit(cc, h, s)
        BY ONLY <2>1, <2>2, <1>3 DEF EdgesFit
    <2> QED BY ONLY <2>1, <2>3, <1>2, EdgesWritten
<1>5. CacheHeld(cc') = CacheHeld(cc) \ cc.hot
    BY <1>1, <1>4 DEF h, s
<1>6. Cardinality(cc.hot) = 1
    BY InvFacts, FS_Singleton
<1>7. cc'.total_len = cc.total_len - Cardinality(cc.hot) /\ cc.hot \in SUBSET CacheHeld(cc)
    BY <1>1, <1>4, <1>6 DEF t
<1> QED BY ONLY CacheInv, out' = out \cup cc.hot, <1>4, <1>5, <1>7, InvOut

\* The first n nodes leave the shared list: pop_block_unchecked (n = 1) and pop_batch.
LEMMA SharedLeave ==
    ASSUME CacheInv, NEW n \in 0 .. Len(cc.shared),
           cc' = WithEdges(cc, cc.hot, SubSeq(cc.shared, n + 1, Len(cc.shared)),
                           cc.shared_len - n, cc.total_len - n),
           out' = out \cup {cc.shared[k] : k \in 1 .. n}
    PROVE  CacheInv'
<1> DEFINE h == cc.hot
           s == SubSeq(cc.shared, n + 1, Len(cc.shared))
           t == cc.total_len - n
           B == {cc.shared[k] : k \in 1 .. n}
<1>1. /\ CacheSound(cc) /\ cc.shared \in Seq(Nat) /\ Once(cc.shared) /\ cc.total_len \in Int
      /\ cc.shared_len = Len(cc.shared) /\ (h = {} \/ \E b \in Addresses : h = {b})
      /\ ToSet(cc.shared) \subseteq Addresses /\ h \cap ToSet(cc.shared) = {}
      /\ \A i \in DOMAIN cc.slabs : Stock(cc.slabs[i]) \cap (h \cup ToSet(cc.shared)) = {}
      /\ cc.hot \cup ToSet(cc.shared) \subseteq CacheHeld(cc)
    BY InvFacts
<1>2. /\ s \in Seq(Nat) /\ Len(s) = Len(cc.shared) - n /\ Once(s)
      /\ ToSet(s) = ToSet(cc.shared) \ B /\ B \subseteq ToSet(cc.shared)
    BY ONLY ZenonT(40), <1>1, n \in 0 .. Len(cc.shared), ListDrop
<1>3. t \in Int /\ cc' = WithEdges(cc, h, s, Len(s), t) /\ n \in Nat
    BY <1>1, <1>2
<1>4. Cardinality(B) = n
    BY <1>1, ListCount
<1> HIDE DEF s, t, h, B
<1>5. /\ CacheSound(cc') /\ cc'.total_len = t
      /\ CacheHeld(cc') = (CacheHeld(cc) \ (cc.hot \cup ToSet(cc.shared))) \cup h \cup ToSet(s)
    <2>1. /\ ToSet(s) \subseteq Addresses /\ h \cap ToSet(s) = {}
          /\ \A i \in DOMAIN cc.slabs : Stock(cc.slabs[i]) \cap (h \cup ToSet(s)) = {}
        BY ONLY <1>1, <1>2
    <2>2. CacheSound(cc) /\ s \in Seq(Nat) /\ t \in Int /\ Once(s)
        BY <1>1, <1>2, <1>3
    <2>3. h = {} \/ \E b \in Addresses : h = {b}
        BY <1>1
    <2>4. EdgesFit(cc, h, s)
        BY ONLY <2>1, <2>2, <2>3 DEF EdgesFit
    <2> QED BY ONLY <2>2, <2>4, <1>3, EdgesWritten
<1>6. CacheHeld(cc') = CacheHeld(cc) \ B
    BY ONLY <1>1, <1>2, <1>5 DEF h
<1>7. cc'.total_len = cc.total_len - Cardinality(B) /\ B \in SUBSET CacheHeld(cc)
    BY <1>1, <1>2, <1>4, <1>5 DEF t
<1>8. out' = out \cup B
    BY DEF B
<1> QED BY ONLY CacheInv, <1>5, <1>6, <1>7, <1>8, InvOut

\* pop_block_unchecked of the shared list: it is not empty, on the strength of total_len.
LEMMA PopSharedIs ==
    ASSUME CacheInv, PopShared
    PROVE  /\ cc.shared # <<>>
           /\ cc' = WithEdges(cc, cc.hot, SubSeq(cc.shared, 1 + 1, Len(cc.shared)),
                              cc.shared_len - 1, cc.total_len - 1)
           /\ out' = out \cup {cc.shared[k] : k \in 1 .. 1}
<1>1. cc.total_len = Cardinality(CacheHeld(cc)) /\ cc.total_len # 0
    BY DEF CacheInv, PopShared
<1>2. CacheHeld(cc) # {}
    BY <1>1, FS_EmptySet
<1>3. Ready(cc) = {} /\ cc.hot = {}
    BY InvFacts DEF PopShared
<1>4. ASSUME NEW i \in DOMAIN cc.slabs PROVE Stock(cc.slabs[i]) = {}
    <2> DEFINE sl == cc.slabs[i]
    <2>1. ~HasAvailable(sl)
        BY <1>3 DEF Ready
    <2>2. sl \in LocalSlabRecord
        BY InvFacts DEF LocalCacheRecord
    <2> HIDE DEF sl
    <2>3. sl.start \in Nat /\ sl.capacity \in Nat /\ sl.next_fresh \in Nat
        BY <2>2 DEF LocalSlabRecord
    <2>4. sl.free = <<>> /\ ~(sl.next_fresh < sl.capacity)
        BY <2>1 DEF HasAvailable
    <2>5. ToSet(sl.free) = {} /\ sl.start + sl.next_fresh .. sl.start + sl.capacity - 1 = {}
        BY <2>3, <2>4 DEF ToSet
    <2>6. Stock(sl) = {}
        BY <2>5 DEF Stock
    <2> QED BY <2>6 DEF sl
<1>5. ToSet(cc.shared) # {} /\ cc.shared \in Seq(Nat) /\ cc \in LocalCacheRecord
    <2>1. ToSet(cc.shared) # {}
        BY <1>2, <1>3, <1>4 DEF CacheHeld
    <2> QED BY <2>1, InvFacts
<1>6. cc.shared # <<>>
    BY <1>5 DEF ToSet
<1>7. 1 \in 0 .. Len(cc.shared) /\ Tail(cc.shared) = SubSeq(cc.shared, 1 + 1, Len(cc.shared))
      /\ {Head(cc.shared)} = {cc.shared[k] : k \in 1 .. 1}
    BY <1>5, <1>6
<1>8. cc' = WithEdges(cc, cc.hot, SubSeq(cc.shared, 1 + 1, Len(cc.shared)),
                      cc.shared_len - 1, cc.total_len - 1)
    BY <1>5, <1>7 DEF PopShared, WithEdges, LocalCacheRecord
<1>9. out' = out \cup {cc.shared[k] : k \in 1 .. 1}
    BY <1>7 DEF PopShared
<1> QED BY <1>6, <1>8, <1>9

\* pop_block_unchecked of the shared list keeps the invariant.
LEMMA PopSharedKeeps == ASSUME CacheInv, PopShared PROVE CacheInv'
<1> DEFINE n == 1
<1>1. n \in 0 .. Len(cc.shared)
    BY InvFacts, PopSharedIs
<1>10. /\ n \in 0 .. Len(cc.shared) /\ out' = out \cup {cc.shared[k] : k \in 1 .. n}
       /\ cc' = WithEdges(cc, cc.hot, SubSeq(cc.shared, n + 1, Len(cc.shared)),
                          cc.shared_len - n, cc.total_len - n)
    BY <1>1, PopSharedIs
<1> HIDE DEF n
<1> QED BY ONLY CacheInv, <1>10, SharedLeave

\* pop_batch from the shared list.
LEMMA BatchSharedKeeps ==
    ASSUME CacheInv, NEW max \in Nat, BatchShared(max) PROVE CacheInv'
<1> DEFINE n == Smaller(max, Len(cc.shared))
<1>1. cc.shared \in Seq(Nat) /\ cc \in LocalCacheRecord
    BY InvFacts
<1>2. n \in 0 .. Len(cc.shared)
    BY <1>1 DEF Smaller
<1>3. /\ out' = out \cup {cc.shared[k] : k \in 1 .. n}
      /\ cc' = WithEdges(cc, cc.hot, SubSeq(cc.shared, n + 1, Len(cc.shared)),
                         cc.shared_len - n, cc.total_len - n)
    BY <1>1 DEF BatchShared, WithEdges, LocalCacheRecord
<1> HIDE DEF n
<1> QED BY ONLY CacheInv, <1>2, <1>3, SharedLeave

\* push_shared_batch of blocks that are outside, each once.
LEMMA PushSharedBatchKeeps ==
    ASSUME CacheInv, NEW B \in SUBSET out, NEW list \in Seq(Nat), ToSet(list) = B, Once(list),
           PushSharedBatch(list)
    PROVE  CacheInv'
<1> DEFINE h == cc.hot
           s == list \o cc.shared
           n == Len(list)
           t == cc.total_len + n
<1>1. /\ CacheSound(cc) /\ cc.shared \in Seq(Nat) /\ Once(cc.shared) /\ cc.total_len \in Int
      /\ cc.shared_len = Len(cc.shared) /\ (h = {} \/ \E b \in Addresses : h = {b})
      /\ ToSet(cc.shared) \subseteq Addresses /\ h \cap ToSet(cc.shared) = {}
      /\ \A i \in DOMAIN cc.slabs : Stock(cc.slabs[i]) \cap (h \cup ToSet(cc.shared)) = {}
      /\ cc.hot \cup ToSet(cc.shared) \subseteq CacheHeld(cc) /\ cc \in LocalCacheRecord
    BY InvFacts
<1>2. B \subseteq Addresses /\ B \cap CacheHeld(cc) = {}
    BY DEF CacheInv
<1>3. /\ s \in Seq(Nat) /\ Len(s) = n + Len(cc.shared) /\ Once(s)
      /\ ToSet(s) = B \cup ToSet(cc.shared)
    <2>1. ToSet(list) \cap ToSet(cc.shared) = {}
        BY <1>1, <1>2
    <2>2. s \in Seq(Nat) /\ Len(s) = Len(list) + Len(cc.shared) /\ Once(s)
          /\ ToSet(s) = ToSet(list) \cup ToSet(cc.shared)
        BY ONLY ZenonT(40), <2>1, <1>1, list \in Seq(Nat), Once(list), ListJoin
    <2> QED BY <2>2
<1>4. n \in Nat /\ t \in Int /\ Len(s) = cc.shared_len + n
    <2>1. n \in Nat /\ Len(cc.shared) \in Nat
        BY <1>1
    <2> HIDE DEF s
    <2> QED BY <2>1, <1>1, <1>3
<1>5. Cardinality(B) = n
    <2>1. ToSet(list) = {list[k] : k \in 1 .. n}
        BY DEF ToSet
    <2>2. n \in 0 .. Len(list)
        OBVIOUS
    <2> QED BY <2>1, <2>2, ListCount
<1>6. cc' = WithEdges(cc, h, s, Len(s), t)
    <2> HIDE DEF s, n
    <2>1. cc' = [cc EXCEPT !.shared = s, !.shared_len = @ + n, !.total_len = @ + n]
        BY DEF PushSharedBatch, s, n
    <2> QED BY <2>1, <1>1, <1>4 DEF WithEdges, LocalCacheRecord
<1>7. ASSUME NEW i \in DOMAIN cc.slabs PROVE Stock(cc.slabs[i]) \cap B = {}
    BY <1>2 DEF CacheHeld
<1> HIDE DEF s, t, h, n
<1>8. /\ CacheSound(cc') /\ cc'.total_len = t
      /\ CacheHeld(cc') = (CacheHeld(cc) \ (cc.hot \cup ToSet(cc.shared))) \cup h \cup ToSet(s)
    <2>1. ToSet(s) \subseteq Addresses
        BY <1>1, <1>2, <1>3
    <2>2. h \cap ToSet(s) = {}
        BY <1>1, <1>2, <1>3 DEF h
    <2>3. \A i \in DOMAIN cc.slabs : Stock(cc.slabs[i]) \cap (h \cup ToSet(s)) = {}
        BY <1>1, <1>3, <1>7
    <2>4. s \in Seq(Nat) /\ Once(s) /\ t \in Int /\ CacheSound(cc)
        BY <1>1, <1>3, <1>4
    <2>5. h = {} \/ \E b \in Addresses : h = {b}
        BY <1>1
    <2>6. EdgesFit(cc, h, s)
        BY ONLY <2>1, <2>2, <2>3, <2>4, <2>5 DEF EdgesFit
    <2> QED BY ONLY <2>4, <2>6, <1>6, EdgesWritten
<1>9. CacheHeld(cc') = CacheHeld(cc) \cup B
    BY ONLY <1>1, <1>3, <1>8 DEF h
<1>10. cc'.total_len = cc.total_len + Cardinality(B)
    BY <1>5, <1>8 DEF t
<1>11. out' = out \ B
    BY DEF PushSharedBatch
<1> QED BY ONLY CacheInv, B \in SUBSET out, <1>8, <1>9, <1>10, <1>11, InvIn

\* The cache with block b in the hot slot.
WithHot(c, b) == [c EXCEPT !.hot = {b}, !.total_len = @ + 1]

\* A block from outside takes the hot slot.
LEMMA WithHotIs ==
    ASSUME CacheInv, NEW b \in out
    PROVE  /\ CacheSound(WithHot(cc, b)) /\ WithHot(cc, b).total_len = cc.total_len + 1
           /\ CacheHeld(WithHot(cc, b)) = (CacheHeld(cc) \ cc.hot) \cup {b}
           /\ b \notin cc.hot
<1> DEFINE h == {b}
           s == cc.shared
           t == cc.total_len + 1
           d == WithEdges(cc, h, s, Len(s), t)
<1>1. /\ CacheSound(cc) /\ cc \in LocalCacheRecord /\ cc.total_len \in Int /\ s \in Seq(Nat)
      /\ Once(s) /\ cc.shared_len = Len(s) /\ ToSet(s) \subseteq Addresses
      /\ \A i \in DOMAIN cc.slabs : Stock(cc.slabs[i]) \cap (cc.hot \cup ToSet(s)) = {}
      /\ cc.hot \cap ToSet(s) = {} /\ cc.hot \cup ToSet(s) \subseteq CacheHeld(cc)
      /\ (cc.hot = {} \/ \E x \in Addresses : cc.hot = {x})
    BY InvFacts
<1>2. b \in Addresses /\ b \notin CacheHeld(cc)
    BY DEF CacheInv
<1>3. \A i \in DOMAIN cc.slabs : b \notin Stock(cc.slabs[i])
    BY <1>2 DEF CacheHeld
<1>4. b \notin ToSet(s) /\ b \notin cc.hot
    BY <1>1, <1>2
<1>5. [cc EXCEPT !.hot = {b}, !.total_len = @ + 1] = d
    BY <1>1 DEF WithEdges, LocalCacheRecord
<1>6. EdgesFit(cc, h, s)
    <2>1. h = {} \/ \E x \in Addresses : h = {x}
        BY <1>2
    <2>2. h \cap ToSet(s) = {}
        BY <1>4
    <2>3. \A i \in DOMAIN cc.slabs : Stock(cc.slabs[i]) \cap (h \cup ToSet(s)) = {}
        BY <1>1, <1>3
    <2> HIDE DEF h, s
    <2> QED BY ONLY <2>1, <2>2, <2>3, <1>1 DEF EdgesFit
<1>7. t \in Int
    BY <1>1
<1> HIDE DEF h, s, t
<1>8. /\ CacheSound(d) /\ d.total_len = t
      /\ CacheHeld(d) = (CacheHeld(cc) \ (cc.hot \cup ToSet(cc.shared))) \cup h \cup ToSet(s)
    BY ONLY <1>1, <1>6, <1>7, EdgesWritten
<1>9. CacheHeld(d) = (CacheHeld(cc) \ cc.hot) \cup {b}
    BY ONLY <1>1, <1>8 DEF h, s
<1> HIDE DEF d
<1> QED BY <1>4, <1>5, <1>8, <1>9 DEF t, WithHot

\* push_block: the freed block takes the hot slot, the one before it is spilled.
LEMMA PushBlockIs ==
    ASSUME CacheInv, NEW b \in out, PushBlock(b)
    PROVE  /\ CacheInv'
           /\ cc.hot = {} => cc' = WithHot(cc, b)
           /\ \A x : cc.hot = {x} => Spilled(WithHot(cc, b), cc', x)
           /\ cc'.total_len = cc.total_len + 1
<1> DEFINE t == cc.total_len + 1
           d == WithHot(cc, b)
<1>1. cc.hot \subseteq CacheHeld(cc) /\ (cc.hot = {} \/ \E x \in Addresses : cc.hot = {x})
    BY InvFacts
<1>4. b \notin cc.hot
    BY WithHotIs
<1>5. [cc EXCEPT !.hot = {b}, !.total_len = @ + 1] = d
    BY DEF WithHot
<1>8. CacheSound(d) /\ d.total_len = t
    BY WithHotIs
<1>9. CacheHeld(d) = (CacheHeld(cc) \ cc.hot) \cup {b}
    BY WithHotIs
<1> HIDE DEF d, t
<1>10. /\ CacheSound(cc') /\ CacheHeld(cc') = CacheHeld(cc) \cup {b}
       /\ cc'.total_len = t
       /\ cc.hot = {} => cc' = d
       /\ \A x : cc.hot = {x} => Spilled(d, cc', x)
    <2>1. CASE cc.hot = {}
        <3>1. cc' = d
            BY <2>1, <1>5 DEF PushBlock
        <3> QED BY <3>1, <2>1, <1>8, <1>9
    <2>2. CASE cc.hot # {}
        <3> DEFINE x == CHOOSE y \in cc.hot : TRUE
        <3>1. cc.hot = {x} /\ x \in Addresses
            BY <2>2, <1>1
        <3>2. cc' = PushSpilled(d, x)
            BY <2>2, <1>5 DEF PushBlock
        <3> HIDE DEF x
        <3>3. x \in Addresses \ CacheHeld(d)
            BY <3>1, <1>4, <1>9
        <3>4. /\ CacheSound(cc') /\ CacheHeld(cc') = CacheHeld(d) \cup {x}
              /\ cc'.total_len = d.total_len /\ Spilled(d, cc', x)
            BY ONLY <3>2, <3>3, <1>8, PushSpilledIs
        <3>5. CacheHeld(cc') = CacheHeld(cc) \cup {b}
            BY ONLY <3>1, <3>4, <1>1, <1>9
        <3>6. \A y : cc.hot = {y} => y = x
            BY <3>1
        <3> QED BY <3>4, <3>5, <3>6, <2>2, <1>8
    <2> QED BY <2>1, <2>2
<1> DEFINE B == {b}
<1>11. Cardinality(B) = 1
    BY FS_Singleton
<1>12. /\ B \in SUBSET out /\ out' = out \ B /\ CacheHeld(cc') = CacheHeld(cc) \cup B
       /\ cc'.total_len = cc.total_len + Cardinality(B)
    BY <1>10, <1>11 DEF PushBlock, t
<1> HIDE DEF B
<1>13. CacheInv'
    BY ONLY CacheInv, <1>10, <1>12, InvIn
<1> QED BY <1>10, <1>13 DEF d, t

\* push_block keeps the invariant.
LEMMA PushBlockKeeps == ASSUME CacheInv, NEW b \in out, PushBlock(b) PROVE CacheInv'
    BY PushBlockIs

\* A pop from the last slab of available_slabs.
LEMMA SlabLeaves ==
    ASSUME CacheInv, cc.avail # <<>>, NEW i, i = Last(cc.avail),
           NEW m \in 0 .. Len(cc.slabs[i].free),
           NEW f \in 0 .. cc.slabs[i].capacity - cc.slabs[i].next_fresh,
           NEW q \in DOMAIN cc.slabs \cup {cc.recent},
           cc' = Popped(cc, i, m, f, q), out' = out \cup Drawn(cc.slabs[i], m, f)
    PROVE  CacheInv'
<1> DEFINE B == Drawn(cc.slabs[i], m, f)
           k == m + f
<1>1. CacheSound(cc) /\ i \in Ready(cc)
    BY InvFacts
<1>2. /\ CacheSound(cc') /\ CacheHeld(cc') = CacheHeld(cc) \ B /\ B \subseteq CacheHeld(cc)
      /\ Cardinality(B) = k /\ cc'.total_len = cc.total_len - k
    BY <1>1, PoppedIs
<1>3. out' = out \cup B
    OBVIOUS
<1> HIDE DEF B, k
<1>4. B \in SUBSET CacheHeld(cc) /\ cc'.total_len = cc.total_len - Cardinality(B)
    BY <1>2
<1> QED BY ONLY CacheInv, <1>2, <1>3, <1>4, InvOut

\* What is known of the slab that a pop takes.
LEMMA LastSlab ==
    ASSUME CacheInv, cc.avail # <<>>, NEW i, i = Last(cc.avail), NEW sl, sl = cc.slabs[i]
    PROVE  /\ i \in DOMAIN cc.slabs /\ cc.slabs \in Seq(LocalSlabRecord)
           /\ sl \in LocalSlabRecord /\ HasAvailable(sl)
           /\ sl.free \in Seq(Nat) /\ sl.start \in Nat /\ sl.capacity \in Nat
           /\ sl.next_fresh \in Nat /\ sl.next_fresh <= sl.capacity
<1>1. i \in Ready(cc) /\ cc \in LocalCacheRecord /\ CacheSound(cc)
    BY InvFacts
<1>2. i \in DOMAIN cc.slabs /\ HasAvailable(sl) /\ cc.slabs \in Seq(LocalSlabRecord)
    BY <1>1 DEF Ready, LocalCacheRecord
<1>3. StockSound(sl) /\ sl \in LocalSlabRecord
    BY <1>1, <1>2 DEF CacheSound, CacheStock
<1> QED BY <1>2, <1>3 DEF StockSound, LocalSlabRecord

\* The two writes that empty a slab, on the cache and on the record.
TwoWrites(c, i, x, y) == [c EXCEPT !.slabs[i].free = x, !.slabs[i].next_fresh = y]

OneWrite(c, i, r) == [c EXCEPT !.slabs = [c.slabs EXCEPT ![i] = r]]

Contents(sl, x, y) == [sl EXCEPT !.free = x, !.next_fresh = y]

\* Two fields of a slab record written one after the other.
LEMMA TwoFields ==
    ASSUME NEW c \in LocalCacheRecord, NEW i \in DOMAIN c.slabs, NEW x, NEW y
    PROVE  TwoWrites(c, i, x, y) = OneWrite(c, i, Contents(c.slabs[i], x, y))
<1> DEFINE r1 == [c.slabs[i] EXCEPT !.free = x]
           w1 == [c.slabs EXCEPT ![i] = r1]
           c1 == [c EXCEPT !.slabs = w1]
           r2 == [r1 EXCEPT !.next_fresh = y]
           w2 == [c.slabs EXCEPT ![i] = r2]
<1>1. c1.slabs = w1
    BY DEF LocalCacheRecord
<1>2. w1[i] = r1
    OBVIOUS
<1> HIDE DEF r1, r2
<1>3. [w1 EXCEPT ![i] = r2] = w2
    OBVIOUS
<1> HIDE DEF w1, w2
<1>4. [c1 EXCEPT !.slabs = w2] = [c EXCEPT !.slabs = w2]
    BY DEF LocalCacheRecord
<1> HIDE DEF c1
<1>5. [c1 EXCEPT !.slabs = [c1.slabs EXCEPT ![i] = [c1.slabs[i] EXCEPT !.next_fresh = y]]]
         = [c1 EXCEPT !.slabs = w2]
    BY ONLY <1>1, <1>2, <1>3 DEF r2
<1>6. [c EXCEPT !.slabs[i].free = x, !.slabs[i].next_fresh = y]
         = [c1 EXCEPT !.slabs = [c1.slabs EXCEPT ![i] = [c1.slabs[i] EXCEPT !.next_fresh = y]]]
    BY DEF c1, w1, r1
<1> QED BY ONLY <1>4, <1>5, <1>6 DEF w2, r2, r1, TwoWrites, OneWrite, Contents

\* What a pop of m reclaimed and f fresh blocks from the last available slab does.
SlabPopped(m, f, q) ==
    /\ m \in 0 .. Len(cc.slabs[Last(cc.avail)].free)
    /\ f \in 0 .. cc.slabs[Last(cc.avail)].capacity - cc.slabs[Last(cc.avail)].next_fresh
    /\ q \in DOMAIN cc.slabs \cup {cc.recent}
    /\ cc' = Popped(cc, Last(cc.avail), m, f, q)
    /\ out' = out \cup Drawn(cc.slabs[Last(cc.avail)], m, f)

\* pop_block_unchecked of a slab: a reclaimed block, or else the next fresh one.
LEMMA PopSlabIs ==
    ASSUME CacheInv, PopSlab
    PROVE  /\ cc.slabs[Last(cc.avail)].free = <<>> => SlabPopped(0, 1, Last(cc.avail))
           /\ cc.slabs[Last(cc.avail)].free # <<>> => SlabPopped(1, 0, Last(cc.avail))
<1> DEFINE i == Last(cc.avail)
           sl == cc.slabs[i]
<1>1. cc.avail # <<>> /\ cc \in LocalCacheRecord
    BY InvFacts DEF PopSlab
<1>2. /\ i \in DOMAIN cc.slabs /\ cc.slabs \in Seq(LocalSlabRecord)
      /\ sl \in LocalSlabRecord /\ HasAvailable(sl)
      /\ sl.free \in Seq(Nat) /\ sl.start \in Nat /\ sl.capacity \in Nat
      /\ sl.next_fresh \in Nat /\ sl.next_fresh <= sl.capacity
    BY <1>1, LastSlab
<1>3. CASE sl.free = <<>>
    <2> DEFINE m == 0
               f == 1
    <2>1. cc' = Settle([cc EXCEPT !.slabs[i].free = @, !.slabs[i].next_fresh = @ + 1,
                                  !.recent = i, !.total_len = @ - 1], i)
          /\ out' = out \cup {sl.start + sl.next_fresh}
        BY <1>3 DEF PopSlab
    <2>2. SubSeq(sl.free, m + 1, Len(sl.free)) = sl.free
        BY <1>3
    <2>3. [cc EXCEPT !.slabs[i].free = @, !.slabs[i].next_fresh = @ + 1,
                     !.recent = i, !.total_len = @ - 1]
             = WithRecord(cc, i, Drained(sl, m, f), i, cc.total_len - (m + f))
        <3> DEFINE x == sl.free
                   y == sl.next_fresh + 1
        <3>1. Drained(sl, m, f) = Contents(sl, x, y)
            BY <2>2 DEF Drained, Contents
        <3>2. TwoWrites(cc, i, x, y) = OneWrite(cc, i, Contents(sl, x, y))
            <4> HIDE DEF i, x, y
            <4> QED BY <1>1, <1>2, TwoFields DEF sl
        <3>3. cc.total_len - (m + f) = cc.total_len - 1
            OBVIOUS
        <3> HIDE DEF m, f
        <3> QED BY ONLY <3>1, <3>2, <3>3, <1>1 DEF WithRecord, x, y, LocalCacheRecord, TwoWrites, OneWrite
    <2>4. m \in 0 .. Len(sl.free) /\ f \in 0 .. sl.capacity - sl.next_fresh
        BY <1>2, <1>3 DEF HasAvailable
    <2>5. Drawn(sl, m, f) = {sl.start + sl.next_fresh}
        BY <1>2 DEF Drawn
    <2>6. cc' = Popped(cc, i, m, f, i) /\ out' = out \cup Drawn(sl, m, f)
        BY <2>1, <2>3, <2>5 DEF Popped
    <2>7. SlabPopped(m, f, i)
        <3> HIDE DEF m, f
        <3> QED BY <2>4, <2>6, <1>2 DEF SlabPopped
    <2> QED BY <2>7, <1>3
<1>4. CASE sl.free # <<>>
    <2> DEFINE m == 1
               f == 0
    <2>1. cc' = Settle([cc EXCEPT !.slabs[i].free = Tail(@), !.slabs[i].next_fresh = @,
                                  !.recent = i, !.total_len = @ - 1], i)
          /\ out' = out \cup {Head(sl.free)}
        BY <1>4 DEF PopSlab
    <2>2. SubSeq(sl.free, m + 1, Len(sl.free)) = Tail(sl.free)
        BY <1>2, <1>4
    <2>3. [cc EXCEPT !.slabs[i].free = Tail(@), !.slabs[i].next_fresh = @,
                     !.recent = i, !.total_len = @ - 1]
             = WithRecord(cc, i, Drained(sl, m, f), i, cc.total_len - (m + f))
        <3> DEFINE x == Tail(sl.free)
                   y == sl.next_fresh
        <3>1. Drained(sl, m, f) = Contents(sl, x, y)
            <4>1. sl.next_fresh + f = y
                BY <1>2
            <4> HIDE DEF f, y, x
            <4> QED BY <4>1, <2>2 DEF Drained, Contents, x
        <3>2. TwoWrites(cc, i, x, y) = OneWrite(cc, i, Contents(sl, x, y))
            <4> HIDE DEF i, x, y
            <4> QED BY <1>1, <1>2, TwoFields DEF sl
        <3>3. cc.total_len - (m + f) = cc.total_len - 1
            OBVIOUS
        <3> HIDE DEF m, f
        <3> QED BY ONLY <3>1, <3>2, <3>3, <1>1 DEF WithRecord, x, y, LocalCacheRecord, TwoWrites, OneWrite
    <2>4. m \in 0 .. Len(sl.free) /\ f \in 0 .. sl.capacity - sl.next_fresh
        BY <1>2, <1>4
    <2>5. Drawn(sl, m, f) = {Head(sl.free)}
        <3>1. sl.start + sl.next_fresh .. sl.start + sl.next_fresh + f - 1 = {}
            BY <1>2
        <3>2. {sl.free[k] : k \in 1 .. m} = {Head(sl.free)}
            BY <1>2, <1>4
        <3> QED BY <3>1, <3>2 DEF Drawn
    <2>6. cc' = Popped(cc, i, m, f, i) /\ out' = out \cup Drawn(sl, m, f)
        BY <2>1, <2>3, <2>5 DEF Popped
    <2>7. SlabPopped(m, f, i)
        <3> HIDE DEF m, f
        <3> QED BY <2>4, <2>6, <1>2 DEF SlabPopped
    <2> QED BY <2>7, <1>4
<1> QED BY <1>3, <1>4

\* A pop from the last available slab keeps the invariant.
LEMMA SlabPoppedKeeps ==
    ASSUME CacheInv, cc.avail # <<>>, NEW m, NEW f, NEW q, SlabPopped(m, f, q) PROVE CacheInv'
    BY SlabLeaves DEF SlabPopped

\* pop_block_unchecked of a slab keeps the invariant.
LEMMA PopSlabKeeps == ASSUME CacheInv, PopSlab PROVE CacheInv'
    BY PopSlabIs, SlabPoppedKeeps DEF PopSlab

\* How many reclaimed and how many fresh blocks pop_batch takes from the last slab.
BatchReclaimed(max) == Smaller(Len(cc.slabs[Last(cc.avail)].free), max)

BatchFresh(max) ==
    Smaller(max - BatchReclaimed(max),
            cc.slabs[Last(cc.avail)].capacity - cc.slabs[Last(cc.avail)].next_fresh)

\* pop_batch of a slab: reclaimed blocks, topped up with fresh ones.
LEMMA BatchSlabIs ==
    ASSUME CacheInv, NEW max \in Nat, BatchSlab(max)
    PROVE  SlabPopped(BatchReclaimed(max), BatchFresh(max), cc.recent)
<1> DEFINE i == Last(cc.avail)
           sl == cc.slabs[i]
           m == Smaller(Len(sl.free), max)
           f == Smaller(max - m, sl.capacity - sl.next_fresh)
<1>1. cc.avail # <<>> /\ cc \in LocalCacheRecord
    BY InvFacts DEF BatchSlab
<1>2. /\ i \in DOMAIN cc.slabs /\ cc.slabs \in Seq(LocalSlabRecord)
      /\ sl \in LocalSlabRecord
      /\ sl.free \in Seq(Nat) /\ sl.start \in Nat /\ sl.capacity \in Nat
      /\ sl.next_fresh \in Nat /\ sl.next_fresh <= sl.capacity
    BY <1>1, LastSlab
<1>3. m \in 0 .. Len(sl.free) /\ m <= max
    BY <1>2 DEF Smaller
<1>4. f \in 0 .. sl.capacity - sl.next_fresh
    <2> HIDE DEF m
    <2> QED BY <1>2, <1>3 DEF Smaller
<1>5. cc' = Settle([cc EXCEPT !.slabs[i].free = SubSeq(@, m + 1, Len(@)),
                              !.slabs[i].next_fresh = @ + f,
                              !.total_len = @ - m - f], i)
      /\ out' = out \cup Drawn(sl, m, f)
    BY DEF BatchSlab, Drawn
<1>6. m \in Nat /\ f \in Nat
    <2> HIDE DEF m, f
    <2> QED BY <1>2, <1>3, <1>4
<1> HIDE DEF m, f
<1>7. cc.total_len - m - f = cc.total_len - (m + f)
    BY <1>6, <1>1 DEF LocalCacheRecord
<1>8. [cc EXCEPT !.slabs[i].free = SubSeq(@, m + 1, Len(@)), !.slabs[i].next_fresh = @ + f,
                 !.total_len = @ - m - f]
         = WithRecord(cc, i, Drained(sl, m, f), cc.recent, cc.total_len - (m + f))
    <2> DEFINE x == SubSeq(sl.free, m + 1, Len(sl.free))
               y == sl.next_fresh + f
    <2>1. Drained(sl, m, f) = Contents(sl, x, y)
        BY DEF Drained, Contents
    <2>2. TwoWrites(cc, i, x, y) = OneWrite(cc, i, Contents(sl, x, y))
        <3> HIDE DEF i, x, y
        <3> QED BY <1>1, <1>2, TwoFields DEF sl
    <2> QED BY ONLY <2>1, <2>2, <1>1, <1>7 DEF WithRecord, x, y, LocalCacheRecord, TwoWrites, OneWrite
<1>9. cc' = Popped(cc, i, m, f, cc.recent)
    BY <1>5, <1>8 DEF Popped
<1>10. SlabPopped(m, f, cc.recent)
    BY <1>3, <1>4, <1>5, <1>9 DEF SlabPopped
<1> QED BY <1>10 DEF m, f, BatchReclaimed, BatchFresh

\* pop_batch of a slab keeps the invariant.
LEMMA BatchSlabKeeps == ASSUME CacheInv, NEW max \in Nat, BatchSlab(max) PROVE CacheInv'
    BY BatchSlabIs, SlabPoppedKeeps DEF BatchSlab

\* A span that is outside is recorded with its own length.
LEMMA SpanOf ==
    ASSUME NEW c, SpansRecorded(c), NEW i \in DOMAIN c.slabs, NEW sp \in Spans,
           c.slabs[i].start = sp.start
    PROVE  c.slabs[i].capacity = sp.count
<1>1. PICK tp \in Spans : c.slabs[i].start = tp.start /\ c.slabs[i].capacity = tp.count
    BY DEF SpansRecorded
<1>3. sp.start = tp.start
    BY <1>1
<1>4. sp.start \in Nat /\ sp.count \in Nat \ {0} /\ tp.count \in Nat \ {0}
    BY SpansAssumption
<1>5. sp = tp \/ sp.start + sp.count <= tp.start \/ tp.start + tp.count <= sp.start
    BY SpansAssumption
<1>2. sp = tp
    BY ONLY <1>3, <1>4, <1>5
<1> QED BY <1>1, <1>2

\* The blocks of a span, counted.
LEMMA SpanCount ==
    ASSUME NEW sp \in Spans
    PROVE  /\ sp.start \in Nat /\ sp.count \in Nat \ {0}
           /\ SpanBlocks(sp) \subseteq Addresses
           /\ Cardinality(SpanBlocks(sp)) = sp.count
<1>1. sp.start \in Nat /\ sp.count \in Nat \ {0} /\ sp.start + sp.count <= ArenaBlocks
    BY SpansAssumption
<1> DEFINE a == sp.start
           z == sp.start + sp.count - 1
<1>2. a \in Int /\ z \in Int /\ a <= z /\ z - a + 1 = sp.count /\ z <= ArenaBlocks - 1
    BY <1>1, SpansAssumption
<1>3. SpanBlocks(sp) = a .. z
    BY DEF SpanBlocks
<1> HIDE DEF a, z
<1>4. Cardinality(a .. z) = sp.count
    BY <1>2, FS_Interval
<1>5. a .. z \subseteq Addresses
    BY <1>1, <1>2, SpansAssumption DEF Addresses, a
<1> QED BY <1>1, <1>3, <1>4, <1>5

\* push_owned_slab of a slab the cache had before: its stock was empty, so it was not
\* listed; now it has all of its blocks, and is.
LEMMA PushKnownSlabIs ==
    ASSUME CacheInv, NEW sp \in Spans, PushKnownSlab(sp)
    PROVE  /\ CacheInv' /\ cc'.total_len = cc.total_len + sp.count
           /\ \E i \in DOMAIN cc.slabs :
                 /\ cc.slabs[i].start = sp.start /\ SlabChanged(cc, cc', i)
                 /\ cc'.slabs[i].next_fresh = 0 /\ cc'.slabs[i].free = <<>>
<1>1. PICK i \in DOMAIN cc.slabs :
        /\ SpanBlocks(sp) \subseteq out
        /\ cc.slabs[i].start = sp.start
        /\ cc' = MarkAvailable([MarkUnavailable(cc, i) EXCEPT !.slabs[i] = Reset(@), !.recent = i,
                                         !.total_len = @ + sp.count], i)
        /\ out' = out \ SpanBlocks(sp)
    BY DEF PushKnownSlab
<1> DEFINE M == Ready(cc)
           B == SpanBlocks(sp)
           sl == cc.slabs[i]
           r == Reset(sl)
           t == cc.total_len + sp.count
           d == WithRecord(cc, i, r, i, t)
           e == MarkAvailable(d, i)
<1>2. CacheShape(cc, M) /\ CacheStock(cc) /\ cc \in LocalCacheRecord /\ SpansRecorded(cc)
      /\ cc.total_len \in Int /\ sl \in LocalSlabRecord
    <2>1. CacheShape(cc, M) /\ CacheStock(cc) /\ cc \in LocalCacheRecord
        BY DEF CacheInv, CacheSound, CacheShape
    <2> QED BY <2>1 DEF CacheShape, LocalCacheRecord
<1>3. sp.start \in Nat /\ sp.count \in Nat /\ Cardinality(B) = sp.count /\ sl.capacity = sp.count
      /\ sl.start = sp.start
    BY <1>1, <1>2, SpanCount, SpanOf
<1>4. sl.start \in Nat /\ sl.capacity \in Nat /\ sl.next_fresh \in Nat /\ sl.free \in Seq(Nat)
    BY <1>2 DEF LocalSlabRecord
<1>5. B \cap CacheHeld(cc) = {} /\ B \cap (cc.hot \cup ToSet(cc.shared)) = {}
      /\ B \cap Stock(sl) = {}
    <2>1. B \cap CacheHeld(cc) = {}
        BY <1>1 DEF CacheInv
    <2> HIDE DEF B
    <2> QED BY <2>1 DEF CacheHeld
<1>6. Stock(sl) = {}
    <2>1. ASSUME NEW x \in Stock(sl) PROVE x \in B
        <3>1. x \in Nat /\ SlabContains(sl, x)
            BY <1>2, HeldApart
        <3> HIDE DEF sl
        <3> QED BY <3>1, <1>3 DEF SlabContains, SpanBlocks
    <2> QED BY <2>1, <1>5
<1>7. ~HasAvailable(sl)
    <2> HIDE DEF sl
    <2>1. CASE sl.next_fresh < sl.capacity
        <3>1. sl.start + sl.next_fresh \in Stock(sl)
            BY <2>1, <1>4 DEF Stock
        <3> QED BY <3>1, <1>6
    <2>2. CASE sl.free # <<>>
        <3>1. 1 \in DOMAIN sl.free
            BY <2>2, <1>4
        <3>2. sl.free[1] \in Stock(sl)
            BY <3>1 DEF Stock, ToSet
        <3> QED BY <3>2, <1>6
    <2> QED BY <2>1, <2>2 DEF HasAvailable
<1>8. i \notin M /\ sl.slot = 0
    BY <1>2, <1>7 DEF Ready, CacheShape
<1>9. MarkUnavailable(cc, i) = cc
    BY <1>8 DEF MarkUnavailable
<1>10. cc' = e
    <2>1. [cc EXCEPT !.slabs[i] = Reset(@), !.recent = i, !.total_len = @ + sp.count] = d
        BY <1>2 DEF WithRecord, LocalCacheRecord
    <2> QED BY <2>1, <1>1, <1>9
<1> HIDE DEF sl, B
<1>11. /\ r \in LocalSlabRecord /\ r.start = sl.start /\ r.capacity = sl.capacity
       /\ r.slot = 0 /\ r.next_fresh = 0 /\ r.free = <<>>
    <2> DEFINE z == 0
               v == <<>>
    <2>1. z \in Nat /\ v \in Seq(Nat)
        OBVIOUS
    <2>2. r = [sl EXCEPT !.next_fresh = z, !.free = v, !.slot = z]
        BY DEF Reset
    <2> HIDE DEF z, v, r
    <2>3. /\ r \in LocalSlabRecord /\ r.start = sl.start /\ r.capacity = sl.capacity
          /\ r.slot = z /\ r.next_fresh = z /\ r.free = v
        BY ONLY <2>1, <2>2, <1>2 DEF LocalSlabRecord
    <2> QED BY <2>3 DEF z, v
<1> HIDE DEF r
<1>12. StockSound(r) /\ Stock(r) = B /\ HasAvailable(r)
    <2>1. ToSet(r.free) = {}
        BY <1>11 DEF ToSet
    <2>2. Stock(r) = sl.start .. sl.start + sl.capacity - 1
        BY <2>1, <1>4, <1>11 DEF Stock
    <2>3. Once(r.free)
        BY <1>11 DEF Once
    <2>4. sp.count # 0
        BY SpanCount
    <2>5. StockSound(r)
        BY <2>1, <2>3, <1>4, <1>11 DEF StockSound
    <2>6. HasAvailable(r)
        BY <2>4, <1>3, <1>11 DEF HasAvailable
    <2> QED BY <2>2, <2>5, <2>6, <1>3 DEF SpanBlocks, B
<1>13. t \in Int
    BY <1>2, <1>3
<1> HIDE DEF t, M
<1>14. /\ CacheShape(d, M) /\ OneSlab(cc, d, i) /\ d.slabs[i] = r /\ d.total_len = t
       /\ d \in LocalCacheRecord
    <2>1. r.start = cc.slabs[i].start /\ r.capacity = cc.slabs[i].capacity /\ r.slot = cc.slabs[i].slot
        BY <1>8, <1>11 DEF sl
    <2>2. CacheShape(cc, M) /\ i \in DOMAIN cc.slabs /\ r \in LocalSlabRecord /\ t \in Int
          /\ i \in DOMAIN cc.slabs \cup {cc.recent}
        BY <1>2, <1>11, <1>13
    <2> QED BY ONLY <2>1, <2>2, SlabWritten
<1> HIDE DEF d
<1>15. CacheStock(d) /\ CacheHeld(d) = CacheHeld(cc) \cup B
    <2>1. StockSound(d.slabs[i]) /\ Stock(d.slabs[i]) = Stock(cc.slabs[i]) \cup B
        BY <1>6, <1>12, <1>14 DEF sl
    <2>2. B \cap (cc.hot \cup ToSet(cc.shared)) = {} /\ CacheStock(cc) /\ OneSlab(cc, d, i)
          /\ i \in DOMAIN cc.slabs
        BY <1>2, <1>5, <1>14
    <2> QED BY ONLY <2>1, <2>2, SlabGets
<1>16. DOMAIN d.slabs = DOMAIN cc.slabs /\ i \in DOMAIN d.slabs
    BY <1>14 DEF OneSlab
<1>17. CacheShape(e, M \cup {i}) /\ SlotsOnly(d, e)
    BY <1>8, <1>14, <1>16, MarkAvailableIs
<1>18. Ready(d) = M \cup {i}
    BY <1>12, <1>14, <1>16 DEF Ready, OneSlab, M
<1> HIDE DEF e
<1>19. Ready(e) = Ready(d) /\ CacheHeld(e) = CacheHeld(d) /\ CacheStock(e)
    BY <1>15, <1>17, SlotsOnlyKeeps
<1>20. CacheSound(cc') /\ CacheHeld(cc') = CacheHeld(cc) \cup B
    BY <1>10, <1>15, <1>17, <1>18, <1>19 DEF CacheSound
<1>21. cc'.total_len = cc.total_len + Cardinality(B)
    BY <1>3, <1>10, <1>14, <1>17 DEF SlotsOnly, t
<1>22. B \in SUBSET out /\ out' = out \ B
    BY <1>1 DEF B
<1>23. CacheInv'
    BY ONLY CacheInv, <1>20, <1>21, <1>22, InvIn
<1>24. SlabChanged(cc, cc', i) /\ cc'.slabs[i].next_fresh = 0 /\ cc'.slabs[i].free = <<>>
    <2>1. d.slabs[i].start = cc.slabs[i].start /\ d.slabs[i].capacity = cc.slabs[i].capacity
        BY <1>11, <1>14 DEF sl
    <2>2. OneSlab(cc, d, i) /\ SlotsOnly(d, cc') /\ i \in DOMAIN cc.slabs
        BY <1>1, <1>10, <1>14, <1>17
    <2>3. SlabChanged(cc, cc', i) /\ cc'.slabs[i].next_fresh = d.slabs[i].next_fresh
          /\ cc'.slabs[i].free = d.slabs[i].free
        BY ONLY <2>1, <2>2 DEF OneSlab, SlotsOnly, SlabChanged
    <2> QED BY <2>3, <1>11, <1>14
<1>25. cc'.total_len = cc.total_len + sp.count
    BY <1>3, <1>21
<1> QED BY <1>1, <1>23, <1>24, <1>25

\* push_owned_slab of a known slab keeps the invariant.
LEMMA PushKnownSlabKeeps ==
    ASSUME CacheInv, NEW sp \in Spans, PushKnownSlab(sp) PROVE CacheInv'
    BY PushKnownSlabIs

\* The orders of a batch: lists of its blocks, each once.
LEMMA OrderOf ==
    ASSUME NEW B \in SUBSET Addresses, NEW list \in SetToSeqs(B)
    PROVE  list \in Seq(Nat) /\ Once(list) /\ ToSet(list) = B /\ Len(list) = Cardinality(B)
<1> DEFINE n == Cardinality(B)
<1>1. IsFiniteSet(B) /\ n \in Nat
    <2>1. B \subseteq B
        OBVIOUS
    <2> QED BY <2>1, CountOut
<1>2. list \in [1 .. n -> B] /\ \A i, j \in 1 .. n : i # j => list[i] # list[j]
    BY DEF SetToSeqs
<1>3. B \subseteq Nat
    BY SpansAssumption DEF Addresses
<1> HIDE DEF n
<1>4. list \in Seq(Nat) /\ Len(list) = n /\ DOMAIN list = 1 .. n
    <2>1. list \in [1 .. n -> Nat] /\ DOMAIN list = 1 .. n
        BY <1>2, <1>3
    <2> QED BY <2>1, <1>1
<1>5. Once(list)
    BY <1>2, <1>4 DEF Once
<1>6. IsFiniteSet(1 .. n) /\ Cardinality(1 .. n) = n
    BY <1>1, FS_Interval
<1>7. list \in Injection(1 .. n, B)
    BY <1>2, <1>4 DEF Injection, IsInjective
<1>8. list \in Surjection(1 .. n, B)
    BY <1>1, <1>6, <1>7, FS_Injection DEF n
<1>9. ToSet(list) = B
    BY <1>2, <1>4, <1>8 DEF ToSet, Surjection
<1> QED BY <1>4, <1>5, <1>9 DEF n

\* d is c with a new record of the span sp, all fresh, but for the vectors and the counter.
SlabNew(c, d, sp, n) ==
    /\ d.hot = c.hot /\ d.shared = c.shared /\ d.shared_len = c.shared_len
    /\ n \in Nat /\ DOMAIN c.slabs = 1 .. n /\ DOMAIN d.slabs = 1 .. n + 1
    /\ \A j \in 1 .. n : /\ d.slabs[j].start = c.slabs[j].start
                         /\ d.slabs[j].capacity = c.slabs[j].capacity
                         /\ d.slabs[j].next_fresh = c.slabs[j].next_fresh
                         /\ d.slabs[j].free = c.slabs[j].free
                         /\ c.slabs[j].start # sp.start
    /\ d.slabs[n + 1].start = sp.start /\ d.slabs[n + 1].capacity = sp.count
    /\ d.slabs[n + 1].next_fresh = 0 /\ d.slabs[n + 1].free = <<>>

\* push_owned_slab of a slab the cache has no record of: a new record, inserted in the
\* index where the search puts it, with all of its blocks.
LEMMA PushNewSlabIs ==
    ASSUME CacheInv, NEW sp \in Spans, PushNewSlab(sp)
    PROVE  /\ CacheInv' /\ cc'.total_len = cc.total_len + sp.count
           /\ SlabNew(cc, cc', sp, Len(cc.slabs))
<1> DEFINE n == Len(cc.slabs)
           i == n + 1
           slot == StartsUpTo(cc, sp.start)
           M == Ready(cc)
           B == SpanBlocks(sp)
           r == NewSlab(sp)
           t == cc.total_len + sp.count
           w == Append(cc.slabs, r)
           v == InsertAt(cc.by_start, slot + 1, i)
           d == [cc EXCEPT !.slabs = w, !.by_start = v, !.recent = i, !.total_len = t]
           e == MarkAvailable(d, i)
<1>1. /\ B \subseteq out /\ out' = out \ B
      /\ \A k \in DOMAIN cc.slabs : cc.slabs[k].start # sp.start
    BY DEF PushNewSlab
<1>2. CacheShape(cc, M) /\ CacheStock(cc) /\ cc \in LocalCacheRecord
    BY DEF CacheInv, CacheSound, CacheShape
<1>3. /\ SpansRecorded(cc) /\ Indexed(cc) /\ Listed(cc.slabs, cc.avail, M)
      /\ M \subseteq DOMAIN cc.slabs /\ \A k \in DOMAIN cc.slabs : cc.slabs[k].slot = 0 <=> k \notin M
    BY <1>2 DEF CacheShape
<1>4. /\ cc.total_len \in Int /\ cc.slabs \in Seq(LocalSlabRecord) /\ cc.by_start \in Seq(Nat)
      /\ cc.avail \in Seq(Nat)
    BY <1>2 DEF LocalCacheRecord
<1>5. n \in Nat /\ i \in Nat \ {0} /\ DOMAIN cc.slabs = 1 .. n
    BY <1>4
<1>6. sp.start \in Nat /\ sp.count \in Nat \ {0} /\ Cardinality(B) = sp.count
    BY SpanCount
<1>7. cc' = e
    <2>1. [cc EXCEPT !.slabs = Append(@, NewSlab(sp)), !.by_start = InsertAt(@, slot + 1, i),
                     !.recent = i, !.total_len = @ + sp.count] = d
        BY <1>2 DEF LocalCacheRecord
    <2> QED BY <2>1 DEF PushNewSlab
<1>8. /\ r \in LocalSlabRecord /\ r.start = sp.start /\ r.capacity = sp.count
      /\ r.next_fresh = 0 /\ r.free = <<>> /\ r.slot = 0
    <2> DEFINE z == 0
               u == <<>>
    <2>1. z \in Nat /\ u \in Seq(Nat)
        OBVIOUS
    <2>2. r = [start |-> sp.start, capacity |-> sp.count, next_fresh |-> z, free |-> u, slot |-> z]
        BY DEF NewSlab
    <2> HIDE DEF z, u, r
    <2>3. /\ r \in LocalSlabRecord /\ r.start = sp.start /\ r.capacity = sp.count
          /\ r.next_fresh = z /\ r.free = u /\ r.slot = z
        BY ONLY <2>1, <2>2, <1>6 DEF LocalSlabRecord
    <2> QED BY <2>3 DEF z, u
<1>9. \A k \in DOMAIN cc.slabs : cc.slabs[k] \in LocalSlabRecord
    BY <1>4
<1>10. \A k \in DOMAIN cc.slabs : cc.slabs[k].start \in Nat
    BY ONLY <1>9 DEF LocalSlabRecord
<1> HIDE DEF r
<1>11. /\ w \in Seq(LocalSlabRecord) /\ DOMAIN w = 1 .. n + 1 /\ Len(w) = n + 1
       /\ w[n + 1] = r /\ \A k \in 1 .. n : w[k] = cc.slabs[k]
    BY <1>4, <1>8
<1>12. /\ slot \in 0 .. Len(cc.by_start)
       /\ \A k \in 1 .. Len(cc.by_start) : cc.slabs[cc.by_start[k]].start <= sp.start <=> k <= slot
    BY <1>3, <1>4, <1>6, <1>10, StartsUpToIs
<1> HIDE DEF slot, w, n
<1>13. \A k \in 1 .. Len(cc.by_start) : cc.slabs[cc.by_start[k]].start < sp.start <=> k <= slot
    <2>1. \A k \in 1 .. Len(cc.by_start) : cc.by_start[k] \in DOMAIN cc.slabs
        BY <1>3, <1>4 DEF Indexed
    <2>2. \A k \in 1 .. Len(cc.by_start) : /\ cc.slabs[cc.by_start[k]].start # sp.start
                                           /\ cc.slabs[cc.by_start[k]].start \in Nat
        BY ONLY <2>1, <1>1, <1>10
    <2> QED BY ONLY <2>2, <1>6, <1>12
<1>14. v \in Seq(Nat)
    <2>1. slot + 1 \in 1 .. Len(cc.by_start) + 1 /\ i \in Nat
        BY <1>4, <1>5, <1>12
    <2> QED BY ONLY <2>1, <1>4, InsertAtIs
<1>15. t \in Int
    BY <1>4, <1>6
<1>16. d = [cc EXCEPT !.slabs = w, !.by_start = v, !.recent = i, !.total_len = t]
    OBVIOUS
<1>17. v = InsertAt(cc.by_start, slot + 1, n + 1) /\ i = n + 1
    OBVIOUS
<1> HIDE DEF d, v, i, t
<1>18. /\ d \in LocalCacheRecord /\ d.slabs = w /\ d.by_start = v /\ d.recent = i
       /\ d.total_len = t /\ d.avail = cc.avail /\ d.hot = cc.hot /\ d.shared = cc.shared
       /\ d.shared_len = cc.shared_len
    BY ONLY <1>2, <1>5, <1>11, <1>14, <1>15, <1>16 DEF LocalCacheRecord
<1>19. /\ DOMAIN d.slabs = 1 .. n + 1 /\ d.slabs[n + 1] = r
       /\ \A k \in 1 .. n : d.slabs[k] = cc.slabs[k]
    BY <1>11, <1>18
<1>20. Indexed(d)
    <2>1. \A k \in 1 .. n : cc.slabs[k].start \in Nat /\ d.slabs[k].start = cc.slabs[k].start
        BY <1>5, <1>10, <1>19
    <2>2. d.slabs[n + 1].start = sp.start
        BY <1>8, <1>19
    <2>3. \A k \in 1 .. n : cc.slabs[k].start # d.slabs[n + 1].start
        BY <2>2, <1>1, <1>5
    <2>4. \A k \in 1 .. Len(cc.by_start) :
             cc.slabs[cc.by_start[k]].start < d.slabs[n + 1].start <=> k <= slot
        BY ONLY <2>2, <1>13
    <2>5. d.slabs[n + 1].start \in Nat /\ d.by_start = InsertAt(cc.by_start, slot + 1, n + 1)
        BY <2>2, <1>6, <1>17, <1>18
    <2>6. Indexed(cc) /\ cc.by_start \in Seq(Nat) /\ n \in Nat /\ DOMAIN cc.slabs = 1 .. n
          /\ DOMAIN d.slabs = 1 .. n + 1 /\ slot \in 0 .. Len(cc.by_start)
        BY <1>3, <1>4, <1>5, <1>12, <1>19
    <2> QED BY ONLY <2>1, <2>3, <2>4, <2>5, <2>6, IndexInsert
<1>21. SpansRecorded(d)
    <2>1. \A k \in 1 .. n : /\ d.slabs[k].start = cc.slabs[k].start
                            /\ d.slabs[k].capacity = cc.slabs[k].capacity
                            /\ cc.slabs[k].start # sp.start
        BY <1>1, <1>5, <1>19
    <2>2. d.slabs[n + 1].start = sp.start /\ d.slabs[n + 1].capacity = sp.count
        BY <1>8, <1>19
    <2>3. SpansRecorded(cc) /\ n \in Nat /\ DOMAIN cc.slabs = 1 .. n /\ DOMAIN d.slabs = 1 .. n + 1
        BY <1>3, <1>5, <1>19
    <2>4. SlabAdded(cc, d, sp, n)
        BY ONLY <2>1, <2>2, <2>3 DEF SlabAdded
    <2> QED BY <2>3, <2>4, SpansAppend
<1>22. i \notin M /\ M \subseteq DOMAIN d.slabs /\ i \in DOMAIN d.slabs
       /\ \A k \in M : d.slabs[k] = cc.slabs[k]
    <2>1. \A k \in 1 .. n : k \in 1 .. n + 1 /\ k # n + 1
        BY <1>5
    <2>2. n + 1 \in 1 .. n + 1
        BY <1>5
    <2> HIDE DEF M
    <2> QED BY ONLY <2>1, <2>2, <1>3, <1>5, <1>17, <1>19
<1>23. CacheShape(d, M)
    <2> HIDE DEF M
    <2>1. Listed(d.slabs, d.avail, M)
        BY <1>3, <1>18, <1>22 DEF Listed
    <2>2. ASSUME NEW k \in DOMAIN d.slabs PROVE d.slabs[k].slot = 0 <=> k \notin M
        <3>1. CASE k = n + 1
            BY <3>1, <1>8, <1>17, <1>19, <1>22
        <3>2. CASE k # n + 1
            <4>1. k \in 1 .. n
                BY <3>2, <1>5, <1>19
            <4> QED BY <4>1, <1>3, <1>5, <1>19
        <3> QED BY <3>1, <3>2
    <2>3. d.recent \in 0 .. Len(d.slabs)
        BY <1>5, <1>11, <1>17, <1>18
    <2> QED BY <2>1, <2>2, <2>3, <1>18, <1>20, <1>21, <1>22 DEF CacheShape
<1>24. StockSound(r) /\ Stock(r) = B /\ HasAvailable(r)
    <2>1. ToSet(r.free) = {}
        BY <1>8 DEF ToSet
    <2>2. Stock(r) = sp.start .. sp.start + sp.count - 1
        BY <2>1, <1>6, <1>8 DEF Stock
    <2>3. Once(r.free)
        BY <1>8 DEF Once
    <2>5. StockSound(r)
        BY <2>1, <2>3, <1>6, <1>8 DEF StockSound
    <2>6. HasAvailable(r)
        BY <1>6, <1>8 DEF HasAvailable
    <2> QED BY <2>2, <2>5, <2>6 DEF SpanBlocks
<1> HIDE DEF B
<1>25. B \cap CacheHeld(cc) = {} /\ B \cap (cc.hot \cup ToSet(cc.shared)) = {}
    <2>1. B \cap CacheHeld(cc) = {}
        BY <1>1 DEF CacheInv
    <2> QED BY <2>1 DEF CacheHeld
<1>26. DOMAIN d.slabs = DOMAIN cc.slabs \cup {n + 1}
    BY <1>5, <1>19
<1>27. CacheStock(d)
    <2>1. \A k \in DOMAIN d.slabs : StockSound(d.slabs[k])
        BY <1>2, <1>5, <1>19, <1>24, <1>26 DEF CacheStock
    <2>2. \A k \in DOMAIN d.slabs : Stock(d.slabs[k]) \cap (d.hot \cup ToSet(d.shared)) = {}
        BY <1>2, <1>5, <1>18, <1>19, <1>24, <1>25, <1>26 DEF CacheStock
    <2> QED BY <2>1, <2>2, <1>2, <1>18 DEF CacheStock
<1>28. CacheHeld(d) = CacheHeld(cc) \cup B
    <2>1. ASSUME NEW x
          PROVE  (\E k \in DOMAIN d.slabs : x \in Stock(d.slabs[k]))
                    <=> (\E k \in DOMAIN cc.slabs : x \in Stock(cc.slabs[k])) \/ x \in B
        BY <1>5, <1>19, <1>24, <1>26
    <2>2. ASSUME NEW x PROVE x \in CacheHeld(d) <=> x \in CacheHeld(cc) \cup B
        BY ONLY <2>1, <1>18 DEF CacheHeld
    <2> QED BY <2>2
<1>29. Ready(d) = M \cup {i}
    <2>1. \A k \in DOMAIN cc.slabs : HasAvailable(d.slabs[k]) <=> HasAvailable(cc.slabs[k])
        BY <1>5, <1>19
    <2>2. HasAvailable(d.slabs[n + 1])
        BY <1>19, <1>24
    <2> QED BY <2>1, <2>2, <1>17, <1>26 DEF Ready
<1>30. CacheShape(e, M \cup {i}) /\ SlotsOnly(d, e)
    <2> HIDE DEF M
    <2> QED BY <1>22, <1>23, MarkAvailableIs
<1> HIDE DEF e
<1>31. Ready(e) = Ready(d) /\ CacheHeld(e) = CacheHeld(d) /\ CacheStock(e)
    BY <1>27, <1>30, SlotsOnlyKeeps
<1>32. CacheSound(cc') /\ CacheHeld(cc') = CacheHeld(cc) \cup B
    BY <1>7, <1>28, <1>29, <1>30, <1>31 DEF CacheSound
<1>33. cc'.total_len = cc.total_len + Cardinality(B)
    BY <1>6, <1>7, <1>18, <1>30 DEF SlotsOnly, t
<1>34. B \in SUBSET out /\ out' = out \ B
    BY <1>1
<1>35. CacheInv'
    BY ONLY CacheInv, <1>32, <1>33, <1>34, InvIn
<1>36. SlabNew(cc, cc', sp, n)
    <2>1. /\ DOMAIN cc'.slabs = DOMAIN d.slabs /\ cc'.hot = cc.hot /\ cc'.shared = cc.shared
          /\ cc'.shared_len = cc.shared_len
          /\ \A k \in DOMAIN d.slabs : /\ cc'.slabs[k].start = d.slabs[k].start
                                        /\ cc'.slabs[k].capacity = d.slabs[k].capacity
                                        /\ cc'.slabs[k].next_fresh = d.slabs[k].next_fresh
                                        /\ cc'.slabs[k].free = d.slabs[k].free
        BY <1>7, <1>18, <1>30 DEF SlotsOnly
    <2>2. \A k \in 1 .. n : k \in DOMAIN d.slabs /\ cc.slabs[k].start # sp.start
        BY <1>1, <1>5, <1>26
    <2>3. n + 1 \in DOMAIN d.slabs
        BY <1>26
    <2> QED BY ONLY <2>1, <2>2, <2>3, <1>5, <1>8, <1>19 DEF SlabNew
<1>37. cc'.total_len = cc.total_len + sp.count
    BY <1>6, <1>33
<1> QED BY <1>35, <1>36, <1>37 DEF n

\* push_owned_slab of a new slab keeps the invariant.
LEMMA PushNewSlabKeeps ==
    ASSUME CacheInv, NEW sp \in Spans, PushNewSlab(sp) PROVE CacheInv'
    BY PushNewSlabIs

\* A new cache holds nothing.
LEMMA CacheInvInit == Init => CacheInv
<1> SUFFICES ASSUME Init PROVE CacheInv
    OBVIOUS
<1>1. /\ cc = NewCache /\ out = Addresses /\ cc \in LocalCacheRecord
      /\ cc.hot = {} /\ cc.slabs = <<>> /\ cc.by_start = <<>> /\ cc.avail = <<>> /\ cc.recent = 0
      /\ cc.shared = <<>> /\ cc.shared_len = 0 /\ cc.total_len = 0
    BY DEF Init, NewCache, LocalCacheRecord, Addresses
<1>2. DOMAIN cc.slabs = {} /\ DOMAIN cc.by_start = {} /\ DOMAIN cc.avail = {} /\ ToSet(cc.shared) = {}
      /\ DOMAIN cc.shared = {} /\ Len(cc.slabs) = 0 /\ Len(cc.shared) = 0
    BY <1>1 DEF ToSet
<1>3. Ready(cc) = {}
    BY <1>2 DEF Ready
<1>4. CacheShape(cc, Ready(cc))
    BY ONLY <1>1, <1>2, <1>3 DEF CacheShape, Indexed, SpansRecorded, Listed
<1>5. CacheStock(cc)
    BY ONLY <1>1, <1>2 DEF CacheStock, Once
<1>6. CacheHeld(cc) = {}
    BY ONLY <1>1, <1>2 DEF CacheHeld
<1>7. Cardinality(CacheHeld(cc)) = 0
    BY <1>6, FS_EmptySet
<1> QED BY <1>1, <1>4, <1>5, <1>6, <1>7 DEF CacheInv, CacheSound

\* Every call of the cache keeps the invariant.
LEMMA CacheInvNext == CacheInv /\ [Next]_vars => CacheInv'
<1> SUFFICES ASSUME CacheInv, [Next]_vars PROVE CacheInv'
    OBVIOUS
<1>1. MaxBatch \in Nat
    BY SpansAssumption
<1>2. ASSUME NEW sp \in Spans, PushNewSlab(sp) PROVE CacheInv'
    BY <1>2, PushNewSlabKeeps
<1>3. ASSUME NEW sp \in Spans, PushKnownSlab(sp) PROVE CacheInv'
    BY <1>3, PushKnownSlabKeeps
<1>4. ASSUME NEW B \in SUBSET out, NEW list \in SetToSeqs(B), PushSharedBatch(list) PROVE CacheInv'
    <2>1. B \in SUBSET Addresses
        BY DEF CacheInv
    <2>2. list \in Seq(Nat) /\ Once(list) /\ ToSet(list) = B
        BY <2>1, OrderOf
    <2> QED BY <2>2, <1>4, PushSharedBatchKeeps
<1>5. ASSUME NEW b \in out, PushBlock(b) PROVE CacheInv'
    BY <1>5, PushBlockKeeps
<1>6. CASE PopHot \/ BatchHot
    BY <1>6, HotLeaves DEF PopHot, BatchHot
<1>7. CASE PopSlab
    BY <1>7, PopSlabKeeps
<1>8. CASE PopShared
    BY <1>8, PopSharedKeeps
<1>9. CASE BatchShared(MaxBatch)
    BY <1>1, <1>9, BatchSharedKeeps
<1>10. CASE BatchSlab(MaxBatch)
    BY <1>1, <1>10, BatchSlabKeeps
<1>11. CASE UNCHANGED vars
    <2>1. cc' = cc /\ out' = out
        BY <1>11 DEF vars
    <2> QED BY <2>1 DEF CacheInv
<1> QED BY <1>2, <1>3, <1>4, <1>5, <1>6, <1>7, <1>8, <1>9, <1>10, <1>11 DEF Next

\* The invariant says what the run checks: the vectors list exactly the slabs with a
\* block to give, the slots point back, the lookup is right, the counters are in range.
LEMMA CacheInvSuffices == CacheInv => VectorsSound
<1> SUFFICES ASSUME CacheInv PROVE VectorsSound
    OBVIOUS
<1> DEFINE M == Ready(cc)
<1>1. CacheShape(cc, M) /\ CacheStock(cc) /\ cc \in LocalCacheRecord
    BY DEF CacheInv, CacheSound, CacheShape
<1>2. /\ cc.slabs \in Seq(LocalSlabRecord) /\ cc.avail \in Seq(Nat) /\ M \subseteq DOMAIN cc.slabs
      /\ Listed(cc.slabs, cc.avail, M) /\ \A i \in DOMAIN cc.slabs : cc.slabs[i].slot = 0 <=> i \notin M
    BY <1>1 DEF CacheShape, LocalCacheRecord
<1>3. TypeOK
    <2>1. CacheHeld(cc) \subseteq Addresses
        BY <1>1, HeldApart
    <2>2. cc.total_len \in 0 .. ArenaBlocks
        <3>1. IsFiniteSet(Addresses) /\ Cardinality(Addresses) = ArenaBlocks
            BY SpansAssumption, FS_Interval DEF Addresses
        <3>2. Cardinality(CacheHeld(cc)) \in Nat /\ Cardinality(CacheHeld(cc)) <= ArenaBlocks
            BY <3>1, <2>1, FS_Subset, FS_CardinalityType
        <3> QED BY <3>2, SpansAssumption DEF CacheInv
    <2>3. ASSUME NEW i \in DOMAIN cc.slabs
          PROVE  /\ cc.slabs[i].next_fresh \in 0 .. cc.slabs[i].capacity
                 /\ cc.slabs[i].slot \in 0 .. Len(cc.avail)
        <3>1. cc.slabs[i] \in LocalSlabRecord /\ StockSound(cc.slabs[i])
            BY <1>1, <1>2 DEF CacheStock
        <3>2. cc.slabs[i].next_fresh \in 0 .. cc.slabs[i].capacity
            BY <3>1 DEF LocalSlabRecord, StockSound
        <3>3. DOMAIN cc.avail = 1 .. Len(cc.avail) /\ Len(cc.avail) \in Nat
            BY <1>2
        <3>4. cc.slabs[i].slot = 0 \/ cc.slabs[i].slot \in 1 .. Len(cc.avail)
            BY <3>3, <1>2 DEF Listed
        <3>5. cc.slabs[i].slot \in 0 .. Len(cc.avail)
            BY <3>3, <3>4
        <3> QED BY <3>2, <3>5
    <2>4. cc.recent \in 0 .. Len(cc.slabs) /\ cc.shared_len = Len(cc.shared)
          /\ out \subseteq 0 .. ArenaBlocks - 1
        BY <1>1 DEF CacheShape, CacheStock, CacheInv, Addresses
    <2> QED BY <2>2, <2>3, <2>4 DEF TypeOK
<1>4. AvailableExact
    <2>1. ToSet(cc.avail) = M
        <3>1. \A x \in ToSet(cc.avail) : x \in M
            BY <1>2 DEF Listed, ToSet
        <3>2. ASSUME NEW x \in M PROVE x \in ToSet(cc.avail)
            <4>1. cc.slabs[x].slot \in DOMAIN cc.avail /\ cc.avail[cc.slabs[x].slot] = x
                BY <1>2 DEF Listed
            <4> QED BY <4>1 DEF ToSet
        <3> HIDE DEF M
        <3> QED BY <3>1, <3>2
    <2>2. \A k \in DOMAIN cc.avail : cc.slabs[cc.avail[k]].slot = k
        BY <1>2 DEF Listed
    <2>3. \A i \in DOMAIN cc.slabs : cc.slabs[i].slot = 0 <=> ~HasAvailable(cc.slabs[i])
        BY <1>2 DEF Ready
    <2> QED BY <2>1, <2>2, <2>3 DEF AvailableExact, Ready
<1>5. LookupExact
    <2>1. ASSUME NEW b \in 0 .. ArenaBlocks - 1
          PROVE  IF \E i \in DOMAIN cc.slabs : SlabContains(cc.slabs[i], b)
                 THEN SlabOf(cc, b) # 0 /\ SlabContains(cc.slabs[SlabOf(cc, b)], b)
                 ELSE SlabOf(cc, b) = 0
        <3>1. b \in Nat
            BY SpansAssumption
        <3> HIDE DEF M
        <3> QED BY <3>1, <1>1, SlabOfIs
    <2> QED BY <2>1 DEF LookupExact
<1> QED BY <1>3, <1>4, <1>5 DEF VectorsSound

\* LocalClassCache keeps its vectors sound in every reachable state, for every arena,
\* every set of spans and every batch size: the unchecked pops and swap_removes of
\* src/thread_cache.rs never meet an empty slab or a stale slot.
THEOREM CacheVectorsSound == Spec => []VectorsSound
<1>1. CacheInv /\ [Next]_vars => CacheInv'
    BY CacheInvNext
<1>2. Init => CacheInv
    BY CacheInvInit
<1>3. CacheInv => VectorsSound
    BY CacheInvSuffices
<1> QED BY <1>1, <1>2, <1>3, PTL DEF Spec

-----------------------------------------------------------------------------
(* ClassPool: the table of slabs and the buckets.                          *)

SlabStates == BucketNames \cup {"Loaned"}

PoolSlabRecord ==
    [start : Nat, capacity : Nat, central_free_len : Int, partial_free : Seq(Nat),
     state : SlabStates, slot : Nat]

PoolRecord ==
    [slabs : Seq(PoolSlabRecord), age : Seq(Nat), by_start : Seq(Nat),
     bucket : [BucketNames -> Seq(Nat)], phase : Nat, cursor : Nat, recent : Nat]

\* The slabs that a bucket lists, where S gives the bucket of each slab.
Members(S, b) == {i \in DOMAIN S : S[i] = b}

\* The state of each slab.
States(p) == [i \in DOMAIN p.slabs |-> p.slabs[i].state]

\* The buckets list the slabs as S says, with slots that point back, and the cursor
\* names a hot slab.  Between calls S is States(p).
Bucketed(p, S) ==
    /\ p \in PoolRecord
    /\ S \in [DOMAIN p.slabs -> SlabStates]
    /\ \A b \in BucketNames : Listed(p.slabs, p.bucket[b], Members(S, b))
    /\ \A i \in DOMAIN p.slabs : p.slabs[i].slot = 0 <=> S[i] = "Loaned"
    /\ p.bucket["FullHot"] = <<>> => p.cursor = 0
    /\ p.bucket["FullHot"] # <<>> => p.cursor < Len(p.bucket["FullHot"])

\* q is p but for the buckets, the slots and the cursor.
BucketsOnly(p, q) ==
    /\ q \in PoolRecord
    /\ q.age = p.age /\ q.by_start = p.by_start /\ q.phase = p.phase /\ q.recent = p.recent
    /\ DOMAIN q.slabs = DOMAIN p.slabs
    /\ \A i \in DOMAIN p.slabs :
          /\ q.slabs[i].start = p.slabs[i].start
          /\ q.slabs[i].capacity = p.slabs[i].capacity
          /\ q.slabs[i].central_free_len = p.slabs[i].central_free_len
          /\ q.slabs[i].partial_free = p.slabs[i].partial_free
          /\ q.slabs[i].state = p.slabs[i].state

\* A changed slot leaves the other fields alone.
SameButSlot(v, w) ==
    /\ DOMAIN w = DOMAIN v
    /\ \A j \in DOMAIN v : /\ w[j].start = v[j].start
                           /\ w[j].capacity = v[j].capacity
                           /\ w[j].central_free_len = v[j].central_free_len
                           /\ w[j].partial_free = v[j].partial_free
                           /\ w[j].state = v[j].state

\* A record of the pool's vector keeps its type when its slot is written.
LEMMA PoolSlotWritten ==
    ASSUME NEW slabs \in Seq(PoolSlabRecord), NEW i \in DOMAIN slabs, NEW s \in Nat
    PROVE  /\ [slabs EXCEPT ![i].slot = s] \in Seq(PoolSlabRecord)
           /\ SameButSlot(slabs, [slabs EXCEPT ![i].slot = s])
           /\ [slabs EXCEPT ![i].slot = s][i].slot = s
           /\ \A j \in DOMAIN slabs : j # i => [slabs EXCEPT ![i].slot = s][j] = slabs[j]
<1> DEFINE r == [slabs[i] EXCEPT !.slot = s]
           w == [slabs EXCEPT ![i] = r]
<1>1. slabs[i] \in PoolSlabRecord
    OBVIOUS
<1>2. r \in PoolSlabRecord /\ r.slot = s /\ r.start = slabs[i].start
      /\ r.capacity = slabs[i].capacity /\ r.central_free_len = slabs[i].central_free_len
      /\ r.partial_free = slabs[i].partial_free /\ r.state = slabs[i].state
    BY <1>1 DEF PoolSlabRecord
<1>3. w = [slabs EXCEPT ![i].slot = s]
    OBVIOUS
<1> HIDE DEF r
<1>4. w \in Seq(PoolSlabRecord) /\ DOMAIN w = DOMAIN slabs
    BY <1>2
<1>5. w[i] = r /\ \A j \in DOMAIN slabs : j # i => w[j] = slabs[j]
    OBVIOUS
<1> HIDE DEF w
<1>6. SameButSlot(slabs, w)
    BY <1>2, <1>4, <1>5 DEF SameButSlot
<1> QED BY <1>2, <1>3, <1>4, <1>5, <1>6

\* The remainder that the cursor is reduced to.
LEMMA Remainder ==
    ASSUME NEW a \in Nat, NEW n \in Nat \ {0}
    PROVE  a % n \in Nat /\ a % n < n
    OBVIOUS

\* The pool with other slots, another vector for one bucket, and the cursor reduced.
Rebucketed(p, b, v, w) == NormalizeCursor([p EXCEPT !.bucket[b] = v, !.slabs = w])

\* A bucket and the slots may be changed together, if they agree.
LEMMA RebucketedIs ==
    ASSUME NEW p, NEW S, Bucketed(p, S), NEW b \in BucketNames, NEW v \in Seq(Nat),
           NEW w \in Seq(PoolSlabRecord), SameButSlot(p.slabs, w),
           NEW T \in [DOMAIN p.slabs -> SlabStates],
           Listed(w, v, Members(T, b)),
           \A c \in BucketNames \ {b} : Members(T, c) = Members(S, c),
           \A c \in BucketNames \ {b} : \A j \in Members(S, c) : w[j].slot = p.slabs[j].slot,
           \A j \in DOMAIN p.slabs : w[j].slot = 0 <=> T[j] = "Loaned"
    PROVE  Bucketed(Rebucketed(p, b, v, w), T) /\ BucketsOnly(p, Rebucketed(p, b, v, w))
<1> DEFINE bk == [p.bucket EXCEPT ![b] = v]
           h == bk["FullHot"]
           k == IF h = <<>> THEN 0 ELSE p.cursor % Len(h)
           q == Rebucketed(p, b, v, w)
<1>1. p \in PoolRecord
    BY DEF Bucketed
<1>2. p.bucket \in [BucketNames -> Seq(Nat)] /\ p.cursor \in Nat
    BY <1>1 DEF PoolRecord
<1>3. /\ bk \in [BucketNames -> Seq(Nat)] /\ bk[b] = v
      /\ \A c \in BucketNames \ {b} : bk[c] = p.bucket[c]
    BY <1>2
<1>4. "FullHot" \in BucketNames
    BY DEF BucketNames
<1>5. h \in Seq(Nat)
    BY <1>3, <1>4
<1>6. q = [p EXCEPT !.bucket = bk, !.slabs = w, !.cursor = k]
    BY <1>1 DEF Rebucketed, NormalizeCursor, PoolRecord
<1> HIDE DEF bk, h
<1>7. k \in Nat /\ (h = <<>> => k = 0) /\ (h # <<>> => k < Len(h))
    <2>1. CASE h = <<>>
        BY <2>1
    <2>2. CASE h # <<>>
        <3> DEFINE n == Len(h)
        <3>1. n \in Nat \ {0}
            BY <2>2, <1>5
        <3> HIDE DEF n
        <3>2. p.cursor % n \in Nat /\ p.cursor % n < n
            BY ONLY <3>1, <1>2, Remainder
        <3>3. k = p.cursor % n
            BY <2>2 DEF n
        <3> QED BY <3>2, <3>3, <2>2 DEF n
    <2> QED BY <2>1, <2>2
<1> HIDE DEF k, q
<1>8. /\ q \in PoolRecord /\ q.bucket = bk /\ q.slabs = w /\ q.cursor = k
      /\ q.age = p.age /\ q.by_start = p.by_start /\ q.phase = p.phase /\ q.recent = p.recent
    BY ONLY <1>1, <1>3, <1>6, <1>7, w \in Seq(PoolSlabRecord) DEF PoolRecord
<1>9. DOMAIN q.slabs = DOMAIN p.slabs
    BY <1>8 DEF SameButSlot
<1>10. ASSUME NEW c \in BucketNames PROVE Listed(q.slabs, q.bucket[c], Members(T, c))
    <2>1. CASE c = b
        BY <2>1, <1>3, <1>8
    <2>2. CASE c # b
        <3>1. bk[c] = p.bucket[c] /\ Members(T, c) = Members(S, c)
            BY <2>2, <1>3
        <3>2. \A j \in Members(S, c) : w[j].slot = p.slabs[j].slot
            BY <2>2
        <3>3. Listed(p.slabs, p.bucket[c], Members(S, c))
            BY DEF Bucketed
        <3>4. Listed(w, p.bucket[c], Members(S, c))
            BY ONLY <3>2, <3>3 DEF Listed
        <3> QED BY <3>1, <3>4, <1>8
    <2> QED BY <2>1, <2>2
<1>11. q.bucket["FullHot"] = h
    BY <1>8 DEF h
<1>12. \A j \in DOMAIN q.slabs : q.slabs[j].slot = 0 <=> T[j] = "Loaned"
    BY <1>8, <1>9
<1>13. Bucketed(q, T)
    BY <1>7, <1>8, <1>9, <1>10, <1>11, <1>12 DEF Bucketed
<1>14. BucketsOnly(p, q)
    BY <1>8 DEF BucketsOnly, SameButSlot
<1> QED BY <1>13, <1>14 DEF q

\* Where slab i is listed after a move to state t.
Moved(S, i, t) == [S EXCEPT ![i] = t]

\* A move of one slab concerns only the bucket it leaves and the one it enters.
LEMMA MovedIs ==
    ASSUME NEW D, NEW S \in [D -> SlabStates], NEW i \in D, NEW t \in SlabStates
    PROVE  /\ Moved(S, i, t) \in [D -> SlabStates]
           /\ Moved(S, i, t)[i] = t /\ \A j \in D : j # i => Moved(S, i, t)[j] = S[j]
           /\ \A b \in BucketNames \ {t} : Members(Moved(S, i, t), b) = Members(S, b) \ {i}
           /\ t \in BucketNames => Members(Moved(S, i, t), t) = Members(S, t) \cup {i}
<1> DEFINE T == Moved(S, i, t)
<1>1. T \in [D -> SlabStates] /\ T[i] = t /\ \A j \in D : j # i => T[j] = S[j]
    BY DEF Moved
<1> HIDE DEF T
<1>2. DOMAIN T = D /\ DOMAIN S = D
    BY <1>1
<1>3. \A b \in BucketNames \ {t} : Members(T, b) = Members(S, b) \ {i}
    BY <1>1, <1>2 DEF Members
<1>4. t \in BucketNames => Members(T, t) = Members(S, t) \cup {i}
    BY <1>1, <1>2 DEF Members
<1> QED BY <1>1, <1>3, <1>4 DEF T

\* The pool with other slots only.
Slotted(p, w) == [p EXCEPT !.slabs = w]

\* A write of the slot of a slab that is in no bucket.
LEMMA SlottedIs ==
    ASSUME NEW p, NEW S, Bucketed(p, S), NEW w \in Seq(PoolSlabRecord), SameButSlot(p.slabs, w),
           \A j \in DOMAIN p.slabs : w[j].slot = p.slabs[j].slot
    PROVE  Bucketed(Slotted(p, w), S) /\ BucketsOnly(p, Slotted(p, w))
<1> DEFINE q == Slotted(p, w)
<1>1. p \in PoolRecord
    BY DEF Bucketed
<1>2. q = [p EXCEPT !.slabs = w]
    BY DEF Slotted
<1> HIDE DEF q
<1>3. /\ q \in PoolRecord /\ q.slabs = w /\ q.bucket = p.bucket /\ q.cursor = p.cursor
      /\ q.age = p.age /\ q.by_start = p.by_start /\ q.phase = p.phase /\ q.recent = p.recent
    BY ONLY <1>1, <1>2, w \in Seq(PoolSlabRecord) DEF PoolRecord
<1>4. DOMAIN q.slabs = DOMAIN p.slabs /\ DOMAIN S = DOMAIN p.slabs
    BY <1>3 DEF SameButSlot, Bucketed
<1>5. ASSUME NEW b \in BucketNames PROVE Listed(q.slabs, q.bucket[b], Members(S, b))
    <2>1. Listed(p.slabs, p.bucket[b], Members(S, b))
        BY DEF Bucketed
    <2>2. \A j \in Members(S, b) : w[j].slot = p.slabs[j].slot
        BY <1>4 DEF Members
    <2>3. Listed(w, p.bucket[b], Members(S, b))
        BY ONLY <2>1, <2>2 DEF Listed
    <2> QED BY <2>3, <1>3
<1>6. Bucketed(q, S)
    BY <1>3, <1>4, <1>5 DEF Bucketed
<1>7. BucketsOnly(p, q)
    BY <1>3 DEF BucketsOnly, SameButSlot
<1> QED BY <1>6, <1>7 DEF q

\* add_to_bucket of a slab that is in no bucket.
LEMMA AddToBucketIs ==
    ASSUME NEW p, NEW S, Bucketed(p, S), NEW i \in DOMAIN p.slabs, S[i] = "Loaned",
           NEW t \in SlabStates
    PROVE  /\ Bucketed(AddToBucket(p, i, t), Moved(S, i, t))
           /\ BucketsOnly(p, AddToBucket(p, i, t))
<1>1. /\ p \in PoolRecord /\ S \in [DOMAIN p.slabs -> SlabStates] /\ p.slabs[i].slot = 0
      /\ \A b \in BucketNames : Listed(p.slabs, p.bucket[b], Members(S, b))
      /\ \A j \in DOMAIN p.slabs : p.slabs[j].slot = 0 <=> S[j] = "Loaned"
    BY DEF Bucketed
<1>2. p.slabs \in Seq(PoolSlabRecord) /\ p.bucket \in [BucketNames -> Seq(Nat)] /\ i \in Nat
    BY <1>1 DEF PoolRecord
<1>3. "Loaned" \notin BucketNames /\ "Loaned" \in SlabStates
    BY DEF BucketNames, SlabStates
<1> DEFINE T == Moved(S, i, t)
<1>4. /\ T \in [DOMAIN p.slabs -> SlabStates]
      /\ T[i] = t /\ \A j \in DOMAIN p.slabs : j # i => T[j] = S[j]
      /\ \A b \in BucketNames \ {t} : Members(T, b) = Members(S, b) \ {i}
      /\ t \in BucketNames => Members(T, t) = Members(S, t) \cup {i}
    BY <1>1, MovedIs
<1> HIDE DEF T
<1>5. CASE t \notin BucketNames
    <2> DEFINE z == 0
               w == [p.slabs EXCEPT ![i].slot = z]
    <2>1. AddToBucket(p, i, t) = Slotted(p, w)
        BY <1>1, <1>5 DEF AddToBucket, Slotted, PoolRecord
    <2>2. z \in Nat
        OBVIOUS
    <2> HIDE DEF z
    <2>3. /\ w \in Seq(PoolSlabRecord) /\ SameButSlot(p.slabs, w) /\ w[i].slot = z
          /\ \A j \in DOMAIN p.slabs : j # i => w[j] = p.slabs[j]
        BY <2>2, <1>2, PoolSlotWritten
    <2> HIDE DEF w
    <2>4. \A j \in DOMAIN p.slabs : w[j].slot = p.slabs[j].slot
        BY <2>3, <1>1 DEF z
    <2>5. t = "Loaned"
        BY <1>5 DEF SlabStates
    <2>6. T = S
        BY <2>5, <1>1, <1>4
    <2> QED BY <2>1, <2>3, <2>4, <2>6, SlottedIs DEF T
<1>6. CASE t \in BucketNames
    <2> DEFINE u == p.bucket[t]
               s == Len(u) + 1
               v == Append(u, i)
               w == [p.slabs EXCEPT ![i].slot = s]
    <2>1. AddToBucket(p, i, t) = Rebucketed(p, t, v, w)
        BY <1>1, <1>6 DEF AddToBucket, Rebucketed, PoolRecord
    <2>2. u \in Seq(Nat) /\ s \in Nat \ {0} /\ v \in Seq(Nat)
        BY <1>2, <1>6
    <2> HIDE DEF s
    <2>3. /\ w \in Seq(PoolSlabRecord) /\ SameButSlot(p.slabs, w) /\ w[i].slot = s
          /\ \A j \in DOMAIN p.slabs : j # i => w[j] = p.slabs[j]
        <3>1. s \in Nat /\ i \in DOMAIN p.slabs
            BY <2>2
        <3> QED BY ONLY <3>1, <1>2, PoolSlotWritten
    <2> HIDE DEF w
    <2>4. \A b \in BucketNames : i \notin Members(S, b) /\ Members(S, b) \subseteq DOMAIN p.slabs
        BY <1>1, <1>3 DEF Members
    <2>5. Listed(w, v, Members(T, t))
        <3>1. Listed(p.slabs, u, Members(S, t)) /\ i \notin Members(S, t)
            BY <2>4, <1>1, <1>6
        <3>2. \A j \in Members(S, t) : w[j].slot = p.slabs[j].slot
            BY <2>3, <2>4, <1>6
        <3>3. w[i].slot = Len(u) + 1
            BY <2>3 DEF s
        <3> HIDE DEF u
        <3>4. Listed(w, Append(u, i), Members(S, t) \cup {i})
            BY ONLY <3>1, <3>2, <3>3, <2>2, <1>2, ListedPush
        <3> QED BY <3>4, <1>4, <1>6
    <2>6. \A c \in BucketNames \ {t} : Members(T, c) = Members(S, c)
        BY <2>4, <1>4
    <2>7. \A c \in BucketNames \ {t} : \A j \in Members(S, c) : w[j].slot = p.slabs[j].slot
        BY <2>3, <2>4
    <2>8. \A j \in DOMAIN p.slabs : w[j].slot = 0 <=> T[j] = "Loaned"
        BY <2>2, <2>3, <1>1, <1>3, <1>4, <1>6
    <2> HIDE DEF v
    <2>9. Bucketed(p, S)
        OBVIOUS
    <2> QED BY ONLY <2>1, <2>2, <2>3, <2>5, <2>6, <2>7, <2>8, <2>9, <1>4, <1>6, RebucketedIs DEF T
<1> QED BY <1>5, <1>6

\* remove_from_bucket of a slab from the bucket that lists it.
LEMMA RemoveFromBucketIs ==
    ASSUME NEW p, NEW S, Bucketed(p, S), NEW i \in DOMAIN p.slabs
    PROVE  /\ Bucketed(RemoveFromBucket(p, i, S[i]), Moved(S, i, "Loaned"))
           /\ BucketsOnly(p, RemoveFromBucket(p, i, S[i]))
<1>1. /\ p \in PoolRecord /\ S \in [DOMAIN p.slabs -> SlabStates]
      /\ \A c \in BucketNames : Listed(p.slabs, p.bucket[c], Members(S, c))
      /\ \A j \in DOMAIN p.slabs : p.slabs[j].slot = 0 <=> S[j] = "Loaned"
    BY DEF Bucketed
<1>2. p.slabs \in Seq(PoolSlabRecord) /\ p.bucket \in [BucketNames -> Seq(Nat)] /\ i \in Nat
    BY <1>1 DEF PoolRecord
<1> DEFINE ln == "Loaned"
<1>3. ln \notin BucketNames /\ ln \in SlabStates
    BY DEF BucketNames, SlabStates
<1> HIDE DEF ln
<1> DEFINE T == Moved(S, i, ln)
           b == S[i]
           z == 0
           f == [p.slabs EXCEPT ![i].slot = z]
<1>4. /\ T \in [DOMAIN p.slabs -> SlabStates]
      /\ T[i] = ln /\ \A j \in DOMAIN p.slabs : j # i => T[j] = S[j]
      /\ \A c \in BucketNames : Members(T, c) = Members(S, c) \ {i}
    <2>1. /\ T \in [DOMAIN p.slabs -> SlabStates]
          /\ T[i] = ln /\ \A j \in DOMAIN p.slabs : j # i => T[j] = S[j]
          /\ \A c \in BucketNames \ {ln} : Members(T, c) = Members(S, c) \ {i}
        BY <1>1, <1>3, MovedIs
    <2>2. BucketNames \ {ln} = BucketNames
        BY <1>3
    <2> QED BY <2>1, <2>2
<1>5. z \in Nat
    OBVIOUS
<1> HIDE DEF T, z
<1>6. /\ f \in Seq(PoolSlabRecord) /\ SameButSlot(p.slabs, f) /\ f[i].slot = z
      /\ \A j \in DOMAIN p.slabs : j # i => f[j] = p.slabs[j]
    BY <1>2, <1>5, PoolSlotWritten
<1>7. CASE b = ln
    <2>1. RemoveFromBucket(p, i, b) = Slotted(p, f)
        BY <1>3, <1>7 DEF RemoveFromBucket, Slotted, z
    <2> HIDE DEF f
    <2>2. \A j \in DOMAIN p.slabs : f[j].slot = p.slabs[j].slot
        BY <1>1, <1>6, <1>7 DEF z, ln
    <2>3. T = S
        BY <1>1, <1>4, <1>7
    <2> QED BY <2>1, <2>2, <2>3, <1>6, SlottedIs DEF T, b, ln
<1>8. CASE b # ln
    <2>1. b \in BucketNames
        BY <1>1, <1>8 DEF SlabStates, ln
    <2> DEFINE slot == p.slabs[i].slot
               u == p.bucket[b]
               v == SwapRemove(u, slot)
               g == [f EXCEPT ![v[slot]].slot = slot]
               w == IF slot <= Len(v) THEN g ELSE f
               M == Members(S, b)
    <2>2. i \in M /\ slot # 0 /\ M \subseteq DOMAIN p.slabs
        BY <1>1, <1>8 DEF Members, ln
    <2>3. RemoveFromBucket(p, i, b) = Rebucketed(p, b, v, w)
        BY <2>1, <2>2, <1>1 DEF RemoveFromBucket, Rebucketed, PoolRecord, z
    <2>4. u \in Seq(Nat) /\ Listed(p.slabs, u, M)
        BY <2>1, <1>1, <1>2
    <2> HIDE DEF u, M, b
    <2>5. slot \in 1 .. Len(u) /\ slot \in Nat /\ Len(u) \in Nat /\ u[slot] = i
        BY <2>2, <2>4 DEF Listed
    <2>6. /\ \A j \in M : p.slabs[j].slot \in 1 .. Len(u) /\ u[p.slabs[j].slot] = j
          /\ \A k \in 1 .. Len(u) : u[k] \in M /\ p.slabs[u[k]].slot = k
        BY ONLY SMTT(30), <2>4 DEF Listed
    <2> HIDE DEF slot
    <2>7. /\ v \in Seq(Nat) /\ Len(v) = Len(u) - 1
          /\ \A k \in 1 .. Len(u) - 1 : (k = slot => v[k] = u[Len(u)]) /\ (k # slot => v[k] = u[k])
        BY ONLY <2>4, <2>5, SwapRemoveIs
    <2> HIDE DEF v, f
    <2>8. /\ w \in Seq(PoolSlabRecord) /\ SameButSlot(p.slabs, w) /\ w[i].slot = 0
          /\ \A j \in DOMAIN p.slabs \ M : w[j].slot = p.slabs[j].slot
          /\ \A j \in M \ {i} : w[j].slot = IF p.slabs[j].slot = Len(u) THEN slot
                                            ELSE p.slabs[j].slot
        <3>1. CASE slot <= Len(v)
            <4> DEFINE m == v[slot]
            <4>1. slot \in 1 .. Len(u) - 1
                BY <3>1, <2>5, <2>7
            <4>2. m = u[Len(u)]
                BY ONLY <4>1, <2>7
            <4>3. m \in M /\ p.slabs[m].slot = Len(u)
                BY <4>1, <4>2, <2>5, <2>6
            <4>4. m # i
                BY <4>1, <4>3, <2>5 DEF slot
            <4>5. w = [f EXCEPT ![m].slot = slot]
                BY <3>1
            <4>6. DOMAIN f = DOMAIN p.slabs
                BY <1>6 DEF SameButSlot
            <4>7. m \in DOMAIN f
                BY <4>3, <4>6, <2>2
            <4> HIDE DEF m, w
            <4>8. /\ w \in Seq(PoolSlabRecord) /\ SameButSlot(f, w) /\ w[m].slot = slot
                  /\ \A j \in DOMAIN f : j # m => w[j] = f[j]
                BY ONLY <4>5, <4>7, <2>5, <1>6, PoolSlotWritten
            <4>9. \A j \in M \ {i} : p.slabs[j].slot = Len(u) <=> j = m
                BY <4>2, <4>3, <2>6
            <4>10. SameButSlot(p.slabs, w)
                BY <4>8, <1>6 DEF SameButSlot
            <4>11. w[i].slot = 0
                BY <4>4, <4>6, <4>8, <1>6 DEF z
            <4>12. \A j \in DOMAIN p.slabs \ M : w[j].slot = p.slabs[j].slot
                BY <4>3, <4>6, <4>8, <2>2, <1>6
            <4>13. \A j \in M \ {i} : w[j].slot = IF p.slabs[j].slot = Len(u) THEN slot
                                                  ELSE p.slabs[j].slot
                BY <4>6, <4>8, <4>9, <2>2, <1>6
            <4> QED BY <4>8, <4>10, <4>11, <4>12, <4>13
        <3>2. CASE ~(slot <= Len(v))
            <4>1. slot = Len(u)
                BY <3>2, <2>5, <2>7
            <4>2. \A j \in M \ {i} : p.slabs[j].slot # Len(u)
                BY <4>1, <2>5, <2>6
            <4>3. w = f
                BY <3>2
            <4> HIDE DEF w
            <4> QED BY <4>2, <4>3, <2>2, <1>6 DEF z
        <3> QED BY <3>1, <3>2
    <2> HIDE DEF w
    <2>9. Listed(w, v, Members(T, b))
        <3>1. \A j \in M \ {i} : w[j].slot = IF p.slabs[j].slot = Len(u) THEN p.slabs[i].slot
                                             ELSE p.slabs[j].slot
            BY <2>8 DEF slot
        <3>2. Listed(w, SwapRemove(u, p.slabs[i].slot), M \ {i})
            BY ONLY <3>1, <2>2, <2>4, ListedSwapRemove
        <3>3. Members(T, b) = M \ {i}
            BY <2>1, <1>4 DEF M
        <3> QED BY <3>2, <3>3 DEF v, slot
    <2>10. \A c \in BucketNames \ {b} : i \notin Members(S, c) /\ Members(S, c) \cap M = {}
        BY DEF Members, M, b
    <2>11. \A c \in BucketNames \ {b} : Members(T, c) = Members(S, c)
        BY <2>10, <1>4
    <2>12. \A c \in BucketNames \ {b} : \A j \in Members(S, c) : w[j].slot = p.slabs[j].slot
        <3>1. \A c \in BucketNames : Members(S, c) \subseteq DOMAIN p.slabs
            BY <1>1 DEF Members
        <3> QED BY <3>1, <2>8, <2>10
    <2>13. \A j \in DOMAIN p.slabs : w[j].slot = 0 <=> T[j] = "Loaned"
        <3>1. ASSUME NEW j \in M \ {i} PROVE w[j].slot # 0 /\ T[j] # "Loaned"
            <4>1. w[j].slot # 0
                BY <2>2, <2>5, <2>6, <2>8
            <4>2. T[j] = b
                BY <2>2, <1>4 DEF M, Members
            <4> QED BY <4>1, <4>2, <1>8 DEF ln
        <3>2. ASSUME NEW j \in DOMAIN p.slabs \ M PROVE w[j].slot = 0 <=> T[j] = "Loaned"
            BY <2>2, <2>8, <1>1, <1>4
        <3>3. w[i].slot = 0 /\ T[i] = "Loaned"
            BY <2>8, <1>4 DEF ln
        <3> QED BY <3>1, <3>2, <3>3
    <2>14. Bucketed(p, S)
        OBVIOUS
    <2>15. /\ Bucketed(Rebucketed(p, b, v, w), T) /\ BucketsOnly(p, Rebucketed(p, b, v, w))
        BY ONLY <2>1, <2>7, <2>8, <2>9, <2>11, <2>12, <2>13, <2>14, <1>4, RebucketedIs
    <2> QED BY <2>3, <2>15 DEF T, b, ln
<1> QED BY <1>7, <1>8

\* reconcile_bucket_state: the slab goes where its state says.
LEMMA ReconcileIs ==
    ASSUME NEW p, NEW S, Bucketed(p, S), NEW i \in DOMAIN p.slabs
    PROVE  /\ Bucketed(Reconcile(p, i, S[i]), Moved(S, i, p.slabs[i].state))
           /\ BucketsOnly(p, Reconcile(p, i, S[i]))
<1> DEFINE t == p.slabs[i].state
           d == RemoveFromBucket(p, i, S[i])
           ln == "Loaned"
           T == Moved(S, i, ln)
<1>1. p \in PoolRecord /\ S \in [DOMAIN p.slabs -> SlabStates] /\ p.slabs \in Seq(PoolSlabRecord)
    BY DEF Bucketed, PoolRecord
<1>2. t \in SlabStates
    <2>1. p.slabs[i] \in PoolSlabRecord
        BY <1>1
    <2> QED BY <2>1 DEF PoolSlabRecord
<1>3. CASE S[i] = t
    <2>1. Reconcile(p, i, S[i]) = p
        BY <1>3 DEF Reconcile
    <2>2. Moved(S, i, t) = S
        BY <1>1, <1>3 DEF Moved
    <2>3. BucketsOnly(p, p)
        BY <1>1 DEF BucketsOnly
    <2> QED BY <2>1, <2>2, <2>3
<1>4. CASE S[i] # t
    <2>1. Bucketed(d, T) /\ BucketsOnly(p, d)
        BY RemoveFromBucketIs
    <2>2. Reconcile(p, i, S[i]) = AddToBucket(d, i, t)
        BY <1>4 DEF Reconcile
    <2>3. T[i] = ln /\ Moved(T, i, t) = Moved(S, i, t)
        BY <1>1 DEF Moved
    <2>4. i \in DOMAIN d.slabs
        BY <2>1 DEF BucketsOnly
    <2> HIDE DEF d, T, t
    <2>5. Bucketed(AddToBucket(d, i, t), Moved(T, i, t)) /\ BucketsOnly(d, AddToBucket(d, i, t))
        BY <2>1, <2>3, <2>4, <1>2, AddToBucketIs
    <2>6. BucketsOnly(p, AddToBucket(d, i, t))
        BY ONLY <2>1, <2>5 DEF BucketsOnly
    <2>7. /\ Bucketed(Reconcile(p, i, S[i]), Moved(S, i, t))
          /\ BucketsOnly(p, Reconcile(p, i, S[i]))
        BY <2>2, <2>3, <2>5, <2>6
    <2> QED BY <2>7 DEF t
<1> QED BY <1>3, <1>4

-----------------------------------------------------------------------------
\* A list holds blocks of the slab only.
Inside(slab) == \A k \in DOMAIN slab.partial_free : SlabContains(slab, slab.partial_free[k])

\* The pool apart from its buckets: shortcut, ages, phase, index, spans and lists.
PoolTable(p) ==
    /\ p \in PoolRecord
    /\ p.recent <= Len(p.slabs)
    /\ DOMAIN p.age = DOMAIN p.slabs
    /\ \A i \in DOMAIN p.slabs : p.age[i] <= ColdEpochs
    /\ p.phase < SweepInterval
    /\ Indexed(p)
    /\ SpansRecorded(p)
    /\ \A i \in DOMAIN p.slabs : Inside(p.slabs[i])

PoolSound(p) == PoolTable(p) /\ Bucketed(p, States(p))

\* The slabs stay where they are.
SameSpans(p, q) ==
    /\ DOMAIN q.slabs = DOMAIN p.slabs
    /\ \A i \in DOMAIN p.slabs : /\ q.slabs[i].start = p.slabs[i].start
                                 /\ q.slabs[i].capacity = p.slabs[i].capacity

\* Work on the buckets leaves the table as it is.
LEMMA BucketsOnlyTable ==
    ASSUME NEW p, NEW q, PoolTable(p), BucketsOnly(p, q)
    PROVE  PoolTable(q) /\ SameSpans(p, q) /\ States(q) = States(p)
<1>1. /\ q \in PoolRecord /\ p \in PoolRecord
      /\ q.age = p.age /\ q.by_start = p.by_start /\ q.phase = p.phase /\ q.recent = p.recent
      /\ DOMAIN q.slabs = DOMAIN p.slabs
    BY DEF BucketsOnly, PoolTable
<1>2. \A i \in DOMAIN p.slabs :
          /\ q.slabs[i].start = p.slabs[i].start
          /\ q.slabs[i].capacity = p.slabs[i].capacity
          /\ q.slabs[i].partial_free = p.slabs[i].partial_free
          /\ q.slabs[i].state = p.slabs[i].state
    BY DEF BucketsOnly
<1>3. p.slabs \in Seq(PoolSlabRecord) /\ q.slabs \in Seq(PoolSlabRecord)
    BY <1>1 DEF PoolRecord
<1>4. Len(q.slabs) = Len(p.slabs)
    BY <1>1, <1>3
<1>5. Indexed(q) /\ SpansRecorded(q)
    <2>1. Indexed(p) /\ SpansRecorded(p)
        BY DEF PoolTable
    <2>2. \A i \in DOMAIN p.slabs : q.slabs[i].start = p.slabs[i].start
                                    /\ q.slabs[i].capacity = p.slabs[i].capacity
        BY <1>2
    <2> QED BY ONLY <2>1, <2>2, <1>1, TableKept
<1>6. \A i \in DOMAIN p.slabs : Inside(q.slabs[i])
    <2>1. \A i \in DOMAIN p.slabs : Inside(p.slabs[i])
        BY DEF PoolTable
    <2> QED BY ONLY <2>1, <1>2 DEF Inside, SlabContains
<1>7. States(q) = States(p)
    BY <1>1, <1>2 DEF States
<1>8. SameSpans(p, q)
    BY <1>1, <1>2 DEF SameSpans
<1>9. PoolTable(q)
    BY <1>1, <1>4, <1>5, <1>6 DEF PoolTable
<1> QED BY <1>7, <1>8, <1>9

\* One slab whose state changed is reconciled, and the pool is sound.
LEMMA ReconciledSound ==
    ASSUME NEW p, PoolTable(p), NEW S, Bucketed(p, S), NEW i \in DOMAIN p.slabs,
           \A j \in DOMAIN p.slabs : j # i => S[j] = p.slabs[j].state
    PROVE  PoolSound(Reconcile(p, i, S[i])) /\ BucketsOnly(p, Reconcile(p, i, S[i]))
<1> DEFINE q == Reconcile(p, i, S[i])
           T == Moved(S, i, p.slabs[i].state)
<1>1. Bucketed(q, T) /\ BucketsOnly(p, q)
    BY ReconcileIs
<1> HIDE DEF q
<1>2. PoolTable(q) /\ States(q) = States(p)
    BY <1>1, BucketsOnlyTable
<1>3. T = States(p)
    <2>1. S \in [DOMAIN p.slabs -> SlabStates]
        BY DEF Bucketed
    <2> QED BY <2>1 DEF Moved, States
<1> HIDE DEF T
<1> QED BY <1>1, <1>2, <1>3 DEF PoolSound, q

-----------------------------------------------------------------------------
\* The pool with another record for slab i, other ages, shortcut and cursor.
WithSlab(p, i, r, a, k, c) == [p EXCEPT !.slabs[i] = r, !.age = a, !.recent = k, !.cursor = c]

\* A record that may take the place of slab i: the same span, still at its slot.
RecordFits(p, i, r) ==
    /\ r \in PoolSlabRecord
    /\ r.start = p.slabs[i].start /\ r.capacity = p.slabs[i].capacity /\ r.slot = p.slabs[i].slot
    /\ Inside(r)

AgesFit(p, a) ==
    /\ a \in Seq(Nat) /\ DOMAIN a = DOMAIN p.slabs
    /\ \A j \in DOMAIN p.slabs : a[j] <= ColdEpochs

CursorFits(p, c) ==
    /\ c \in Nat
    /\ p.bucket["FullHot"] = <<>> => c = 0
    /\ p.bucket["FullHot"] # <<>> => c < Len(p.bucket["FullHot"])

SameContents(x, y) ==
    /\ y.start = x.start /\ y.capacity = x.capacity
    /\ y.central_free_len = x.central_free_len /\ y.partial_free = x.partial_free
    /\ y.state = x.state

\* Slab i became r and the others kept their contents.
Became(p, q, i, r) ==
    /\ DOMAIN q.slabs = DOMAIN p.slabs
    /\ SameContents(r, q.slabs[i])
    /\ \A j \in DOMAIN p.slabs : j # i => SameContents(p.slabs[j], q.slabs[j])

\* A slab rewritten in place, not reconciled yet.
LEMMA WithSlabIs ==
    ASSUME NEW p, PoolSound(p), NEW i \in DOMAIN p.slabs, NEW r, RecordFits(p, i, r),
           NEW a, AgesFit(p, a), NEW k \in 0 .. Len(p.slabs), NEW c, CursorFits(p, c)
    PROVE  /\ PoolTable(WithSlab(p, i, r, a, k, c))
           /\ Bucketed(WithSlab(p, i, r, a, k, c), States(p))
           /\ Became(p, WithSlab(p, i, r, a, k, c), i, r)
           /\ WithSlab(p, i, r, a, k, c).slabs[i] = r
           /\ WithSlab(p, i, r, a, k, c).recent = k
           /\ WithSlab(p, i, r, a, k, c).by_start = p.by_start
<1> DEFINE w == [p.slabs EXCEPT ![i] = r]
           d == WithSlab(p, i, r, a, k, c)
<1>1. PoolTable(p) /\ Bucketed(p, States(p)) /\ p \in PoolRecord
    BY DEF PoolSound, PoolTable
<1>2. p.slabs \in Seq(PoolSlabRecord) /\ r \in PoolSlabRecord
    BY <1>1 DEF PoolRecord, RecordFits
<1>3. w \in Seq(PoolSlabRecord) /\ DOMAIN w = DOMAIN p.slabs /\ Len(w) = Len(p.slabs)
      /\ w[i] = r /\ \A j \in DOMAIN p.slabs : j # i => w[j] = p.slabs[j]
    BY <1>2
<1>4. d = [p EXCEPT !.slabs = w, !.age = a, !.recent = k, !.cursor = c]
    BY <1>1 DEF WithSlab, PoolRecord
<1>5. a \in Seq(Nat) /\ k \in Nat /\ c \in Nat /\ k <= Len(p.slabs)
    BY <1>2 DEF AgesFit, CursorFits
<1> HIDE DEF w, d
<1>6. /\ d \in PoolRecord /\ d.slabs = w /\ d.age = a /\ d.recent = k /\ d.cursor = c
      /\ d.by_start = p.by_start /\ d.phase = p.phase /\ d.bucket = p.bucket
    BY ONLY <1>1, <1>3, <1>4, <1>5 DEF PoolRecord
<1>7. r.start = p.slabs[i].start /\ r.capacity = p.slabs[i].capacity /\ r.slot = p.slabs[i].slot
      /\ Inside(r)
    BY DEF RecordFits
<1>8. /\ DOMAIN d.slabs = DOMAIN p.slabs
      /\ \A j \in DOMAIN p.slabs : /\ d.slabs[j].start = p.slabs[j].start
                                   /\ d.slabs[j].capacity = p.slabs[j].capacity
                                   /\ d.slabs[j].slot = p.slabs[j].slot
    BY ONLY <1>3, <1>6, <1>7
<1>9. Indexed(d) /\ SpansRecorded(d)
    <2>1. Indexed(p) /\ SpansRecorded(p)
        BY <1>1 DEF PoolTable
    <2> QED BY ONLY <2>1, <1>6, <1>8, TableKept
<1>10. PoolTable(d)
    <2>1. \A j \in DOMAIN d.slabs : Inside(d.slabs[j])
        BY <1>1, <1>3, <1>6, <1>7 DEF PoolTable
    <2>2. Len(d.slabs) = Len(p.slabs) /\ p.phase < SweepInterval
        BY <1>1, <1>3, <1>6 DEF PoolTable
    <2>3. DOMAIN d.age = DOMAIN d.slabs /\ \A j \in DOMAIN d.slabs : d.age[j] <= ColdEpochs
        BY <1>6, <1>8 DEF AgesFit
    <2> QED BY <2>1, <2>2, <2>3, <1>5, <1>6, <1>9 DEF PoolTable
<1>11. Bucketed(d, States(p))
    <2> DEFINE S == States(p)
    <2>1. /\ S \in [DOMAIN p.slabs -> SlabStates]
          /\ \A b \in BucketNames : Listed(p.slabs, p.bucket[b], Members(S, b))
          /\ \A j \in DOMAIN p.slabs : p.slabs[j].slot = 0 <=> S[j] = "Loaned"
        BY <1>1 DEF Bucketed
    <2> HIDE DEF S
    <2>2. ASSUME NEW b \in BucketNames PROVE Listed(d.slabs, d.bucket[b], Members(S, b))
        <3>1. \A j \in Members(S, b) : d.slabs[j].slot = p.slabs[j].slot
            BY <2>1, <1>8 DEF Members
        <3>2. Listed(p.slabs, d.bucket[b], Members(S, b))
            BY <2>1, <1>6
        <3> QED BY ONLY <3>1, <3>2 DEF Listed
    <2>3. \A j \in DOMAIN d.slabs : d.slabs[j].slot = 0 <=> S[j] = "Loaned"
        BY ONLY <2>1, <1>8
    <2>4. /\ d.bucket["FullHot"] = <<>> => d.cursor = 0
          /\ d.bucket["FullHot"] # <<>> => d.cursor < Len(d.bucket["FullHot"])
        BY <1>6 DEF CursorFits
    <2>5. Bucketed(d, S)
        BY <2>1, <2>2, <2>3, <2>4, <1>6, <1>8 DEF Bucketed
    <2> QED BY <2>5 DEF S
<1>12. Became(p, d, i, r)
    BY <1>3, <1>6 DEF Became, SameContents
<1> QED BY <1>3, <1>6, <1>10, <1>11, <1>12 DEF d

\* A slab rewritten in place and reconciled.
LEMMA SlabRewritten ==
    ASSUME NEW p, PoolSound(p), NEW i \in DOMAIN p.slabs, NEW r, RecordFits(p, i, r),
           NEW a, AgesFit(p, a), NEW k \in 0 .. Len(p.slabs), NEW c, CursorFits(p, c),
           NEW q, q = Reconcile(WithSlab(p, i, r, a, k, c), i, p.slabs[i].state)
    PROVE  PoolSound(q) /\ SameSpans(p, q) /\ Became(p, q, i, r)
<1> DEFINE d == WithSlab(p, i, r, a, k, c)
           S == States(p)
<1>1. PoolTable(d) /\ Bucketed(d, S) /\ Became(p, d, i, r) /\ d.slabs[i] = r
    BY WithSlabIs
<1> HIDE DEF d
<1>2. S[i] = p.slabs[i].state /\ DOMAIN d.slabs = DOMAIN p.slabs
    BY <1>1 DEF States, Became
<1>3. \A j \in DOMAIN d.slabs : j # i => S[j] = d.slabs[j].state
    BY <1>1, <1>2 DEF Became, SameContents, States
<1>4. q = Reconcile(d, i, S[i])
    BY <1>2 DEF d
<1> HIDE DEF S
<1>5. PoolSound(q) /\ BucketsOnly(d, q)
    BY <1>1, <1>2, <1>3, <1>4, ReconciledSound
<1>6. Became(p, q, i, r)
    BY ONLY <1>1, <1>2, <1>5, i \in DOMAIN p.slabs DEF Became, BucketsOnly, SameContents
<1>7. SameSpans(p, q)
    BY <1>6 DEF Became, SameContents, SameSpans, RecordFits
<1> QED BY <1>5, <1>6, <1>7

-----------------------------------------------------------------------------
\* The pool with other ages, another phase and another cursor.
Retimed(p, a, ph, c) == [p EXCEPT !.age = a, !.phase = ph, !.cursor = c]

\* New ages, phase and cursor concern neither slabs nor buckets.
LEMMA RetimedIs ==
    ASSUME NEW p, PoolSound(p), NEW a, AgesFit(p, a), NEW ph \in Nat, ph < SweepInterval,
           NEW c, CursorFits(p, c), NEW q, q = Retimed(p, a, ph, c)
    PROVE  /\ PoolSound(q) /\ q.slabs = p.slabs /\ q.bucket = p.bucket
           /\ q.recent = p.recent /\ q.by_start = p.by_start
           /\ q.phase = ph /\ q.cursor = c /\ q.age = a
<1>1. PoolTable(p) /\ Bucketed(p, States(p)) /\ p \in PoolRecord
    BY DEF PoolSound, PoolTable
<1>2. a \in Seq(Nat) /\ c \in Nat /\ q = [p EXCEPT !.age = a, !.phase = ph, !.cursor = c]
    BY DEF AgesFit, CursorFits, Retimed
<1>3. /\ q \in PoolRecord /\ q.slabs = p.slabs /\ q.bucket = p.bucket
      /\ q.recent = p.recent /\ q.by_start = p.by_start
      /\ q.phase = ph /\ q.cursor = c /\ q.age = a
    BY ONLY <1>1, <1>2, ph \in Nat DEF PoolRecord
<1>4. Indexed(q) /\ SpansRecorded(q)
    <2>1. Indexed(p) /\ SpansRecorded(p)
        BY <1>1 DEF PoolTable
    <2> QED BY ONLY <2>1, <1>3, TableKept
<1>5. PoolTable(q)
    BY <1>1, <1>3, <1>4 DEF PoolTable, AgesFit
<1>6. States(q) = States(p)
    BY <1>3 DEF States
<1>7. Bucketed(q, States(p))
    BY <1>1, <1>3 DEF Bucketed, CursorFits
<1> QED BY <1>3, <1>5, <1>6, <1>7 DEF PoolSound

\* The pool's own ages and cursor fit, and so does the touch of one slab.
LEMMA OwnFit ==
    ASSUME NEW p, PoolSound(p)
    PROVE  /\ AgesFit(p, p.age) /\ CursorFits(p, p.cursor)
           /\ p.phase \in Nat /\ p.phase < SweepInterval /\ p.recent \in 0 .. Len(p.slabs)
           /\ p.slabs \in Seq(PoolSlabRecord) /\ p.by_start \in Seq(Nat)
           /\ p.bucket \in [BucketNames -> Seq(Nat)]
           /\ \A i \in DOMAIN p.slabs : AgesFit(p, [p.age EXCEPT ![i] = 0])
<1>1. PoolTable(p) /\ Bucketed(p, States(p)) /\ p \in PoolRecord
    BY DEF PoolSound, PoolTable
<1>2. /\ p.age \in Seq(Nat) /\ p.cursor \in Nat /\ p.phase \in Nat /\ p.recent \in Nat
      /\ p.slabs \in Seq(PoolSlabRecord) /\ p.by_start \in Seq(Nat)
      /\ p.bucket \in [BucketNames -> Seq(Nat)]
    BY <1>1 DEF PoolRecord
<1>3. AgesFit(p, p.age)
    BY <1>1, <1>2 DEF AgesFit, PoolTable
<1>4. CursorFits(p, p.cursor)
    BY <1>1, <1>2 DEF CursorFits, Bucketed
<1>5. p.phase < SweepInterval /\ p.recent \in 0 .. Len(p.slabs)
    BY <1>1, <1>2 DEF PoolTable
<1>6. ASSUME NEW i \in DOMAIN p.slabs PROVE AgesFit(p, [p.age EXCEPT ![i] = 0])
    <2> DEFINE z == 0
               a == [p.age EXCEPT ![i] = z]
    <2>1. z \in Nat /\ z <= ColdEpochs
        BY ClassPoolAssumption
    <2>2. DOMAIN p.age = DOMAIN p.slabs /\ \A j \in DOMAIN p.slabs : p.age[j] <= ColdEpochs
        BY <1>1 DEF PoolTable
    <2> HIDE DEF z
    <2>3. a \in Seq(Nat) /\ DOMAIN a = DOMAIN p.slabs /\ a[i] = z
          /\ \A j \in DOMAIN p.slabs : j # i => a[j] = p.age[j]
        BY <2>1, <2>2, <1>2
    <2> HIDE DEF a
    <2>4. AgesFit(p, a)
        BY <2>1, <2>2, <2>3 DEF AgesFit
    <2> QED BY <2>4 DEF a, z
<1> QED BY <1>2, <1>3, <1>4, <1>5, <1>6

\* bump_epoch concerns neither slabs nor buckets.
LEMMA BumpEpochKeeps ==
    ASSUME NEW p, PoolSound(p), NEW q, q = BumpEpoch(p)
    PROVE  /\ PoolSound(q) /\ q.slabs = p.slabs /\ q.bucket = p.bucket
           /\ q.recent = p.recent /\ q.by_start = p.by_start
<1> DEFINE a == [i \in DOMAIN p.age |-> Smaller(p.age[i] + 1, ColdEpochs)]
           ph == (p.phase + 1) % SweepInterval
           c == p.cursor
<1>1. AgesFit(p, p.age) /\ CursorFits(p, c) /\ p.phase \in Nat
    BY OwnFit
<1>2. ph \in Nat /\ ph < SweepInterval
    <2>1. p.phase + 1 \in Nat /\ SweepInterval \in Nat \ {0}
        BY <1>1, ClassPoolAssumption
    <2> QED BY ONLY <2>1, Remainder
<1>3. AgesFit(p, a)
    <2>1. p.age \in Seq(Nat) /\ DOMAIN p.age = DOMAIN p.slabs
        BY <1>1 DEF AgesFit
    <2>2. \A i \in DOMAIN p.age : /\ Smaller(p.age[i] + 1, ColdEpochs) \in Nat
                                  /\ Smaller(p.age[i] + 1, ColdEpochs) <= ColdEpochs
        BY <2>1, ClassPoolAssumption DEF Smaller
    <2>3. DOMAIN p.age = 1 .. Len(p.age) /\ Len(p.age) \in Nat
        BY <2>1
    <2>4. a \in [1 .. Len(p.age) -> Nat]
        BY <2>2, <2>3
    <2>5. a \in Seq(Nat)
        BY <2>3, <2>4, SeqDef
    <2> QED BY <2>1, <2>2, <2>5 DEF AgesFit
<1>4. q = Retimed(p, a, ph, c)
    <2>1. p \in PoolRecord
        BY DEF PoolSound, PoolTable
    <2> QED BY <2>1 DEF BumpEpoch, Retimed, PoolRecord
<1> HIDE DEF a, ph, c
<1> QED BY <1>1, <1>2, <1>3, <1>4, RetimedIs

\* A sweep changes contents only by turning one hot slab cold.
SweptOnly(p, q) ==
    /\ DOMAIN q.slabs = DOMAIN p.slabs
    /\ \A j \in DOMAIN p.slabs :
          /\ q.slabs[j].start = p.slabs[j].start
          /\ q.slabs[j].capacity = p.slabs[j].capacity
          /\ q.slabs[j].central_free_len = p.slabs[j].central_free_len
          /\ q.slabs[j].partial_free = p.slabs[j].partial_free
          /\ \/ q.slabs[j].state = p.slabs[j].state
             \/ p.slabs[j].state = "FullHot" /\ q.slabs[j].state = "FullCold"
    /\ \A j, k \in DOMAIN p.slabs :
          q.slabs[j].state # p.slabs[j].state /\ q.slabs[k].state # p.slabs[k].state => j = k

\* The hot slab at a position of the cursor.
LEMMA HotSlab ==
    ASSUME NEW p, PoolSound(p), p.bucket["FullHot"] # <<>>, NEW n \in Nat
    PROVE  /\ p.bucket["FullHot"][(n % Len(p.bucket["FullHot"])) + 1] \in DOMAIN p.slabs
           /\ p.slabs[p.bucket["FullHot"][(n % Len(p.bucket["FullHot"])) + 1]].state = "FullHot"
           /\ CursorFits(p, n % Len(p.bucket["FullHot"]))
<1> DEFINE hb == "FullHot"
           v == p.bucket[hb]
           L == Len(v)
           k == n % L
<1>1. hb \in BucketNames
    BY DEF BucketNames
<1>2. v \in Seq(Nat) /\ v # <<>>
    BY <1>1, OwnFit
<1>3. Listed(p.slabs, v, Members(States(p), hb))
    BY <1>1 DEF PoolSound, Bucketed
<1>4. L \in Nat \ {0} /\ DOMAIN v = 1 .. L
    BY <1>2
<1>9. CursorFits(p, k) <=> k \in Nat /\ k < L
    BY <1>2 DEF CursorFits
<1> HIDE DEF v, L, hb
<1>5. k \in Nat /\ k < L
    BY ONLY <1>4, n \in Nat, Remainder
<1> HIDE DEF k
<1>6. k + 1 \in DOMAIN v
    BY <1>4, <1>5
<1>7. v[k + 1] \in Members(States(p), hb)
    BY <1>3, <1>6 DEF Listed
<1>8. v[k + 1] \in DOMAIN p.slabs /\ p.slabs[v[k + 1]].state = hb
    BY <1>7 DEF Members, States
<1> QED BY <1>5, <1>8, <1>9 DEF hb, v, L, k

\* maybe_sweep, the sweep that advises a slab and finds it cold from then on.
LEMMA SweepSlab ==
    ASSUME NEW p, PoolSound(p), NEW i \in DOMAIN p.slabs, p.slabs[i].state = "FullHot",
           NEW c, CursorFits(p, c), NEW q,
           q = Reconcile([[p EXCEPT !.cursor = c] EXCEPT !.slabs[i].state = "FullCold"], i, "FullHot")
    PROVE  PoolSound(q) /\ SweptOnly(p, q)
<1> DEFINE t == "FullCold"
           r == [p.slabs[i] EXCEPT !.state = t]
<1>1. p \in PoolRecord /\ p.slabs[i] \in PoolSlabRecord /\ Inside(p.slabs[i])
    BY OwnFit DEF PoolSound, PoolTable
<1>2. t \in SlabStates
    BY DEF SlabStates, BucketNames
<1>3. [[p EXCEPT !.cursor = c] EXCEPT !.slabs[i].state = t] = WithSlab(p, i, r, p.age, p.recent, c)
    BY <1>1 DEF WithSlab, PoolRecord
<1>7. q = Reconcile(WithSlab(p, i, r, p.age, p.recent, c), i, p.slabs[i].state)
    BY <1>3
<1> HIDE DEF t
<1>4. /\ r \in PoolSlabRecord /\ r.start = p.slabs[i].start /\ r.capacity = p.slabs[i].capacity
      /\ r.slot = p.slabs[i].slot /\ r.partial_free = p.slabs[i].partial_free /\ r.state = t
      /\ r.central_free_len = p.slabs[i].central_free_len
    BY ONLY <1>1, <1>2 DEF PoolSlabRecord
<1> HIDE DEF r
<1>5. RecordFits(p, i, r)
    BY <1>1, <1>4 DEF RecordFits, Inside, SlabContains
<1>6. PoolSound(q) /\ Became(p, q, i, r)
    <2>1. AgesFit(p, p.age) /\ p.recent \in 0 .. Len(p.slabs)
        BY OwnFit
    <2> QED BY <2>1, <1>5, <1>7, SlabRewritten
<1> QED BY ZenonT(40), <1>4, <1>6 DEF Became, SameContents, SweptOnly, t

\* Induction on a set of numbers: counting shows that it misses none.
LEMMA NatSetInduction ==
    ASSUME NEW S, 0 \in S, \A n \in Nat : n \in S => n + 1 \in S
    PROVE  \A n \in Nat : n \in S
<1> SUFFICES ASSUME NEW n \in Nat, n \notin S PROVE FALSE
    OBVIOUS
<1> DEFINE T == {k \in 0 .. n : k \in S}
           F == [k \in T |-> k + 1]
<1>1. IsFiniteSet(T) /\ Cardinality(T) \in Nat
    <2>1. IsFiniteSet(0 .. n)
        BY FS_Interval
    <2>2. T \subseteq 0 .. n
        OBVIOUS
    <2> QED BY <2>1, <2>2, FS_Subset, FS_CardinalityType
<1>2. F \in Injection(T, T \ {0})
    BY DEF Injection, IsInjective
<1>3. IsFiniteSet(T \ {0}) /\ Cardinality(T \ {0}) = Cardinality(T) - 1
    <2>1. 0 \in T
        OBVIOUS
    <2> QED BY <1>1, <2>1, FS_RemoveElement
<1>4. Cardinality(T) <= Cardinality(T \ {0})
    <2> HIDE DEF T, F
    <2> QED BY <1>2, <1>3, FS_Injection
<1> QED BY <1>1, <1>3, <1>4

\* A set of numbers that is not empty has a least one.
LEMMA LeastElement ==
    ASSUME NEW S \in SUBSET Nat, S # {}
    PROVE  \E k \in S : \A j \in S : k <= j
<1> SUFFICES ASSUME \A k \in S : \E j \in S : j < k PROVE FALSE
    OBVIOUS
<1> DEFINE T == {m \in Nat : \A j \in S : j > m}
<1>1. 0 \in T
    OBVIOUS
<1>2. ASSUME NEW m \in Nat, m \in T PROVE m + 1 \in T
    <2>1. ASSUME NEW j \in S PROVE j > m + 1
        <3>1. j > m /\ j \in Nat
            BY <1>2
        <3>2. j # m + 1
            <4>1. SUFFICES ASSUME j = m + 1 PROVE FALSE
                OBVIOUS
            <4>2. PICK h \in S : h < j
                OBVIOUS
            <4>3. h > m /\ h \in Nat
                BY <1>2
            <4> QED BY <4>1, <4>2, <4>3
        <3> QED BY <3>1, <3>2
    <2> QED BY <2>1
<1> HIDE DEF T
<1>3. \A m \in Nat : m \in T
    BY <1>1, <1>2, NatSetInduction
<1>4. PICK k \in S : k \in Nat
    OBVIOUS
<1> QED BY <1>3, <1>4 DEF T

\* maybe_sweep keeps the pool sound, whatever the cursor met.
LEMMA MaybeSweepKeeps ==
    ASSUME NEW p, PoolSound(p), NEW q \in MaybeSweep(p)
    PROVE  PoolSound(q) /\ SweptOnly(p, q)
<1> DEFINE hot     == p.bucket["FullHot"]
           total   == Len(hot)
           budget  == Smaller(ScanBudget, total)
           slab(k) == hot[((p.cursor + k) % total) + 1]
           hits    == {k \in 0 .. budget - 1 : Sweepable(p, slab(k))}
           first   == CHOOSE k \in hits : \A j \in hits : k <= j
           after(k) == [p EXCEPT !.cursor = (@ + k) % total]
<1>1. SweptOnly(p, p)
    BY DEF SweptOnly
<1>2. CASE p.phase # 0 \/ total = 0
    <2>1. q = p
        BY <1>2 DEF MaybeSweep
    <2> QED BY <2>1, <1>1
<1>3. CASE p.phase = 0 /\ total # 0
    <2>1. p \in PoolRecord /\ p.cursor \in Nat
        BY DEF PoolSound, PoolTable, PoolRecord
    <2>2. hot \in Seq(Nat) /\ hot # <<>> /\ total \in Nat \ {0}
        <3>1. "FullHot" \in BucketNames
            BY DEF BucketNames
        <3>2. hot \in Seq(Nat)
            BY <3>1, OwnFit
        <3> HIDE DEF hot
        <3> QED BY <3>2, <1>3
    <2>3. budget \in Nat
        BY <2>2, ClassPoolAssumption DEF Smaller
    <2>4. ASSUME NEW k \in Nat
          PROVE  /\ PoolSound(after(k)) /\ SweptOnly(p, after(k))
                 /\ CursorFits(p, (p.cursor + k) % total)
                 /\ slab(k) \in DOMAIN p.slabs /\ p.slabs[slab(k)].state = "FullHot"
                 /\ after(k) = [p EXCEPT !.cursor = (p.cursor + k) % total]
        <3> DEFINE n == p.cursor + k
                   c == n % total
                   d == after(k)
        <3>1. n \in Nat
            BY <2>1
        <3> HIDE DEF n
        <3>2. slab(k) \in DOMAIN p.slabs /\ p.slabs[slab(k)].state = "FullHot" /\ CursorFits(p, c)
            <4>1. /\ hot[(n % total) + 1] \in DOMAIN p.slabs
                  /\ p.slabs[hot[(n % total) + 1]].state = "FullHot"
                  /\ CursorFits(p, n % total)
                BY <3>1, <2>2, HotSlab
            <4> QED BY <4>1 DEF n
        <3>3. d = [p EXCEPT !.cursor = (p.cursor + k) % total]
            BY <2>1 DEF PoolRecord
        <3>4. d = Retimed(p, p.age, p.phase, c)
            BY <3>3, <2>1 DEF Retimed, PoolRecord, n
        <3> HIDE DEF d, c
        <3>5. PoolSound(d) /\ d.slabs = p.slabs
            <4>1. AgesFit(p, p.age) /\ p.phase \in Nat /\ p.phase < SweepInterval
                BY OwnFit
            <4> QED BY <4>1, <3>2, <3>4, RetimedIs
        <3>6. SweptOnly(p, d)
            BY <3>5 DEF SweptOnly
        <3> QED BY <3>2, <3>3, <3>5, <3>6 DEF d, c, n
    <2>5. CASE hits = {}
        <3>1. q = after(budget)
            BY <2>5, <1>3 DEF MaybeSweep
        <3> QED BY <3>1, <2>3, <2>4
    <2>6. CASE hits # {}
        <3>1. first \in hits
            <4>1. \E k \in hits : \A j \in hits : k <= j
                <5>1. hits \in SUBSET Nat
                    BY <2>3
                <5> HIDE DEF hits
                <5> QED BY <5>1, <2>6, LeastElement
            <4> QED BY <4>1
        <3>2. first \in Nat /\ first + 1 \in Nat
            <4> HIDE DEF first
            <4>1. first \in 0 .. budget - 1
                BY <3>1
            <4> HIDE DEF budget
            <4> QED BY ONLY <4>1, <2>3
        <3> DEFINE up == first + 1
        <3> HIDE DEF first
        <3>3. q = after(first + 1)
              \/ q = Reconcile([after(first + 1) EXCEPT !.slabs[slab(first)].state = "FullCold"],
                               slab(first), "FullHot")
            BY <2>6, <1>3 DEF MaybeSweep, first
        <3>6. up \in Nat
            BY <3>2
        <3>7. /\ PoolSound(after(up)) /\ SweptOnly(p, after(up))
              /\ CursorFits(p, (p.cursor + up) % total)
              /\ after(up) = [p EXCEPT !.cursor = (p.cursor + up) % total]
            <4> HIDE DEF up
            <4> QED BY <3>6, <2>4
        <3>4. CASE q = after(first + 1)
            BY <3>4, <3>7
        <3>5. CASE q = Reconcile([after(first + 1) EXCEPT !.slabs[slab(first)].state = "FullCold"],
                                 slab(first), "FullHot")
            <4> DEFINE c == (p.cursor + up) % total
                       i == slab(first)
            <4>1. CursorFits(p, c) /\ after(up) = [p EXCEPT !.cursor = c]
                BY <3>7
            <4>2. i \in DOMAIN p.slabs /\ p.slabs[i].state = "FullHot"
                BY <3>2, <2>4
            <4> HIDE DEF c, i
            <4>3. q = Reconcile([[p EXCEPT !.cursor = c] EXCEPT !.slabs[i].state = "FullCold"],
                                i, "FullHot")
                BY <3>5, <4>1 DEF i
            <4> QED BY <4>1, <4>2, <4>3, SweepSlab
        <3> QED BY <3>3, <3>4, <3>5
    <2> QED BY <2>5, <2>6
<1> QED BY <1>2, <1>3

-----------------------------------------------------------------------------
\* The blocks of the registered slabs.
Covered(p) == {b \in Nat : \E i \in DOMAIN p.slabs : SlabContains(p.slabs[i], b)}

\* find_slab_id_unchecked finds the slab of a block.
LEMMA FindSlabIdIs ==
    ASSUME NEW p, PoolSound(p), NEW b \in Covered(p)
    PROVE  FindSlabId(p, b) \in DOMAIN p.slabs /\ SlabContains(p.slabs[FindSlabId(p, b)], b)
<1>1. PICK i \in DOMAIN p.slabs : SlabContains(p.slabs[i], b)
    BY DEF Covered
<1>2. b \in Nat
    BY DEF Covered
<1>3. Indexed(p) /\ SpansRecorded(p) /\ p.by_start \in Seq(Nat) /\ p.slabs \in Seq(PoolSlabRecord)
      /\ p.recent \in 0 .. Len(p.slabs)
    BY OwnFit DEF PoolSound, PoolTable
<1>4. p.by_start[StartsUpTo(p, b)] = i
    BY <1>1, <1>2, <1>3, LookupFinds
<1>5. CASE p.recent # 0 /\ SlabContains(p.slabs[p.recent], b)
    BY <1>3, <1>5 DEF FindSlabId
<1>6. CASE ~(p.recent # 0 /\ SlabContains(p.slabs[p.recent], b))
    BY <1>1, <1>4, <1>6 DEF FindSlabId
<1> QED BY <1>5, <1>6

\* Slabs that stay where they are cover the same blocks.
LEMMA CoveredKept ==
    ASSUME NEW p, NEW q, SameSpans(p, q) PROVE Covered(q) = Covered(p)
    BY DEF SameSpans, Covered, SlabContains

\* record_returned_block of a block of the slab.
LEMMA RecordReturnedFits ==
    ASSUME NEW p, PoolSound(p), NEW i \in DOMAIN p.slabs, NEW b \in Nat, SlabContains(p.slabs[i], b)
    PROVE  RecordFits(p, i, RecordReturnedBlock(p.slabs[i], b))
<1> DEFINE x == p.slabs[i]
           n == x.central_free_len + 1
           u == <<>>
           v == <<b>> \o x.partial_free
           h == "FullHot"
           t == "Partial"
           r == RecordReturnedBlock(x, b)
<1>1. x \in PoolSlabRecord /\ Inside(x) /\ SlabContains(x, b)
    BY OwnFit DEF PoolSound, PoolTable
<1> HIDE DEF x
<1>2. x.central_free_len \in Int /\ x.partial_free \in Seq(Nat)
    BY <1>1 DEF PoolSlabRecord
<1>3. n \in Int /\ u \in Seq(Nat) /\ v \in Seq(Nat) /\ h \in SlabStates /\ t \in SlabStates
    BY <1>2 DEF SlabStates, BucketNames
<1>4. r = [x EXCEPT !.central_free_len = n, !.partial_free = u, !.state = h]
      \/ r = [x EXCEPT !.central_free_len = n, !.partial_free = v, !.state = t]
    BY <1>1 DEF RecordReturnedBlock, PoolSlabRecord
<1>5. \A k \in DOMAIN v : SlabContains(x, v[k])
    <2>1. ASSUME NEW k \in DOMAIN v PROVE v[k] = b \/ \E j \in DOMAIN x.partial_free : v[k] = x.partial_free[j]
        BY <1>2, PrependIs
    <2> QED BY <2>1, <1>1 DEF Inside
<1>6. \A k \in DOMAIN u : SlabContains(x, u[k])
    OBVIOUS
<1> HIDE DEF u, v, h, t, n, r
<1>7. /\ r \in PoolSlabRecord /\ r.start = x.start /\ r.capacity = x.capacity /\ r.slot = x.slot
      /\ (r.partial_free = u \/ r.partial_free = v)
    <2>1. CASE r = [x EXCEPT !.central_free_len = n, !.partial_free = u, !.state = h]
        BY ONLY <2>1, <1>1, <1>3 DEF PoolSlabRecord
    <2>2. CASE r = [x EXCEPT !.central_free_len = n, !.partial_free = v, !.state = t]
        BY ONLY <2>2, <1>1, <1>3 DEF PoolSlabRecord
    <2> QED BY ONLY <2>1, <2>2, <1>4
<1>8. Inside(r)
    BY <1>5, <1>6, <1>7 DEF Inside, SlabContains
<1> QED BY <1>7, <1>8 DEF RecordFits, r, x

\* A slab rewritten with a touch, and reconciled.
LEMMA TouchedSound ==
    ASSUME NEW p, PoolSound(p), NEW i \in DOMAIN p.slabs, NEW r, RecordFits(p, i, r),
           NEW q, q = Reconcile([Touch(p, i) EXCEPT !.slabs[i] = r], i, p.slabs[i].state)
    PROVE  PoolSound(q) /\ SameSpans(p, q) /\ Became(p, q, i, r)
<1> DEFINE a == [p.age EXCEPT ![i] = 0]
           c == p.cursor
<1>1. AgesFit(p, a) /\ CursorFits(p, c) /\ i \in 0 .. Len(p.slabs)
    <2>1. /\ \A j \in DOMAIN p.slabs : AgesFit(p, [p.age EXCEPT ![j] = 0])
          /\ CursorFits(p, p.cursor) /\ p.slabs \in Seq(PoolSlabRecord)
        BY OwnFit
    <2>2. AgesFit(p, a)
        BY <2>1
    <2>3. i \in 0 .. Len(p.slabs)
        BY <2>1
    <2> QED BY <2>1, <2>2, <2>3
<1>2. [Touch(p, i) EXCEPT !.slabs[i] = r] = WithSlab(p, i, r, a, i, c)
    <2>1. p \in PoolRecord
        BY DEF PoolSound, PoolTable
    <2> QED BY <2>1 DEF Touch, WithSlab, PoolRecord
<1>3. q = Reconcile(WithSlab(p, i, r, a, i, c), i, p.slabs[i].state)
    BY <1>2
<1> HIDE DEF a, c
<1> QED BY <1>1, <1>3, SlabRewritten

\* One iteration of return_batch.
LEMMA ReturnOneKeeps ==
    ASSUME NEW p, PoolSound(p), NEW b \in Covered(p), NEW q, q = ReturnOne(p, b)
    PROVE  /\ PoolSound(q) /\ SameSpans(p, q)
           /\ \E i \in DOMAIN p.slabs : /\ SlabContains(p.slabs[i], b)
                                        /\ Became(p, q, i, RecordReturnedBlock(p.slabs[i], b))
<1> DEFINE i == FindSlabId(p, b)
           r == RecordReturnedBlock(p.slabs[i], b)
<1>1. i \in DOMAIN p.slabs /\ SlabContains(p.slabs[i], b) /\ b \in Nat
    BY FindSlabIdIs DEF Covered
<1>2. q = Reconcile([Touch(p, i) EXCEPT !.slabs[i] = RecordReturnedBlock(@, b)], i, p.slabs[i].state)
    BY DEF ReturnOne
<1> HIDE DEF i
<1>3. RecordFits(p, i, r)
    BY <1>1, RecordReturnedFits
<1>4. [Touch(p, i) EXCEPT !.slabs[i] = RecordReturnedBlock(@, b)] = [Touch(p, i) EXCEPT !.slabs[i] = r]
    <2>1. p \in PoolRecord
        BY DEF PoolSound, PoolTable
    <2>2. Touch(p, i).slabs = p.slabs
        BY <2>1 DEF Touch, PoolRecord
    <2> QED BY <2>2
<1>5. q = Reconcile([Touch(p, i) EXCEPT !.slabs[i] = r], i, p.slabs[i].state)
    BY <1>2, <1>4
<1>6. PoolSound(q) /\ SameSpans(p, q) /\ Became(p, q, i, r)
    <2> HIDE DEF r
    <2> QED BY <1>1, <1>3, <1>5, TouchedSound
<1> QED BY <1>1, <1>6

\* The pools that the loop of return_batch passes through.
ReturnSteps(g, p, list) ==
    /\ DOMAIN g = 0 .. Len(list)
    /\ g[0] = p
    /\ \A n \in 1 .. Len(list) : g[n] = ReturnOne(g[n - 1], list[n])

\* The equation of the recursive function that ReturnAll is defined by.
ReturnLoop(g, p, list, L) ==
    g = [n \in 0 .. L |-> IF n = 0 THEN p ELSE ReturnOne(g[n - 1], list[n])]

\* It has a solution.
LEMMA ReturnLoopExists ==
    ASSUME NEW p, NEW list, NEW L \in Nat
    PROVE  \E g : ReturnLoop(g, p, list, L)
<1> DEFINE P(m) == \E g : g = [n \in 0 .. m |-> IF n = 0 THEN p ELSE ReturnOne(g[n - 1], list[n])]
           S == {m \in Nat : P(m)}
<1>1. 0 \in S
    <2> DEFINE g == [n \in 0 .. 0 |-> p]
    <2>1. g = [n \in 0 .. 0 |-> IF n = 0 THEN p ELSE ReturnOne(g[n - 1], list[n])]
        OBVIOUS
    <2> QED BY <2>1
<1>2. ASSUME NEW m \in Nat, m \in S PROVE m + 1 \in S
    <2>1. PICK g : g = [n \in 0 .. m |-> IF n = 0 THEN p ELSE ReturnOne(g[n - 1], list[n])]
        BY <1>2
    <2> DEFINE h == [n \in 0 .. m + 1 |-> IF n = m + 1 THEN ReturnOne(g[m], list[m + 1]) ELSE g[n]]
    <2>2. \A n \in 0 .. m : g[n] = IF n = 0 THEN p ELSE ReturnOne(g[n - 1], list[n])
        <3> DEFINE F == [n \in 0 .. m |-> IF n = 0 THEN p ELSE ReturnOne(g[n - 1], list[n])]
        <3>1. \A n \in 0 .. m : F[n] = IF n = 0 THEN p ELSE ReturnOne(g[n - 1], list[n])
            OBVIOUS
        <3>2. g = F
            BY <2>1
        <3> HIDE DEF F
        <3> QED BY <3>1, <3>2
    <2>3. ASSUME NEW n \in 0 .. m + 1
          PROVE  h[n] = IF n = 0 THEN p ELSE ReturnOne(h[n - 1], list[n])
        <3>1. CASE n = m + 1
            BY <3>1
        <3>2. CASE n # m + 1
            <4>1. n \in 0 .. m
                BY <3>2
            <4>2. h[n] = g[n]
                BY <4>1
            <4>3. n # 0 => h[n - 1] = g[n - 1]
                BY <4>1
            <4> QED BY <4>1, <4>2, <4>3, <2>2
        <3> QED BY <3>1, <3>2
    <2>4. h = [n \in 0 .. m + 1 |-> h[n]]
        OBVIOUS
    <2> HIDE DEF h
    <2>5. h = [n \in 0 .. m + 1 |-> IF n = 0 THEN p ELSE ReturnOne(h[n - 1], list[n])]
        BY <2>3, <2>4
    <2> QED BY <2>5
<1> HIDE DEF S
<1>3. L \in S
    BY <1>1, <1>2, NatSetInduction
<1> QED BY <1>3 DEF S, ReturnLoop

\* ReturnAll is where the loop of return_batch ends.
LEMMA ReturnAllIs ==
    ASSUME NEW p, NEW list, Len(list) \in Nat
    PROVE  \E g : ReturnSteps(g, p, list) /\ ReturnAll(p, list) = g[Len(list)]
<1> DEFINE L == Len(list)
           g == CHOOSE f : f = [n \in 0 .. L |-> IF n = 0 THEN p ELSE ReturnOne(f[n - 1], list[n])]
           F == [n \in 0 .. L |-> IF n = 0 THEN p ELSE ReturnOne(g[n - 1], list[n])]
<1>1. ReturnAll(p, list) = g[L]
    BY DEF ReturnAll
<1>2. \E f : f = [n \in 0 .. L |-> IF n = 0 THEN p ELSE ReturnOne(f[n - 1], list[n])]
    <2>1. \E f : ReturnLoop(f, p, list, L)
        BY ReturnLoopExists
    <2> QED BY <2>1 DEF ReturnLoop
<1>3. g = F
    BY <1>2
<1> HIDE DEF g
<1>4. /\ DOMAIN F = 0 .. L /\ F[0] = p
      /\ \A n \in 1 .. L : F[n] = ReturnOne(g[n - 1], list[n])
    OBVIOUS
<1> HIDE DEF F
<1>5. ReturnSteps(g, p, list)
    BY <1>3, <1>4 DEF ReturnSteps
<1> QED BY <1>1, <1>5

\* return_batch of blocks of registered slabs keeps the pool sound.
LEMMA ReturnAllKeeps ==
    ASSUME NEW p, PoolSound(p), NEW list \in Seq(Nat), ToSet(list) \subseteq Covered(p)
    PROVE  PoolSound(ReturnAll(p, list)) /\ SameSpans(p, ReturnAll(p, list))
<1> DEFINE L == Len(list)
<1>1. L \in Nat
    OBVIOUS
<1>2. PICK g : ReturnSteps(g, p, list) /\ ReturnAll(p, list) = g[L]
    BY <1>1, ReturnAllIs
<1>3. g[0] = p /\ \A n \in 1 .. L : g[n] = ReturnOne(g[n - 1], list[n])
    BY <1>2 DEF ReturnSteps
<1>4. \A n \in 1 .. L : list[n] \in Covered(p)
    BY DEF ToSet
<1> DEFINE Q(n) == PoolSound(g[n]) /\ SameSpans(p, g[n])
           S == {n \in Nat : n <= L => Q(n)}
<1> HIDE DEF L
<1>5. 0 \in S
    <2>1. SameSpans(p, p)
        BY DEF SameSpans
    <2> QED BY <2>1, <1>3
<1>6. ASSUME NEW n \in Nat, n \in S PROVE n + 1 \in S
    <2> SUFFICES ASSUME n + 1 <= L PROVE Q(n + 1)
        OBVIOUS
    <2> DEFINE a == g[n]
               b == list[n + 1]
               d == g[n + 1]
    <2>1. PoolSound(a) /\ SameSpans(p, a)
        BY <1>1, <1>6
    <2>2. n + 1 \in 1 .. L /\ (n + 1) - 1 = n
        BY <1>1
    <2>3. d = ReturnOne(a, b) /\ b \in Covered(p)
        BY <2>2, <1>3, <1>4
    <2>4. b \in Covered(a)
        BY <2>1, <2>3, CoveredKept
    <2> HIDE DEF a, b, d
    <2>5. PoolSound(d) /\ SameSpans(a, d)
        BY <2>1, <2>3, <2>4, ReturnOneKeeps
    <2>6. SameSpans(p, d)
        BY ONLY <2>1, <2>5 DEF SameSpans
    <2> QED BY <2>5, <2>6 DEF d
<1> HIDE DEF S
<1>7. L \in S
    BY <1>1, <1>5, <1>6, NatSetInduction
<1> QED BY <1>1, <1>2, <1>7 DEF S

-----------------------------------------------------------------------------
\* The last slab of a bucket is in the bucket's state.
LEMMA LastOfBucket ==
    ASSUME NEW p, PoolSound(p), NEW b \in BucketNames, p.bucket[b] # <<>>
    PROVE  Last(p.bucket[b]) \in DOMAIN p.slabs /\ p.slabs[Last(p.bucket[b])].state = b
<1> DEFINE v == p.bucket[b]
           L == Len(v)
<1>1. v \in Seq(Nat) /\ v # <<>> /\ Listed(p.slabs, v, Members(States(p), b))
    BY OwnFit DEF PoolSound, Bucketed
<1>2. Last(v) = v[L]
    BY DEF Last
<1> HIDE DEF v
<1>3. L \in DOMAIN v
    BY <1>1
<1>4. v[L] \in Members(States(p), b)
    BY <1>1, <1>3 DEF Listed
<1> HIDE DEF L
<1>5. v[L] \in DOMAIN p.slabs /\ p.slabs[v[L]].state = b
    BY <1>4 DEF Members, States
<1> QED BY <1>2, <1>5 DEF v

\* The record of a slab that is loaned as a whole.
Loaned(x) == [x EXCEPT !.state = "Loaned", !.central_free_len = 0]

\* loan_whole_slab
LEMMA LoanSlabKeeps ==
    ASSUME NEW p, PoolSound(p), NEW i \in DOMAIN p.slabs, NEW q, q = LoanSlab(p, i)
    PROVE  PoolSound(q) /\ SameSpans(p, q) /\ Became(p, q, i, Loaned(p.slabs[i]))
<1> DEFINE x == p.slabs[i]
           r == Loaned(x)
           ln == "Loaned"
           z == 0
<1>1. p \in PoolRecord /\ x \in PoolSlabRecord /\ Inside(x)
    BY OwnFit DEF PoolSound, PoolTable
<1>2. r = [x EXCEPT !.state = ln, !.central_free_len = z]
    BY DEF Loaned
<1>3. ln \in SlabStates /\ z \in Int
    BY DEF SlabStates
<1>4. q = Reconcile([Touch(p, i) EXCEPT !.slabs[i] = r], i, p.slabs[i].state)
    <2>1. Touch(p, i).slabs = p.slabs
        BY <1>1 DEF Touch, PoolRecord
    <2>2. [Touch(p, i) EXCEPT !.slabs[i].state = ln, !.slabs[i].central_free_len = z]
            = [Touch(p, i) EXCEPT !.slabs[i] = r]
        BY ZenonT(40), <2>1, <1>1, <1>2 DEF Touch, PoolRecord, PoolSlabRecord
    <2> QED BY <2>2 DEF LoanSlab
<1> HIDE DEF ln, z, r, x
<1>5. /\ r \in PoolSlabRecord /\ r.start = x.start /\ r.capacity = x.capacity /\ r.slot = x.slot
      /\ r.partial_free = x.partial_free
    BY ONLY <1>1, <1>2, <1>3 DEF PoolSlabRecord
<1>6. RecordFits(p, i, r)
    BY <1>1, <1>5 DEF RecordFits, Inside, SlabContains, x
<1>7. PoolSound(q) /\ SameSpans(p, q) /\ Became(p, q, i, r)
    BY <1>4, <1>6, TouchedSound
<1> QED BY <1>7 DEF r, x

\* The record of a slab of which a batch was taken.
Taken(x, moved) ==
    [x EXCEPT !.partial_free = SubSeq(@, moved + 1, Len(@)),
              !.central_free_len = x.central_free_len - moved,
              !.state = IF x.central_free_len - moved = 0 THEN "Loaned" ELSE @]

\* take_partial_batch
LEMMA TakePartialKeeps ==
    ASSUME NEW p, PoolSound(p), NEW i \in DOMAIN p.slabs, p.slabs[i].state = "Partial",
           NEW q, q = TakePartial(p, i)
    PROVE  /\ PoolSound(q) /\ SameSpans(p, q)
           /\ Became(p, q, i, Taken(p.slabs[i], Smaller(MaxRefill, Len(p.slabs[i].partial_free))))
<1> DEFINE x == p.slabs[i]
           f == x.partial_free
           moved == Smaller(MaxRefill, Len(f))
           len == x.central_free_len - moved
           u == SubSeq(f, moved + 1, Len(f))
           t == IF len = 0 THEN "Loaned" ELSE x.state
           r == Taken(x, moved)
<1>1. p \in PoolRecord /\ x \in PoolSlabRecord /\ Inside(x)
    BY OwnFit DEF PoolSound, PoolTable
<1>2. f \in Seq(Nat) /\ x.central_free_len \in Int /\ x.state \in SlabStates
    BY <1>1 DEF PoolSlabRecord
<1>3. moved \in Nat /\ moved <= Len(f)
    BY <1>2, ClassPoolAssumption DEF Smaller
<1> HIDE DEF moved
<1>4. len \in Int /\ t \in SlabStates
    BY <1>2, <1>3 DEF SlabStates
<1>5. r = [x EXCEPT !.partial_free = u, !.central_free_len = len, !.state = t]
    BY <1>1 DEF Taken, PoolSlabRecord
<1>6. q = Reconcile([Touch(p, i) EXCEPT !.slabs[i] = r], i, p.slabs[i].state)
    <2>1. Touch(p, i).slabs = p.slabs
        BY <1>1 DEF Touch, PoolRecord
    <2> DEFINE d == Touch(p, i)
               y == [x EXCEPT !.partial_free = SubSeq(@, moved + 1, Len(@))]
               yy == [y EXCEPT !.central_free_len = len]
               w == IF len = 0 THEN "Loaned" ELSE yy.state
    <2>3. y = [x EXCEPT !.partial_free = u] /\ yy.state = x.state
        BY <1>1 DEF PoolSlabRecord
    <2>4. [yy EXCEPT !.state = w] = r
        BY <2>3, <1>5
    <2>5. d.slabs[i] = x /\ i \in DOMAIN d.slabs
        BY <2>1
    <2>6. d \in PoolRecord
        <3>1. Touch(p, i) = [p EXCEPT !.recent = i, !.age = [p.age EXCEPT ![i] = 0]]
            BY <1>1 DEF Touch, PoolRecord
        <3>2. [p.age EXCEPT ![i] = 0] \in Seq(Nat) /\ i \in Nat
            <4>1. \A j \in DOMAIN p.slabs : AgesFit(p, [p.age EXCEPT ![j] = 0])
                BY OwnFit
            <4>2. p.slabs \in Seq(PoolSlabRecord)
                BY OwnFit
            <4> QED BY <4>1, <4>2 DEF AgesFit
        <3> DEFINE a == [p.age EXCEPT ![i] = 0]
        <3> HIDE DEF a
        <3>3. Touch(p, i) = [p EXCEPT !.recent = i, !.age = a] /\ a \in Seq(Nat) /\ i \in Nat
            BY <3>1, <3>2 DEF a
        <3> QED BY ONLY <3>3, <1>1 DEF PoolRecord, d
    <2> HIDE DEF d
    <2>7. [d EXCEPT !.slabs[i].partial_free = SubSeq(@, moved + 1, Len(@)),
                    !.slabs[i].central_free_len = len,
                    !.slabs[i].state = IF len = 0 THEN "Loaned" ELSE @]
            = [d EXCEPT !.slabs[i] = [yy EXCEPT !.state = w]]
        <3> HIDE DEF x, len
        <3> QED BY ONLY ZenonT(40), <2>5, <2>6, <1>1 DEF PoolRecord, PoolSlabRecord
    <2>2. [Touch(p, i) EXCEPT !.slabs[i].partial_free = SubSeq(@, moved + 1, Len(@)),
                              !.slabs[i].central_free_len = len,
                              !.slabs[i].state = IF len = 0 THEN "Loaned" ELSE @]
            = [Touch(p, i) EXCEPT !.slabs[i] = r]
        BY <2>4, <2>7 DEF d
    <2> QED BY <2>2 DEF TakePartial, moved
<1>7. u \in Seq(Nat) /\ \A k \in DOMAIN u : \E j \in DOMAIN f : u[k] = f[j]
    <2>1. moved \in 0 .. Len(f) /\ Len(f) \in Nat
        BY <1>2, <1>3
    <2>2. u \in Seq(Nat) /\ Len(u) = Len(f) - moved
          /\ \A k \in 1 .. Len(f) - moved : u[k] = f[moved + k]
        BY ONLY <2>1, <1>2, RestIs
    <2>3. ASSUME NEW k \in DOMAIN u PROVE \E j \in DOMAIN f : u[k] = f[j]
        <3>1. k \in 1 .. Len(f) - moved
            BY <2>2
        <3>2. moved + k \in DOMAIN f
            BY <3>1, <2>1, <1>2
        <3> QED BY <3>1, <3>2, <2>2
    <2> QED BY <2>2, <2>3
<1> HIDE DEF u, f, len, t, r, x
<1>8. /\ r \in PoolSlabRecord /\ r.start = x.start /\ r.capacity = x.capacity /\ r.slot = x.slot
      /\ r.partial_free = u
    BY ONLY <1>1, <1>4, <1>5, <1>7 DEF PoolSlabRecord
<1>9. Inside(r)
    BY <1>1, <1>7, <1>8 DEF Inside, SlabContains, f
<1>10. RecordFits(p, i, r)
    BY <1>8, <1>9 DEF RecordFits, x
<1>11. PoolSound(q) /\ SameSpans(p, q) /\ Became(p, q, i, r)
    BY <1>6, <1>10, TouchedSound
<1> QED BY <1>11 DEF r, x, moved, f

\* The pool with a new slab in its tables.
Registered(p, sp) ==
    [p EXCEPT !.slabs = Append(@, NewRecord(sp)),
              !.age = Append(@, 0),
              !.by_start = InsertAt(@, StartsUpTo(p, sp.start) + 1, Len(p.slabs) + 1),
              !.recent = Len(p.slabs) + 1]

\* register_slab before its sweep.
LEMMA RegisteredSound ==
    ASSUME NEW p, PoolSound(p), NEW sp \in Spans,
           \A k \in DOMAIN p.slabs : p.slabs[k].start # sp.start,
           NEW d, d = Registered(p, sp)
    PROVE  /\ PoolSound(d)
           /\ DOMAIN d.slabs = DOMAIN p.slabs \cup {Len(p.slabs) + 1}
           /\ d.slabs[Len(p.slabs) + 1] = NewRecord(sp)
           /\ \A k \in DOMAIN p.slabs : k # Len(p.slabs) + 1 /\ d.slabs[k] = p.slabs[k]
<1> DEFINE n == Len(p.slabs)
           i == n + 1
           slot == StartsUpTo(p, sp.start)
           r == NewRecord(sp)
           z == 0
           u == <<>>
           ln == "Loaned"
           w == Append(p.slabs, r)
           a == Append(p.age, z)
           v == InsertAt(p.by_start, slot + 1, i)
           S == States(p)
<1>1. PoolTable(p) /\ Bucketed(p, S) /\ p \in PoolRecord
    BY DEF PoolSound, PoolTable
<1>2. /\ p.slabs \in Seq(PoolSlabRecord) /\ p.by_start \in Seq(Nat) /\ p.age \in Seq(Nat)
      /\ Indexed(p) /\ SpansRecorded(p)
    BY <1>1 DEF PoolRecord, PoolTable
<1>3. n \in Nat /\ i \in Nat \ {0} /\ DOMAIN p.slabs = 1 .. n
    BY <1>2
<1>4. sp.start \in Nat /\ sp.count \in Nat \ {0}
    BY SpansAssumption
<1>5. z \in Nat /\ u \in Seq(Nat) /\ ln \in SlabStates /\ z <= ColdEpochs
    BY ClassPoolAssumption DEF SlabStates
<1>6. d = [p EXCEPT !.slabs = w, !.age = a, !.by_start = v, !.recent = i]
    BY <1>1 DEF Registered, PoolRecord
<1>7. r = [start |-> sp.start, capacity |-> sp.count, central_free_len |-> z,
           partial_free |-> u, state |-> ln, slot |-> z]
    BY DEF NewRecord
<1>19. \A k \in DOMAIN u : FALSE
    OBVIOUS
<1> HIDE DEF z, u, ln, r
<1>8. /\ r \in PoolSlabRecord /\ r.start = sp.start /\ r.capacity = sp.count
      /\ r.partial_free = u /\ r.state = ln /\ r.slot = z
    BY ONLY <1>4, <1>5, <1>7 DEF PoolSlabRecord
<1>9. \A k \in DOMAIN p.slabs : p.slabs[k] \in PoolSlabRecord
    BY <1>2
<1>10. \A k \in DOMAIN p.slabs : p.slabs[k].start \in Nat
    BY ONLY <1>9 DEF PoolSlabRecord
<1>11. /\ w \in Seq(PoolSlabRecord) /\ DOMAIN w = 1 .. n + 1 /\ Len(w) = n + 1
       /\ w[n + 1] = r /\ \A k \in 1 .. n : w[k] = p.slabs[k]
    BY <1>2, <1>8
<1>12. /\ slot \in 0 .. Len(p.by_start)
       /\ \A k \in 1 .. Len(p.by_start) : p.slabs[p.by_start[k]].start <= sp.start <=> k <= slot
    BY <1>2, <1>4, <1>10, StartsUpToIs
<1>13. DOMAIN p.age = DOMAIN p.slabs /\ \A k \in DOMAIN p.slabs : p.age[k] <= ColdEpochs
    BY <1>1 DEF PoolTable
<1>14. /\ a \in Seq(Nat) /\ DOMAIN a = 1 .. n + 1 /\ a[n + 1] = z
       /\ \A k \in 1 .. n : a[k] = p.age[k]
    <2>1. Len(p.age) = n
        BY <1>2, <1>3, <1>13
    <2> DEFINE g == p.age
    <2>2. g \in Seq(Nat) /\ Len(g) = n
        BY <2>1, <1>2
    <2> HIDE DEF g, n
    <2>3. /\ Append(g, z) \in Seq(Nat) /\ DOMAIN Append(g, z) = 1 .. n + 1
          /\ Append(g, z)[n + 1] = z /\ \A k \in 1 .. n : Append(g, z)[k] = g[k]
        BY ONLY <2>2, <1>5
    <2> QED BY <2>3 DEF g
<1> HIDE DEF slot, w, a, n
<1>15. \A k \in 1 .. Len(p.by_start) : p.slabs[p.by_start[k]].start < sp.start <=> k <= slot
    <2>1. \A k \in 1 .. Len(p.by_start) : p.by_start[k] \in DOMAIN p.slabs
        BY <1>2 DEF Indexed
    <2>2. \A k \in 1 .. Len(p.by_start) : /\ p.slabs[p.by_start[k]].start # sp.start
                                          /\ p.slabs[p.by_start[k]].start \in Nat
        BY <2>1, <1>10
    <2> QED BY ONLY <2>2, <1>4, <1>12
<1>16. v \in Seq(Nat)
    <2>1. slot + 1 \in 1 .. Len(p.by_start) + 1 /\ i \in Nat
        BY <1>2, <1>3, <1>12
    <2> QED BY ONLY <2>1, <1>2, InsertAtIs
<1>17. v = InsertAt(p.by_start, slot + 1, n + 1) /\ i = n + 1
    OBVIOUS
<1> HIDE DEF v, i
<1>18. /\ d \in PoolRecord /\ d.slabs = w /\ d.by_start = v /\ d.recent = i /\ d.age = a
       /\ d.bucket = p.bucket /\ d.phase = p.phase /\ d.cursor = p.cursor
    BY ONLY <1>1, <1>3, <1>6, <1>11, <1>14, <1>16 DEF PoolRecord
<1>20. /\ DOMAIN d.slabs = 1 .. n + 1 /\ d.slabs[n + 1] = r
       /\ \A k \in 1 .. n : d.slabs[k] = p.slabs[k]
    BY <1>11, <1>18
<1>21. Indexed(d)
    <2>1. \A k \in 1 .. n : p.slabs[k].start \in Nat /\ d.slabs[k].start = p.slabs[k].start
        BY <1>3, <1>10, <1>20
    <2>2. d.slabs[n + 1].start = sp.start
        BY <1>8, <1>20
    <2>3. \A k \in 1 .. n : p.slabs[k].start # d.slabs[n + 1].start
        BY <2>2, <1>3
    <2>4. \A k \in 1 .. Len(p.by_start) :
             p.slabs[p.by_start[k]].start < d.slabs[n + 1].start <=> k <= slot
        BY ONLY <2>2, <1>15
    <2>5. d.slabs[n + 1].start \in Nat /\ d.by_start = InsertAt(p.by_start, slot + 1, n + 1)
        BY <2>2, <1>4, <1>17, <1>18
    <2>6. Indexed(p) /\ p.by_start \in Seq(Nat) /\ n \in Nat /\ DOMAIN p.slabs = 1 .. n
          /\ DOMAIN d.slabs = 1 .. n + 1 /\ slot \in 0 .. Len(p.by_start)
        BY <1>2, <1>3, <1>12, <1>20
    <2> QED BY ONLY <2>1, <2>3, <2>4, <2>5, <2>6, IndexInsert
<1>22. SpansRecorded(d)
    <2>1. \A k \in 1 .. n : /\ d.slabs[k].start = p.slabs[k].start
                            /\ d.slabs[k].capacity = p.slabs[k].capacity
                            /\ p.slabs[k].start # sp.start
        BY <1>3, <1>20
    <2>2. d.slabs[n + 1].start = sp.start /\ d.slabs[n + 1].capacity = sp.count
        BY <1>8, <1>20
    <2>3. SpansRecorded(p) /\ n \in Nat /\ DOMAIN p.slabs = 1 .. n /\ DOMAIN d.slabs = 1 .. n + 1
        BY <1>2, <1>3, <1>20
    <2>4. SlabAdded(p, d, sp, n)
        BY ONLY <2>1, <2>2, <2>3 DEF SlabAdded
    <2> QED BY <2>3, <2>4, SpansAppend
<1>23. /\ DOMAIN d.slabs = DOMAIN p.slabs \cup {n + 1}
       /\ \A k \in DOMAIN p.slabs : k # n + 1 /\ d.slabs[k] = p.slabs[k]
    BY <1>3, <1>20
<1>24. PoolTable(d)
    <2>1. Inside(r)
        BY <1>8, <1>19 DEF Inside
    <2>2. \A k \in DOMAIN d.slabs : Inside(d.slabs[k])
        BY <2>1, <1>1, <1>20, <1>23 DEF PoolTable
    <2>3. DOMAIN d.age = DOMAIN d.slabs /\ \A k \in DOMAIN d.slabs : d.age[k] <= ColdEpochs
        <3>1. ASSUME NEW k \in 1 .. n + 1 PROVE a[k] <= ColdEpochs
            <4>1. k \in 1 .. n \/ k = n + 1
                BY <1>3
            <4> QED BY <4>1, <1>3, <1>5, <1>13, <1>14
        <3> QED BY <3>1, <1>14, <1>18, <1>20
    <2>4. d.recent <= Len(d.slabs) /\ d.phase < SweepInterval
        BY <1>1, <1>3, <1>11, <1>17, <1>18 DEF PoolTable
    <2> QED BY <2>2, <2>3, <2>4, <1>18, <1>21, <1>22 DEF PoolTable
<1>25. Bucketed(d, States(d))
    <2> DEFINE T == States(d)
    <2>1. /\ S \in [DOMAIN p.slabs -> SlabStates]
          /\ \A b \in BucketNames : Listed(p.slabs, p.bucket[b], Members(S, b))
          /\ \A j \in DOMAIN p.slabs : p.slabs[j].slot = 0 <=> S[j] = "Loaned"
        BY <1>1 DEF Bucketed
    <2>2. /\ T \in [DOMAIN d.slabs -> SlabStates] /\ T[n + 1] = ln
          /\ \A j \in DOMAIN p.slabs : T[j] = S[j]
        <3>1. \A j \in DOMAIN d.slabs : d.slabs[j] \in PoolSlabRecord
            BY <1>8, <1>9, <1>20, <1>23
        <3>2. \A j \in DOMAIN d.slabs : d.slabs[j].state \in SlabStates
            BY ONLY <3>1 DEF PoolSlabRecord
        <3> QED BY <3>2, <1>8, <1>20, <1>23 DEF States
    <2> HIDE DEF S, T
    <2>3. ASSUME NEW b \in BucketNames PROVE Listed(d.slabs, d.bucket[b], Members(T, b))
        <3>1. Members(T, b) = Members(S, b)
            <4>1. b # ln
                BY DEF BucketNames, ln
            <4>2. DOMAIN S = DOMAIN p.slabs /\ DOMAIN T = DOMAIN p.slabs \cup {n + 1}
                BY <2>1, <2>2, <1>23
            <4> QED BY <4>1, <4>2, <2>2 DEF Members
        <3>2. \A j \in Members(S, b) : d.slabs[j].slot = p.slabs[j].slot
            BY <2>1, <1>23 DEF Members
        <3>3. Listed(p.slabs, d.bucket[b], Members(S, b))
            BY <2>1, <1>18
        <3> QED BY ONLY <3>1, <3>2, <3>3 DEF Listed
    <2>4. \A j \in DOMAIN d.slabs : d.slabs[j].slot = 0 <=> T[j] = "Loaned"
        BY ZenonT(40), <2>1, <2>2, <1>8, <1>20, <1>23 DEF z, ln
    <2>5. /\ d.bucket["FullHot"] = <<>> => d.cursor = 0
          /\ d.bucket["FullHot"] # <<>> => d.cursor < Len(d.bucket["FullHot"])
        BY <1>1, <1>18 DEF Bucketed
    <2>6. Bucketed(d, T)
        BY <2>2, <2>3, <2>4, <2>5, <1>18 DEF Bucketed
    <2> QED BY <2>6 DEF T
<1> QED BY <1>20, <1>23, <1>24, <1>25 DEF PoolSound, n, r

-----------------------------------------------------------------------------
\* The inductive invariant: tables and buckets are sound, and callers have blocks of
\* registered slabs only.
PoolInv == PoolSound(cp) /\ issued \subseteq Covered(cp)

\* A sweep after a change that left the slabs where they are.
LEMMA SweptSound ==
    ASSUME NEW p, NEW d, PoolSound(d), SameSpans(p, d), NEW q \in MaybeSweep(d)
    PROVE  PoolSound(q) /\ Covered(q) = Covered(p)
<1>1. PoolSound(q) /\ SweptOnly(d, q)
    BY MaybeSweepKeeps
<1>2. SameSpans(p, q)
    BY <1>1 DEF SweptOnly, SameSpans
<1> QED BY <1>1, <1>2, CoveredKept

\* The pool as it is when a call has moved the epoch.
LEMMA BumpedPool ==
    ASSUME PoolInv, NEW p, p = BumpEpoch(cp)
    PROVE  /\ PoolSound(p) /\ p.slabs = cp.slabs /\ p.bucket = cp.bucket
           /\ SameSpans(cp, p) /\ Covered(p) = Covered(cp)
<1>1. PoolSound(p) /\ p.slabs = cp.slabs /\ p.bucket = cp.bucket
    BY BumpEpochKeeps DEF PoolInv
<1>2. SameSpans(cp, p)
    BY <1>1 DEF SameSpans
<1> QED BY <1>1, <1>2, CoveredKept

\* register_slab
LEMMA RegisterSlabKeeps ==
    ASSUME PoolInv, NEW sp \in Spans, RegisterSlab(sp) PROVE PoolInv'
<1> DEFINE p == BumpEpoch(cp)
           d == Registered(p, sp)
           n == Len(p.slabs)
<1>1. PoolSound(p) /\ p.slabs = cp.slabs /\ Covered(p) = Covered(cp)
    BY BumpedPool
<1>2. /\ \A k \in DOMAIN cp.slabs : cp.slabs[k].start # sp.start
      /\ cp' \in MaybeSweep(d)
      /\ issued' = issued \cup SpanBlocks(sp)
    BY DEF RegisterSlab, Registered
<1> HIDE DEF p
<1>3. /\ PoolSound(d) /\ DOMAIN d.slabs = DOMAIN p.slabs \cup {n + 1}
      /\ d.slabs[n + 1] = NewRecord(sp)
      /\ \A k \in DOMAIN p.slabs : d.slabs[k] = p.slabs[k]
    <2>1. \A k \in DOMAIN p.slabs : p.slabs[k].start # sp.start
        BY <1>1, <1>2
    <2> QED BY <2>1, <1>1, RegisteredSound
<1> HIDE DEF d
<1>4. PoolSound(cp') /\ Covered(cp') = Covered(d)
    <2>1. SameSpans(d, d)
        BY DEF SameSpans
    <2> QED BY <2>1, <1>2, <1>3, SweptSound
<1>5. Covered(p) \subseteq Covered(d)
    BY <1>3 DEF Covered
<1>6. SpanBlocks(sp) \subseteq Covered(d)
    <2>1. ASSUME NEW b \in SpanBlocks(sp) PROVE b \in Covered(d)
        <3>1. sp.start \in Nat /\ sp.count \in Nat
            BY SpansAssumption
        <3>2. b \in Nat /\ sp.start <= b /\ b < sp.start + sp.count
            BY <2>1, <3>1 DEF SpanBlocks
        <3>3. NewRecord(sp).start = sp.start /\ NewRecord(sp).capacity = sp.count
            BY DEF NewRecord
        <3>4. SlabContains(d.slabs[n + 1], b)
            BY <3>2, <3>3, <1>3 DEF SlabContains
        <3> QED BY <3>2, <3>4, <1>3 DEF Covered
    <2> QED BY <2>1
<1>7. issued' \subseteq Covered(cp')
    BY <1>1, <1>2, <1>4, <1>5, <1>6 DEF PoolInv
<1> QED BY <1>4, <1>7 DEF PoolInv

\* take_refill from a partial slab
LEMMA TakeBatchKeeps == ASSUME PoolInv, TakeBatch PROVE PoolInv'
<1> DEFINE p == BumpEpoch(cp)
           b == "Partial"
           i == Last(p.bucket[b])
           d == TakePartial(p, i)
           f == p.slabs[i].partial_free
<1>1. PoolSound(p) /\ SameSpans(cp, p) /\ Covered(p) = Covered(cp)
    BY BumpedPool
<1>2. /\ p.bucket[b] # <<>> /\ cp' \in MaybeSweep(d)
      /\ issued' = issued \cup {f[k] : k \in 1 .. Smaller(MaxRefill, Len(f))}
    BY DEF TakeBatch
<1> HIDE DEF p
<1>3. i \in DOMAIN p.slabs /\ p.slabs[i].state = b
    <2>1. b \in BucketNames
        BY DEF BucketNames
    <2> QED BY <2>1, <1>1, <1>2, LastOfBucket
<1> HIDE DEF i
<1>4. PoolSound(d) /\ SameSpans(p, d)
    BY <1>1, <1>3, TakePartialKeeps
<1> HIDE DEF d
<1>5. PoolSound(cp') /\ Covered(cp') = Covered(p)
    BY <1>2, <1>4, SweptSound
<1>6. \A k \in 1 .. Smaller(MaxRefill, Len(f)) : f[k] \in Covered(p)
    <2>1. p.slabs[i] \in PoolSlabRecord /\ Inside(p.slabs[i])
        BY <1>1, <1>3, OwnFit DEF PoolSound, PoolTable
    <2>2. f \in Seq(Nat)
        BY <2>1 DEF PoolSlabRecord
    <2>3. 1 .. Smaller(MaxRefill, Len(f)) \subseteq DOMAIN f
        BY <2>2, ClassPoolAssumption DEF Smaller
    <2>4. \A k \in DOMAIN f : SlabContains(p.slabs[i], f[k]) /\ f[k] \in Nat
        BY <2>1, <2>2 DEF Inside
    <2> QED BY <2>3, <2>4, <1>3 DEF Covered
<1>7. issued' \subseteq Covered(cp')
    BY <1>1, <1>2, <1>5, <1>6 DEF PoolInv
<1> QED BY <1>5, <1>7 DEF PoolInv

\* take_refill of a whole slab
LEMMA TakeSlabKeeps == ASSUME PoolInv, TakeSlab PROVE PoolInv'
<1> DEFINE p == BumpEpoch(cp)
           b == IF p.bucket["FullHot"] # <<>> THEN "FullHot" ELSE "FullCold"
           i == Last(p.bucket[b])
           d == LoanSlab(p, i)
           x == p.slabs[i]
<1>1. PoolSound(p) /\ SameSpans(cp, p) /\ Covered(p) = Covered(cp)
    BY BumpedPool
<1>2. /\ p.bucket[b] # <<>> /\ cp' \in MaybeSweep(d)
      /\ issued' = issued \cup (x.start .. x.start + x.capacity - 1)
    BY DEF TakeSlab
<1>8. b \in BucketNames
    BY DEF BucketNames
<1> HIDE DEF p, b
<1>3. i \in DOMAIN p.slabs /\ p.slabs[i].state = b
    BY <1>1, <1>2, <1>8, LastOfBucket
<1> HIDE DEF i
<1>4. PoolSound(d) /\ SameSpans(p, d)
    BY <1>1, <1>3, LoanSlabKeeps
<1> HIDE DEF d
<1>5. PoolSound(cp') /\ Covered(cp') = Covered(p)
    BY <1>2, <1>4, SweptSound
<1>6. x.start .. x.start + x.capacity - 1 \subseteq Covered(p)
    <2>1. x \in PoolSlabRecord
        BY <1>1, <1>3, OwnFit
    <2>2. x.start \in Nat /\ x.capacity \in Nat
        BY ONLY <2>1 DEF PoolSlabRecord
    <2> HIDE DEF x
    <2>3. \A c \in x.start .. x.start + x.capacity - 1 : c \in Nat /\ SlabContains(x, c)
        BY ONLY <2>2 DEF SlabContains
    <2> QED BY <2>3, <1>3 DEF Covered, x
<1>7. issued' \subseteq Covered(cp')
    BY <1>1, <1>2, <1>5, <1>6 DEF PoolInv
<1> QED BY <1>5, <1>7 DEF PoolInv

\* take_refill that finds nothing
LEMMA TakeNothingKeeps == ASSUME PoolInv, TakeNothing PROVE PoolInv'
<1> DEFINE p == BumpEpoch(cp)
<1>1. PoolSound(p) /\ SameSpans(cp, p)
    BY BumpedPool
<1>2. cp' \in MaybeSweep(p) /\ issued' = issued
    BY DEF TakeNothing
<1> HIDE DEF p
<1>3. PoolSound(cp') /\ Covered(cp') = Covered(cp)
    BY <1>1, <1>2, SweptSound
<1> QED BY <1>2, <1>3 DEF PoolInv

\* Blocks of registered slabs are addresses.
LEMMA CoveredInArena == ASSUME NEW p, PoolSound(p) PROVE Covered(p) \subseteq Addresses
<1>1. SpansRecorded(p)
    BY DEF PoolSound, PoolTable
<1>2. ASSUME NEW b \in Covered(p) PROVE b \in Addresses
    <2>1. PICK i \in DOMAIN p.slabs : SlabContains(p.slabs[i], b)
        BY <1>2 DEF Covered
    <2>2. b \in Int
        BY <1>2 DEF Covered
    <2> QED BY <2>1, <2>2, <1>1, SlabInArena
<1> QED BY <1>2

\* return_batch
LEMMA ReturnBatchKeeps ==
    ASSUME PoolInv, NEW B \in SUBSET issued, NEW list \in SetToSeqs(B), ReturnBatch(list)
    PROVE  PoolInv'
<1> DEFINE p == BumpEpoch(cp)
           d == ReturnAll(p, list)
<1>1. PoolSound(p) /\ SameSpans(cp, p) /\ Covered(p) = Covered(cp)
    BY BumpedPool
<1>2. cp' \in MaybeSweep(d) /\ issued' = issued \ ToSet(list)
    BY DEF ReturnBatch
<1> HIDE DEF p
<1>3. B \subseteq Covered(p) /\ B \in SUBSET Addresses
    BY <1>1, CoveredInArena DEF PoolInv
<1>4. list \in Seq(Nat) /\ ToSet(list) = B
    BY <1>3, OrderOf
<1>5. PoolSound(d) /\ SameSpans(p, d)
    BY <1>1, <1>3, <1>4, ReturnAllKeeps
<1> HIDE DEF d
<1>6. PoolSound(cp') /\ Covered(cp') = Covered(p)
    BY <1>2, <1>5, SweptSound
<1>7. issued' \subseteq Covered(cp')
    BY <1>1, <1>2, <1>6 DEF PoolInv
<1> QED BY <1>6, <1>7 DEF PoolInv

\* Every call keeps the invariant.
LEMMA PoolInvNext == PoolInv /\ [PoolNext]_poolVars => PoolInv'
<1> SUFFICES ASSUME PoolInv, [PoolNext]_poolVars PROVE PoolInv'
    OBVIOUS
<1>1. ASSUME NEW sp \in Spans, RegisterSlab(sp) PROVE PoolInv'
    BY <1>1, RegisterSlabKeeps
<1>2. CASE TakeBatch
    BY <1>2, TakeBatchKeeps
<1>3. CASE TakeSlab
    BY <1>3, TakeSlabKeeps
<1>4. CASE TakeNothing
    BY <1>4, TakeNothingKeeps
<1>5. ASSUME NEW B \in SUBSET issued, NEW list \in SetToSeqs(B), ReturnBatch(list) PROVE PoolInv'
    BY <1>5, ReturnBatchKeeps
<1>6. CASE UNCHANGED poolVars
    BY <1>6 DEF poolVars, PoolInv
<1> QED BY <1>1, <1>2, <1>3, <1>4, <1>5, <1>6 DEF PoolNext

\* A new pool has no slabs.
LEMMA PoolInvInit == PoolInit => PoolInv
<1> SUFFICES ASSUME PoolInit PROVE PoolInv
    OBVIOUS
<1> DEFINE z == 0
           u == <<>>
           bk == [b \in BucketNames |-> u]
<1>1. cp = [slabs |-> u, age |-> u, by_start |-> u, bucket |-> bk, phase |-> z, cursor |-> z,
            recent |-> z] /\ issued = {}
    BY DEF PoolInit, NewPool
<1>2. /\ z \in Nat /\ u \in Seq(Nat) /\ u \in Seq(PoolSlabRecord) /\ z < SweepInterval
      /\ z <= Len(u) /\ DOMAIN u = {}
    BY ClassPoolAssumption
<1>3. bk \in [BucketNames -> Seq(Nat)] /\ \A b \in BucketNames : bk[b] = u
    BY <1>2
<1>4. "FullHot" \in BucketNames
    BY DEF BucketNames
<1> HIDE DEF bk
<1>5. bk["FullHot"] = <<>>
    BY <1>3, <1>4
<1> HIDE DEF z, u
<1>6. /\ cp \in PoolRecord /\ cp.slabs = u /\ cp.age = u /\ cp.by_start = u /\ cp.bucket = bk
      /\ cp.phase = z /\ cp.cursor = z /\ cp.recent = z
    BY ONLY <1>1, <1>2, <1>3 DEF PoolRecord
<1>7. Indexed(cp) /\ SpansRecorded(cp)
    BY <1>2, <1>6 DEF Indexed, SpansRecorded
<1>8. PoolTable(cp)
    BY <1>2, <1>6, <1>7 DEF PoolTable
<1>9. Bucketed(cp, States(cp))
    <2> DEFINE S == States(cp)
    <2>1. S \in [DOMAIN cp.slabs -> SlabStates] /\ DOMAIN S = {}
        BY <1>2, <1>6 DEF States
    <2> HIDE DEF S
    <2>2. ASSUME NEW b \in BucketNames PROVE Listed(cp.slabs, cp.bucket[b], Members(S, b))
        <3>1. Members(S, b) = {} /\ DOMAIN cp.bucket[b] = {}
            BY <2>1, <1>2, <1>3, <1>6 DEF Members
        <3> QED BY <3>1 DEF Listed
    <2>3. cp.cursor = 0 /\ cp.bucket["FullHot"] = <<>>
        BY <1>5, <1>6 DEF z
    <2>4. Bucketed(cp, S)
        BY <2>1, <2>2, <2>3, <1>2, <1>6 DEF Bucketed
    <2> QED BY <2>4 DEF S
<1> QED BY <1>1, <1>8, <1>9 DEF PoolInv, PoolSound

\* A bucket is no longer than the slab table.
LEMMA BucketShort ==
    ASSUME NEW p, PoolSound(p), NEW b \in BucketNames
    PROVE  Len(p.bucket[b]) <= Len(p.slabs)
<1> DEFINE v == p.bucket[b]
           n == Len(v)
           m == Len(p.slabs)
           M == Members(States(p), b)
           S == {v[k] : k \in 1 .. n}
<1>1. v \in Seq(Nat) /\ Listed(p.slabs, v, M) /\ p.slabs \in Seq(PoolSlabRecord)
    BY OwnFit DEF PoolSound, Bucketed
<1>2. M \subseteq 1 .. m /\ m \in Nat
    BY <1>1 DEF Members, States
<1> HIDE DEF v, m, M
<1>3. Once(v)
    BY <1>1 DEF Once, Listed
<1>4. n \in 0 .. Len(v) /\ n \in Nat /\ DOMAIN v = 1 .. n
    BY <1>1
<1>5. Cardinality(S) = n
    BY <1>1, <1>3, <1>4, ListCount
<1>6. S \subseteq 1 .. m
    BY <1>1, <1>2, <1>4 DEF Listed
<1>7. IsFiniteSet(1 .. m) /\ Cardinality(1 .. m) = m
    BY <1>2, FS_Interval
<1> HIDE DEF S, n
<1>8. Cardinality(S) <= Cardinality(1 .. m)
    BY <1>6, <1>7, FS_Subset
<1> QED BY <1>5, <1>7, <1>8 DEF v, m, n

\* What the invariant says of buckets, slots and cursor.
LEMMA PoolInvBuckets == PoolInv => BucketsSound
<1> SUFFICES ASSUME PoolInv PROVE BucketsSound
    OBVIOUS
<1> DEFINE S == States(cp)
<1>1. PoolSound(cp) /\ PoolTable(cp) /\ Bucketed(cp, S)
    BY DEF PoolInv, PoolSound
<1>2. /\ cp.slabs \in Seq(PoolSlabRecord) /\ cp.age \in Seq(Nat) /\ cp.phase \in Nat
      /\ cp.recent \in 0 .. Len(cp.slabs) /\ cp.bucket \in [BucketNames -> Seq(Nat)]
      /\ cp.cursor \in Nat
    BY <1>1, OwnFit DEF AgesFit, CursorFits
<1>3. \A i \in DOMAIN cp.slabs : cp.slabs[i] \in PoolSlabRecord
    BY <1>2
<1>4. \A i \in DOMAIN cp.slabs : cp.slabs[i].state \in SlabStates /\ cp.slabs[i].slot \in Nat
    BY ONLY <1>3 DEF PoolSlabRecord
<1>5. DOMAIN S = DOMAIN cp.slabs /\ \A i \in DOMAIN cp.slabs : S[i] = cp.slabs[i].state
    BY DEF States
<1>6. /\ \A b \in BucketNames : Listed(cp.slabs, cp.bucket[b], Members(S, b))
      /\ \A i \in DOMAIN cp.slabs : cp.slabs[i].slot = 0 <=> S[i] = "Loaned"
    BY <1>1 DEF Bucketed
<1> HIDE DEF S
<1>7. PoolTypeOK
    <2>1. issued \subseteq 0 .. ArenaBlocks - 1
        BY <1>1, CoveredInArena DEF PoolInv, Addresses
    <2>2. cp.phase \in 0 .. SweepInterval - 1
        BY <1>1, <1>2, ClassPoolAssumption DEF PoolTable
    <2>3. ASSUME NEW i \in DOMAIN cp.slabs
          PROVE  /\ cp.age[i] \in 0 .. ColdEpochs
                 /\ cp.slabs[i].state \in BucketNames \cup {"Loaned"}
                 /\ cp.slabs[i].slot \in 0 .. Len(cp.slabs)
        <3>1. cp.age[i] \in 0 .. ColdEpochs
            BY <1>1, <1>2, ClassPoolAssumption DEF PoolTable
        <3>2. cp.slabs[i].state \in BucketNames \cup {"Loaned"}
            BY <1>4 DEF SlabStates
        <3>3. CASE cp.slabs[i].slot = 0
            BY <3>1, <3>2, <3>3, <1>2
        <3>4. CASE cp.slabs[i].slot # 0
            <4> DEFINE b == S[i]
                       v == cp.bucket[b]
            <4>1. b \in BucketNames
                BY <3>2, <3>4, <1>5, <1>6
            <4>2. cp.slabs[i].slot \in DOMAIN v /\ v \in Seq(Nat)
                BY <4>1, <1>2, <1>5, <1>6 DEF Listed, Members
            <4>3. Len(v) <= Len(cp.slabs)
                BY <4>1, <1>1, BucketShort
            <4> HIDE DEF v
            <4>4. cp.slabs[i].slot \in 0 .. Len(cp.slabs)
                BY <4>2, <4>3, <1>2
            <4> QED BY <4>4, <3>1, <3>2
        <3> QED BY <3>3, <3>4
    <2> QED BY <2>1, <2>2, <2>3, <1>2 DEF PoolTypeOK
<1>8. BucketsExact
    <2>1. ASSUME NEW b \in BucketNames
          PROVE  /\ ToSet(cp.bucket[b]) = {i \in DOMAIN cp.slabs : cp.slabs[i].state = b}
                 /\ \A k \in DOMAIN cp.bucket[b] : cp.slabs[cp.bucket[b][k]].slot = k
        <3> DEFINE v == cp.bucket[b]
                   M == Members(S, b)
        <3>1. Listed(cp.slabs, v, M)
            BY <1>6
        <3>2. M = {i \in DOMAIN cp.slabs : cp.slabs[i].state = b}
            BY <1>5 DEF Members
        <3> HIDE DEF v, M
        <3>3. ToSet(v) = M
            BY <3>1 DEF Listed, ToSet
        <3>4. \A k \in DOMAIN v : cp.slabs[v[k]].slot = k
            BY <3>1 DEF Listed
        <3> QED BY <3>2, <3>3, <3>4 DEF v
    <2>2. \A i \in DOMAIN cp.slabs : cp.slabs[i].slot = 0 <=> cp.slabs[i].state = "Loaned"
        BY <1>5, <1>6
    <2> QED BY <2>1, <2>2 DEF BucketsExact
<1>9. CursorInRange
    <2> DEFINE v == cp.bucket["FullHot"]
    <2>1. v \in Seq(Nat)
        BY <1>2 DEF BucketNames
    <2>2. (v = <<>> => cp.cursor = 0) /\ (v # <<>> => cp.cursor < Len(v))
        BY <1>1 DEF Bucketed
    <2> HIDE DEF v
    <2>3. cp.cursor \in 0 .. (IF v = <<>> THEN 0 ELSE Len(v) - 1)
        BY <2>1, <2>2, <1>2
    <2> QED BY <2>3 DEF CursorInRange, v
<1> QED BY <1>7, <1>8, <1>9 DEF BucketsSound

\* The invariant of the class pool, at all times.
LEMMA PoolAlwaysSound == PoolSpec => []PoolInv
    BY PoolInvInit, PoolInvNext, PTL DEF PoolSpec

\* Each bucket of the central pool lists exactly the slabs in its state, bucket_slot
\* points back at every listed slab and the sweep cursor names a hot slab, after any
\* sequence of registrations, refills, returns and sweeps.
THEOREM PoolBucketsSound == PoolSpec => []BucketsSound
    BY PoolAlwaysSound, PoolInvBuckets, PTL

\* find_slab_id_unchecked finds, for every block a caller may return, the slab that
\* contains it, by the recent slab or by the sorted index.
THEOREM PoolLookupRight == PoolSpec => []LookupRight
<1>1. PoolInv => LookupRight
    BY FindSlabIdIs DEF PoolInv, LookupRight
<1> QED BY <1>1, PoolAlwaysSound, PTL

-----------------------------------------------------------------------------
(* ClassPool keeps CentralContract.  The contract's state is PoolView(cp); *)
(* its steps need the ledger: what each slab counts as free and what       *)
(* callers have of it make up its capacity.                                *)

\* The map F from addresses shows the slabs of p at their starts, and nothing else.
Depicts(F, p) ==
    /\ F = [s \in Addresses |-> F[s]]
    /\ \A i \in DOMAIN p.slabs : /\ p.slabs[i].start \in Addresses
                                 /\ F[p.slabs[i].start] = SlabView(p.slabs[i])
    /\ \A s \in Addresses : (\A i \in DOMAIN p.slabs : p.slabs[i].start # s) => F[s] = NoSlab

\* The view of a pool depicts it.
LEMMA ViewDepicts ==
    ASSUME NEW p, SpansRecorded(p) PROVE Depicts(PoolView(p), p)
<1>1. /\ PoolView(p) = [s \in Addresses |-> PoolView(p)[s]]
      /\ \A s \in Addresses : PoolView(p)[s] =
            IF SlabsAt(p, s) = {} THEN NoSlab ELSE SlabView(p.slabs[CHOOSE i \in SlabsAt(p, s) : TRUE])
    BY DEF PoolView, Addresses
<1>2. ASSUME NEW i \in DOMAIN p.slabs
      PROVE  /\ p.slabs[i].start \in Addresses
             /\ PoolView(p)[p.slabs[i].start] = SlabView(p.slabs[i])
    <2> DEFINE s == p.slabs[i].start
    <2>1. s \in Addresses
        <3>1. PICK sp \in Spans : s = sp.start /\ p.slabs[i].capacity = sp.count
            BY DEF SpansRecorded
        <3> QED BY <3>1, SpansAssumption DEF Addresses
    <2>2. SlabsAt(p, s) = {i}
        BY DEF SlabsAt, SpansRecorded
    <2>3. (CHOOSE k \in SlabsAt(p, s) : TRUE) = i
        BY <2>2
    <2> QED BY <1>1, <2>1, <2>2, <2>3
<1>3. ASSUME NEW s \in Addresses, \A i \in DOMAIN p.slabs : p.slabs[i].start # s
      PROVE  PoolView(p)[s] = NoSlab
    <2>1. SlabsAt(p, s) = {}
        BY <1>3 DEF SlabsAt
    <2> QED BY <1>1, <2>1
<1> QED BY <1>1, <1>2, <1>3 DEF Depicts

\* Only the view depicts a pool.
LEMMA DepictedIs ==
    ASSUME NEW p, SpansRecorded(p), NEW F, Depicts(F, p) PROVE PoolView(p) = F
<1> DEFINE V == PoolView(p)
<1>1. Depicts(V, p)
    BY ViewDepicts
<1> HIDE DEF V
<1>2. \A s \in Addresses : V[s] = F[s]
    <2>1. ASSUME NEW s \in Addresses PROVE V[s] = F[s]
        <3>1. CASE \E i \in DOMAIN p.slabs : p.slabs[i].start = s
            BY SMTT(30), <3>1, <1>1 DEF Depicts
        <3>2. CASE ~ \E i \in DOMAIN p.slabs : p.slabs[i].start = s
            BY <3>2, <1>1 DEF Depicts
        <3> QED BY <3>1, <3>2
    <2> QED BY <2>1
<1>3. V = [s \in Addresses |-> V[s]] /\ F = [s \in Addresses |-> F[s]]
    BY <1>1 DEF Depicts
<1>4. [s \in Addresses |-> V[s]] = [s \in Addresses |-> F[s]]
    BY <1>2
<1>5. V = F
    BY <1>3, <1>4
<1> QED BY <1>5 DEF V

\* One slab that became r is one entry of the view.
LEMMA ViewWritten ==
    ASSUME NEW p, SpansRecorded(p), NEW q, SpansRecorded(q), NEW i \in DOMAIN p.slabs, NEW r,
           r.start = p.slabs[i].start, Became(p, q, i, r)
    PROVE  PoolView(q) = [PoolView(p) EXCEPT ![p.slabs[i].start] = SlabView(r)]
<1> DEFINE V == PoolView(p)
           s == p.slabs[i].start
           v == SlabView(r)
           F == [V EXCEPT ![s] = v]
<1>1. Depicts(V, p)
    BY ViewDepicts
<1> HIDE DEF V
<1>2. V = [a \in Addresses |-> V[a]] /\ s \in Addresses
    BY <1>1 DEF Depicts
<1>3. F = [a \in Addresses |-> F[a]] /\ F[s] = v /\ \A a \in Addresses : a # s => F[a] = V[a]
    <2> HIDE DEF s, v
    <2> QED BY <1>2
<1> HIDE DEF F
<1>4. /\ DOMAIN q.slabs = DOMAIN p.slabs
      /\ \A j \in DOMAIN p.slabs : q.slabs[j].start = p.slabs[j].start
      /\ SlabView(q.slabs[i]) = v
      /\ \A j \in DOMAIN p.slabs : j # i => SlabView(q.slabs[j]) = SlabView(p.slabs[j])
    BY DEF Became, SameContents, SlabView
<1>5. \A j \in DOMAIN p.slabs : j # i => p.slabs[j].start # s
    BY DEF SpansRecorded
<1>6. Depicts(F, q)
    <2>1. ASSUME NEW j \in DOMAIN q.slabs
          PROVE  q.slabs[j].start \in Addresses /\ F[q.slabs[j].start] = SlabView(q.slabs[j])
        <3>1. CASE j = i
            BY <3>1, <1>2, <1>3, <1>4
        <3>2. CASE j # i
            BY <3>2, <1>1, <1>3, <1>4, <1>5 DEF Depicts
        <3> QED BY <3>1, <3>2
    <2>2. ASSUME NEW a \in Addresses, \A j \in DOMAIN q.slabs : q.slabs[j].start # a
          PROVE  F[a] = NoSlab
        <3>1. \A j \in DOMAIN p.slabs : p.slabs[j].start # a
            BY <2>2, <1>4
        <3> QED BY <3>1, <1>1, <1>3 DEF Depicts
    <2> QED BY <2>1, <2>2, <1>3 DEF Depicts
<1>7. PoolView(q) = F
    BY <1>6, DepictedIs
<1> QED BY <1>7 DEF F, V

\* Pools with the same slabs look the same.
LEMMA ViewSame ==
    ASSUME NEW p, NEW q, q.slabs = p.slabs PROVE PoolView(q) = PoolView(p)
    BY DEF PoolView, SlabsAt

\* A sweep is a sweep of the view.
LEMMA ViewSwept ==
    ASSUME NEW p, PoolSound(p), NEW q, PoolSound(q), SweptOnly(p, q)
    PROVE  PoolView(q) \in PoolContract!Sweep(PoolView(p))
<1>1. SpansRecorded(p) /\ SpansRecorded(q) /\ p.slabs \in Seq(PoolSlabRecord)
    BY OwnFit DEF PoolSound, PoolTable
<1> DEFINE V == PoolView(p)
<1>2. Depicts(V, p)
    BY <1>1, ViewDepicts
<1>3. CASE \A j \in DOMAIN p.slabs : q.slabs[j].state = p.slabs[j].state
    <2>1. Depicts(V, q)
        BY <1>2, <1>3 DEF Depicts, SweptOnly, SlabView
    <2>2. PoolView(q) = V
        BY <2>1, <1>1, DepictedIs
    <2> QED BY <2>2 DEF PoolContract!Sweep
<1>4. CASE ~ \A j \in DOMAIN p.slabs : q.slabs[j].state = p.slabs[j].state
    <2>1. PICK i \in DOMAIN p.slabs : q.slabs[i].state # p.slabs[i].state
        BY <1>4
    <2> DEFINE x == p.slabs[i]
               cold == "FullCold"
               r == [x EXCEPT !.state = cold]
    <2>2. x.state = "FullHot" /\ q.slabs[i].state = cold
        BY <2>1 DEF SweptOnly
    <2>3. x \in PoolSlabRecord
        BY <1>1
    <2>4. /\ r.start = x.start /\ r.capacity = x.capacity /\ r.state = cold
          /\ r.central_free_len = x.central_free_len /\ r.partial_free = x.partial_free
        <3> HIDE DEF x, cold
        <3> QED BY <2>3 DEF PoolSlabRecord
    <2> HIDE DEF r
    <2>5. Became(p, q, i, r)
        BY <2>1, <2>2, <2>4 DEF SweptOnly, Became, SameContents
    <2>6. PoolView(q) = [V EXCEPT ![x.start] = SlabView(r)]
        BY <2>4, <2>5, <1>1, ViewWritten
    <2>7. V[x.start] = SlabView(x) /\ x.start \in Addresses
        BY <1>2 DEF Depicts
    <2>8. SlabView(r) = [V[x.start] EXCEPT !.state = "FullCold"]
        BY <2>4, <2>7 DEF SlabView
    <2>9. x.start \in PoolContract!Bucket(V, "FullHot")
        BY <2>2, <2>7 DEF PoolContract!Bucket, PoolContract!Addr, Addresses, SlabView
    <2> DEFINE s == x.start
               v == [V[s] EXCEPT !.state = "FullCold"]
    <2>10. PoolView(q) = [V EXCEPT ![s] = v] /\ s \in Addresses /\ V = [a \in Addresses |-> V[a]]
        BY <2>6, <2>7, <2>8, <1>2 DEF Depicts
    <2> HIDE DEF V, x, s
    <2>11. /\ PoolContract!Cooled(V, s) = [t \in Addresses |->
                                          IF t = s THEN [V[t] EXCEPT !.state = "FullCold"] ELSE V[t]]
        BY ONLY TRUE DEF PoolContract!Cooled, PoolContract!Addr, Addresses
    <2>12. PoolView(q) = PoolContract!Cooled(V, s)
        BY ONLY <2>10, <2>11
    <2>13. PoolContract!Cooled(V, s) \in PoolContract!Sweep(V)
        BY <2>9 DEF PoolContract!Sweep, s
    <2> QED BY <2>12, <2>13 DEF V
<1> QED BY <1>3, <1>4

-----------------------------------------------------------------------------
SlabSpan(x) == x.start .. x.start + x.capacity - 1

\* A slab's account when callers have the blocks I: its list holds each block once and
\* none that a caller has, and what it counts and what callers have is its capacity.
Counted(x, I) ==
    /\ Once(x.partial_free)
    /\ ToSet(x.partial_free) \cap I = {}
    /\ x.central_free_len + Cardinality(I \cap SlabSpan(x)) = x.capacity
    /\ x.state \in {"FullHot", "FullCold"} => x.partial_free = <<>>

Ledger(p, I) == \A i \in DOMAIN p.slabs : Counted(p.slabs[i], I)

\* The inductive invariant of the refinement.
LedgerInv == PoolInv /\ Ledger(cp, issued)

\* Blocks of a span are what its slab contains.
LEMMA SpanIs ==
    ASSUME NEW p, PoolSound(p), NEW i \in DOMAIN p.slabs
    PROVE  /\ p.slabs[i] \in PoolSlabRecord
           /\ p.slabs[i].start \in Nat /\ p.slabs[i].capacity \in Nat \ {0}
           /\ p.slabs[i].central_free_len \in Int /\ p.slabs[i].partial_free \in Seq(Nat)
           /\ SlabSpan(p.slabs[i]) \subseteq Addresses
           /\ \A b \in Int : b \in SlabSpan(p.slabs[i]) <=> SlabContains(p.slabs[i], b)
           /\ Cardinality(SlabSpan(p.slabs[i])) = p.slabs[i].capacity
           /\ ToSet(p.slabs[i].partial_free) \subseteq SlabSpan(p.slabs[i])
<1> DEFINE x == p.slabs[i]
<1>1. x \in PoolSlabRecord /\ SpansRecorded(p) /\ Inside(x)
    BY OwnFit DEF PoolSound, PoolTable
<1>2. PICK sp \in Spans : x.start = sp.start /\ x.capacity = sp.count
    BY <1>1 DEF SpansRecorded
<1>3. /\ sp.start \in Nat /\ sp.count \in Nat \ {0} /\ SpanBlocks(sp) \subseteq Addresses
      /\ Cardinality(SpanBlocks(sp)) = sp.count
    BY SpanCount
<1>4. SlabSpan(x) = SpanBlocks(sp)
    BY <1>2 DEF SlabSpan, SpanBlocks
<1>5. x.partial_free \in Seq(Nat) /\ x.central_free_len \in Int
    <2> HIDE DEF x
    <2> QED BY <1>1 DEF PoolSlabRecord
<1> HIDE DEF x
<1>6. \A b \in Int : b \in SlabSpan(x) <=> SlabContains(x, b)
    BY <1>2, <1>3 DEF SlabSpan, SlabContains
<1>7. ToSet(x.partial_free) \subseteq SlabSpan(x)
    BY <1>1, <1>5, <1>6 DEF ToSet, Inside
<1> QED BY <1>1, <1>2, <1>3, <1>4, <1>5, <1>6, <1>7 DEF x

\* Spans of different slabs have no block in common.
LEMMA SpansDiffer ==
    ASSUME NEW p, PoolSound(p), NEW i \in DOMAIN p.slabs, NEW j \in DOMAIN p.slabs, i # j
    PROVE  SlabSpan(p.slabs[i]) \cap SlabSpan(p.slabs[j]) = {}
<1>1. SpansRecorded(p)
    BY DEF PoolSound, PoolTable
<1>2. ASSUME NEW b, b \in SlabSpan(p.slabs[i]), b \in SlabSpan(p.slabs[j]) PROVE FALSE
    <2>1. b \in Int
        BY <1>2 DEF SlabSpan
    <2>2. SlabContains(p.slabs[i], b) /\ SlabContains(p.slabs[j], b)
        BY <1>2, <2>1, SpanIs
    <2> QED BY <1>1, <2>1, <2>2, SlabsApart
<1> QED BY <1>2

\* An account depends on the slab's contents, and on what callers have of its span.
LEMMA CountedElsewhere ==
    ASSUME NEW p, PoolSound(p), NEW i \in DOMAIN p.slabs, NEW I, Counted(p.slabs[i], I),
           NEW J, J \cap SlabSpan(p.slabs[i]) = I \cap SlabSpan(p.slabs[i]),
           NEW y, SameContents(p.slabs[i], y)
    PROVE  Counted(y, J)
<1> DEFINE x == p.slabs[i]
<1>1. ToSet(x.partial_free) \subseteq SlabSpan(x)
    BY SpanIs
<1>2. ToSet(x.partial_free) \cap J = {}
    BY <1>1 DEF Counted
<1>3. y.partial_free = x.partial_free /\ y.state = x.state /\ y.capacity = x.capacity
      /\ y.central_free_len = x.central_free_len /\ SlabSpan(y) = SlabSpan(x)
    BY DEF SameContents, SlabSpan
<1> QED BY <1>2, <1>3 DEF Counted

\* One slab's account changes with what callers have of that slab.
LEMMA LedgerWritten ==
    ASSUME NEW p, PoolSound(p), NEW I, Ledger(p, I), NEW q, NEW i \in DOMAIN p.slabs, NEW r,
           Became(p, q, i, r), NEW J, Counted(r, J),
           \A b : b \notin SlabSpan(p.slabs[i]) => (b \in J <=> b \in I)
    PROVE  Ledger(q, J)
<1>1. ASSUME NEW j \in DOMAIN q.slabs PROVE Counted(q.slabs[j], J)
    <2>1. j \in DOMAIN p.slabs
        BY DEF Became
    <2>2. CASE j = i
        <3>1. SameContents(r, q.slabs[i])
            BY DEF Became
        <3> QED BY <2>2, <3>1 DEF Counted, SameContents, SlabSpan
    <2>3. CASE j # i
        <3>1. SameContents(p.slabs[j], q.slabs[j])
            BY <2>1, <2>3 DEF Became
        <3>2. SlabSpan(p.slabs[j]) \cap SlabSpan(p.slabs[i]) = {}
            BY <2>1, <2>3, SpansDiffer
        <3>3. J \cap SlabSpan(p.slabs[j]) = I \cap SlabSpan(p.slabs[j])
            BY <3>2
        <3>4. Counted(p.slabs[j], I)
            BY <2>1 DEF Ledger
        <3> QED BY <2>1, <3>1, <3>3, <3>4, CountedElsewhere
    <2> QED BY <2>2, <2>3
<1> QED BY <1>1 DEF Ledger

\* A sweep changes no account.
LEMMA LedgerSwept ==
    ASSUME NEW p, NEW q, SweptOnly(p, q), NEW I, Ledger(p, I) PROVE Ledger(q, I)
<1>1. ASSUME NEW j \in DOMAIN q.slabs PROVE Counted(q.slabs[j], I)
    <2>1. j \in DOMAIN p.slabs
        BY DEF SweptOnly
    <2>2. Counted(p.slabs[j], I)
        BY <2>1 DEF Ledger
    <2>3. /\ q.slabs[j].start = p.slabs[j].start
          /\ q.slabs[j].capacity = p.slabs[j].capacity
          /\ q.slabs[j].central_free_len = p.slabs[j].central_free_len
          /\ q.slabs[j].partial_free = p.slabs[j].partial_free
          /\ \/ q.slabs[j].state = p.slabs[j].state
             \/ p.slabs[j].state = "FullHot" /\ q.slabs[j].state = "FullCold"
        BY <2>1 DEF SweptOnly
    <2> QED BY <2>2, <2>3 DEF Counted, SlabSpan
<1> QED BY <1>1 DEF Ledger

-----------------------------------------------------------------------------
\* The sweep at the end of a call.
LEMMA CallEnds ==
    ASSUME NEW d, PoolSound(d), NEW J, Ledger(d, J), NEW q \in MaybeSweep(d)
    PROVE  Ledger(q, J) /\ PoolView(q) \in PoolContract!Sweep(PoolView(d))
<1>1. PoolSound(q) /\ SweptOnly(d, q)
    BY MaybeSweepKeeps
<1> QED BY <1>1, LedgerSwept, ViewSwept

\* The pool that a call works on, after bump_epoch.
LEMMA CallStarts ==
    ASSUME LedgerInv, NEW p, p = BumpEpoch(cp)
    PROVE  /\ PoolSound(p) /\ Ledger(p, issued) /\ PoolView(p) = PoolView(cp)
           /\ p.slabs = cp.slabs /\ p.bucket = cp.bucket /\ issued \subseteq Covered(p)
           /\ SpansRecorded(p) /\ issued \subseteq Addresses
<1>1. PoolSound(p) /\ p.slabs = cp.slabs /\ p.bucket = cp.bucket /\ Covered(p) = Covered(cp)
    BY BumpedPool DEF LedgerInv
<1>2. Ledger(p, issued)
    BY <1>1 DEF LedgerInv, Ledger
<1>3. PoolView(p) = PoolView(cp)
    BY <1>1, ViewSame
<1>4. issued \subseteq Covered(p) /\ Covered(p) \subseteq Addresses
    BY <1>1, CoveredInArena DEF LedgerInv, PoolInv
<1> QED BY <1>1, <1>2, <1>3, <1>4 DEF PoolSound, PoolTable

\* What the contract sees of a slab.
LEMMA SeenSlab ==
    ASSUME NEW p, PoolSound(p), NEW i \in DOMAIN p.slabs
    PROVE  /\ p.slabs[i].start \in Addresses
           /\ PoolView(p)[p.slabs[i].start] = SlabView(p.slabs[i])
           /\ PoolView(p)[p.slabs[i].start].capacity = p.slabs[i].capacity
           /\ PoolView(p)[p.slabs[i].start].central_free_len = p.slabs[i].central_free_len
           /\ PoolView(p)[p.slabs[i].start].partial_free = ToSet(p.slabs[i].partial_free)
           /\ PoolView(p)[p.slabs[i].start].state = p.slabs[i].state
           /\ PoolContract!SlabBlocks(PoolView(p), p.slabs[i].start) = SlabSpan(p.slabs[i])
<1> DEFINE s == p.slabs[i].start
           v == PoolView(p)[s]
<1>1. s \in Addresses /\ v = SlabView(p.slabs[i])
    <2>1. Depicts(PoolView(p), p)
        BY ViewDepicts DEF PoolSound, PoolTable
    <2> QED BY <2>1 DEF Depicts
<1>2. /\ v.capacity = p.slabs[i].capacity /\ v.central_free_len = p.slabs[i].central_free_len
      /\ v.partial_free = ToSet(p.slabs[i].partial_free) /\ v.state = p.slabs[i].state
    BY <1>1 DEF SlabView
<1>3. PoolContract!SlabBlocks(PoolView(p), s) = SlabSpan(p.slabs[i])
    BY <1>2 DEF PoolContract!SlabBlocks, SlabSpan
<1> QED BY <1>1, <1>2, <1>3

\* Every start the contract sees in some state is that of a slab in this state.
LEMMA SeenState ==
    ASSUME NEW p, PoolSound(p), NEW s \in Addresses, PoolView(p)[s].state # "Absent"
    PROVE  \E i \in DOMAIN p.slabs : p.slabs[i].start = s /\ p.slabs[i].state = PoolView(p)[s].state
<1>1. Depicts(PoolView(p), p)
    BY ViewDepicts DEF PoolSound, PoolTable
<1>2. NoSlab.state = "Absent"
    BY DEF NoSlab
<1>3. PICK i \in DOMAIN p.slabs : p.slabs[i].start = s
    BY <1>1, <1>2 DEF Depicts
<1> QED BY <1>3, SeenSlab

\* The registered slabs, as the contract sees them.
LEMMA SeenRegistered ==
    ASSUME NEW p, PoolSound(p)
    PROVE  /\ \A i \in DOMAIN p.slabs : p.slabs[i].start \in PoolContract!Registered(PoolView(p))
           /\ \A s \in PoolContract!Registered(PoolView(p)) :
                 s \in Addresses /\ \E i \in DOMAIN p.slabs : p.slabs[i].start = s
<1>1. PoolContract!Addr = Addresses
    BY DEF PoolContract!Addr, Addresses
<1>2. ASSUME NEW i \in DOMAIN p.slabs PROVE p.slabs[i].start \in PoolContract!Registered(PoolView(p))
    <2>1. p.slabs[i].state # "Absent"
        <3>1. p.slabs[i] \in PoolSlabRecord
            BY OwnFit
        <3> QED BY <3>1 DEF PoolSlabRecord, SlabStates, BucketNames
    <2> QED BY <2>1, <1>1, SeenSlab DEF PoolContract!Registered
<1>3. ASSUME NEW s \in PoolContract!Registered(PoolView(p))
      PROVE  s \in Addresses /\ \E i \in DOMAIN p.slabs : p.slabs[i].start = s
    <2>1. s \in Addresses /\ PoolView(p)[s].state # "Absent"
        BY <1>1, <1>3 DEF PoolContract!Registered
    <2> QED BY <2>1, SeenState
<1> QED BY <1>2, <1>3

\* register_slab
LEMMA EnrollStep ==
    ASSUME LedgerInv, NEW sp \in Spans, RegisterSlab(sp)
    PROVE  Ledger(cp', issued') /\ PoolContract!Enroll(sp.start, sp.count)
<1> DEFINE p == BumpEpoch(cp)
           d == Registered(p, sp)
           n == Len(p.slabs)
           s == sp.start
           V == PoolView(p)
           J == issued'
           y == NewRecord(sp)
<1>1. /\ PoolSound(p) /\ Ledger(p, issued) /\ V = PoolView(cp) /\ p.slabs = cp.slabs
      /\ issued \subseteq Covered(p) /\ SpansRecorded(p) /\ issued \subseteq Addresses
    BY CallStarts
<1>2. /\ \A k \in DOMAIN cp.slabs : cp.slabs[k].start # s
      /\ cp' \in MaybeSweep(d)
      /\ issued' = issued \cup SpanBlocks(sp)
    BY DEF RegisterSlab, Registered
<1> HIDE DEF p
<1>3. /\ PoolSound(d) /\ DOMAIN d.slabs = DOMAIN p.slabs \cup {n + 1}
      /\ d.slabs[n + 1] = y
      /\ \A k \in DOMAIN p.slabs : k # n + 1 /\ d.slabs[k] = p.slabs[k] /\ p.slabs[k].start # s
    <2>1. \A k \in DOMAIN p.slabs : p.slabs[k].start # s
        BY <1>1, <1>2
    <2> QED BY <2>1, <1>1, RegisteredSound
<1> HIDE DEF d
<1>4. /\ y.start = s /\ y.capacity = sp.count /\ y.central_free_len = 0
      /\ y.partial_free = <<>> /\ y.state = "Loaned"
    BY DEF NewRecord
<1>5. /\ s \in Nat /\ sp.count \in Nat \ {0} /\ SpanBlocks(sp) \subseteq Addresses
      /\ Cardinality(SpanBlocks(sp)) = sp.count
    BY SpanCount
<1> HIDE DEF y
<1>6. SpanBlocks(sp) = SlabSpan(y)
    BY <1>4 DEF SpanBlocks, SlabSpan
<1>7. ASSUME NEW k \in DOMAIN p.slabs PROVE SlabSpan(p.slabs[k]) \cap SpanBlocks(sp) = {}
    <2>1. k \in DOMAIN d.slabs /\ n + 1 \in DOMAIN d.slabs /\ k # n + 1
        BY <1>3
    <2>2. SlabSpan(d.slabs[k]) \cap SlabSpan(d.slabs[n + 1]) = {}
        BY <2>1, <1>3, SpansDiffer
    <2> QED BY <2>2, <1>3, <1>6
<1>8. Ledger(d, J)
    <2>1. ASSUME NEW k \in DOMAIN p.slabs PROVE Counted(d.slabs[k], J)
        <3>1. J \cap SlabSpan(p.slabs[k]) = issued \cap SlabSpan(p.slabs[k])
            BY <1>2, <1>7
        <3>2. SameContents(p.slabs[k], d.slabs[k])
            BY <1>3 DEF SameContents
        <3>3. Counted(p.slabs[k], issued)
            BY <1>1 DEF Ledger
        <3> QED BY <1>1, <3>1, <3>2, <3>3, CountedElsewhere
    <2>2. Counted(d.slabs[n + 1], J)
        <3>1. J \cap SlabSpan(y) = SpanBlocks(sp)
            BY <1>2, <1>6
        <3>2. Once(y.partial_free) /\ ToSet(y.partial_free) = {}
            BY <1>4 DEF Once, ToSet
        <3>3. 0 + sp.count = sp.count
            BY <1>5
        <3> QED BY <3>1, <3>2, <3>3, <1>3, <1>4, <1>5 DEF Counted
    <2> QED BY <2>1, <2>2, <1>3 DEF Ledger
<1>9. PoolView(d) = PoolContract!RegisterSlab(V, s, sp.count)
    <2> DEFINE v == SlabView(y)
               F == [V EXCEPT ![s] = v]
    <2>1. Depicts(V, p)
        BY <1>1, ViewDepicts
    <2> HIDE DEF V
    <2>2. V = [a \in Addresses |-> V[a]] /\ s \in Addresses
        <3>1. s \in Addresses
            BY SpansAssumption DEF Addresses
        <3> QED BY <2>1, <3>1 DEF Depicts
    <2>3. v = [capacity |-> sp.count, central_free_len |-> 0, partial_free |-> {}, state |-> "Loaned"]
        BY <1>4 DEF SlabView, ToSet
    <2>4. F = PoolContract!RegisterSlab(V, s, sp.count)
        BY <2>3 DEF PoolContract!RegisterSlab
    <2> HIDE DEF v
    <2>5. F = [a \in Addresses |-> F[a]] /\ F[s] = v /\ \A a \in Addresses : a # s => F[a] = V[a]
        <3> HIDE DEF s
        <3> QED BY <2>2
    <2> HIDE DEF F
    <2>6. Depicts(F, d)
        <3>1. ASSUME NEW j \in DOMAIN d.slabs
              PROVE  d.slabs[j].start \in Addresses /\ F[d.slabs[j].start] = SlabView(d.slabs[j])
            <4>1. CASE j = n + 1
                BY <4>1, <2>2, <2>5, <1>3, <1>4 DEF v
            <4>2. CASE j # n + 1
                <5>1. j \in DOMAIN p.slabs
                    BY <4>2, <3>1, <1>3
                <5>2. p.slabs[j].start \in Addresses /\ V[p.slabs[j].start] = SlabView(p.slabs[j])
                    BY <5>1, <2>1 DEF Depicts
                <5>3. d.slabs[j] = p.slabs[j] /\ p.slabs[j].start # s
                    BY <5>1, <1>3
                <5> QED BY ONLY <5>2, <5>3, <2>5
            <4> QED BY <4>1, <4>2
        <3>2. ASSUME NEW a \in Addresses, \A j \in DOMAIN d.slabs : d.slabs[j].start # a
              PROVE  F[a] = NoSlab
            <4>1. a # s /\ \A j \in DOMAIN p.slabs : p.slabs[j].start # a
                BY <3>2, <1>3, <1>4
            <4> QED BY <4>1, <2>1, <2>5 DEF Depicts
        <3> QED BY <3>1, <3>2, <2>5 DEF Depicts
    <2>7. SpansRecorded(d)
        BY <1>3 DEF PoolSound, PoolTable
    <2>8. PoolView(d) = F
        BY <2>6, <2>7, DepictedIs
    <2> QED BY <2>8, <2>4
<1>10. Ledger(cp', J) /\ PoolView(cp') \in PoolContract!Sweep(PoolContract!RegisterSlab(V, s, sp.count))
    BY <1>2, <1>3, <1>8, <1>9, CallEnds
<1>11. PoolContract!Disjoint(s .. s + sp.count - 1,
                             UNION {PoolContract!SlabBlocks(V, t) : t \in PoolContract!Registered(V)})
    <2>1. ASSUME NEW t \in PoolContract!Registered(V)
          PROVE  PoolContract!SlabBlocks(V, t) \cap SpanBlocks(sp) = {}
        <3>1. PICK k \in DOMAIN p.slabs : p.slabs[k].start = t
            BY <1>1, SeenRegistered
        <3>2. PoolContract!SlabBlocks(V, t) = SlabSpan(p.slabs[k])
            BY <3>1, <1>1, SeenSlab
        <3> QED BY <3>2, <1>7
    <2> QED BY <2>1 DEF PoolContract!Disjoint, SpanBlocks
<1> QED BY <1>1, <1>2, <1>10, <1>11 DEF PoolContract!Enroll, SpanBlocks

\* The contract counts as the pool does.
LEMMA SameCount == \A S : PoolContract!Cardinality(S) = Cardinality(S)
    BY DEF PoolContract!Cardinality, Cardinality

\* A view, by its contents.
ViewOf(c, l, P, t) == [capacity |-> c, central_free_len |-> l, partial_free |-> P, state |-> t]

Loaning(w, l, t) == [w EXCEPT !.central_free_len = l, !.state = t]

Changing(w, l, P, t) == [w EXCEPT !.central_free_len = l, !.partial_free = P, !.state = t]

\* A view with other contents.
LEMMA ViewChanged ==
    ASSUME NEW c, NEW l, NEW P, NEW t, NEW l2, NEW P2, NEW t2
    PROVE  /\ Loaning(ViewOf(c, l, P, t), l2, t2) = ViewOf(c, l2, P, t2)
           /\ Changing(ViewOf(c, l, P, t), l2, P2, t2) = ViewOf(c, l2, P2, t2)
<1>1. [ViewOf(c, l, P, t) EXCEPT !.central_free_len = l2] = ViewOf(c, l2, P, t)
    BY DEF ViewOf
<1>2. [ViewOf(c, l2, P, t) EXCEPT !.partial_free = P2] = ViewOf(c, l2, P2, t)
    BY DEF ViewOf
<1>3. [ViewOf(c, l2, P, t) EXCEPT !.state = t2] = ViewOf(c, l2, P, t2)
    BY DEF ViewOf
<1>4. [ViewOf(c, l2, P2, t) EXCEPT !.state = t2] = ViewOf(c, l2, P2, t2)
    BY DEF ViewOf
<1> QED BY <1>1, <1>2, <1>3, <1>4 DEF Loaning, Changing

\* The first m nodes of a list, and the others.
FirstNodes(f, m) == {f[k] : k \in 1 .. m}

RestOf(f, m) == SubSeq(f, m + 1, Len(f))

\* The first m nodes of a list leave it: what is left, and how many went.
LEMMA FirstLeave ==
    ASSUME NEW f \in Seq(Nat), Once(f), NEW m \in 0 .. Len(f)
    PROVE  /\ Once(RestOf(f, m)) /\ ToSet(RestOf(f, m)) = ToSet(f) \ FirstNodes(f, m)
           /\ FirstNodes(f, m) \subseteq ToSet(f)
           /\ Cardinality(FirstNodes(f, m)) = m /\ Cardinality(ToSet(f)) = Len(f)
<1> DEFINE u == RestOf(f, m)
           B == FirstNodes(f, m)
<1>11. u = SubSeq(f, m + 1, Len(f)) /\ B = {f[k] : k \in 1 .. m}
    BY DEF RestOf, FirstNodes
<1> HIDE DEF u, B
<1>1. m \in Nat /\ Len(f) \in Nat /\ DOMAIN f = 1 .. Len(f)
    OBVIOUS
<1>2. /\ u \in Seq(Nat) /\ Len(u) = Len(f) - m
      /\ \A k \in 1 .. Len(f) - m : u[k] = f[m + k]
    BY <1>11, RestIs
<1>3. DOMAIN u = 1 .. Len(f) - m
    BY <1>2
<1> DEFINE L == Len(f)
<1>10. \A k \in DOMAIN u : m + k \in DOMAIN f /\ u[k] = f[m + k] /\ m + k > m
    <2>1. m \in Nat /\ L \in Nat /\ DOMAIN f = 1 .. L /\ DOMAIN u = 1 .. L - m
          /\ \A k \in 1 .. L - m : u[k] = f[m + k]
        BY <1>1, <1>2, <1>3
    <2> HIDE DEF L
    <2> QED BY ONLY <2>1
<1>4. Once(u)
    <2>1. ASSUME NEW j \in DOMAIN u, NEW k \in DOMAIN u, u[j] = u[k] PROVE j = k
        <3>1. m + j \in DOMAIN f /\ m + k \in DOMAIN f /\ f[m + j] = f[m + k]
            BY ONLY <2>1, <1>10
        <3>2. m + j = m + k
            BY <3>1 DEF Once
        <3> QED BY <3>2, <1>1, <1>3
    <2> QED BY <2>1 DEF Once
<1>5. B \subseteq ToSet(f)
    <2>1. \A k \in 1 .. m : k \in DOMAIN f
        BY <1>1
    <2>2. \A k \in DOMAIN f : f[k] \in ToSet(f)
        BY DEF ToSet
    <2> QED BY ONLY <2>1, <2>2, <1>11
<1>6. ASSUME NEW b \in ToSet(u) PROVE b \in ToSet(f) /\ b \notin B
    <2>1. PICK k \in DOMAIN u : u[k] = b
        BY <1>6 DEF ToSet
    <2>2. m + k \in DOMAIN f /\ f[m + k] = b /\ m + k > m
        BY ONLY <2>1, <1>10
    <2>3. k \in Nat
        BY <1>1, <1>3
    <2>4. \A j \in 1 .. m : j \in DOMAIN f /\ j # m + k
        BY <2>2, <2>3, <1>1
    <2> QED BY <2>2, <2>4, <1>11 DEF Once, ToSet
<1>7. ASSUME NEW b \in ToSet(f), b \notin B PROVE b \in ToSet(u)
    <2>1. PICK j \in DOMAIN f : f[j] = b
        BY <1>7 DEF ToSet
    <2>2. j \notin 1 .. m
        BY <2>1, <1>7, <1>11
    <2>3. j - m \in DOMAIN u /\ m + (j - m) = j
        BY <2>1, <2>2, <1>1, <1>3
    <2>4. u[j - m] = b
        BY <2>1, <2>3, <1>2, <1>3
    <2> QED BY <2>3, <2>4 DEF ToSet
<1>8. Cardinality(B) = m
    BY <1>11, ListCount
<1>9. Cardinality(ToSet(f)) = Len(f)
    <2>1. Len(f) \in 0 .. Len(f)
        BY <1>1
    <2>2. ToSet(f) = {f[k] : k \in 1 .. Len(f)}
        BY <1>1 DEF ToSet
    <2> QED BY <2>1, <2>2, ListCount
<1> QED BY <1>4, <1>5, <1>6, <1>7, <1>8, <1>9 DEF u, B

\* take_refill from a partial slab
LEMMA HandOutBatchStep ==
    ASSUME LedgerInv, TakeBatch
    PROVE  /\ Ledger(cp', issued')
           /\ \E s \in Addresses : \E B \in SUBSET Addresses : PoolContract!HandOutBatch(s, B)
<1> DEFINE p == BumpEpoch(cp)
           b == "Partial"
           i == Last(p.bucket[b])
           d == TakePartial(p, i)
           x == p.slabs[i]
           f == x.partial_free
           m == Smaller(MaxRefill, Len(f))
           B == FirstNodes(f, m)
           u == RestOf(f, m)
           r == Taken(x, m)
           s == x.start
           V == PoolView(p)
           J == issued'
<1>1. /\ PoolSound(p) /\ Ledger(p, issued) /\ V = PoolView(cp) /\ SpansRecorded(p)
      /\ issued \subseteq Addresses
    BY CallStarts
<1>2. /\ p.bucket[b] # <<>> /\ cp' \in MaybeSweep(d)
      /\ J = issued \cup B
    BY DEF TakeBatch, FirstNodes
<1> HIDE DEF p
<1>3. i \in DOMAIN p.slabs /\ x.state = b
    <2>1. b \in BucketNames
        BY DEF BucketNames
    <2> QED BY <2>1, <1>1, <1>2, LastOfBucket
<1> HIDE DEF i
<1>4. PoolSound(d) /\ Became(p, d, i, r)
    BY <1>1, <1>3, TakePartialKeeps
<1> HIDE DEF d
<1>5. Counted(x, issued)
    BY <1>1, <1>3 DEF Ledger
<1>6. /\ x \in PoolSlabRecord /\ f \in Seq(Nat) /\ x.central_free_len \in Int /\ x.capacity \in Nat
      /\ SlabSpan(x) \subseteq Addresses /\ ToSet(f) \subseteq SlabSpan(x)
    BY <1>1, <1>3, SpanIs
<1>7. m \in 0 .. Len(f) /\ m = PoolContract!Least(MaxRefill, Len(f))
    BY <1>6, ClassPoolAssumption DEF Smaller, PoolContract!Least
<1>8. /\ s \in Addresses /\ V[s] = SlabView(x) /\ V[s].capacity = x.capacity
      /\ V[s].central_free_len = x.central_free_len /\ V[s].partial_free = ToSet(f) /\ V[s].state = b
    BY <1>1, <1>3, SeenSlab
<1> HIDE DEF V, x
<1>9. Once(f) /\ ToSet(f) \cap issued = {}
    BY <1>5 DEF Counted
<1> HIDE DEF f, m
<1>10. /\ Once(u) /\ ToSet(u) = ToSet(f) \ B /\ B \subseteq ToSet(f)
       /\ Cardinality(B) = m /\ Cardinality(ToSet(f)) = Len(f)
    BY ONLY <1>6, <1>7, <1>9, FirstLeave
<1> DEFINE len == x.central_free_len - m
           t == IF len = 0 THEN "Loaned" ELSE x.state
<1>11. r = [x EXCEPT !.partial_free = u, !.central_free_len = len, !.state = t]
    BY <1>6 DEF Taken, PoolSlabRecord, f, RestOf
<1> HIDE DEF u, r, B
<1>12. /\ r.start = s /\ r.capacity = x.capacity /\ r.central_free_len = len
       /\ r.partial_free = u /\ r.state = t
    <2> HIDE DEF len, t
    <2> QED BY ONLY <1>6, <1>11 DEF PoolSlabRecord, s
<1>13. Counted(r, J)
    <2> DEFINE S == SlabSpan(x)
               C == issued \cap S
    <2>1. SlabSpan(r) = S
        BY <1>12 DEF SlabSpan
    <2>2. C \in SUBSET Addresses /\ B \in SUBSET Addresses /\ C \cap B = {} /\ J \cap S = C \cup B
        BY <1>1, <1>2, <1>6, <1>9, <1>10
    <2>3. x.central_free_len + Cardinality(C) = x.capacity
        BY <1>5 DEF Counted
    <2> HIDE DEF S, C
    <2>4. Cardinality(C) \in Nat /\ Cardinality(C \cup B) = Cardinality(C) + m
        BY <2>2, <1>10, CountIn
    <2>5. len + Cardinality(C \cup B) = x.capacity
        BY <2>3, <2>4, <1>6, <1>7
    <2>6. ToSet(u) \cap J = {}
        BY <1>2, <1>9, <1>10
    <2>7. t \notin {"FullHot", "FullCold"}
        BY <1>3
    <2> HIDE DEF len, t
    <2> QED BY <2>1, <2>2, <2>5, <2>6, <2>7, <1>10, <1>12 DEF Counted
<1>14. Ledger(d, J)
    <2>1. \A c : c \notin SlabSpan(x) => (c \in J <=> c \in issued)
        BY <1>2, <1>6, <1>10
    <2> QED BY <2>1, <1>1, <1>3, <1>4, <1>13, LedgerWritten DEF x
<1>15. PoolView(d) = PoolContract!TakePartialBatch(V, s, B)
    <2>1. SpansRecorded(d)
        BY <1>4 DEF PoolSound, PoolTable
    <2>2. PoolView(d) = [V EXCEPT ![s] = SlabView(r)]
        BY <2>1, <1>1, <1>3, <1>4, <1>12, ViewWritten DEF x, V
    <2>3. SlabView(r) = [V[s] EXCEPT !.central_free_len = V[s].central_free_len - Cardinality(B),
                                     !.partial_free = V[s].partial_free \ B,
                                     !.state = IF V[s].central_free_len - Cardinality(B) = 0
                                               THEN "Loaned" ELSE V[s].state]
        <3> DEFINE c == x.capacity
                   l == x.central_free_len
                   P == ToSet(f)
                   P2 == P \ B
        <3>1. V[s] = ViewOf(c, l, P, x.state)
            BY <1>8 DEF SlabView, ViewOf, f
        <3>2. SlabView(r) = ViewOf(c, len, P2, t)
            BY <1>10, <1>12 DEF SlabView, ViewOf
        <3>3. V[s].central_free_len - Cardinality(B) = len /\ V[s].partial_free \ B = P2
            BY <1>8, <1>10
        <3>4. (IF V[s].central_free_len - Cardinality(B) = 0 THEN "Loaned" ELSE V[s].state) = t
            BY <3>3, <1>3, <1>8
        <3> HIDE DEF c, l, P, P2, len, t, s
        <3>5. Changing(V[s], len, P2, t) = ViewOf(c, len, P2, t)
            BY ONLY <3>1, ViewChanged
        <3> QED BY ONLY <3>2, <3>3, <3>4, <3>5 DEF Changing
    <2>4. PoolContract!Cardinality(B) = Cardinality(B)
        BY SameCount
    <2> QED BY <2>2, <2>3, <2>4 DEF PoolContract!TakePartialBatch
<1>16. Ledger(cp', J) /\ PoolView(cp') \in PoolContract!Sweep(PoolContract!TakePartialBatch(V, s, B))
    BY <1>2, <1>4, <1>14, <1>15, CallEnds
<1>17. s \in PoolContract!BatchSlabs(V)
    BY <1>8 DEF PoolContract!BatchSlabs, PoolContract!Bucket, PoolContract!Addr, Addresses
<1>18. B \in PoolContract!Batches(PoolContract!Least(MaxRefill, Cardinality(V[s].partial_free)),
                                  V[s].partial_free)
    <2>1. PoolContract!Cardinality(B) = Cardinality(B)
        BY SameCount
    <2> QED BY <2>1, <1>7, <1>8, <1>10 DEF PoolContract!Batches
<1>19. PoolContract!HandOutBatch(s, B)
    <2>1. PoolContract!Cardinality(V[s].partial_free) = Cardinality(V[s].partial_free)
        BY SameCount
    <2> QED BY <2>1, <1>1, <1>2, <1>16, <1>17, <1>18 DEF PoolContract!HandOutBatch
<1>20. B \in SUBSET Addresses
    BY <1>6, <1>10
<1> QED BY <1>8, <1>16, <1>19, <1>20

\* A bucket that is empty: no slab is in its state.
LEMMA EmptyBucket ==
    ASSUME NEW p, PoolSound(p), NEW b \in BucketNames, p.bucket[b] = <<>>
    PROVE  PoolContract!Bucket(PoolView(p), b) = {}
<1>1. Listed(p.slabs, p.bucket[b], Members(States(p), b))
    BY DEF PoolSound, Bucketed
<1>5. DOMAIN p.bucket[b] = {}
    OBVIOUS
<1>6. \A i : i \in Members(States(p), b) <=> i \in DOMAIN p.slabs /\ p.slabs[i].state = b
    BY DEF Members, States
<1>2. \A i \in DOMAIN p.slabs : p.slabs[i].state # b
    BY ONLY <1>1, <1>5, <1>6 DEF Listed
<1>3. b # "Absent"
    BY DEF BucketNames
<1>4. ASSUME NEW s \in PoolContract!Bucket(PoolView(p), b) PROVE FALSE
    <2>1. s \in Addresses /\ PoolView(p)[s].state = b
        BY <1>4 DEF PoolContract!Bucket, PoolContract!Addr, Addresses
    <2> QED BY <2>1, <1>2, <1>3, SeenState
<1> QED BY <1>4

\* take_refill of a whole slab
LEMMA HandOutSlabStep ==
    ASSUME LedgerInv, TakeSlab
    PROVE  Ledger(cp', issued') /\ \E s \in Addresses : PoolContract!HandOutSlab(s)
<1> DEFINE p == BumpEpoch(cp)
           hot == "FullHot"
           b == IF p.bucket[hot] # <<>> THEN hot ELSE "FullCold"
           i == Last(p.bucket[b])
           d == LoanSlab(p, i)
           x == p.slabs[i]
           r == Loaned(x)
           s == x.start
           V == PoolView(p)
           J == issued'
<1>1. /\ PoolSound(p) /\ Ledger(p, issued) /\ V = PoolView(cp) /\ SpansRecorded(p)
      /\ issued \subseteq Addresses
    BY CallStarts
<1>2. /\ p.bucket["Partial"] = <<>> /\ p.bucket[b] # <<>> /\ cp' \in MaybeSweep(d)
      /\ J = issued \cup SlabSpan(x)
    BY DEF TakeSlab, SlabSpan
<1>3. b \in BucketNames /\ "Partial" \in BucketNames /\ hot \in BucketNames
    BY DEF BucketNames
<1>4. b = hot \/ (b = "FullCold" /\ p.bucket[hot] = <<>>)
    OBVIOUS
<1> HIDE DEF p, b
<1>5. i \in DOMAIN p.slabs /\ x.state = b
    BY <1>1, <1>2, <1>3, LastOfBucket
<1> HIDE DEF i
<1>6. PoolSound(d) /\ Became(p, d, i, r)
    BY <1>1, <1>5, LoanSlabKeeps
<1> HIDE DEF d
<1>7. Counted(x, issued)
    BY <1>1, <1>5 DEF Ledger
<1>8. /\ x \in PoolSlabRecord /\ x.capacity \in Nat
      /\ SlabSpan(x) \subseteq Addresses /\ Cardinality(SlabSpan(x)) = x.capacity
    BY <1>1, <1>5, SpanIs
<1>9. /\ s \in Addresses /\ V[s] = SlabView(x) /\ V[s].capacity = x.capacity
      /\ V[s].partial_free = ToSet(x.partial_free) /\ V[s].state = b
      /\ PoolContract!SlabBlocks(V, s) = SlabSpan(x)
    BY <1>1, <1>5, SeenSlab
<1> HIDE DEF V, x
<1>10. /\ r.start = s /\ r.capacity = x.capacity /\ r.central_free_len = 0
       /\ r.partial_free = x.partial_free /\ r.state = "Loaned"
    BY <1>8 DEF Loaned, PoolSlabRecord
<1> HIDE DEF r
<1>11. Counted(r, J)
    <2>1. SlabSpan(r) = SlabSpan(x) /\ J \cap SlabSpan(x) = SlabSpan(x)
        BY <1>2, <1>10 DEF SlabSpan
    <2>2. x.partial_free = <<>> /\ Once(x.partial_free)
        BY <1>4, <1>5, <1>7 DEF Counted
    <2>3. ToSet(x.partial_free) = {}
        BY <2>2 DEF ToSet
    <2>4. 0 + x.capacity = x.capacity
        BY <1>8
    <2> QED BY <2>1, <2>2, <2>3, <2>4, <1>8, <1>10 DEF Counted
<1>12. Ledger(d, J)
    <2>1. \A c : c \notin SlabSpan(x) => (c \in J <=> c \in issued)
        BY <1>2
    <2> QED BY <2>1, <1>1, <1>5, <1>6, <1>11, LedgerWritten DEF x
<1>13. PoolView(d) = PoolContract!LoanWholeSlab(V, s)
    <2>1. SpansRecorded(d)
        BY <1>6 DEF PoolSound, PoolTable
    <2>2. PoolView(d) = [V EXCEPT ![s] = SlabView(r)]
        BY <2>1, <1>1, <1>5, <1>6, <1>10, ViewWritten DEF x, V
    <2> DEFINE z == 0
               ln == "Loaned"
    <2>3. SlabView(r) = [V[s] EXCEPT !.central_free_len = z, !.state = ln]
        <3>1. V[s] = SlabView(x) /\ r.capacity = x.capacity /\ r.central_free_len = z
              /\ r.partial_free = x.partial_free /\ r.state = ln
            BY <1>9, <1>10
        <3> DEFINE c == x.capacity
                   l == x.central_free_len
                   P == ToSet(x.partial_free)
                   st == x.state
        <3>2. V[s] = ViewOf(c, l, P, st)
            BY <3>1 DEF SlabView, ViewOf
        <3>3. SlabView(r) = ViewOf(c, z, P, ln)
            BY <3>1 DEF SlabView, ViewOf
        <3> HIDE DEF z, ln, s, c, l, P, st
        <3>4. Loaning(V[s], z, ln) = ViewOf(c, z, P, ln)
            BY ONLY <3>2, ViewChanged
        <3> QED BY ONLY <3>3, <3>4 DEF Loaning
    <2> QED BY <2>2, <2>3 DEF PoolContract!LoanWholeSlab
<1>14. Ledger(cp', J) /\ PoolView(cp') \in PoolContract!Sweep(PoolContract!LoanWholeSlab(V, s))
    BY <1>2, <1>6, <1>12, <1>13, CallEnds
<1>15. s \in PoolContract!LoanableSlabs(V)
    <2>1. PoolContract!Bucket(V, "Partial") = {}
        BY <1>1, <1>2, <1>3, EmptyBucket DEF V
    <2>2. s \in PoolContract!Bucket(V, b)
        BY <1>9 DEF PoolContract!Bucket, PoolContract!Addr, Addresses
    <2>3. b = hot \/ (b = "FullCold" /\ PoolContract!Bucket(V, hot) = {})
        BY <1>1, <1>3, <1>4, EmptyBucket DEF V
    <2> QED BY <2>1, <2>2, <2>3 DEF PoolContract!LoanableSlabs
<1>16. PoolContract!HandOutSlab(s)
    BY <1>1, <1>2, <1>9, <1>14, <1>15 DEF PoolContract!HandOutSlab
<1> QED BY <1>9, <1>14, <1>16

\* take_refill that finds nothing: there was nothing to sweep either.
LEMMA NothingStep ==
    ASSUME LedgerInv, TakeNothing
    PROVE  Ledger(cp', issued') /\ PoolView(cp') = PoolView(cp) /\ issued' = issued
<1> DEFINE p == BumpEpoch(cp)
<1>1. PoolSound(p) /\ Ledger(p, issued) /\ PoolView(p) = PoolView(cp) /\ p.bucket = cp.bucket
    BY CallStarts
<1>2. /\ \A b \in BucketNames : cp.bucket[b] = <<>>
      /\ cp' \in MaybeSweep(p) /\ issued' = issued
    BY DEF TakeNothing
<1> HIDE DEF p
<1>3. Len(p.bucket["FullHot"]) = 0
    BY <1>1, <1>2 DEF BucketNames
<1>4. cp' = p
    BY <1>2, <1>3 DEF MaybeSweep
<1> QED BY <1>1, <1>2, <1>4

-----------------------------------------------------------------------------
(* return_batch.  The loop of the code returns block by block, the         *)
(* contract all the blocks of a slab at once.                              *)

\* What RecordReturned of the contract makes of a slab's view when R come back.
Given(v, R) == IF R = {} THEN v ELSE PoolContract!RecordReturned(v, R)

\* A slab with n free blocks, which are those of Q unless it is full.
FullOrPartial(c, n, Q) == IF n = c THEN ViewOf(c, n, {}, "FullHot") ELSE ViewOf(c, n, Q, "Partial")

\* Blocks that come back to a slab, as the contract sees it.
LEMMA RecordReturnedIs ==
    ASSUME NEW c, NEW l, NEW P, NEW t, NEW R
    PROVE  PoolContract!RecordReturned(ViewOf(c, l, P, t), R)
             = FullOrPartial(c, l + Cardinality(R), P \cup R)
<1> DEFINE v == ViewOf(c, l, P, t)
           len == l + Cardinality(R)
           u == {}
           Q == P \cup R
           h == "FullHot"
           s == "Partial"
<1>1. PoolContract!Cardinality(R) = Cardinality(R)
    BY SameCount
<1>2. v.central_free_len = l /\ v.capacity = c /\ v.partial_free = P
    BY DEF ViewOf
<1> HIDE DEF v
<1>3. PoolContract!RecordReturned(v, R) = IF len = c THEN Changing(v, len, u, h) ELSE Changing(v, len, Q, s)
    BY <1>1, <1>2 DEF PoolContract!RecordReturned, Changing
<1> HIDE DEF len, u, Q, h, s
<1>4. Changing(v, len, u, h) = ViewOf(c, len, u, h) /\ Changing(v, len, Q, s) = ViewOf(c, len, Q, s)
    BY ONLY ViewChanged DEF v
<1>5. PoolContract!RecordReturned(v, R) = IF len = c THEN ViewOf(c, len, u, h) ELSE ViewOf(c, len, Q, s)
    BY ONLY <1>3, <1>4
<1> QED BY <1>5 DEF v, len, u, Q, h, s, FullOrPartial

\* A block that comes back to a slab, as record_returned_block has it.
LEMMA BlockReturnedIs ==
    ASSUME NEW y \in PoolSlabRecord, NEW b \in Nat, NEW r, r = RecordReturnedBlock(y, b)
    PROVE  /\ r.start = y.start /\ r.capacity = y.capacity
           /\ r.central_free_len = y.central_free_len + 1
           /\ y.central_free_len + 1 = y.capacity => r.partial_free = <<>> /\ r.state = "FullHot"
           /\ y.central_free_len + 1 # y.capacity =>
                 r.partial_free = <<b>> \o y.partial_free /\ r.state = "Partial"
<1> DEFINE n == y.central_free_len + 1
           u == <<>>
           v == <<b>> \o y.partial_free
           h == "FullHot"
           t == "Partial"
<1>1. r = IF n = y.capacity
          THEN [y EXCEPT !.central_free_len = n, !.partial_free = u, !.state = h]
          ELSE [y EXCEPT !.central_free_len = n, !.partial_free = v, !.state = t]
    BY DEF RecordReturnedBlock, PoolSlabRecord
<1> HIDE DEF u, v, h, t, n
<1>2. CASE n = y.capacity
    <2>1. r = [y EXCEPT !.central_free_len = n, !.partial_free = u, !.state = h]
        BY <1>1, <1>2
    <2>2. /\ r.start = y.start /\ r.capacity = y.capacity /\ r.central_free_len = n
          /\ r.partial_free = u /\ r.state = h
        BY ONLY <2>1, y \in PoolSlabRecord DEF PoolSlabRecord
    <2> QED BY <2>2, <1>2 DEF n, u, h
<1>3. CASE n # y.capacity
    <2>1. r = [y EXCEPT !.central_free_len = n, !.partial_free = v, !.state = t]
        BY <1>1, <1>3
    <2>2. /\ r.start = y.start /\ r.capacity = y.capacity /\ r.central_free_len = n
          /\ r.partial_free = v /\ r.state = t
        BY ONLY <2>1, y \in PoolSlabRecord DEF PoolSlabRecord
    <2> QED BY <2>2, <1>3 DEF n, v, t
<1> QED BY <1>2, <1>3

\* A list with one more node.
LEMMA PrependSet ==
    ASSUME NEW f \in Seq(Nat), NEW b \in Nat
    PROVE  ToSet(<<b>> \o f) = ToSet(f) \cup {b} /\ (Once(f) /\ b \notin ToSet(f) => Once(<<b>> \o f))
<1> DEFINE g == <<b>> \o f
           L == Len(f)
<1>1. /\ g \in Seq(Nat) /\ Len(g) = L + 1 /\ L \in Nat
      /\ \A k \in 1 .. L + 1 : g[k] = IF k = 1 THEN b ELSE f[k - 1]
    BY PrependIs
<1> HIDE DEF g
<1>2. DOMAIN g = 1 .. L + 1 /\ DOMAIN f = 1 .. L
    BY <1>1
<1> HIDE DEF L
<1>3. 1 \in DOMAIN g /\ g[1] = b
    BY <1>1, <1>2
<1>4. ASSUME NEW k \in DOMAIN f PROVE k + 1 \in DOMAIN g /\ g[k + 1] = f[k]
    <2>1. k + 1 \in 1 .. L + 1 /\ k + 1 # 1 /\ (k + 1) - 1 = k
        BY <1>1, <1>2
    <2> QED BY <2>1, <1>1, <1>2
<1>5. ASSUME NEW k \in DOMAIN g, k # 1 PROVE k - 1 \in DOMAIN f /\ g[k] = f[k - 1] /\ k \in Nat
    <2>1. k - 1 \in 1 .. L /\ k \in 1 .. L + 1
        BY <1>1, <1>2, <1>5
    <2> QED BY <2>1, <1>1, <1>2, <1>5
<1>6. ToSet(g) = ToSet(f) \cup {b}
    <2>1. \A k \in DOMAIN g : g[k] \in ToSet(f) \cup {b}
        BY <1>3, <1>5 DEF ToSet
    <2>2. b \in ToSet(g) /\ \A k \in DOMAIN f : f[k] \in ToSet(g)
        BY <1>3, <1>4 DEF ToSet
    <2> QED BY <2>1, <2>2 DEF ToSet
<1>7. ASSUME Once(f), b \notin ToSet(f) PROVE Once(g)
    <2>1. \A k \in DOMAIN f : f[k] # b
        BY <1>7 DEF ToSet
    <2>2. ASSUME NEW j \in DOMAIN g, NEW k \in DOMAIN g, g[j] = g[k] PROVE j = k
        <3>1. CASE j = 1 \/ k = 1
            BY <3>1, <2>1, <2>2, <1>3, <1>5
        <3>2. CASE j # 1 /\ k # 1
            <4>1. j - 1 \in DOMAIN f /\ k - 1 \in DOMAIN f /\ f[j - 1] = f[k - 1]
                  /\ j \in Nat /\ k \in Nat
                BY <3>2, <2>2, <1>5
            <4>2. j - 1 = k - 1
                BY <4>1, <1>7 DEF Once
            <4> QED BY <4>1, <4>2
        <3> QED BY <3>1, <3>2
    <2> QED BY <2>2 DEF Once
<1> QED BY <1>6, <1>7 DEF g

\* One more block comes back to a slab that got R before.
LEMMA GivenMore ==
    ASSUME NEW c \in Nat, NEW l \in Int, NEW P, NEW t, NEW R \in SUBSET Addresses, NEW b \in Addresses,
           b \notin R, NEW y \in PoolSlabRecord,
           SlabView(y) = Given(ViewOf(c, l, P, t), R), y.central_free_len + 1 <= y.capacity
    PROVE  SlabView(RecordReturnedBlock(y, b)) = Given(ViewOf(c, l, P, t), R \cup {b})
<1> DEFINE v == ViewOf(c, l, P, t)
           n == Cardinality(R)
           N == Cardinality(R \cup {b})
           r == RecordReturnedBlock(y, b)
           h == "FullHot"
           s == "Partial"
<1>1. n \in Nat /\ N = n + 1
    <2>1. {b} \in SUBSET Addresses /\ R \cap {b} = {}
        OBVIOUS
    <2>2. Cardinality({b}) = 1
        BY FS_Singleton
    <2> HIDE DEF N, n
    <2> QED BY <2>1, <2>2, CountIn DEF N, n
<1>2. y.central_free_len \in Int /\ y.capacity \in Nat /\ y.partial_free \in Seq(Nat) /\ b \in Nat
    BY SpansAssumption DEF PoolSlabRecord, Addresses
<1>3. SlabView(y) = ViewOf(y.capacity, y.central_free_len, ToSet(y.partial_free), y.state)
    BY DEF SlabView, ViewOf
<1>4. y.capacity = c /\ y.central_free_len = l + n /\ ToSet(y.partial_free) = P \cup R
    <2>1. CASE R = {}
        <3>1. SlabView(y) = ViewOf(c, l, P, t) /\ n = 0
            BY <2>1, FS_EmptySet DEF Given
        <3>2. y.capacity = c /\ y.central_free_len = l /\ ToSet(y.partial_free) = P
            BY <1>3, <3>1 DEF ViewOf
        <3> QED BY <2>1, <3>1, <3>2
    <2>2. CASE R # {}
        <3>1. SlabView(y) = IF l + n = c THEN ViewOf(c, l + n, {}, h) ELSE ViewOf(c, l + n, P \cup R, s)
            <4>1. SlabView(y) = PoolContract!RecordReturned(ViewOf(c, l, P, t), R)
                BY <2>2 DEF Given
            <4>2. SlabView(y) = FullOrPartial(c, l + Cardinality(R), P \cup R)
                BY ONLY <4>1, RecordReturnedIs
            <4> QED BY ONLY <4>2 DEF FullOrPartial, n, h, s
        <3> HIDE DEF n, h, s
        <3>2. CASE l + n = c
            <4>1. y.capacity = c /\ y.central_free_len = l + n
                BY <3>1, <3>2, <1>3 DEF ViewOf
            <4> QED BY <4>1, <3>2, <1>2
        <3>3. CASE l + n # c
            BY <3>1, <3>3, <1>3 DEF ViewOf
        <3> QED BY <3>2, <3>3
    <2> QED BY <2>1, <2>2
<1>5. /\ r.start = y.start /\ r.capacity = y.capacity
      /\ r.central_free_len = y.central_free_len + 1
      /\ y.central_free_len + 1 = y.capacity => r.partial_free = <<>> /\ r.state = h
      /\ y.central_free_len + 1 # y.capacity =>
            r.partial_free = <<b>> \o y.partial_free /\ r.state = s
    BY <1>2, BlockReturnedIs
<1> HIDE DEF r
<1>6. SlabView(r) = ViewOf(r.capacity, r.central_free_len, ToSet(r.partial_free), r.state)
    BY DEF SlabView, ViewOf
<1>7. r.capacity = c /\ r.central_free_len = l + N
    BY <1>1, <1>2, <1>4, <1>5
<1>8. Given(v, R \cup {b}) = IF l + N = c THEN ViewOf(c, l + N, {}, h)
                             ELSE ViewOf(c, l + N, P \cup (R \cup {b}), s)
    <2> DEFINE T == R \cup {b}
    <2>1. T # {}
        OBVIOUS
    <2> HIDE DEF T
    <2>2. Given(v, T) = PoolContract!RecordReturned(ViewOf(c, l, P, t), T)
        BY <2>1 DEF Given
    <2>3. PoolContract!RecordReturned(ViewOf(c, l, P, t), T) = FullOrPartial(c, l + Cardinality(T), P \cup T)
        BY ONLY RecordReturnedIs
    <2> QED BY ONLY <2>2, <2>3 DEF FullOrPartial, T, N, h, s
<1> HIDE DEF N, n, h, s
<1>9. CASE l + N = c
    <2>1. r.partial_free = <<>> /\ r.state = h
        BY <1>4, <1>5, <1>7, <1>9
    <2>2. ToSet(r.partial_free) = {}
        BY <2>1 DEF ToSet
    <2> QED BY <2>1, <2>2, <1>6, <1>7, <1>8, <1>9 DEF r
<1>10. CASE l + N # c
    <2>1. r.partial_free = <<b>> \o y.partial_free /\ r.state = s
        BY <1>4, <1>5, <1>7, <1>10
    <2>2. ToSet(r.partial_free) = P \cup (R \cup {b})
        BY <2>1, <1>2, <1>4, PrependSet
    <2> QED BY <2>1, <2>2, <1>6, <1>7, <1>8, <1>10 DEF r
<1> QED BY <1>9, <1>10

\* The loop of return_batch when the blocks F of I have come back to p.
LoopSoFar(p, a, I, F) ==
    /\ PoolSound(a) /\ SameSpans(p, a) /\ Ledger(a, I \ F)
    /\ \A i \in DOMAIN p.slabs :
          SlabView(a.slabs[i]) = Given(SlabView(p.slabs[i]), F \cap SlabSpan(p.slabs[i]))

\* One iteration.
LEMMA LoopStep ==
    ASSUME NEW p, PoolSound(p), NEW I, I \subseteq Covered(p), NEW F \in SUBSET I, NEW a,
           LoopSoFar(p, a, I, F), NEW b \in I \ F, NEW d, d = ReturnOne(a, b)
    PROVE  LoopSoFar(p, d, I, F \cup {b})
<1> DEFINE K == I \ F
           J == I \ (F \cup {b})
<1>1. PoolSound(a) /\ SameSpans(p, a) /\ Ledger(a, K) /\ Covered(a) = Covered(p)
    BY CoveredKept DEF LoopSoFar
<1>2. b \in Covered(a) /\ b \in K /\ b \in Addresses /\ b \in Nat /\ I \subseteq Addresses
    BY <1>1, CoveredInArena DEF Covered
<1>3. PICK i \in DOMAIN a.slabs : /\ SlabContains(a.slabs[i], b)
                                  /\ Became(a, d, i, RecordReturnedBlock(a.slabs[i], b))
    BY <1>1, <1>2, ReturnOneKeeps
<1>4. PoolSound(d) /\ SameSpans(a, d)
    BY <1>1, <1>2, ReturnOneKeeps
<1> DEFINE y == a.slabs[i]
           r == RecordReturnedBlock(y, b)
           S == SlabSpan(y)
<1>5. /\ y \in PoolSlabRecord /\ y.capacity \in Nat /\ y.central_free_len \in Int
      /\ y.partial_free \in Seq(Nat) /\ S \subseteq Addresses /\ b \in S
      /\ ToSet(y.partial_free) \subseteq S
    <2>1. /\ y \in PoolSlabRecord /\ y.capacity \in Nat \ {0} /\ y.central_free_len \in Int
          /\ y.partial_free \in Seq(Nat) /\ S \subseteq Addresses
          /\ \A e \in Int : e \in S <=> SlabContains(y, e)
          /\ ToSet(y.partial_free) \subseteq S
        BY ONLY <1>1, i \in DOMAIN a.slabs, SpanIs
    <2>2. b \in S
        <3> HIDE DEF S
        <3> QED BY <2>1, <1>2, <1>3
    <2> QED BY <2>1, <2>2
<1>6. Counted(y, K)
    BY <1>1 DEF Ledger
<1>7. /\ r.start = y.start /\ r.capacity = y.capacity
      /\ r.central_free_len = y.central_free_len + 1
      /\ y.central_free_len + 1 = y.capacity => r.partial_free = <<>> /\ r.state = "FullHot"
      /\ y.central_free_len + 1 # y.capacity =>
            r.partial_free = <<b>> \o y.partial_free /\ r.state = "Partial"
    BY SMTT(30), <1>2, <1>5, BlockReturnedIs
<1>8. SameSpans(p, d) /\ DOMAIN a.slabs = DOMAIN p.slabs
    BY ONLY <1>1, <1>4 DEF SameSpans
<1>16. Became(a, d, i, r)
    BY <1>3
<1> HIDE DEF y, r
<1>9. y.central_free_len + Cardinality(K \cap S) = y.capacity
    BY <1>6 DEF Counted
<1>10. /\ Cardinality(K \cap S) \in Nat /\ Cardinality(J \cap S) \in Nat
       /\ Cardinality(J \cap S) + 1 = Cardinality(K \cap S)
    <2> DEFINE H == K \cap S
    <2>1. H \in SUBSET Addresses /\ {b} \in SUBSET H /\ H \ {b} = J \cap S
        BY <1>2, <1>5
    <2>2. Cardinality({b}) = 1
        BY FS_Singleton
    <2> HIDE DEF H
    <2>3. Cardinality(H) \in Nat /\ Cardinality(H \ {b}) = Cardinality(H) - 1
        BY <2>1, <2>2, CountOut
    <2>4. Cardinality(H \ {b}) \in Nat
        <3>1. H \ {b} \in SUBSET Addresses /\ {} \in SUBSET (H \ {b})
            BY <2>1
        <3> QED BY ONLY <3>1, CountOut
    <2> QED BY <2>1, <2>3, <2>4 DEF H
<1> HIDE DEF S
<1>11. Counted(r, J)
    <2>1. SlabSpan(r) = S
        BY <1>7 DEF SlabSpan, S
    <2>2. r.central_free_len + Cardinality(J \cap S) = r.capacity
        BY <1>5, <1>7, <1>9, <1>10
    <2>3. Once(y.partial_free) /\ ToSet(y.partial_free) \cap K = {}
        BY <1>6 DEF Counted
    <2>4. Once(r.partial_free) /\ ToSet(r.partial_free) \cap J = {}
          /\ (r.state \in {"FullHot", "FullCold"} => r.partial_free = <<>>)
        <3>1. CASE y.central_free_len + 1 = y.capacity
            BY <3>1, <1>7 DEF Once, ToSet
        <3>2. CASE y.central_free_len + 1 # y.capacity
            <4>1. ToSet(r.partial_free) = ToSet(y.partial_free) \cup {b} /\ Once(r.partial_free)
                BY <3>2, <2>3, <1>2, <1>5, <1>7, PrependSet
            <4> QED BY <4>1, <3>2, <2>3, <1>7
        <3> QED BY <3>1, <3>2
    <2> QED BY <2>1, <2>2, <2>4 DEF Counted
<1>12. Ledger(d, J)
    <2>1. \A e : e \notin SlabSpan(a.slabs[i]) => (e \in J <=> e \in K)
        BY <1>5 DEF S, y
    <2> QED BY <2>1, <1>1, <1>11, <1>16, LedgerWritten
<1>13. \A j \in DOMAIN p.slabs : SlabSpan(a.slabs[j]) = SlabSpan(p.slabs[j])
    BY <1>1 DEF SameSpans, SlabSpan
<1>14. ASSUME NEW j \in DOMAIN p.slabs
       PROVE  SlabView(d.slabs[j]) = Given(SlabView(p.slabs[j]), (F \cup {b}) \cap SlabSpan(p.slabs[j]))
    <2> DEFINE x == p.slabs[j]
               R == F \cap SlabSpan(x)
    <2>1. SlabView(a.slabs[j]) = Given(SlabView(x), R)
        BY DEF LoopSoFar
    <2>2. CASE j = i
        <3>1. SlabSpan(x) = S
            BY <2>2, <1>13 DEF S, y
        <3>2. (F \cup {b}) \cap SlabSpan(x) = R \cup {b} /\ R \in SUBSET Addresses /\ b \notin R
            BY <3>1, <1>2, <1>5
        <3>3. SlabView(d.slabs[j]) = SlabView(r)
            BY <2>2, <1>16 DEF Became, SameContents, SlabView
        <3> DEFINE c == x.capacity
                   l == x.central_free_len
                   P == ToSet(x.partial_free)
                   t == x.state
        <3>4. SlabView(x) = ViewOf(c, l, P, t)
            BY DEF SlabView, ViewOf
        <3>5. c \in Nat /\ l \in Int
            BY SpanIs
        <3>6. y.central_free_len + 1 <= y.capacity
            BY <1>5, <1>9, <1>10
        <3>7. SlabView(y) = Given(ViewOf(c, l, P, t), R)
            BY <2>1, <2>2, <3>4 DEF y
        <3> HIDE DEF c, l, P, t, R, x
        <3>8. SlabView(r) = Given(ViewOf(c, l, P, t), R \cup {b})
            BY ONLY <3>2, <3>5, <3>6, <3>7, <1>2, <1>5, GivenMore DEF r
        <3> QED BY <3>2, <3>3, <3>4, <3>8 DEF x
    <2>3. CASE j # i
        <3>1. SlabSpan(a.slabs[j]) \cap SlabSpan(a.slabs[i]) = {}
            BY <2>3, <1>1, <1>8, SpansDiffer
        <3>2. (F \cup {b}) \cap SlabSpan(x) = R
            BY <3>1, <1>5, <1>13 DEF S, y
        <3>3. SlabView(d.slabs[j]) = SlabView(a.slabs[j])
            BY <2>3, <1>8, <1>16 DEF Became, SameContents, SlabView
        <3> QED BY <2>1, <3>2, <3>3
    <2> QED BY <2>2, <2>3
<1> HIDE DEF J
<1>15. J = I \ (F \cup {b})
    BY DEF J
<1> QED BY <1>4, <1>8, <1>12, <1>14, <1>15 DEF LoopSoFar

\* The whole loop.
LEMMA LoopDone ==
    ASSUME NEW p, PoolSound(p), NEW I, I \subseteq Covered(p), Ledger(p, I),
           NEW list \in Seq(Nat), Once(list), ToSet(list) \subseteq I
    PROVE  LoopSoFar(p, ReturnAll(p, list), I, ToSet(list))
<1> DEFINE L == Len(list)
<1>1. L \in Nat /\ DOMAIN list = 1 .. L
    OBVIOUS
<1>2. PICK g : ReturnSteps(g, p, list) /\ ReturnAll(p, list) = g[L]
    BY <1>1, ReturnAllIs
<1>3. g[0] = p /\ \A n \in 1 .. L : g[n] = ReturnOne(g[n - 1], list[n])
    BY <1>2 DEF ReturnSteps
<1>4. \A n \in 1 .. L : list[n] \in I
    BY <1>1 DEF ToSet
<1> DEFINE Q(n) == LoopSoFar(p, g[n], I, FirstNodes(list, n))
           S == {n \in Nat : n <= L => Q(n)}
<1> HIDE DEF L
<1>5. 0 \in S
    <2>1. FirstNodes(list, 0) = {}
        BY DEF FirstNodes
    <2>2. SameSpans(p, p)
        BY DEF SameSpans
    <2>3. \A i \in DOMAIN p.slabs : SlabView(p.slabs[i]) = Given(SlabView(p.slabs[i]), {} \cap SlabSpan(p.slabs[i]))
        BY DEF Given
    <2>4. I \ {} = I
        OBVIOUS
    <2>5. LoopSoFar(p, p, I, {})
        BY <2>2, <2>3, <2>4 DEF LoopSoFar
    <2> QED BY <2>1, <2>5, <1>3
<1>6. ASSUME NEW n \in Nat, n \in S PROVE n + 1 \in S
    <2> SUFFICES ASSUME n + 1 <= L PROVE Q(n + 1)
        OBVIOUS
    <2> DEFINE a == g[n]
               b == list[n + 1]
               d == g[n + 1]
               F == FirstNodes(list, n)
    <2>1. LoopSoFar(p, a, I, F)
        BY <1>1, <1>6
    <2>2. n + 1 \in 1 .. L /\ (n + 1) - 1 = n
        BY <1>1
    <2>3. d = ReturnOne(a, b) /\ b \in I
        BY <2>2, <1>3, <1>4
    <2>4. F \subseteq I /\ b \notin F
        <3>1. \A k \in 1 .. n : k \in 1 .. L /\ k # n + 1
            BY <2>2, <1>1
        <3> QED BY <3>1, <2>2, <1>1, <1>4 DEF FirstNodes, Once
    <2>5. FirstNodes(list, n + 1) = F \cup {b}
        <3>1. 1 .. n + 1 = (1 .. n) \cup {n + 1}
            OBVIOUS
        <3> QED BY <3>1 DEF FirstNodes
    <2> HIDE DEF a, b, d, F
    <2>6. LoopSoFar(p, d, I, F \cup {b})
        BY <2>1, <2>3, <2>4, LoopStep
    <2> QED BY <2>5, <2>6 DEF d
<1> HIDE DEF S
<1>7. L \in S
    BY <1>1, <1>5, <1>6, NatSetInduction
<1>8. FirstNodes(list, L) = ToSet(list)
    BY <1>1 DEF FirstNodes, ToSet
<1>9. Q(L)
    BY <1>1, <1>7 DEF S
<1> QED BY <1>2, <1>8, <1>9

\* The contract's lookup finds the slab that contains the block.
LEMMA SeenLookup ==
    ASSUME NEW p, PoolSound(p), NEW b \in Covered(p)
    PROVE  /\ \A i \in DOMAIN p.slabs : PoolContract!FindsSlab(PoolView(p), p.slabs[i].start, b)
                                          <=> b \in SlabSpan(p.slabs[i])
           /\ \A s : PoolContract!FindsSlab(PoolView(p), s, b) => \E i \in DOMAIN p.slabs : p.slabs[i].start = s
<1> DEFINE V == PoolView(p)
           G == PoolContract!Registered(V)
<1>1. /\ \A i \in DOMAIN p.slabs : p.slabs[i].start \in G
      /\ \A s \in G : \E i \in DOMAIN p.slabs : p.slabs[i].start = s
    BY SeenRegistered
<1>2. \A s : PoolContract!FindsSlab(V, s, b) <=> s \in G /\ s <= b /\ \A t \in G : t <= b => t <= s
    BY DEF PoolContract!FindsSlab
<1>3. b \in Nat /\ SpansRecorded(p)
    BY DEF Covered, PoolSound, PoolTable
<1>4. PICK j \in DOMAIN p.slabs : SlabContains(p.slabs[j], b)
    BY DEF Covered
<1>5. \A i \in DOMAIN p.slabs : /\ p.slabs[i].start \in Nat /\ p.slabs[i].capacity \in Nat
                                /\ \A e \in Int : e \in SlabSpan(p.slabs[i]) <=> SlabContains(p.slabs[i], e)
    BY SpanIs
<1> HIDE DEF G, V
<1>6. ASSUME NEW i \in DOMAIN p.slabs, b \in SlabSpan(p.slabs[i])
      PROVE  PoolContract!FindsSlab(V, p.slabs[i].start, b)
    <2>1. SlabContains(p.slabs[i], b)
        BY <1>3, <1>5, <1>6
    <2>2. ASSUME NEW t \in G, t <= b PROVE t <= p.slabs[i].start
        <3>1. PICK k \in DOMAIN p.slabs : p.slabs[k].start = t
            BY <1>1
        <3>2. CASE t > p.slabs[i].start
            <4>1. SlabContains(p.slabs[i], t) /\ SlabContains(p.slabs[k], t) /\ t \in Int
                <5>1. PICK sp \in Spans : p.slabs[k].start = sp.start /\ p.slabs[k].capacity = sp.count
                    BY <1>3 DEF SpansRecorded
                <5>2. sp.count \in Nat \ {0}
                    BY SpansAssumption
                <5>3. t \in Nat /\ p.slabs[i].start \in Nat /\ p.slabs[i].capacity \in Nat
                    BY <3>1, <1>5
                <5> QED BY <5>1, <5>2, <5>3, <3>1, <3>2, <2>1, <2>2, <1>3 DEF SlabContains
            <4>2. i = k
                BY <4>1, <1>3, SlabsApart
            <4> QED BY <4>2, <3>1, <1>5
        <3> QED BY <3>1, <3>2, <1>5
    <2>3. p.slabs[i].start <= b
        BY <2>1 DEF SlabContains
    <2> QED BY <2>2, <2>3, <1>1, <1>2
<1>7. ASSUME NEW i \in DOMAIN p.slabs, PoolContract!FindsSlab(V, p.slabs[i].start, b)
      PROVE  b \in SlabSpan(p.slabs[i])
    <2>1. p.slabs[j].start <= b /\ b < p.slabs[j].start + p.slabs[j].capacity
        BY <1>4 DEF SlabContains
    <2>2. p.slabs[j].start <= p.slabs[i].start /\ p.slabs[i].start <= b
        BY <2>1, <1>1, <1>2, <1>7
    <2> DEFINE s == p.slabs[i].start
    <2>3. SlabContains(p.slabs[i], s) /\ SlabContains(p.slabs[j], s) /\ s \in Int
        <3>1. PICK sp \in Spans : p.slabs[i].start = sp.start /\ p.slabs[i].capacity = sp.count
            BY <1>3 DEF SpansRecorded
        <3>2. sp.count \in Nat \ {0}
            BY SpansAssumption
        <3>3. s \in Nat /\ p.slabs[j].start \in Nat /\ p.slabs[j].capacity \in Nat
            BY <1>5
        <3> QED BY <3>1, <3>2, <3>3, <2>1, <2>2, <1>3 DEF SlabContains
    <2>4. i = j
        BY <2>3, <1>3, SlabsApart
    <2> QED BY <2>4, <1>3, <1>4, <1>5
<1> QED BY <1>1, <1>2, <1>6, <1>7 DEF V

\* The pool after the loop is what the contract's return_batch makes of its view.
LEMMA ViewReturned ==
    ASSUME NEW p, PoolSound(p), NEW I, I \subseteq Covered(p), NEW B \in SUBSET I,
           NEW d, LoopSoFar(p, d, I, B)
    PROVE  PoolView(d) = PoolContract!ReturnBatch(PoolView(p), B)
<1> DEFINE V == PoolView(p)
           R(s) == {b \in B : PoolContract!FindsSlab(V, s, b)}
           F == [s \in Addresses |-> Given(V[s], R(s))]
<1>1. F = PoolContract!ReturnBatch(V, B)
    BY DEF PoolContract!ReturnBatch, PoolContract!Addr, Addresses, Given
<1>2. Depicts(V, p) /\ SpansRecorded(p)
    BY ViewDepicts DEF PoolSound, PoolTable
<1>3. \A i \in DOMAIN p.slabs : R(p.slabs[i].start) = B \cap SlabSpan(p.slabs[i])
    BY SeenLookup
<1>4. ASSUME NEW s, \A i \in DOMAIN p.slabs : p.slabs[i].start # s PROVE R(s) = {}
    BY <1>4, SeenLookup
<1>5. PoolSound(d) /\ SameSpans(p, d)
    BY DEF LoopSoFar
<1>6. \A i \in DOMAIN p.slabs : SlabView(d.slabs[i]) = Given(SlabView(p.slabs[i]), B \cap SlabSpan(p.slabs[i]))
    BY DEF LoopSoFar
<1> HIDE DEF V, R
<1>7. F = [s \in Addresses |-> F[s]] /\ \A s \in Addresses : F[s] = Given(V[s], R(s))
    OBVIOUS
<1> HIDE DEF F
<1>8. Depicts(F, d)
    <2>1. ASSUME NEW i \in DOMAIN d.slabs
          PROVE  d.slabs[i].start \in Addresses /\ F[d.slabs[i].start] = SlabView(d.slabs[i])
        <3>1. i \in DOMAIN p.slabs /\ d.slabs[i].start = p.slabs[i].start
            BY <1>5 DEF SameSpans
        <3>2. p.slabs[i].start \in Addresses /\ V[p.slabs[i].start] = SlabView(p.slabs[i])
            BY <3>1, <1>2 DEF Depicts
        <3>3. F[p.slabs[i].start] = Given(SlabView(p.slabs[i]), B \cap SlabSpan(p.slabs[i]))
            BY <3>1, <3>2, <1>3, <1>7
        <3> QED BY <3>1, <3>2, <3>3, <1>6
    <2>2. ASSUME NEW s \in Addresses, \A i \in DOMAIN d.slabs : d.slabs[i].start # s
          PROVE  F[s] = NoSlab
        <3>1. \A i \in DOMAIN p.slabs : p.slabs[i].start # s
            BY <2>2, <1>5 DEF SameSpans
        <3>2. V[s] = NoSlab /\ R(s) = {}
            BY <3>1, <1>2, <1>4 DEF Depicts
        <3> QED BY <3>2, <1>7 DEF Given
    <2> QED BY <2>1, <2>2, <1>7 DEF Depicts
<1>9. PoolView(d) = F
    <2>1. SpansRecorded(d)
        BY <1>5 DEF PoolSound, PoolTable
    <2> QED BY <2>1, <1>8, DepictedIs
<1> QED BY <1>1, <1>9 DEF V

\* return_batch
LEMMA TakeBackStep ==
    ASSUME LedgerInv, NEW B \in SUBSET issued, NEW list \in SetToSeqs(B), ReturnBatch(list)
    PROVE  Ledger(cp', issued') /\ B \in SUBSET Addresses /\ PoolContract!TakeBack(B)
<1> DEFINE p == BumpEpoch(cp)
           d == ReturnAll(p, list)
           V == PoolView(p)
<1>1. /\ PoolSound(p) /\ Ledger(p, issued) /\ V = PoolView(cp)
      /\ issued \subseteq Covered(p) /\ issued \subseteq Addresses
    BY CallStarts
<1>2. cp' \in MaybeSweep(d) /\ issued' = issued \ ToSet(list)
    BY DEF ReturnBatch
<1> HIDE DEF p
<1>3. B \in SUBSET Addresses
    BY <1>1
<1>4. list \in Seq(Nat) /\ Once(list) /\ ToSet(list) = B
    BY <1>3, OrderOf
<1>5. LoopSoFar(p, d, issued, ToSet(list))
    BY <1>1, <1>4, LoopDone
<1> HIDE DEF d
<1>6. LoopSoFar(p, d, issued, B) /\ PoolSound(d) /\ Ledger(d, issued')
    BY <1>2, <1>4, <1>5 DEF LoopSoFar
<1>7. PoolView(d) = PoolContract!ReturnBatch(V, B)
    BY <1>1, <1>6, ViewReturned
<1>8. Ledger(cp', issued') /\ PoolView(cp') \in PoolContract!Sweep(PoolContract!ReturnBatch(V, B))
    BY <1>2, <1>6, <1>7, CallEnds
<1>9. PoolContract!TakeBack(B)
    BY <1>1, <1>2, <1>4, <1>8 DEF PoolContract!TakeBack
<1> QED BY <1>3, <1>8, <1>9

\* Every call keeps the ledger and is a step of the contract.
LEMMA LedgerInvNext == LedgerInv /\ [PoolNext]_poolVars => LedgerInv'
<1> SUFFICES ASSUME LedgerInv, [PoolNext]_poolVars PROVE Ledger(cp, issued)'
    BY PoolInvNext DEF LedgerInv
<1>1. ASSUME NEW sp \in Spans, RegisterSlab(sp) PROVE Ledger(cp', issued')
    BY <1>1, EnrollStep
<1>2. CASE TakeBatch
    BY <1>2, HandOutBatchStep
<1>3. CASE TakeSlab
    BY <1>3, HandOutSlabStep
<1>4. CASE TakeNothing
    BY <1>4, NothingStep
<1>5. ASSUME NEW B \in SUBSET issued, NEW list \in SetToSeqs(B), ReturnBatch(list)
      PROVE  Ledger(cp', issued')
    BY <1>5, TakeBackStep
<1>6. CASE UNCHANGED poolVars
    BY <1>6 DEF poolVars, LedgerInv
<1> QED BY <1>1, <1>2, <1>3, <1>4, <1>5, <1>6 DEF PoolNext

\* Every call is a step of the contract.
LEMMA ContractStep ==
    ASSUME LedgerInv, [PoolNext]_poolVars
    PROVE  PoolContract!ContractNext \/ (PoolView(cp') = PoolView(cp) /\ issued' = issued)
<1>1. PoolContract!Addr = Addresses
    BY DEF PoolContract!Addr, Addresses
<1>2. ASSUME NEW sp \in Spans, RegisterSlab(sp) PROVE PoolContract!ContractNext
    <2>1. PoolContract!Enroll(sp.start, sp.count)
        BY <1>2, EnrollStep
    <2>2. sp.start \in PoolContract!Addr /\ sp.count \in 1 .. ArenaBlocks - sp.start
        BY <1>1, SpansAssumption DEF Addresses
    <2> QED BY <2>1, <2>2 DEF PoolContract!ContractNext
<1>3. CASE TakeBatch
    BY <1>1, <1>3, HandOutBatchStep DEF PoolContract!ContractNext
<1>4. CASE TakeSlab
    BY <1>1, <1>4, HandOutSlabStep DEF PoolContract!ContractNext
<1>5. CASE TakeNothing
    BY <1>5, NothingStep
<1>6. ASSUME NEW B \in SUBSET issued, NEW list \in SetToSeqs(B), ReturnBatch(list)
      PROVE  PoolContract!ContractNext
    BY <1>1, <1>6, TakeBackStep DEF PoolContract!ContractNext
<1>7. CASE UNCHANGED poolVars
    BY <1>7 DEF poolVars
<1> QED BY <1>2, <1>3, <1>4, <1>5, <1>6, <1>7 DEF PoolNext

\* The represented class pool, with its buckets, shortcuts, epochs and sweeps, keeps
\* the contract of the central pool: it hands out and takes back exactly the blocks that
\* CentralContract allows.
THEOREM PoolImplementsContract == PoolSpec => ImplementsContract
<1>1. PoolInit => LedgerInv
    <2> SUFFICES ASSUME PoolInit PROVE Ledger(cp, issued)
        BY PoolInvInit DEF LedgerInv
    <2>1. DOMAIN cp.slabs = {}
        BY DEF PoolInit, NewPool
    <2> QED BY <2>1 DEF Ledger
<1>2. LedgerInv /\ [PoolNext]_poolVars => LedgerInv'
    BY LedgerInvNext
<1>3. PoolInit => PoolContract!ContractInit
    <2> SUFFICES ASSUME PoolInit PROVE PoolContract!ContractInit
        OBVIOUS
    <2>1. \A s : SlabsAt(cp, s) = {}
        BY DEF PoolInit, NewPool, SlabsAt
    <2>2. PoolView(cp) = PoolContract!EmptyPool
        BY <2>1 DEF PoolView, PoolContract!EmptyPool, PoolContract!Addr, NoSlab
    <2> QED BY <2>2 DEF PoolContract!ContractInit, PoolInit
<1>4. LedgerInv /\ [PoolNext]_poolVars => [PoolContract!ContractNext]_<<PoolView(cp), issued>>
    BY ContractStep
<1> QED BY <1>1, <1>2, <1>3, <1>4, PTL DEF PoolSpec, ImplementsContract, PoolContract!ContractSpec

-----------------------------------------------------------------------------
(* LocalClassCache keeps CacheContract.  The contract's state is           *)
(* CacheView(cc); CacheInv is enough for its steps.                        *)

\* The map of a cache's slabs by their start, as CacheView has it.
SlabMap(c) ==
    [s \in Addresses |->
        LET at == SlabsAt(c, s)
        IN  IF at = {} THEN NoContents ELSE SlabContents(c.slabs[CHOOSE i \in at : TRUE])]

\* The starts of the slabs with a block to give.
ReadyStarts(c) == {c.slabs[i].start : i \in Ready(c)}

\* The contract's record of a cache.
Seen(h, F, A, S, n, t) ==
    [hot |-> h, slabs |-> F, avail |-> A, shared |-> S, shared_len |-> n, total_len |-> t]

\* The view of a sound cache, part by part.
LEMMA CacheSeen ==
    ASSUME NEW c, CacheSound(c)
    PROVE  CacheView(c) =
              Seen(c.hot, SlabMap(c), ReadyStarts(c), ToSet(c.shared), c.shared_len, c.total_len)
<1>1. ToSet(c.avail) = Ready(c)
    BY DEF CacheSound, CacheShape, Listed, ToSet
<1>2. {c.slabs[i].start : i \in ToSet(c.avail)} = ReadyStarts(c)
    BY <1>1 DEF ReadyStarts
<1> HIDE DEF ReadyStarts
<1>3. CacheView(c) = Seen(c.hot, SlabMap(c), {c.slabs[i].start : i \in ToSet(c.avail)},
                          ToSet(c.shared), c.shared_len, c.total_len)
    BY DEF CacheView, SlabMap, Seen, Addresses
<1> QED BY <1>2, <1>3

\* The map F from addresses shows the slabs of c at their starts, and nothing else.
Shows(F, c) ==
    /\ F = [s \in Addresses |-> F[s]]
    /\ \A i \in DOMAIN c.slabs : /\ c.slabs[i].start \in Addresses
                                 /\ F[c.slabs[i].start] = SlabContents(c.slabs[i])
    /\ \A s \in Addresses : (\A i \in DOMAIN c.slabs : c.slabs[i].start # s) => F[s] = NoContents

\* The map of a cache shows it.
LEMMA MapShows ==
    ASSUME NEW c, SpansRecorded(c) PROVE Shows(SlabMap(c), c)
<1>1. /\ SlabMap(c) = [s \in Addresses |-> SlabMap(c)[s]]
      /\ \A s \in Addresses : SlabMap(c)[s] =
            IF SlabsAt(c, s) = {} THEN NoContents
            ELSE SlabContents(c.slabs[CHOOSE i \in SlabsAt(c, s) : TRUE])
    BY DEF SlabMap
<1>2. ASSUME NEW i \in DOMAIN c.slabs
      PROVE  /\ c.slabs[i].start \in Addresses
             /\ SlabMap(c)[c.slabs[i].start] = SlabContents(c.slabs[i])
    <2> DEFINE s == c.slabs[i].start
    <2>1. s \in Addresses
        <3>1. PICK sp \in Spans : s = sp.start /\ c.slabs[i].capacity = sp.count
            BY DEF SpansRecorded
        <3> QED BY <3>1, SpansAssumption DEF Addresses
    <2>2. SlabsAt(c, s) = {i}
        BY DEF SlabsAt, SpansRecorded
    <2>3. (CHOOSE k \in SlabsAt(c, s) : TRUE) = i
        BY <2>2
    <2> QED BY <1>1, <2>1, <2>2, <2>3
<1>3. ASSUME NEW s \in Addresses, \A i \in DOMAIN c.slabs : c.slabs[i].start # s
      PROVE  SlabMap(c)[s] = NoContents
    <2>1. SlabsAt(c, s) = {}
        BY <1>3 DEF SlabsAt
    <2> QED BY <1>1, <2>1
<1> QED BY <1>1, <1>2, <1>3 DEF Shows

\* Only its map shows a cache.
LEMMA ShownIs ==
    ASSUME NEW c, SpansRecorded(c), NEW F, Shows(F, c) PROVE SlabMap(c) = F
<1> DEFINE V == SlabMap(c)
<1>1. Shows(V, c)
    BY MapShows
<1> HIDE DEF V
<1>2. \A s \in Addresses : V[s] = F[s]
    <2>1. ASSUME NEW s \in Addresses PROVE V[s] = F[s]
        <3>1. CASE \E i \in DOMAIN c.slabs : c.slabs[i].start = s
            BY SMTT(30), <3>1, <1>1 DEF Shows
        <3>2. CASE ~ \E i \in DOMAIN c.slabs : c.slabs[i].start = s
            BY <3>2, <1>1 DEF Shows
        <3> QED BY <3>1, <3>2
    <2> QED BY <2>1
<1>3. V = [s \in Addresses |-> V[s]] /\ F = [s \in Addresses |-> F[s]]
    BY <1>1 DEF Shows
<1>4. [s \in Addresses |-> V[s]] = [s \in Addresses |-> F[s]]
    BY <1>2
<1>5. V = F
    BY <1>3, <1>4
<1> QED BY <1>5 DEF V

\* A change of one slab is a change of one entry.
LEMMA MapChanged ==
    ASSUME NEW c, SpansRecorded(c), NEW d, SpansRecorded(d), NEW i \in DOMAIN c.slabs,
           SlabChanged(c, d, i)
    PROVE  SlabMap(d) = [SlabMap(c) EXCEPT ![c.slabs[i].start] = SlabContents(d.slabs[i])]
<1> DEFINE V == SlabMap(c)
           s == c.slabs[i].start
           v == SlabContents(d.slabs[i])
           F == [V EXCEPT ![s] = v]
<1>1. Shows(V, c)
    BY MapShows
<1> HIDE DEF V
<1>2. V = [a \in Addresses |-> V[a]] /\ s \in Addresses
    BY <1>1 DEF Shows
<1>3. F = [a \in Addresses |-> F[a]] /\ F[s] = v /\ \A a \in Addresses : a # s => F[a] = V[a]
    <2> HIDE DEF s, v
    <2> QED BY <1>2
<1> HIDE DEF F
<1>4. /\ DOMAIN d.slabs = DOMAIN c.slabs
      /\ \A j \in DOMAIN c.slabs : d.slabs[j].start = c.slabs[j].start
      /\ \A j \in DOMAIN c.slabs : j # i => SlabContents(d.slabs[j]) = SlabContents(c.slabs[j])
    BY DEF SlabChanged, SlabContents
<1>5. \A j \in DOMAIN c.slabs : j # i => c.slabs[j].start # s
    BY DEF SpansRecorded
<1>6. Shows(F, d)
    <2>1. ASSUME NEW j \in DOMAIN d.slabs
          PROVE  d.slabs[j].start \in Addresses /\ F[d.slabs[j].start] = SlabContents(d.slabs[j])
        <3>1. CASE j = i
            BY <3>1, <1>2, <1>3, <1>4
        <3>2. CASE j # i
            <4>1. c.slabs[j].start \in Addresses /\ V[c.slabs[j].start] = SlabContents(c.slabs[j])
                BY <1>1, <1>4 DEF Shows
            <4>2. /\ d.slabs[j].start = c.slabs[j].start /\ c.slabs[j].start # s
                  /\ SlabContents(d.slabs[j]) = SlabContents(c.slabs[j])
                BY <3>2, <1>4, <1>5
            <4> QED BY ONLY <4>1, <4>2, <1>3
        <3> QED BY <3>1, <3>2
    <2>2. ASSUME NEW a \in Addresses, \A j \in DOMAIN d.slabs : d.slabs[j].start # a
          PROVE  F[a] = NoContents
        <3>1. \A j \in DOMAIN c.slabs : c.slabs[j].start # a
            BY <2>2, <1>4
        <3> QED BY <3>1, <1>1, <1>2, <1>3 DEF Shows
    <2> QED BY <2>1, <2>2, <1>3 DEF Shows
<1>7. SlabMap(d) = F
    BY <1>6, ShownIs
<1> QED BY <1>7 DEF F, V

\* A new slab is a new entry.
LEMMA MapGrown ==
    ASSUME NEW c, SpansRecorded(c), NEW d, SpansRecorded(d), NEW sp \in Spans, NEW n,
           SlabNew(c, d, sp, n)
    PROVE  SlabMap(d) = [SlabMap(c) EXCEPT ![sp.start] = SlabContents(d.slabs[n + 1])]
<1> DEFINE V == SlabMap(c)
           s == sp.start
           v == SlabContents(d.slabs[n + 1])
           F == [V EXCEPT ![s] = v]
<1>1. Shows(V, c)
    BY MapShows
<1> HIDE DEF V
<1>2. V = [a \in Addresses |-> V[a]] /\ s \in Addresses
    BY <1>1, SpansAssumption DEF Shows, Addresses
<1>3. F = [a \in Addresses |-> F[a]] /\ F[s] = v /\ \A a \in Addresses : a # s => F[a] = V[a]
    <2> HIDE DEF s, v
    <2> QED BY <1>2
<1> HIDE DEF F
<1>4. /\ DOMAIN c.slabs = 1 .. n /\ DOMAIN d.slabs = 1 .. n + 1 /\ n \in Nat
      /\ \A j \in 1 .. n : d.slabs[j].start = c.slabs[j].start /\ c.slabs[j].start # s
      /\ \A j \in 1 .. n : SlabContents(d.slabs[j]) = SlabContents(c.slabs[j])
      /\ d.slabs[n + 1].start = s
    BY DEF SlabNew, SlabContents
<1>5. Shows(F, d)
    <2>1. ASSUME NEW j \in DOMAIN d.slabs
          PROVE  d.slabs[j].start \in Addresses /\ F[d.slabs[j].start] = SlabContents(d.slabs[j])
        <3>1. CASE j = n + 1
            BY <3>1, <1>2, <1>3, <1>4
        <3>2. CASE j # n + 1
            <4>1. j \in 1 .. n
                BY <3>2, <1>4
            <4>2. c.slabs[j].start \in Addresses /\ V[c.slabs[j].start] = SlabContents(c.slabs[j])
                BY <4>1, <1>1, <1>4 DEF Shows
            <4>3. /\ d.slabs[j].start = c.slabs[j].start /\ c.slabs[j].start # s
                  /\ SlabContents(d.slabs[j]) = SlabContents(c.slabs[j])
                BY <4>1, <1>4
            <4> QED BY ONLY <4>2, <4>3, <1>3
        <3> QED BY <3>1, <3>2
    <2>2. ASSUME NEW a \in Addresses, \A j \in DOMAIN d.slabs : d.slabs[j].start # a
          PROVE  F[a] = NoContents
        <3>1. \A j \in 1 .. n : j \in 1 .. n + 1
            BY <1>4
        <3>2. n + 1 \in 1 .. n + 1
            BY <1>4
        <3>3. \A j \in DOMAIN c.slabs : c.slabs[j].start # a
            BY <3>1, <2>2, <1>4
        <3>4. a # s
            BY <3>2, <2>2, <1>4
        <3> QED BY <3>3, <3>4, <1>1, <1>3 DEF Shows
    <2> QED BY <2>1, <2>2, <1>3 DEF Shows
<1>6. SlabMap(d) = F
    BY <1>5, ShownIs
<1> QED BY <1>6 DEF F, V

\* A slab of the view has a block to give exactly if the slab does.
LEMMA SeenAvailable ==
    ASSUME NEW sl, sl.free \in Seq(Nat)
    PROVE  Contract!HasAvailableBlocks(SlabContents(sl)) <=> HasAvailable(sl)
<1>1. ToSet(sl.free) # {} <=> sl.free # <<>>
    <2> DEFINE q == sl.free
    <2>1. q \in Seq(Nat)
        OBVIOUS
    <2> HIDE DEF q
    <2>2. q # <<>> => q[1] \in ToSet(q)
        BY <2>1 DEF ToSet
    <2>3. q = <<>> => ToSet(q) = {}
        BY DEF ToSet
    <2> QED BY <2>2, <2>3 DEF q
<1>2. /\ SlabContents(sl).next_fresh = sl.next_fresh /\ SlabContents(sl).capacity = sl.capacity
      /\ SlabContents(sl).free = ToSet(sl.free)
    BY DEF SlabContents
<1> QED BY <1>1, <1>2 DEF Contract!HasAvailableBlocks, HasAvailable

\* available_slabs after a change of one slab.
LEMMA ReadyChanged ==
    ASSUME NEW c, SpansRecorded(c), NEW d, NEW i \in DOMAIN c.slabs, SlabChanged(c, d, i)
    PROVE  /\ HasAvailable(d.slabs[i]) => ReadyStarts(d) = ReadyStarts(c) \cup {c.slabs[i].start}
           /\ ~HasAvailable(d.slabs[i]) => ReadyStarts(d) = ReadyStarts(c) \ {c.slabs[i].start}
           /\ HasAvailable(c.slabs[i]) <=> c.slabs[i].start \in ReadyStarts(c)
<1>1. /\ DOMAIN d.slabs = DOMAIN c.slabs
      /\ \A j \in DOMAIN c.slabs : d.slabs[j].start = c.slabs[j].start
      /\ \A j \in DOMAIN c.slabs : j # i => (HasAvailable(d.slabs[j]) <=> HasAvailable(c.slabs[j]))
    BY DEF SlabChanged, HasAvailable
<1>2. \A j \in DOMAIN c.slabs : j # i => c.slabs[j].start # c.slabs[i].start
    BY DEF SpansRecorded
<1>3. ASSUME NEW e PROVE \A a : a \in ReadyStarts(e) <=>
            \E j \in DOMAIN e.slabs : HasAvailable(e.slabs[j]) /\ a = e.slabs[j].start
    BY DEF ReadyStarts, Ready
<1>4. \A a : a \in ReadyStarts(c) <=>
            \E j \in DOMAIN c.slabs : HasAvailable(c.slabs[j]) /\ a = c.slabs[j].start
    BY <1>3
<1>5. \A a : a \in ReadyStarts(d) <=>
            \E j \in DOMAIN c.slabs : HasAvailable(d.slabs[j]) /\ a = c.slabs[j].start
    BY <1>1, <1>3
<1> HIDE DEF ReadyStarts
<1>6. HasAvailable(c.slabs[i]) <=> c.slabs[i].start \in ReadyStarts(c)
    BY ONLY <1>2, <1>4, i \in DOMAIN c.slabs
<1>7. ASSUME HasAvailable(d.slabs[i]) PROVE ReadyStarts(d) = ReadyStarts(c) \cup {c.slabs[i].start}
    BY ONLY <1>1, <1>2, <1>4, <1>5, <1>7, i \in DOMAIN c.slabs
<1>8. ASSUME ~HasAvailable(d.slabs[i]) PROVE ReadyStarts(d) = ReadyStarts(c) \ {c.slabs[i].start}
    BY ONLY <1>1, <1>2, <1>4, <1>5, <1>8, i \in DOMAIN c.slabs
<1> QED BY <1>6, <1>7, <1>8

\* available_slabs after a new slab.
LEMMA ReadyGrown ==
    ASSUME NEW c, NEW d, NEW sp \in Spans, NEW n, SlabNew(c, d, sp, n)
    PROVE  ReadyStarts(d) = ReadyStarts(c) \cup {sp.start}
<1>1. /\ DOMAIN c.slabs = 1 .. n /\ DOMAIN d.slabs = 1 .. n + 1 /\ n \in Nat
      /\ \A j \in 1 .. n : d.slabs[j].start = c.slabs[j].start
      /\ \A j \in 1 .. n : HasAvailable(d.slabs[j]) <=> HasAvailable(c.slabs[j])
      /\ d.slabs[n + 1].start = sp.start /\ HasAvailable(d.slabs[n + 1])
    BY SpansAssumption DEF SlabNew, HasAvailable
<1>2. \A j \in 1 .. n : j \in 1 .. n + 1 /\ j # n + 1
    BY <1>1
<1>3. n + 1 \in 1 .. n + 1 /\ \A j \in 1 .. n + 1 : j = n + 1 \/ j \in 1 .. n
    BY <1>1
<1> DEFINE D == 1 .. n
           E == 1 .. n + 1
           m == n + 1
<1>4. /\ \A j \in D : j \in E /\ d.slabs[j].start = c.slabs[j].start
                      /\ (HasAvailable(d.slabs[j]) <=> HasAvailable(c.slabs[j]))
      /\ \A j \in E : j = m \/ j \in D
      /\ m \in E /\ d.slabs[m].start = sp.start /\ HasAvailable(d.slabs[m])
      /\ DOMAIN c.slabs = D /\ DOMAIN d.slabs = E
    BY <1>1, <1>2, <1>3
<1> HIDE DEF D, E, m
<1>5. \A a : a \in ReadyStarts(c) <=> \E j \in D : HasAvailable(c.slabs[j]) /\ a = c.slabs[j].start
    BY <1>4 DEF ReadyStarts, Ready
<1>6. \A a : a \in ReadyStarts(d) <=> \E j \in E : HasAvailable(d.slabs[j]) /\ a = d.slabs[j].start
    BY <1>4 DEF ReadyStarts, Ready
<1> HIDE DEF ReadyStarts
<1>7. \A a : a \in ReadyStarts(d) <=> a \in ReadyStarts(c) \/ a = sp.start
    BY ONLY <1>4, <1>5, <1>6
<1> QED BY <1>7

-----------------------------------------------------------------------------
\* What push_owned_slab of the contract does to its record.
LEMMA SeenOwned ==
    ASSUME NEW h, NEW F, NEW A, NEW S, NEW k, NEW t, NEW s \in Addresses, NEW n,
           F[s].capacity = 0 \/ (F[s].capacity = n /\ n # 0)
    PROVE  Contract!PushOwnedSlab(Seen(h, F, A, S, k, t), s, n) =
              Seen(h, [F EXCEPT ![s] = [capacity |-> n, next_fresh |-> 0, free |-> {}]],
                   A \cup {s}, S, k, t + n)
<1> DEFINE V == Seen(h, F, A, S, k, t)
           r == [capacity |-> IF s \in Contract!KnownSlabs(V) THEN V.slabs[s].capacity ELSE n,
                 next_fresh |-> 0, free |-> {}]
<1>1. V.slabs = F /\ V.avail = A /\ V.total_len = t
    BY DEF Seen
<1>2. s \in Contract!KnownSlabs(V) <=> F[s].capacity # 0
    BY <1>1 DEF Contract!KnownSlabs, Contract!Addr, Addresses
<1>3. r = [capacity |-> n, next_fresh |-> 0, free |-> {}]
    BY <1>1, <1>2
<1> HIDE DEF r
<1>4. Contract!PushOwnedSlab(V, s, n) =
         [V EXCEPT !.slabs = [V.slabs EXCEPT ![s] = r], !.avail = V.avail \cup {s},
                   !.total_len = V.total_len + n]
    BY DEF Contract!PushOwnedSlab, r
<1> DEFINE G == [F EXCEPT ![s] = r]
<1> HIDE DEF G
<1>5. Contract!PushOwnedSlab(V, s, n) =
         [V EXCEPT !.slabs = G, !.avail = A \cup {s}, !.total_len = t + n]
    BY ONLY <1>1, <1>4 DEF G
<1>6. Contract!PushOwnedSlab(V, s, n) = Seen(h, G, A \cup {s}, S, k, t + n)
    BY ONLY <1>5 DEF Seen, V
<1> QED BY ONLY <1>3, <1>6 DEF G, V

\* push_owned_slab is a step of the contract.
LEMMA SlabStep ==
    ASSUME NEW sp \in Spans, CacheSound(cc), CacheSound(cc'),
           SlabMap(cc)[sp.start].capacity \in {0, sp.count},
           cc'.hot = cc.hot, cc'.shared = cc.shared, cc'.shared_len = cc.shared_len,
           cc'.total_len = cc.total_len + sp.count,
           SlabMap(cc') = [SlabMap(cc) EXCEPT ![sp.start] =
                              [capacity |-> sp.count, next_fresh |-> 0, free |-> {}]],
           ReadyStarts(cc') = ReadyStarts(cc) \cup {sp.start},
           SpanBlocks(sp) \subseteq out, out' = out \ SpanBlocks(sp)
    PROVE  Contract!ContractNext
<1> DEFINE s == sp.start
           n == sp.count
<1>1. s \in Addresses /\ n \in 1 .. ArenaBlocks - s /\ n # 0
    BY SpansAssumption DEF Addresses
<1>2. CacheView(cc) = Seen(cc.hot, SlabMap(cc), ReadyStarts(cc), ToSet(cc.shared), cc.shared_len,
                           cc.total_len)
    BY CacheSeen
<1>3. CacheView(cc') = Seen(cc'.hot, SlabMap(cc'), ReadyStarts(cc'), ToSet(cc'.shared),
                            cc'.shared_len, cc'.total_len)
    BY CacheSeen
<1>4. CacheView(cc') = Contract!PushOwnedSlab(CacheView(cc), s, n)
    <2> DEFINE F == SlabMap(cc)
               A == ReadyStarts(cc)
               S == ToSet(cc.shared)
    <2>1. F[s].capacity = 0 \/ (F[s].capacity = n /\ n # 0)
        BY <1>1
    <2>2. CacheView(cc') = Seen(cc.hot, [F EXCEPT ![s] = [capacity |-> n, next_fresh |-> 0, free |-> {}]],
                                A \cup {s}, S, cc.shared_len, cc.total_len + n)
        BY <1>3
    <2> HIDE DEF F, A, S, s, n
    <2>3. Contract!PushOwnedSlab(Seen(cc.hot, F, A, S, cc.shared_len, cc.total_len), s, n) =
            Seen(cc.hot, [F EXCEPT ![s] = [capacity |-> n, next_fresh |-> 0, free |-> {}]],
                 A \cup {s}, S, cc.shared_len, cc.total_len + n)
        BY ONLY <2>1, <1>1, SeenOwned
    <2> QED BY ONLY <1>2, <2>2, <2>3 DEF F, A, S
<1>5. s .. s + n - 1 \subseteq out /\ out' = out \ (s .. s + n - 1)
    BY DEF SpanBlocks
<1> HIDE DEF s, n
<1>6. Contract!TakeSlab(s, n)
    BY <1>4, <1>5 DEF Contract!TakeSlab
<1>7. s \in Contract!Addr /\ n \in 1 .. ArenaBlocks - s
    BY <1>1 DEF Contract!Addr, Addresses
<1> QED BY <1>6, <1>7 DEF Contract!ContractNext

\* A slab with all of its blocks fresh, as the contract sees it.
LEMMA SeenFresh ==
    ASSUME NEW sl, NEW n, sl.capacity = n, sl.next_fresh = 0, sl.free = <<>>
    PROVE  SlabContents(sl) = [capacity |-> n, next_fresh |-> 0, free |-> {}]
<1>1. ToSet(sl.free) = {}
    BY DEF ToSet
<1> QED BY <1>1 DEF SlabContents

\* push_owned_slab of a known slab is a step of the contract.
LEMMA PushKnownSlabStep ==
    ASSUME CacheInv, NEW sp \in Spans, PushKnownSlab(sp) PROVE Contract!ContractNext
<1>1. CacheInv' /\ cc'.total_len = cc.total_len + sp.count
    BY PushKnownSlabIs
<1>2. PICK i \in DOMAIN cc.slabs :
        /\ cc.slabs[i].start = sp.start /\ SlabChanged(cc, cc', i)
        /\ cc'.slabs[i].next_fresh = 0 /\ cc'.slabs[i].free = <<>>
    BY PushKnownSlabIs
<1>3. CacheSound(cc) /\ CacheSound(cc') /\ SpansRecorded(cc) /\ SpansRecorded(cc')
    BY <1>1 DEF CacheInv, CacheSound, CacheShape
<1>4. cc.slabs[i].capacity = sp.count /\ cc'.slabs[i].capacity = sp.count
    BY <1>2, <1>3, SpanOf DEF SlabChanged
<1>5. SlabContents(cc'.slabs[i]) = [capacity |-> sp.count, next_fresh |-> 0, free |-> {}]
    BY <1>2, <1>4, SeenFresh
<1>6. SlabMap(cc') = [SlabMap(cc) EXCEPT ![sp.start] =
                              [capacity |-> sp.count, next_fresh |-> 0, free |-> {}]]
    BY <1>2, <1>3, <1>5, MapChanged
<1>7. SlabMap(cc)[sp.start].capacity \in {0, sp.count}
    <2>1. SlabMap(cc)[sp.start] = SlabContents(cc.slabs[i])
        BY <1>2, <1>3, MapShows DEF Shows
    <2> QED BY <2>1, <1>4 DEF SlabContents
<1>8. HasAvailable(cc'.slabs[i])
    BY <1>2, <1>4, SpansAssumption DEF HasAvailable
<1>9. ReadyStarts(cc') = ReadyStarts(cc) \cup {sp.start}
    BY <1>2, <1>3, <1>8, ReadyChanged
<1>10. cc'.hot = cc.hot /\ cc'.shared = cc.shared /\ cc'.shared_len = cc.shared_len
    BY <1>2 DEF SlabChanged
<1>11. SpanBlocks(sp) \subseteq out /\ out' = out \ SpanBlocks(sp)
    BY DEF PushKnownSlab
<1> QED BY ONLY sp \in Spans, <1>1, <1>3, <1>6, <1>7, <1>9, <1>10, <1>11, SlabStep

\* push_owned_slab of a new slab is a step of the contract.
LEMMA PushNewSlabStep ==
    ASSUME CacheInv, NEW sp \in Spans, PushNewSlab(sp) PROVE Contract!ContractNext
<1> DEFINE n == Len(cc.slabs)
<1>1. CacheInv' /\ cc'.total_len = cc.total_len + sp.count /\ SlabNew(cc, cc', sp, n)
    BY PushNewSlabIs
<1> HIDE DEF n
<1>3. CacheSound(cc) /\ CacheSound(cc') /\ SpansRecorded(cc) /\ SpansRecorded(cc')
    BY <1>1 DEF CacheInv, CacheSound, CacheShape
<1>5. SlabContents(cc'.slabs[n + 1]) = [capacity |-> sp.count, next_fresh |-> 0, free |-> {}]
    <2> DEFINE r == cc'.slabs[n + 1]
    <2>1. r.capacity = sp.count /\ r.next_fresh = 0 /\ r.free = <<>>
        BY <1>1 DEF SlabNew
    <2> HIDE DEF r
    <2> QED BY <2>1, SeenFresh DEF r
<1>6. SlabMap(cc') = [SlabMap(cc) EXCEPT ![sp.start] =
                              [capacity |-> sp.count, next_fresh |-> 0, free |-> {}]]
    BY <1>1, <1>3, <1>5, MapGrown
<1>7. SlabMap(cc)[sp.start].capacity \in {0, sp.count}
    <2>1. sp.start \in Addresses /\ \A i \in DOMAIN cc.slabs : cc.slabs[i].start # sp.start
        BY SpansAssumption DEF Addresses, PushNewSlab
    <2>2. SlabMap(cc)[sp.start] = NoContents
        BY <2>1, <1>3, MapShows DEF Shows
    <2> QED BY <2>2 DEF NoContents
<1>9. ReadyStarts(cc') = ReadyStarts(cc) \cup {sp.start}
    BY <1>1, <1>3, ReadyGrown
<1>10. cc'.hot = cc.hot /\ cc'.shared = cc.shared /\ cc'.shared_len = cc.shared_len
    BY <1>1 DEF SlabNew
<1>11. SpanBlocks(sp) \subseteq out /\ out' = out \ SpanBlocks(sp)
    BY DEF PushNewSlab
<1> QED BY ONLY sp \in Spans, <1>1, <1>3, <1>6, <1>7, <1>9, <1>10, <1>11, SlabStep

\* push_shared_batch is a step of the contract.
LEMMA PushSharedBatchStep ==
    ASSUME CacheInv, NEW B \in SUBSET out, NEW list \in SetToSeqs(B), PushSharedBatch(list)
    PROVE  Contract!ContractNext
<1> DEFINE n == Len(list)
           s == list \o cc.shared
<1>1. B \in SUBSET Addresses /\ B \cap CacheHeld(cc) = {}
    BY DEF CacheInv
<1>2. list \in Seq(Nat) /\ Once(list) /\ ToSet(list) = B /\ n = Cardinality(B)
    BY <1>1, OrderOf
<1>3. CacheInv'
    BY <1>2, PushSharedBatchKeeps
<1>4. CacheSound(cc) /\ CacheSound(cc') /\ cc \in LocalCacheRecord /\ cc.shared \in Seq(Nat)
      /\ Once(cc.shared) /\ ToSet(cc.shared) \subseteq CacheHeld(cc)
    BY <1>3, InvFacts DEF CacheInv
<1>5. ToSet(s) = ToSet(cc.shared) \cup B
    <2>1. ToSet(list) \cap ToSet(cc.shared) = {}
        BY <1>1, <1>2, <1>4
    <2>2. list \in Seq(Nat) /\ Once(list) /\ cc.shared \in Seq(Nat) /\ Once(cc.shared)
        BY <1>2, <1>4
    <2>3. ToSet(s) = ToSet(list) \cup ToSet(cc.shared)
        BY ONLY ZenonT(40), <2>1, <2>2, ListJoin
    <2> QED BY <2>3, <1>2
<1> HIDE DEF s, n
<1>6. cc' = [cc EXCEPT !.shared = s, !.shared_len = cc.shared_len + n, !.total_len = cc.total_len + n]
      /\ out' = out \ B
    BY <1>2 DEF PushSharedBatch, s, n
<1>7. /\ cc'.slabs = cc.slabs /\ cc'.hot = cc.hot /\ cc'.shared = s
      /\ cc'.shared_len = cc.shared_len + n /\ cc'.total_len = cc.total_len + n
    BY ONLY <1>4, <1>6 DEF LocalCacheRecord
<1>8. SlabMap(cc') = SlabMap(cc) /\ ReadyStarts(cc') = ReadyStarts(cc)
    BY <1>7 DEF SlabMap, SlabsAt, ReadyStarts, Ready
<1> DEFINE F == SlabMap(cc)
           A == ReadyStarts(cc)
           S == ToSet(cc.shared)
<1>9. CacheView(cc) = Seen(cc.hot, F, A, S, cc.shared_len, cc.total_len)
    BY <1>4, CacheSeen
<1>10. CacheView(cc') = Seen(cc.hot, F, A, S \cup B, cc.shared_len + n, cc.total_len + n)
    <2>1. CacheView(cc') = Seen(cc'.hot, SlabMap(cc'), ReadyStarts(cc'), ToSet(cc'.shared),
                                cc'.shared_len, cc'.total_len)
        BY <1>4, CacheSeen
    <2> QED BY ONLY <2>1, <1>5, <1>7, <1>8
<1> HIDE DEF F, A, S
<1>11. Contract!Cardinality(B) = n
    BY <1>2 DEF Cardinality, Contract!Cardinality
<1>12. CacheView(cc') = Contract!PushSharedBatch(CacheView(cc), B)
    <2> DEFINE V == CacheView(cc)
               w == Contract!PushSharedBatch(V, B)
    <2>1. V = Seen(cc.hot, F, A, S, cc.shared_len, cc.total_len)
        BY <1>9
    <2> HIDE DEF V
    <2>2. w = [V EXCEPT !.shared = V.shared \cup B, !.shared_len = V.shared_len + n,
                        !.total_len = V.total_len + n]
        BY ONLY <1>11 DEF Contract!PushSharedBatch
    <2> HIDE DEF w
    <2>3. w = Seen(cc.hot, F, A, S \cup B, cc.shared_len + n, cc.total_len + n)
        BY ONLY <2>1, <2>2 DEF Seen
    <2> QED BY ONLY <2>3, <1>10 DEF V, w
<1>13. Contract!TakeShared(B) /\ B \in SUBSET Contract!Addr
    BY <1>1, <1>6, <1>12 DEF Contract!TakeShared, Contract!Addr, Addresses
<1> QED BY <1>13 DEF Contract!ContractNext

\* The lookup of the contract finds the slab that contains the block, and no other.
LEMMA SeenFound ==
    ASSUME NEW c, SpansRecorded(c), NEW x \in Int, NEW V, V.slabs = SlabMap(c)
    PROVE  /\ (\A i \in DOMAIN c.slabs : ~SlabContains(c.slabs[i], x))
                 => \A s \in Addresses : ~Contract!FindsLocal(V, s, x)
           /\ \A i \in DOMAIN c.slabs : SlabContains(c.slabs[i], x)
                 => \A s \in Addresses : Contract!FindsLocal(V, s, x) <=> s = c.slabs[i].start
<1>1. Shows(SlabMap(c), c)
    BY MapShows
<1>2. \A i \in DOMAIN c.slabs : /\ c.slabs[i].start \in Addresses /\ c.slabs[i].start \in Nat
                                /\ c.slabs[i].capacity \in Nat \ {0}
    BY <1>1, SpansAssumption DEF SpansRecorded, Shows
<1>3. \A s \in Addresses : s \in Contract!KnownSlabs(V) <=> \E i \in DOMAIN c.slabs : c.slabs[i].start = s
    <2> SUFFICES ASSUME NEW s \in Addresses
                 PROVE  V.slabs[s].capacity # 0 <=> \E i \in DOMAIN c.slabs : c.slabs[i].start = s
        BY DEF Contract!KnownSlabs, Contract!Addr, Addresses
    <2>1. CASE \E i \in DOMAIN c.slabs : c.slabs[i].start = s
        <3>1. PICK i \in DOMAIN c.slabs : c.slabs[i].start = s
            BY <2>1
        <3>2. V.slabs[s] = SlabContents(c.slabs[i])
            BY <3>1, <1>1 DEF Shows
        <3> QED BY <3>1, <3>2, <1>2 DEF SlabContents
    <2>2. CASE ~ \E i \in DOMAIN c.slabs : c.slabs[i].start = s
        <3>1. V.slabs[s] = NoContents
            BY <2>2, <1>1 DEF Shows
        <3> QED BY <3>1, <2>2 DEF NoContents
    <2> QED BY <2>1, <2>2
<1>4. \A i \in DOMAIN c.slabs : V.slabs[c.slabs[i].start].capacity = c.slabs[i].capacity
    <2> TAKE i \in DOMAIN c.slabs
    <2>1. V.slabs[c.slabs[i].start] = SlabContents(c.slabs[i])
        BY <1>1 DEF Shows
    <2> QED BY <2>1 DEF SlabContents
<1>5. Contract!KnownSlabs(V) \subseteq Addresses
    BY DEF Contract!KnownSlabs, Contract!Addr, Addresses
<1>6. ASSUME NEW s \in Addresses, Contract!FindsLocal(V, s, x)
      PROVE  \E i \in DOMAIN c.slabs : c.slabs[i].start = s /\ SlabContains(c.slabs[i], x)
    <2>1. s \in Contract!KnownSlabs(V) /\ s <= x /\ x < s + V.slabs[s].capacity
        BY <1>6 DEF Contract!FindsLocal
    <2>2. PICK i \in DOMAIN c.slabs : c.slabs[i].start = s
        BY <2>1, <1>3
    <2> QED BY <2>1, <2>2, <1>4 DEF SlabContains
<1>7. ASSUME NEW i \in DOMAIN c.slabs, SlabContains(c.slabs[i], x)
      PROVE  Contract!FindsLocal(V, c.slabs[i].start, x)
    <2> DEFINE s == c.slabs[i].start
    <2>1. s \in Contract!KnownSlabs(V) /\ s <= x /\ x < s + V.slabs[s].capacity
        BY <1>2, <1>3, <1>4, <1>7 DEF SlabContains
    <2>2. ASSUME NEW t \in Contract!KnownSlabs(V), t <= x PROVE t <= s
        <3>1. PICK j \in DOMAIN c.slabs : c.slabs[j].start = t
            BY <1>3, <1>5
        <3>2. t \in Nat /\ s \in Nat /\ c.slabs[i].capacity \in Nat /\ x < s + c.slabs[i].capacity
            BY <3>1, <1>2, <1>7 DEF SlabContains
        <3>3. CASE t > s
            <4>1. SlabContains(c.slabs[i], t) /\ SlabContains(c.slabs[j], t)
                BY <3>1, <3>2, <3>3, <2>2, <1>2 DEF SlabContains
            <4>2. i = j
                BY <4>1, <3>2, SlabsApart
            <4> QED BY <4>2, <3>1, <3>2
        <3> QED BY <3>2, <3>3
    <2> QED BY <2>1, <2>2 DEF Contract!FindsLocal
<1>8. ASSUME NEW i \in DOMAIN c.slabs, SlabContains(c.slabs[i], x), NEW s \in Addresses,
             Contract!FindsLocal(V, s, x)
      PROVE  s = c.slabs[i].start
    <2>1. PICK j \in DOMAIN c.slabs : c.slabs[j].start = s /\ SlabContains(c.slabs[j], x)
        BY <1>6, <1>8
    <2>2. i = j
        BY <2>1, <1>8, SlabsApart
    <2> QED BY <2>1, <2>2
<1> QED BY <1>6, <1>7, <1>8

\* push_spilled_block does to the cache what it does to the contract's record.
LEMMA SeenSpilled ==
    ASSUME NEW c, CacheSound(c), NEW d, CacheSound(d), NEW x \in Int, Spilled(c, d, x),
           d.total_len = c.total_len
    PROVE  CacheView(d) = Contract!PushSpilledBlock(CacheView(c), x)
<1> DEFINE F == SlabMap(c)
           A == ReadyStarts(c)
           S == ToSet(c.shared)
           k == c.shared_len
           t == c.total_len
           V == CacheView(c)
           w == Contract!PushSpilledBlock(V, x)
<1>1. V = Seen(c.hot, F, A, S, k, t)
    BY CacheSeen
<1>2. CacheView(d) = Seen(d.hot, SlabMap(d), ReadyStarts(d), ToSet(d.shared), d.shared_len, d.total_len)
    BY CacheSeen
<1>3. SpansRecorded(c) /\ SpansRecorded(d) /\ c \in LocalCacheRecord
    BY DEF CacheSound, CacheShape
<1> HIDE DEF F, A, S, k, t
<1>4. V.slabs = F /\ V.avail = A /\ V.shared = S /\ V.shared_len = k
    BY <1>1 DEF Seen
<1> HIDE DEF V
<1>5. CASE \A i \in DOMAIN c.slabs : ~SlabContains(c.slabs[i], x)
    <2>1. /\ d.slabs = c.slabs /\ d.hot = c.hot
          /\ ToSet(d.shared) = S \cup {x} /\ d.shared_len = k + 1
        BY <1>5 DEF Spilled, S, k
    <2>2. SlabMap(d) = F /\ ReadyStarts(d) = A
        BY <2>1 DEF SlabMap, SlabsAt, ReadyStarts, Ready, F, A
    <2>3. CacheView(d) = Seen(c.hot, F, A, S \cup {x}, k + 1, t)
        BY <2>1, <2>2, <1>2 DEF t
    <2>4. \A s \in Contract!Addr : ~Contract!FindsLocal(V, s, x)
        BY <1>3, <1>4, <1>5, SeenFound DEF F, Contract!Addr, Addresses
    <2>5. w = [V EXCEPT !.shared = V.shared \cup {x}, !.shared_len = V.shared_len + 1]
        BY <2>4 DEF Contract!PushSpilledBlock
    <2> HIDE DEF w
    <2>6. w = Seen(c.hot, F, A, S \cup {x}, k + 1, t)
        BY ONLY <2>5, <1>1 DEF Seen
    <2> QED BY ONLY <2>3, <2>6 DEF w, V
<1>6. CASE \E i \in DOMAIN c.slabs : SlabContains(c.slabs[i], x)
    <2>1. PICK i \in DOMAIN c.slabs :
             /\ SlabContains(c.slabs[i], x) /\ SlabChanged(c, d, i)
             /\ d.slabs[i].free # <<>> /\ ToSet(d.slabs[i].free) = ToSet(c.slabs[i].free) \cup {x}
             /\ d.slabs[i].next_fresh = c.slabs[i].next_fresh
        BY <1>6 DEF Spilled
    <2> DEFINE s == c.slabs[i].start
               sl == [V.slabs[s] EXCEPT !.free = @ \cup {x}]
               v == SlabContents(d.slabs[i])
               G == [F EXCEPT ![s] = v]
               A2 == IF Contract!HasAvailableBlocks(V.slabs[s]) THEN V.avail ELSE V.avail \cup {s}
    <2>2. Shows(F, c)
        BY <1>3, MapShows DEF F
    <2>3. s \in Addresses /\ V.slabs[s] = SlabContents(c.slabs[i])
        BY <2>2, <1>4 DEF Shows
    <2>4. sl = v
        <3>1. d.slabs[i].capacity = c.slabs[i].capacity
            BY <2>1 DEF SlabChanged
        <3> DEFINE o == V.slabs[s]
                   p == ToSet(c.slabs[i].free) \cup {x}
        <3>2. sl = [o EXCEPT !.free = o.free \cup {x}]
            OBVIOUS
        <3>3. o = [capacity |-> c.slabs[i].capacity, next_fresh |-> c.slabs[i].next_fresh,
                   free |-> ToSet(c.slabs[i].free)]
            BY <2>3 DEF SlabContents
        <3>4. v = [capacity |-> c.slabs[i].capacity, next_fresh |-> c.slabs[i].next_fresh, free |-> p]
            BY <3>1, <2>1 DEF SlabContents
        <3> HIDE DEF o, sl, v
        <3>5. o.free = ToSet(c.slabs[i].free)
            BY ONLY <3>3
        <3>6. sl = [o EXCEPT !.free = p]
            BY ONLY <3>2, <3>5
        <3> HIDE DEF p
        <3> QED BY ONLY <3>3, <3>4, <3>6
    <2>5. \A a \in Contract!Addr : Contract!FindsLocal(V, a, x) <=> a = s
        <3>1. \A a \in Addresses : Contract!FindsLocal(V, a, x) <=> a = s
            BY <2>1, <1>3, <1>4, SeenFound DEF F
        <3> QED BY <3>1 DEF Contract!Addr, Addresses
    <2>6. s \in Contract!Addr
        BY <2>3 DEF Contract!Addr, Addresses
    <2> HIDE DEF s
    <2>7. (\E a \in Contract!Addr : Contract!FindsLocal(V, a, x))
          /\ (CHOOSE a \in Contract!Addr : Contract!FindsLocal(V, a, x)) = s
        BY ONLY <2>5, <2>6
    <2>8. w = [V EXCEPT !.slabs = [V.slabs EXCEPT ![s] = sl], !.avail = A2]
        BY ONLY <2>7 DEF Contract!PushSpilledBlock
    <2> HIDE DEF w, A2, sl, v, G
    <2>9. w = [V EXCEPT !.slabs = G, !.avail = A2]
        BY ONLY <2>4, <2>8, <1>4 DEF G
    <2>10. w = Seen(c.hot, G, A2, S, k, t)
        BY ONLY <2>9, <1>1 DEF Seen
    <2>11. SlabMap(d) = G
        BY <2>1, <1>3, MapChanged DEF G, F, v, s
    <2>12. ReadyStarts(d) = A2
        <3>1. HasAvailable(d.slabs[i])
            BY <2>1 DEF HasAvailable
        <3>2. c.slabs[i].free \in Seq(Nat)
            <4>1. c.slabs[i] \in LocalSlabRecord
                BY <1>3 DEF LocalCacheRecord
            <4> QED BY <4>1 DEF LocalSlabRecord
        <3>3. Contract!HasAvailableBlocks(V.slabs[s]) <=> HasAvailable(c.slabs[i])
            BY <3>2, <2>3, SeenAvailable
        <3>4. /\ ReadyStarts(d) = A \cup {s}
              /\ HasAvailable(c.slabs[i]) <=> s \in A
            BY <3>1, <2>1, <1>3, ReadyChanged DEF A, s
        <3> QED BY ONLY <3>3, <3>4, <1>4 DEF A2
    <2>13. d.hot = c.hot /\ ToSet(d.shared) = S /\ d.shared_len = k /\ d.total_len = t
        BY <2>1 DEF SlabChanged, S, k, t
    <2> QED BY ONLY <2>10, <2>11, <2>12, <2>13, <1>2 DEF w, V
<1> QED BY <1>5, <1>6

\* push_block is a step of the contract.
LEMMA PushBlockStep ==
    ASSUME CacheInv, NEW b \in out, PushBlock(b) PROVE Contract!ContractNext
<1> DEFINE d == WithHot(cc, b)
           V == CacheView(cc)
           F == SlabMap(cc)
           A == ReadyStarts(cc)
           S == ToSet(cc.shared)
           W == [V EXCEPT !.hot = {b}, !.total_len = @ + 1]
<1>1. CacheSound(cc) /\ CacheSound(d) /\ CacheInv' /\ CacheSound(cc') /\ cc \in LocalCacheRecord
      /\ (cc.hot = {} \/ \E x \in Addresses : cc.hot = {x})
    BY InvFacts, WithHotIs, PushBlockIs DEF CacheInv
<1>2. /\ d.slabs = cc.slabs /\ d.hot = {b} /\ d.shared = cc.shared /\ d.shared_len = cc.shared_len
      /\ d.total_len = cc.total_len + 1
    BY ONLY <1>1 DEF WithHot, LocalCacheRecord
<1> HIDE DEF d
<1>3. V = Seen(cc.hot, F, A, S, cc.shared_len, cc.total_len)
    BY <1>1, CacheSeen
<1>4. CacheView(d) = Seen(d.hot, SlabMap(d), ReadyStarts(d), ToSet(d.shared), d.shared_len, d.total_len)
    BY <1>1, CacheSeen
<1>5. SlabMap(d) = F /\ ReadyStarts(d) = A
    BY <1>2 DEF SlabMap, SlabsAt, ReadyStarts, Ready
<1> HIDE DEF F, A
<1>6. CacheView(d) = Seen({b}, F, A, S, cc.shared_len, cc.total_len + 1)
    BY <1>2, <1>4, <1>5
<1> HIDE DEF S, V
<1>7. W = CacheView(d)
    <2>1. V.total_len = cc.total_len
        BY <1>3 DEF Seen
    <2>2. W = [V EXCEPT !.hot = {b}, !.total_len = cc.total_len + 1]
        BY <2>1
    <2> HIDE DEF W
    <2>3. W = Seen({b}, F, A, S, cc.shared_len, cc.total_len + 1)
        BY ONLY <2>2, <1>3 DEF Seen
    <2> QED BY <2>3, <1>6
<1>8. V.hot = cc.hot
    BY <1>3 DEF Seen
<1>9. CacheView(cc') = Contract!PushBlock(V, b)
    <2>1. CASE cc.hot = {}
        <3>1. cc' = d
            BY <2>1, PushBlockIs DEF d
        <3>2. Contract!PushBlock(V, b) = W
            BY <2>1, <1>8 DEF Contract!PushBlock
        <3> QED BY <3>1, <3>2, <1>7
    <2>2. ASSUME NEW x \in Addresses, cc.hot = {x} PROVE CacheView(cc') = Contract!PushBlock(V, b)
        <3>1. Spilled(d, cc', x)
            BY <2>2, PushBlockIs DEF d
        <3>2. (CHOOSE h \in V.hot : TRUE) = x /\ V.hot # {}
            BY <2>2, <1>8
        <3>3. Contract!PushBlock(V, b) = Contract!PushSpilledBlock(W, x)
            BY <3>2 DEF Contract!PushBlock
        <3>4. cc'.total_len = d.total_len
            <4>1. cc'.total_len = cc.total_len + 1
                BY <2>2, PushBlockIs
            <4> QED BY <4>1, <1>2
        <3>5. x \in Int
            BY SpansAssumption DEF Addresses
        <3> HIDE DEF W
        <3>6. CacheView(cc') = Contract!PushSpilledBlock(CacheView(d), x)
            BY ONLY <3>1, <3>4, <3>5, <1>1, SeenSpilled
        <3> QED BY <3>3, <3>6, <1>7
    <2> QED BY <2>1, <2>2, <1>1
<1>10. out' = out \ {b} /\ b \in Addresses
    BY DEF PushBlock, CacheInv
<1>11. Contract!TakeFreed(b)
    BY <1>9, <1>10 DEF Contract!TakeFreed, V
<1>12. b \in Contract!Addr
    BY <1>10 DEF Contract!Addr, Addresses
<1> QED BY <1>11, <1>12 DEF Contract!ContractNext

\* A pop from a slab, as the contract writes it: one slab changed, and the counter.
LEMMA SeenPopped ==
    ASSUME NEW c, CacheSound(c), NEW d, CacheSound(d), NEW i \in Ready(c), SlabChanged(c, d, i),
           NEW n, d.total_len = c.total_len - n
    PROVE  /\ CacheView(d) = Contract!WithSlab(CacheView(c), c.slabs[i].start,
                                               SlabContents(d.slabs[i]), n)
           /\ c.slabs[i].start \in CacheView(c).avail
           /\ CacheView(c).slabs[c.slabs[i].start] = SlabContents(c.slabs[i])
<1> DEFINE F == SlabMap(c)
           A == ReadyStarts(c)
           S == ToSet(c.shared)
           k == c.shared_len
           t == c.total_len
           V == CacheView(c)
           s == c.slabs[i].start
           v == SlabContents(d.slabs[i])
           w == Contract!WithSlab(V, s, v, n)
           G == [F EXCEPT ![s] = v]
           A2 == IF Contract!HasAvailableBlocks(v) THEN A ELSE A \ {s}
<1>1. V = Seen(c.hot, F, A, S, k, t)
    BY CacheSeen
<1>2. CacheView(d) = Seen(d.hot, SlabMap(d), ReadyStarts(d), ToSet(d.shared), d.shared_len, d.total_len)
    BY CacheSeen
<1>3. SpansRecorded(c) /\ SpansRecorded(d) /\ d \in LocalCacheRecord /\ i \in DOMAIN c.slabs
      /\ HasAvailable(c.slabs[i]) /\ DOMAIN d.slabs = DOMAIN c.slabs
    BY DEF CacheSound, CacheShape, Ready, SlabChanged
<1>4. s \in A
    BY <1>3, ReadyChanged
<1>5. F[s] = SlabContents(c.slabs[i])
    BY <1>3, MapShows DEF Shows
<1>6. SlabMap(d) = G
    BY <1>3, MapChanged
<1>7. ReadyStarts(d) = A2
    <2>1. d.slabs[i].free \in Seq(Nat)
        <3>1. d.slabs[i] \in LocalSlabRecord
            BY <1>3 DEF LocalCacheRecord
        <3> QED BY <3>1 DEF LocalSlabRecord
    <2>2. Contract!HasAvailableBlocks(v) <=> HasAvailable(d.slabs[i])
        BY <2>1, SeenAvailable
    <2>3. /\ HasAvailable(d.slabs[i]) => ReadyStarts(d) = A \cup {s}
          /\ ~HasAvailable(d.slabs[i]) => ReadyStarts(d) = A \ {s}
        BY <1>3, ReadyChanged
    <2> HIDE DEF A, s, v
    <2> QED BY ONLY <2>2, <2>3, <1>4
<1>8. d.hot = c.hot /\ ToSet(d.shared) = S /\ d.shared_len = k /\ d.total_len = t - n
    BY DEF SlabChanged
<1> HIDE DEF F, A, S, k, t, s, v, V
<1>9. V.slabs = F /\ V.avail = A /\ V.total_len = t
    BY <1>1 DEF Seen
<1>10. w = [V EXCEPT !.slabs = G, !.avail = A2, !.total_len = t - n]
    BY ONLY <1>9 DEF Contract!WithSlab
<1> HIDE DEF w, G, A2
<1>11. w = Seen(c.hot, G, A2, S, k, t - n)
    BY ONLY <1>10, <1>1 DEF Seen
<1>12. CacheView(d) = w
    BY ONLY <1>2, <1>6, <1>7, <1>8, <1>11
<1> QED BY ONLY <1>4, <1>5, <1>9, <1>12 DEF w, v, s, V

\* The hot block leaves.
LEMMA SeenHotLeaves ==
    ASSUME CacheInv, CacheInv', NEW b, cc.hot = {b},
           cc' = [cc EXCEPT !.hot = {}, !.total_len = @ - 1]
    PROVE  CacheView(cc') = [CacheView(cc) EXCEPT !.hot = {}, !.total_len = @ - 1]
<1> DEFINE F == SlabMap(cc)
           A == ReadyStarts(cc)
           S == ToSet(cc.shared)
           V == CacheView(cc)
           t == cc.total_len - 1
           w == [V EXCEPT !.hot = {}, !.total_len = @ - 1]
<1>1. CacheSound(cc) /\ CacheSound(cc') /\ cc \in LocalCacheRecord
    BY InvFacts DEF CacheInv
<1>2. /\ cc'.slabs = cc.slabs /\ cc'.hot = {} /\ cc'.shared = cc.shared
      /\ cc'.shared_len = cc.shared_len /\ cc'.total_len = t
    BY <1>1 DEF LocalCacheRecord
<1>3. SlabMap(cc') = F /\ ReadyStarts(cc') = A
    BY <1>2 DEF SlabMap, SlabsAt, ReadyStarts, Ready
<1>4. V = Seen(cc.hot, F, A, S, cc.shared_len, cc.total_len)
    BY <1>1, CacheSeen
<1>5. CacheView(cc') = Seen(cc'.hot, SlabMap(cc'), ReadyStarts(cc'), ToSet(cc'.shared),
                            cc'.shared_len, cc'.total_len)
    BY <1>1, CacheSeen
<1>6. CacheView(cc') = Seen({}, F, A, S, cc.shared_len, t)
    BY <1>2, <1>3, <1>5
<1> HIDE DEF F, A, S, V
<1>7. V.total_len - 1 = t
    BY <1>4 DEF Seen
<1>8. w = [V EXCEPT !.hot = {}, !.total_len = t]
    BY <1>7
<1> HIDE DEF w, t
<1>9. w = Seen({}, F, A, S, cc.shared_len, t)
    BY ONLY <1>8, <1>4 DEF Seen
<1>10. CacheView(cc') = w
    BY ONLY <1>6, <1>9
<1> QED BY <1>10 DEF w, V

\* pop_block_unchecked with a hot block is a step of the contract.
LEMMA PopHotStep == ASSUME CacheInv, PopHot PROVE Contract!ContractNext
<1> DEFINE V == CacheView(cc)
           w == [V EXCEPT !.hot = {}, !.total_len = @ - 1]
<1>1. PICK b \in Addresses : cc.hot = {b}
    BY InvFacts DEF PopHot
<1>2. CacheInv'
    BY HotLeaves DEF PopHot
<1>3. CacheView(cc') = w
    BY <1>1, <1>2, SeenHotLeaves DEF PopHot
<1>4. V.hot = {b}
    BY <1>1 DEF CacheView
<1> DEFINE pop == [cache |-> w, block |-> b, reuse |-> "HotReuseRequestedOnly"]
<1> HIDE DEF V, w
<1>5. pop \in Contract!PopBlock(V)
    BY <1>4 DEF Contract!PopBlock, w
<1>6. pop.cache = w /\ pop.block = b
    OBVIOUS
<1>7. out' = out \cup {b}
    BY <1>1 DEF PopHot
<1> HIDE DEF pop
<1>8. Contract!GiveBlock
    BY <1>3, <1>5, <1>6, <1>7 DEF Contract!GiveBlock, V
<1> QED BY <1>8 DEF Contract!ContractNext

\* pop_batch of the hot block alone is a step of the contract.
LEMMA BatchHotStep == ASSUME CacheInv, BatchHot PROVE Contract!ContractNext
<1> DEFINE V == CacheView(cc)
           w == [V EXCEPT !.hot = {}, !.total_len = @ - 1]
<1>1. PICK b \in Addresses : cc.hot = {b}
    BY InvFacts DEF BatchHot
<1>2. CacheInv'
    BY HotLeaves DEF BatchHot
<1>3. CacheView(cc') = w
    BY <1>1, <1>2, SeenHotLeaves DEF BatchHot
<1>4. V.hot = {b} /\ V.shared_len = 0 /\ V.avail = {}
    <2>1. cc.avail = <<>> /\ cc.shared_len = 0
        BY DEF BatchHot
    <2>2. ToSet(cc.avail) = {}
        BY <2>1 DEF ToSet
    <2> QED BY <2>1, <2>2, <1>1 DEF CacheView
<1>5. Contract!Cardinality(V.hot) = 1
    <2>1. Cardinality(V.hot) = 1
        BY <1>4, FS_Singleton
    <2> QED BY <2>1 DEF Cardinality, Contract!Cardinality
<1> DEFINE pop == [cache |-> w, batch |-> {b}, fresh |-> {}]
<1> HIDE DEF V, w
<1>6. pop \in Contract!PopBatch(V, MaxBatch)
    BY <1>4, <1>5 DEF Contract!PopBatch, w
<1>7. pop.cache = w /\ pop.batch = {b}
    OBVIOUS
<1>8. out' = out \cup {b}
    BY <1>1 DEF BatchHot
<1> HIDE DEF pop
<1>9. Contract!GiveBatch
    BY <1>3, <1>6, <1>7, <1>8 DEF Contract!GiveBatch, V
<1> QED BY <1>9 DEF Contract!ContractNext

\* The first n blocks of the shared list leave.
LEMMA SeenSharedLeave ==
    ASSUME CacheInv, CacheInv', NEW n \in 0 .. Len(cc.shared),
           cc' = WithEdges(cc, cc.hot, SubSeq(cc.shared, n + 1, Len(cc.shared)),
                           cc.shared_len - n, cc.total_len - n)
    PROVE  CacheView(cc') = [CacheView(cc) EXCEPT !.shared = @ \ FirstNodes(cc.shared, n),
                                                  !.shared_len = @ - n, !.total_len = @ - n]
<1> DEFINE F == SlabMap(cc)
           A == ReadyStarts(cc)
           S == ToSet(cc.shared)
           V == CacheView(cc)
           B == FirstNodes(cc.shared, n)
           k == cc.shared_len - n
           t == cc.total_len - n
           w == [V EXCEPT !.shared = @ \ B, !.shared_len = @ - n, !.total_len = @ - n]
<1>1. CacheSound(cc) /\ CacheSound(cc') /\ cc \in LocalCacheRecord /\ cc.shared \in Seq(Nat)
      /\ Once(cc.shared)
    BY InvFacts DEF CacheInv
<1>2. /\ cc'.slabs = cc.slabs /\ cc'.hot = cc.hot /\ cc'.shared = RestOf(cc.shared, n)
      /\ cc'.shared_len = k /\ cc'.total_len = t
    BY <1>1 DEF LocalCacheRecord, WithEdges, RestOf
<1>3. SlabMap(cc') = F /\ ReadyStarts(cc') = A
    <2>1. cc'.slabs = cc.slabs
        BY <1>2
    <2> QED BY ONLY <2>1 DEF SlabMap, SlabsAt, ReadyStarts, Ready
<1>4. V = Seen(cc.hot, F, A, S, cc.shared_len, cc.total_len)
    BY <1>1, CacheSeen
<1>5. CacheView(cc') = Seen(cc'.hot, SlabMap(cc'), ReadyStarts(cc'), ToSet(cc'.shared),
                            cc'.shared_len, cc'.total_len)
    BY <1>1, CacheSeen
<1>6. ToSet(cc'.shared) = S \ B
    BY <1>1, <1>2, FirstLeave
<1> HIDE DEF F, A, S, V, B, k, t
<1>7. CacheView(cc') = Seen(cc.hot, F, A, S \ B, k, t)
    BY ONLY <1>2, <1>3, <1>5, <1>6
<1>8. V.shared \ B = S \ B /\ V.shared_len - n = k /\ V.total_len - n = t
    BY <1>4 DEF Seen, k, t
<1>9. w = [V EXCEPT !.shared = S \ B, !.shared_len = k, !.total_len = t]
    BY ONLY <1>8
<1> HIDE DEF w
<1>10. w = Seen(cc.hot, F, A, S \ B, k, t)
    BY ONLY <1>9, <1>4 DEF Seen
<1>11. CacheView(cc') = w
    BY ONLY <1>7, <1>10
<1> QED BY <1>11 DEF w, V, B

\* pop_block_unchecked of the shared list is a step of the contract.
LEMMA PopSharedStep == ASSUME CacheInv, PopShared PROVE Contract!ContractNext
<1> DEFINE V == CacheView(cc)
           b == cc.shared[1]
           w == [V EXCEPT !.shared = @ \ {b}, !.shared_len = @ - 1, !.total_len = @ - 1]
           n == 1
<1>1. CacheInv' /\ cc.shared \in Seq(Nat) /\ cc.shared # <<>>
    BY PopSharedKeeps, PopSharedIs, InvFacts
<1>2. /\ n \in 0 .. Len(cc.shared)
      /\ cc' = WithEdges(cc, cc.hot, SubSeq(cc.shared, n + 1, Len(cc.shared)),
                         cc.shared_len - n, cc.total_len - n)
      /\ out' = out \cup {cc.shared[k] : k \in 1 .. n}
    BY <1>1, PopSharedIs
<1>3. FirstNodes(cc.shared, n) = {b} /\ {cc.shared[k] : k \in 1 .. n} = {b}
    BY DEF FirstNodes
<1> DEFINE B == FirstNodes(cc.shared, n)
<1>4. CacheView(cc') = w
    <2> HIDE DEF n
    <2>1. CacheView(cc') = [CacheView(cc) EXCEPT !.shared = @ \ FirstNodes(cc.shared, n),
                                                 !.shared_len = @ - n, !.total_len = @ - n]
        BY <1>1, <1>2, SeenSharedLeave
    <2> HIDE DEF b
    <2> QED BY <2>1, <1>3 DEF n
<1>5. V.hot = {} /\ V.avail = {} /\ b \in V.shared
    <2>1. cc.avail = <<>> /\ cc.hot = {}
        BY DEF PopShared
    <2>2. ToSet(cc.avail) = {}
        BY <2>1 DEF ToSet
    <2>3. b \in ToSet(cc.shared)
        BY <1>1 DEF ToSet
    <2> HIDE DEF b
    <2> QED BY <2>1, <2>2, <2>3 DEF CacheView
<1> DEFINE pop == [cache |-> w, block |-> b, reuse |-> "NeedsOwnerAndRequestedSizeRefresh"]
<1>7. out' = out \cup {b}
    BY <1>2, <1>3
<1> HIDE DEF V, w, b
<1>8. pop \in Contract!PopBlock(V)
    BY <1>5 DEF Contract!PopBlock, w
<1>9. pop.cache = w /\ pop.block = b
    OBVIOUS
<1> HIDE DEF pop
<1>10. Contract!GiveBlock
    BY <1>4, <1>7, <1>8, <1>9 DEF Contract!GiveBlock, V
<1> QED BY <1>10 DEF Contract!ContractNext

\* A slab record of the contract after a pop: o without B reclaimed and f fresh blocks.
SeenDrained(o, B, f) == [o EXCEPT !.free = @ \ B, !.next_fresh = @ + f]

\* What a pop of m reclaimed and f fresh blocks from the last available slab means to the
\* contract.
LEMMA SeenSlabPopped ==
    ASSUME CacheInv, cc.avail # <<>>, NEW m, NEW f, NEW q, SlabPopped(m, f, q),
           NEW i, i = Last(cc.avail), NEW sl, sl = cc.slabs[i], NEW s, s = sl.start
    PROVE  /\ CacheView(cc') =
                 Contract!WithSlab(CacheView(cc), s,
                                   SeenDrained(SlabContents(sl), FirstNodes(sl.free, m), f), m + f)
           /\ s \in CacheView(cc).avail /\ CacheView(cc).slabs[s] = SlabContents(sl)
           /\ FirstNodes(sl.free, m) \subseteq ToSet(sl.free)
           /\ Cardinality(FirstNodes(sl.free, m)) = m /\ Cardinality(ToSet(sl.free)) = Len(sl.free)
<1>1. CacheSound(cc) /\ i \in Ready(cc)
    BY InvFacts
<1>2. /\ m \in 0 .. Len(sl.free) /\ f \in 0 .. sl.capacity - sl.next_fresh
      /\ q \in DOMAIN cc.slabs \cup {cc.recent} /\ cc' = Popped(cc, i, m, f, q)
    BY DEF SlabPopped
<1>3. i \in DOMAIN cc.slabs /\ sl \in LocalSlabRecord /\ sl.free \in Seq(Nat) /\ sl.next_fresh \in Nat
    BY LastSlab
<1>4. Once(sl.free)
    BY <1>1, <1>3 DEF CacheSound, CacheStock, StockSound
<1>5. /\ CacheSound(cc') /\ cc'.total_len = cc.total_len - (m + f) /\ SlabChanged(cc, cc', i)
      /\ cc'.slabs[i].free = Drained(sl, m, f).free
      /\ cc'.slabs[i].next_fresh = Drained(sl, m, f).next_fresh
    BY <1>1, <1>2, PoppedIs
<1>6. /\ CacheView(cc') = Contract!WithSlab(CacheView(cc), s, SlabContents(cc'.slabs[i]), m + f)
      /\ s \in CacheView(cc).avail /\ CacheView(cc).slabs[s] = SlabContents(sl)
    BY <1>1, <1>5, SeenPopped
<1>7. Drained(sl, m, f).free = RestOf(sl.free, m) /\ Drained(sl, m, f).next_fresh = sl.next_fresh + f
    BY <1>3 DEF Drained, RestOf, LocalSlabRecord
<1> DEFINE B == FirstNodes(sl.free, m)
           Q == ToSet(sl.free)
           R == ToSet(RestOf(sl.free, m))
<1>8. /\ R = Q \ B /\ B \subseteq Q /\ Cardinality(B) = m /\ Cardinality(Q) = Len(sl.free)
    BY <1>2, <1>3, <1>4, FirstLeave
<1>9. SlabContents(cc'.slabs[i]) = SeenDrained(SlabContents(sl), B, f)
    <2> DEFINE o == SlabContents(sl)
               v == SlabContents(cc'.slabs[i])
               r == SeenDrained(o, B, f)
               y == sl.next_fresh + f
    <2>1. o = [capacity |-> sl.capacity, next_fresh |-> sl.next_fresh, free |-> Q]
        BY DEF SlabContents
    <2>2. v = [capacity |-> sl.capacity, next_fresh |-> y, free |-> R]
        BY <1>3, <1>5, <1>7 DEF SlabContents, SlabChanged
    <2>3. r = [o EXCEPT !.free = o.free \ B, !.next_fresh = o.next_fresh + f]
        BY DEF SeenDrained
    <2>4. o.free \ B = R /\ o.next_fresh + f = y
        BY <2>1, <1>8
    <2> HIDE DEF o, v, r, R, y, B, Q
    <2>5. r = [o EXCEPT !.free = R, !.next_fresh = y]
        BY ONLY <2>3, <2>4
    <2>6. v = r
        BY ONLY <2>1, <2>2, <2>5
    <2> QED BY <2>6 DEF v, r, o
<1> QED BY ONLY <1>6, <1>8, <1>9

\* pop_block_unchecked of a slab is a step of the contract.
LEMMA PopSlabStep == ASSUME CacheInv, PopSlab PROVE Contract!ContractNext
<1> DEFINE V == CacheView(cc)
           i == Last(cc.avail)
           sl == cc.slabs[i]
           s == sl.start
           o == SlabContents(sl)
<1>1. cc.avail # <<>> /\ cc.hot = {} /\ sl.free \in Seq(Nat) /\ sl.next_fresh \in Nat /\ s \in Nat
    BY LastSlab DEF PopSlab
<1>2. V.hot = {}
    BY <1>1 DEF CacheView
<1>3. o.free = ToSet(sl.free) /\ o.next_fresh = sl.next_fresh
    BY DEF SlabContents
<1>4. ASSUME NEW m, NEW f, NEW q, SlabPopped(m, f, q), NEW b, NEW r, NEW z,
             out' = out \cup {b}, m + f = 1, SeenDrained(o, FirstNodes(sl.free, m), f) = r,
             [cache |-> Contract!WithSlab(V, s, r, 1), block |-> b, reuse |-> z]
                \in Contract!SlabPops(V, s)
      PROVE  Contract!ContractNext
    <2> DEFINE w == Contract!WithSlab(V, s, r, 1)
               pop == [cache |-> w, block |-> b, reuse |-> z]
    <2>1. CacheView(cc') = w /\ s \in V.avail
        BY <1>1, <1>4, SeenSlabPopped
    <2>2. pop.cache = w /\ pop.block = b
        OBVIOUS
    <2>3. pop \in Contract!SlabPops(V, s)
        BY <1>4
    <2> HIDE DEF V, s, w, pop
    <2>4. pop \in Contract!PopBlock(V)
        BY <2>1, <2>3, <1>2 DEF Contract!PopBlock
    <2>5. Contract!GiveBlock
        BY <2>1, <2>2, <2>4, <1>4 DEF Contract!GiveBlock, V
    <2> QED BY <2>5 DEF Contract!ContractNext
<1>5. CASE sl.free = <<>>
    <2> DEFINE m == 0
               f == 1
               b == s + sl.next_fresh
               r == [o EXCEPT !.next_fresh = @ + 1]
    <2>1. SlabPopped(m, f, i) /\ m + f = 1
        BY <1>5, PopSlabIs
    <2>2. out' = out \cup {b}
        BY <1>5 DEF PopSlab
    <2>3. ToSet(sl.free) = {} /\ FirstNodes(sl.free, m) = {}
        BY <1>5 DEF ToSet, FirstNodes
    <2>4. V.slabs[s] = o
        <3> HIDE DEF m, f
        <3> QED BY <2>1, <1>1, SeenSlabPopped
    <2>5. SeenDrained(o, FirstNodes(sl.free, m), f) = r
        <3> DEFINE u == SeenDrained(o, {}, f)
                   y == o.next_fresh + 1
        <3>1. u = [o EXCEPT !.free = o.free \ {}, !.next_fresh = y]
            BY DEF SeenDrained
        <3>2. r = [o EXCEPT !.next_fresh = y]
            OBVIOUS
        <3>3. o = [capacity |-> sl.capacity, next_fresh |-> sl.next_fresh, free |-> ToSet(sl.free)]
            BY DEF SlabContents
        <3>4. o.free \ {} = ToSet(sl.free)
            BY <1>3
        <3> HIDE DEF o, u, r, y
        <3>5. u = r
            BY ONLY <3>1, <3>2, <3>3, <3>4
        <3> QED BY <3>5, <2>3 DEF u
    <2>6. [cache |-> Contract!WithSlab(V, s, r, 1), block |-> b, reuse |-> "NeedsHeaderRewrite"]
             \in Contract!SlabPops(V, s)
        <3>1. V.slabs[s].free = {} /\ b = s + V.slabs[s].next_fresh
            BY <1>3, <2>3, <2>4
        <3>2. r = [V.slabs[s] EXCEPT !.next_fresh = @ + 1]
            BY <2>4
        <3> HIDE DEF V, s, r, b
        <3> QED BY <3>1, <3>2 DEF Contract!SlabPops
    <2> HIDE DEF m, f, b, r, o, V, i
    <2> QED BY ONLY <2>1, <2>2, <2>5, <2>6, <1>4
<1>6. CASE sl.free # <<>>
    <2> DEFINE m == 1
               f == 0
               b == Head(sl.free)
               r == [o EXCEPT !.free = @ \ {b}]
    <2>1. SlabPopped(m, f, i) /\ m + f = 1
        BY <1>6, PopSlabIs
    <2>2. out' = out \cup {b}
        BY <1>6 DEF PopSlab
    <2>3. b \in ToSet(sl.free) /\ FirstNodes(sl.free, m) = {b}
        BY <1>1, <1>6 DEF ToSet, FirstNodes
    <2>4. V.slabs[s] = o
        <3> HIDE DEF m, f
        <3> QED BY <2>1, <1>1, SeenSlabPopped
    <2>5. SeenDrained(o, FirstNodes(sl.free, m), f) = r
        <3> DEFINE u == SeenDrained(o, {b}, f)
                   P == o.free \ {b}
        <3>1. u = [o EXCEPT !.free = P, !.next_fresh = o.next_fresh + f]
            BY DEF SeenDrained
        <3>2. r = [o EXCEPT !.free = P]
            OBVIOUS
        <3>3. o = [capacity |-> sl.capacity, next_fresh |-> sl.next_fresh, free |-> ToSet(sl.free)]
            BY DEF SlabContents
        <3>4. o.next_fresh + f = sl.next_fresh
            BY <1>1, <1>3
        <3> HIDE DEF o, u, r, P, b, f
        <3>6. u = [o EXCEPT !.free = P, !.next_fresh = sl.next_fresh]
            BY ONLY <3>1, <3>4
        <3>7. u = [capacity |-> sl.capacity, next_fresh |-> sl.next_fresh, free |-> P]
            BY ONLY <3>3, <3>6
        <3>8. r = [capacity |-> sl.capacity, next_fresh |-> sl.next_fresh, free |-> P]
            BY ONLY <3>2, <3>3
        <3>5. u = r
            BY ONLY <3>7, <3>8
        <3> QED BY <3>5, <2>3 DEF u
    <2>6. [cache |-> Contract!WithSlab(V, s, r, 1), block |-> b, reuse |-> "HotReuseRequestedOnly"]
             \in Contract!SlabPops(V, s)
        <3>1. b \in V.slabs[s].free /\ V.slabs[s].free # {}
            BY <1>3, <2>3, <2>4
        <3>2. r = [V.slabs[s] EXCEPT !.free = @ \ {b}]
            BY <2>4
        <3> HIDE DEF V, s, r, b
        <3> QED BY <3>1, <3>2 DEF Contract!SlabPops
    <2> HIDE DEF m, f, b, r, o, V, i
    <2> QED BY ONLY <2>1, <2>2, <2>5, <2>6, <1>4
<1> QED BY <1>5, <1>6

\* pop_batch from the shared list is a step of the contract.
LEMMA BatchSharedStep == ASSUME CacheInv, BatchShared(MaxBatch) PROVE Contract!ContractNext
<1> DEFINE V == CacheView(cc)
           n == Smaller(MaxBatch, Len(cc.shared))
           B == FirstNodes(cc.shared, n)
           w == [V EXCEPT !.shared = @ \ B, !.shared_len = @ - n, !.total_len = @ - n]
<1>1. /\ cc.shared \in Seq(Nat) /\ Once(cc.shared) /\ cc \in LocalCacheRecord
      /\ MaxBatch \in Nat /\ cc.shared_len # 0
    BY InvFacts, SpansAssumption DEF BatchShared
<1>2. CacheInv' /\ n \in 0 .. Len(cc.shared)
    BY <1>1, BatchSharedKeeps DEF Smaller
<1>3. /\ out' = out \cup B
      /\ cc' = WithEdges(cc, cc.hot, SubSeq(cc.shared, n + 1, Len(cc.shared)),
                         cc.shared_len - n, cc.total_len - n)
    BY <1>1 DEF BatchShared, WithEdges, LocalCacheRecord, FirstNodes
<1>4. V.shared = ToSet(cc.shared) /\ V.shared_len # 0
    BY <1>1 DEF CacheView
<1>5. n = Contract!Least(MaxBatch, Len(cc.shared))
    BY DEF Smaller, Contract!Least
<1> HIDE DEF n
<1>6. CacheView(cc') = w
    BY <1>2, <1>3, SeenSharedLeave
<1>7. B \subseteq V.shared /\ Cardinality(B) = n /\ Cardinality(V.shared) = Len(cc.shared)
    BY <1>1, <1>2, <1>4, FirstLeave
<1> HIDE DEF V, B
<1>8. Contract!Cardinality(B) = n /\ Contract!Cardinality(V.shared) = Len(cc.shared)
    BY <1>7 DEF Cardinality, Contract!Cardinality
<1>9. B \in Contract!Batches(n, V.shared) /\ n = Contract!Least(MaxBatch, Contract!Cardinality(V.shared))
    BY <1>5, <1>7, <1>8 DEF Contract!Batches
<1> DEFINE pop == [cache |-> w, batch |-> B, fresh |-> {}]
<1>10. pop \in Contract!PopBatch(V, MaxBatch)
    BY ONLY <1>4, <1>9 DEF Contract!PopBatch
<1>11. pop.cache = w /\ pop.batch = B
    OBVIOUS
<1> HIDE DEF pop, w
<1>12. Contract!GiveBatch
    BY <1>3, <1>6, <1>10, <1>11 DEF Contract!GiveBatch, V
<1> QED BY <1>12 DEF Contract!ContractNext

\* pop_batch of a slab is a step of the contract.
LEMMA BatchSlabStep == ASSUME CacheInv, BatchSlab(MaxBatch) PROVE Contract!ContractNext
<1> DEFINE V == CacheView(cc)
           i == Last(cc.avail)
           sl == cc.slabs[i]
           s == sl.start
           o == SlabContents(sl)
           m == BatchReclaimed(MaxBatch)
           f == BatchFresh(MaxBatch)
           B == FirstNodes(sl.free, m)
           N == s + sl.next_fresh .. s + sl.next_fresh + f - 1
           r == SeenDrained(o, B, f)
           w == Contract!WithSlab(V, s, r, m + f)
<1>1. /\ cc.avail # <<>> /\ cc.shared_len = 0 /\ MaxBatch \in Nat
      /\ SlabPopped(m, f, cc.recent)
    BY BatchSlabIs, SpansAssumption DEF BatchSlab
<1>2. out' = out \cup (B \cup N)
    <2>1. out' = out \cup Drawn(sl, m, f)
        BY <1>1 DEF SlabPopped
    <2> QED BY <2>1 DEF Drawn, FirstNodes
<1>3. /\ o.free = ToSet(sl.free) /\ o.next_fresh = sl.next_fresh /\ o.capacity = sl.capacity
      /\ V.shared_len = 0
    BY <1>1 DEF SlabContents, CacheView
<1>4. /\ m = Contract!Least(Len(sl.free), MaxBatch)
      /\ f = Contract!Least(MaxBatch - m, sl.capacity - sl.next_fresh)
    BY DEF BatchReclaimed, BatchFresh, Smaller, Contract!Least
<1> HIDE DEF m, f
<1>5. /\ CacheView(cc') = w /\ s \in V.avail /\ V.slabs[s] = o
      /\ B \subseteq ToSet(sl.free) /\ Cardinality(B) = m /\ Cardinality(ToSet(sl.free)) = Len(sl.free)
    BY <1>1, SeenSlabPopped
<1>6. Contract!Cardinality(B) = m /\ Contract!Cardinality(o.free) = Len(sl.free)
    BY <1>3, <1>5 DEF Cardinality, Contract!Cardinality
<1> DEFINE pop == [cache |-> w, batch |-> B \cup N, fresh |-> N]
<1>7. pop \in Contract!SlabPopBatches(V, s, MaxBatch)
    <2>1. /\ m = Contract!Least(Contract!Cardinality(V.slabs[s].free), MaxBatch)
          /\ f = Contract!Least(MaxBatch - m, V.slabs[s].capacity - V.slabs[s].next_fresh)
          /\ N = s + V.slabs[s].next_fresh .. s + V.slabs[s].next_fresh + f - 1
          /\ B \in Contract!Batches(m, V.slabs[s].free)
        BY <1>3, <1>4, <1>5, <1>6 DEF Contract!Batches
    <2>2. r = [V.slabs[s] EXCEPT !.free = @ \ B, !.next_fresh = @ + f]
        BY <1>5 DEF SeenDrained
    <2> HIDE DEF V, s, B, N, r
    <2> QED BY ONLY <2>1, <2>2 DEF Contract!SlabPopBatches
<1>8. pop.cache = w /\ pop.batch = B \cup N
    OBVIOUS
<1> HIDE DEF V, s, B, N, r, w, pop
<1>9. pop \in Contract!PopBatch(V, MaxBatch)
    BY <1>3, <1>5, <1>7 DEF Contract!PopBatch
<1>10. Contract!GiveBatch
    BY <1>2, <1>5, <1>8, <1>9 DEF Contract!GiveBatch, V
<1> QED BY <1>10 DEF Contract!ContractNext

\* Every call of the cache is a step of the contract, or leaves its state alone.
LEMMA CacheContractStep ==
    CacheInv /\ [Next]_vars => [Contract!ContractNext]_<<CacheView(cc), out>>
<1> SUFFICES ASSUME CacheInv, [Next]_vars
             PROVE  Contract!ContractNext \/ UNCHANGED <<CacheView(cc), out>>
    OBVIOUS
<1>1. ASSUME NEW sp \in Spans, PushNewSlab(sp) PROVE Contract!ContractNext
    BY <1>1, PushNewSlabStep
<1>2. ASSUME NEW sp \in Spans, PushKnownSlab(sp) PROVE Contract!ContractNext
    BY <1>2, PushKnownSlabStep
<1>3. ASSUME NEW B \in SUBSET out, NEW list \in SetToSeqs(B), PushSharedBatch(list)
      PROVE  Contract!ContractNext
    BY <1>3, PushSharedBatchStep
<1>4. ASSUME NEW b \in out, PushBlock(b) PROVE Contract!ContractNext
    BY <1>4, PushBlockStep
<1>5. CASE PopHot
    BY <1>5, PopHotStep
<1>6. CASE PopSlab
    BY <1>6, PopSlabStep
<1>7. CASE PopShared
    BY <1>7, PopSharedStep
<1>8. CASE BatchShared(MaxBatch)
    BY <1>8, BatchSharedStep
<1>9. CASE BatchSlab(MaxBatch)
    BY <1>9, BatchSlabStep
<1>10. CASE BatchHot
    BY <1>10, BatchHotStep
<1>11. CASE UNCHANGED vars
    <2>1. cc' = cc /\ out' = out
        BY <1>11 DEF vars
    <2>2. CacheView(cc') = CacheView(cc)
        BY <2>1
    <2> QED BY <2>1, <2>2
<1> QED BY <1>1, <1>2, <1>3, <1>4, <1>5, <1>6, <1>7, <1>8, <1>9, <1>10, <1>11 DEF Next

\* A new cache is a new cache of the contract.
LEMMA CacheContractInit == Init => Contract!ContractInit
<1> SUFFICES ASSUME Init PROVE Contract!ContractInit
    OBVIOUS
<1>1. cc = NewCache /\ out = Addresses /\ CacheSound(cc)
    BY CacheInvInit DEF Init, Addresses, CacheInv
<1>2. /\ cc.hot = {} /\ cc.slabs = <<>> /\ cc.shared = <<>> /\ cc.shared_len = 0
      /\ cc.total_len = 0
    BY <1>1 DEF NewCache
<1>3. DOMAIN cc.slabs = {} /\ ToSet(cc.shared) = {}
    BY <1>2 DEF ToSet
<1>4. ReadyStarts(cc) = {}
    BY <1>3 DEF ReadyStarts, Ready
<1>5. SlabMap(cc) = [s \in Addresses |-> NoContents]
    <2>1. \A s \in Addresses : SlabsAt(cc, s) = {}
        BY <1>3 DEF SlabsAt
    <2> QED BY <2>1 DEF SlabMap
<1>6. CacheView(cc) = Seen({}, [s \in Addresses |-> NoContents], {}, {}, 0, 0)
    BY <1>1, <1>2, <1>3, <1>4, <1>5, CacheSeen
<1>7. Contract!NewClassCache = Seen({}, [s \in Addresses |-> NoContents], {}, {}, 0, 0)
    BY DEF Contract!NewClassCache, Contract!Addr, Contract!UnknownSlab, Addresses, NoContents, Seen
<1> QED BY <1>1, <1>6, <1>7 DEF Contract!ContractInit, Contract!Addr, Addresses

\* LocalClassCache implements CacheContract, for every arena, every set of spans and every
\* batch size: the class cache of src/thread_cache.rs, with its vectors, slots, sorted
\* index and shortcuts, takes and gives exactly the blocks that the operators of LocalCache
\* allow, and keeps the same counters.
THEOREM CacheImplementsContract == Spec => ImplementsCache
<1>1. CacheInv /\ [Next]_vars => [Contract!ContractNext]_<<CacheView(cc), out>>
    BY CacheContractStep
<1>2. Init => Contract!ContractInit
    BY CacheContractInit
<1>3. CacheInv /\ [Next]_vars => CacheInv'
    BY CacheInvNext
<1>4. Init => CacheInv
    BY CacheInvInit
<1> QED BY <1>1, <1>2, <1>3, <1>4, PTL DEF Spec, ImplementsCache, Contract!ContractSpec
=============================================================================
