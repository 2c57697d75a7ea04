---------------------------- MODULE BlockProofs ----------------------------
(***************************************************************************)
(* Proofs about what becomes of one block: the size and the header that    *)
(* Requests gives it, for every set of configurations and of sizes, every  *)
(* page size and every width of a header field, and the intrusive lists of *)
(* FreeList it is linked into, for every set of blocks and of lists.       *)
(***************************************************************************)
EXTENDS Requests, FreeList, FiniteSetTheorems, SequenceTheorems, TLAPS

-----------------------------------------------------------------------------
(* Rounding *)

\* Quotient and remainder.
LEMMA Division ==
    ASSUME NEW a \in Nat \ {0}, NEW x \in Nat
    PROVE  /\ x % a \in 0..(a - 1)
           /\ \E q \in Nat : x = a * q + (x % a)
  <1>1. x = a * (x \div a) + (x % a) /\ x \div a \in Nat /\ x % a \in 0..(a - 1)
    BY Z3
  <1>2. \E q \in Nat : x = a * q + (x % a)
    BY <1>1, Zenon
  <1> QED BY <1>1, <1>2

\* A multiple leaves no remainder.
LEMMA MultipleDivides ==
    ASSUME NEW a \in Nat \ {0}, NEW q \in Nat
    PROVE  (a * q) % a = 0
  BY Z3

\* A number without remainder is a multiple.
LEMMA DividesMultiple ==
    ASSUME NEW a \in Nat \ {0}, NEW x \in Nat, x % a = 0
    PROVE  \E q \in Nat : x = a * q
  <1>1. PICK q \in Nat : x = a * q + (x % a)
    BY Division
  <1>2. a * q \in Nat
    BY Z3
  <1>3. a * q + 0 = a * q
    BY <1>2
  <1>4. x = a * q
    BY <1>1, <1>3, Zenon
  <1> QED BY <1>4, Zenon

\* Rounding up yields a multiple, at most a - 1 above.
LEMMA AlignUpFacts ==
    ASSUME NEW a \in Nat \ {0}, NEW x \in Nat
    PROVE  /\ AlignUp(x, a) \in Nat
           /\ AlignUp(x, a) % a = 0
           /\ x =< AlignUp(x, a) /\ AlignUp(x, a) =< x + (a - 1)
  <1>1. x % a \in 0..(a - 1)
    BY Division
  <1>2. PICK q \in Nat : x = a * q + (x % a)
    BY Division
  <1>3. CASE x % a = 0
    BY <1>1, <1>3 DEF AlignUp
  <1>4. CASE x % a # 0
    <2> DEFINE r == x % a
               y == x + (a - r)
               z == a * q
    <2>1. AlignUp(x, a) = y
      BY <1>4 DEF AlignUp
    <2>2. z \in Nat /\ z + a = a * (q + 1) /\ q + 1 \in Nat
      BY Z3
    <2>3. x = z + r /\ r \in 0..(a - 1)
      BY <1>1, <1>2
    <2> HIDE DEF r, z
    <2>4. y = z + a
      BY <2>2, <2>3
    <2>5. y = a * (q + 1)
      BY <2>2, <2>4, Zenon
    <2>6. y % a = 0
      BY <2>2, <2>5, MultipleDivides
    <2>7. y \in Nat /\ x =< y /\ y =< x + (a - 1)
      BY <2>3, <1>4 DEF r
    <2> QED BY <2>1, <2>6, <2>7, Zenon
  <1> QED BY <1>3, <1>4

\* Rounding down moves no number up.
LEMMA AlignDownFacts ==
    ASSUME NEW a \in Nat \ {0}, NEW x \in Nat
    PROVE  AlignDown(x, a) \in Int /\ AlignDown(x, a) =< x
  BY Division DEF AlignDown

\* The last of a number of blocks in a row, and the end of the row.
RowLast(start, size, count) == start + (count - 1) * size
RowEnd(start, size, count) == start + count * size
AlignedTo(x, a) == x % a = 0

\* The last block of a row is aligned as the first is, and the row ends with it.
LEMMA RowFacts ==
    ASSUME NEW a \in Nat \ {0}, NEW start \in Nat, NEW size \in Nat \ {0}, NEW count \in Nat \ {0},
           AlignedTo(start, a), AlignedTo(size, a)
    PROVE  /\ RowLast(start, size, count) \in Nat
           /\ AlignedTo(RowLast(start, size, count), a)
           /\ start =< RowLast(start, size, count)
           /\ RowLast(start, size, count) + size = RowEnd(start, size, count)
           /\ RowLast(start, size, count) # start => start + size =< RowLast(start, size, count)
  <1> DEFINE d == (count - 1) * size
  <1>1. PICK p \in Nat : start = a * p
    BY DividesMultiple DEF AlignedTo
  <1>2. PICK q \in Nat : size = a * q
    BY DividesMultiple DEF AlignedTo
  <1>3. /\ d \in Nat /\ d + size = count * size
        /\ count = 1 => d = 0
        /\ count # 1 => size =< d
    BY Z3
  <1>4. (count - 1) * q \in Nat /\ p + (count - 1) * q \in Nat
    BY Z3
  <1>5. d = a * ((count - 1) * q)
    BY <1>2, Z3
  <1>6. start + d = a * (p + (count - 1) * q)
    BY <1>1, <1>4, <1>5, Z3
  <1>7. (start + d) % a = 0
    BY <1>4, <1>6, MultipleDivides
  <1> HIDE DEF d
  <1>8. /\ start + d \in Nat /\ start =< start + d
        /\ start + d + size = start + count * size
        /\ start + d # start => start + size =< start + d
    <2>1. count * size \in Nat
      BY Z3
    <2> DEFINE e == count * size
    <2> HIDE DEF e
    <2> QED
      BY <1>3, <2>1 DEF e
  <1> QED
    BY <1>7, <1>8 DEF d, RowLast, RowEnd, AlignedTo

\* As many blocks as a division says do fit.
LEMMA RowFits ==
    ASSUME NEW room \in Nat, NEW size \in Nat \ {0}, NEW count \in Nat, count =< room \div size
    PROVE  count * size \in Nat /\ count * size =< room
  <1> DEFINE q == room \div size
  <1>1. q \in Nat /\ size * q =< room
    BY Z3
  <1> HIDE DEF q
  <1>2. count =< q
    BY DEF q
  <1>3. count * size \in Nat /\ count * size =< size * q
    BY <1>1, <1>2, Z3
  <1>4. size * q \in Nat
    BY <1>1, Z3
  <1> QED
    BY <1>1, <1>3, <1>4

-----------------------------------------------------------------------------
(* Size classes *)

\* An upper bound that is a member is the maximum.
LEMMA MaxIs ==
    ASSUME NEW S \in SUBSET Nat, NEW m \in S, \A y \in S : y =< m
    PROVE  Max(S) = m
  <1>1. m \in S /\ \A y \in S : m >= y
    OBVIOUS
  <1> DEFINE x == Max(S)
  <1>2. x \in S /\ \A y \in S : x >= y
    BY <1>1, Zenon DEF Max
  <1> HIDE DEF x
  <1>3. x \in Nat /\ m \in Nat /\ x =< m /\ m =< x
    BY <1>2
  <1>4. x = m
    BY <1>3
  <1> QED
    BY <1>4 DEF x

\* A lower bound that is a member is the minimum.
LEMMA MinIs ==
    ASSUME NEW S \in SUBSET Nat, NEW m \in S, \A y \in S : m =< y
    PROVE  Min(S) = m
  <1>1. m \in S /\ \A y \in S : m =< y
    OBVIOUS
  <1> DEFINE x == Min(S)
  <1>2. x \in S /\ \A y \in S : x =< y
    BY <1>1, Zenon DEF Min
  <1> HIDE DEF x
  <1>3. x \in Nat /\ m \in Nat /\ x =< m /\ m =< x
    BY <1>2
  <1>4. x = m
    BY <1>3
  <1> QED
    BY <1>4 DEF x

\* The table of the classes: where the requests of a class begin and end.
LEMMA Table ==
    /\ PayloadSize[1] = 64 /\ FirstRequest[1] = 1
    /\ PayloadSize[2] = 256 /\ FirstRequest[2] = 65
    /\ PayloadSize[3] = 4096 /\ FirstRequest[3] = 257
    /\ PayloadSize[4] = 6144 /\ FirstRequest[4] = 4097
    /\ PayloadSize[5] = 8192 /\ FirstRequest[5] = 6145
    /\ PayloadSize[6] = 16384 /\ FirstRequest[6] = 8193
    /\ PayloadSize[7] = 32768 /\ FirstRequest[7] = 16385
    /\ PayloadSize[8] = 65536 /\ FirstRequest[8] = 32769
    /\ PayloadSize[9] = 131072 /\ FirstRequest[9] = 65537
    /\ PayloadSize[10] = 262144 /\ FirstRequest[10] = 131073
    /\ PayloadSize[11] = 1048576 /\ FirstRequest[11] = 262145
    /\ PayloadSize[12] = 16777216 /\ FirstRequest[12] = 1048577
  BY DEF PayloadSize, FirstRequest

\* Sizes are numbers, and a class begins where the one before it ends.
LEMMA TableFacts ==
    /\ \A c \in Classes : /\ PayloadSize[c] \in Nat /\ FirstRequest[c] \in Nat \ {0}
                          /\ FirstRequest[c] =< PayloadSize[c] /\ PayloadSize[c] =< 16777216
    /\ \A c, d \in Classes : c < d => PayloadSize[c] < FirstRequest[d]
    /\ \A c \in Classes : c # 12 => FirstRequest[c + 1] = PayloadSize[c] + 1
  <1>1. \A c \in Classes : c \in 1..12
    BY DEF Classes
  <1>2. \A c \in Classes : /\ PayloadSize[c] \in Nat /\ FirstRequest[c] \in Nat \ {0}
                           /\ FirstRequest[c] =< PayloadSize[c] /\ PayloadSize[c] =< 16777216
    BY <1>1, Table
  <1>3. \A c \in Classes : c # 12 => FirstRequest[c + 1] = PayloadSize[c] + 1
    BY <1>1, Table
  <1>4. ASSUME NEW c \in Classes, NEW d \in Classes, c < d
        PROVE  PayloadSize[c] < FirstRequest[d]
    BY <1>1, <1>4, Table
  <1> QED
    BY <1>2, <1>3, <1>4

\* The class of a request is the one whose range has it.
LEMMA ClassFound ==
    ASSUME NEW n \in Nat, NEW c \in Classes, FirstRequest[c] =< n, n =< PayloadSize[c]
    PROVE  FromRequest(n) = c /\ Tightest(n) = c
  <1> DEFINE S == {d \in Classes : FirstRequest[d] =< n /\ n =< PayloadSize[d]} \cup {0}
             T == {d \in Classes : PayloadSize[d] >= n}
  <1>1. Classes \subseteq Nat \ {0}
    BY DEF Classes
  <1>2. ASSUME NEW d \in Classes, d < c PROVE ~(PayloadSize[d] >= n)
    <2>1. PayloadSize[d] < FirstRequest[c] /\ PayloadSize[d] \in Nat /\ FirstRequest[c] \in Nat
      BY <1>2, TableFacts
    <2> QED
      BY <2>1
  <1>3. ASSUME NEW d \in Classes, FirstRequest[d] =< n PROVE d =< c
    <2>1. CASE c < d
      <3>1. PayloadSize[c] < FirstRequest[d] /\ PayloadSize[c] \in Nat /\ FirstRequest[d] \in Nat
        BY <2>1, TableFacts
      <3> QED
        BY <1>3, <3>1
    <2> QED
      BY <2>1, <1>1
  <1>4. S \in SUBSET Nat /\ c \in S /\ \A y \in S : y =< c
    <2>1. c \in Nat /\ c \in S /\ S \in SUBSET Nat
      <3>1. c \in S
        OBVIOUS
      <3>2. S \subseteq Classes \cup {0}
        OBVIOUS
      <3> HIDE DEF S
      <3> QED
        BY <1>1, <3>1, <3>2
    <2>2. \A y \in S : y = 0 \/ (y \in Classes /\ FirstRequest[y] =< n)
      OBVIOUS
    <2> HIDE DEF S
    <2>3. \A y \in S : y =< c
      BY <1>3, <2>1, <2>2
    <2> QED
      BY <2>1, <2>3
  <1>5. T \in SUBSET Nat /\ c \in T /\ \A y \in T : c =< y
    <2>1. c \in T
      BY TableFacts
    <2>2. ASSUME NEW y \in T PROVE c =< y
      BY <2>2, <1>1, <1>2
    <2> QED
      BY <2>1, <2>2, <1>1
  <1>6. Max(S) = c
    BY <1>4, MaxIs
  <1>7. Min(T) = c
    BY <1>5, MinIs
  <1>8. n # 0 /\ T # {}
    BY <1>5, TableFacts
  <1> QED
    BY <1>6, <1>7, <1>8 DEF FromRequest, Tightest

\* Every request has the smallest class that holds it, or is larger than all.
LEMMA ClassOfRequest ==
    ASSUME NEW n \in Nat
    PROVE  /\ FromRequest(n) \in Classes \cup {0}
           /\ FromRequest(n) # 0 => n # 0 /\ n =< PayloadSize[FromRequest(n)]
           /\ FromRequest(n) = Tightest(n)
  <1>1. CASE \E c \in Classes : FirstRequest[c] =< n /\ n =< PayloadSize[c]
    <2>1. PICK c \in Classes : FirstRequest[c] =< n /\ n =< PayloadSize[c]
      BY <1>1
    <2>2. FromRequest(n) = c /\ Tightest(n) = c
      BY <2>1, ClassFound
    <2>3. n # 0
      BY <2>1, TableFacts
    <2> QED
      BY <2>1, <2>2, <2>3
  <1>2. CASE ~\E c \in Classes : FirstRequest[c] =< n /\ n =< PayloadSize[c]
    <2> DEFINE S == {d \in Classes : FirstRequest[d] =< n /\ n =< PayloadSize[d]} \cup {0}
    <2>1. S = {0}
      BY <1>2
    <2>2. Max(S) = 0
      BY <2>1, MaxIs
    <2>3. n = 0 \/ 16777216 < n
      <3>1. \A c \in 1..12 : ~(FirstRequest[c] =< n /\ n =< PayloadSize[c])
        BY <1>2 DEF Classes
      <3> QED
        BY <3>1, Table
    <2>4. Tightest(n) = 0
      <3>1. n # 0 => {c \in Classes : PayloadSize[c] >= n} = {}
        BY <2>3, TableFacts
      <3> QED
        BY <3>1 DEF Tightest
    <2> QED
      BY <2>2, <2>4 DEF FromRequest
  <1> QED
    BY <1>1, <1>2

\* A block of a class has room for header and payload, and keeps the alignment.
LEMMA BlockSizeFacts ==
    ASSUME NEW c \in Classes, NEW a \in Nat, a >= HeaderAlignment
    PROVE  /\ BlockSize(c, a) \in Nat \ {0}
           /\ BlockSize(c, a) % a = 0
           /\ BlockSize(c, a) >= HeaderSize + PayloadSize[c]
  <1>1. EffectiveAlignment(a) = a /\ a \in Nat \ {0}
    BY DEF EffectiveAlignment, HeaderAlignment, BlockAlignment
  <1>2. PayloadSize[c] \in Nat /\ HeaderSize = 64
    BY TableFacts DEF HeaderSize
  <1> DEFINE x == PayloadSize[c] + HeaderSize
  <1>3. x \in Nat /\ x >= 64
    BY <1>2
  <1>4. BlockSize(c, a) = AlignUp(x, a)
    BY <1>1 DEF BlockSize
  <1> HIDE DEF x
  <1>5. AlignUp(x, a) \in Nat /\ AlignUp(x, a) % a = 0 /\ x =< AlignUp(x, a)
    BY <1>1, <1>3, AlignUpFacts
  <1>6. AlignUp(x, a) \in Nat \ {0}
    BY <1>3, <1>5
  <1> QED
    BY <1>2, <1>4, <1>5, <1>6 DEF x

\* A quotient of numbers is one.
LEMMA QuotientNat == ASSUME NEW x \in Nat, NEW d \in Nat \ {0} PROVE x \div d \in Nat /\ x \div d =< x
  BY Z3

\* The block counts of a configuration.
LEMMA CountFacts ==
    ASSUME NEW f \in Configs, ValidConfig(f), NEW c \in Classes
    PROVE  /\ RefillCount(f, c) \in Nat \ {0}
           /\ CountsWork(f, c)
  <1>1. f.refill \in Nat /\ f.local \in Nat /\ f.alignment \in Nat /\ f.alignment >= HeaderAlignment
    BY RequestAssumption DEF ValidConfig
  <1> DEFINE size == BlockSize(c, f.alignment)
             q == f.refill \div size
             l == f.local \div size
             r == RefillCount(f, c)
  <1>2. size \in Nat \ {0}
    BY <1>1, BlockSizeFacts
  <1>3. q \in Nat /\ l \in Nat
    BY <1>1, <1>2, QuotientNat
  <1>4. r \in Nat \ {0}
    BY <1>3 DEF RefillCount, AtLeast
  <1>5. 2 =< LocalLimit(f, c)
    BY <1>3 DEF LocalLimit, AtLeast
  <1> HIDE DEF r
  <1>6. r \div 2 \in Nat /\ r \div 2 =< r
    BY <1>4, QuotientNat
  <1>7. DrainCount(f, c) = IF r \div 2 < 1 THEN 1 ELSE r \div 2
    BY DEF r, DrainCount, AtLeast
  <1>8. 1 =< DrainCount(f, c) /\ DrainCount(f, c) =< r
    BY <1>4, <1>6, <1>7
  <1> QED
    BY <1>4, <1>5, <1>8 DEF r, CountsWork

-----------------------------------------------------------------------------
(* The inductive invariant *)

BlockRecord ==
    [class : Classes \cup {0}, size : Nat, state : {"fresh", "cached", "live"}, asked : Sizes \cup {0}]

HeaderRecord ==
    [magic : BOOLEAN, kind : Nat, index : Nat, requested : 0..FieldMax, usable : 0..FieldMax,
     freed : BOOLEAN]

\* An allocator has a valid configuration, and before it is built nothing exists.
Built ==
    /\ next \in Nat
    /\ IF config = NoConfig THEN next = 0 /\ DOMAIN blocks = {} /\ slabs = {}
       ELSE config \in Configs /\ ValidConfig(config) /\ next =< config.arena

Records ==
    /\ blocks \in [DOMAIN blocks -> BlockRecord]
    /\ header \in [DOMAIN blocks -> HeaderRecord]

\* A block of a class has the size of the class; a large one has room for a header,
\* and its usable size fits the header's field.
Sized(b) ==
    IF b.class = 0 THEN b.size >= HeaderSize /\ b.size - HeaderSize =< FieldMax
    ELSE b.size = BlockSize(b.class, config.alignment)

Placed ==
    \A s \in DOMAIN blocks :
        /\ s \in Nat
        /\ s % config.alignment = 0
        /\ Sized(blocks[s])
        /\ s + blocks[s].size =< next
        /\ \A r \in DOMAIN blocks : r > s => s + blocks[s].size =< r

\* Slabs lie in the arena, and a block inside a slab is one of its class.
Slabbed ==
    \A b \in slabs :
        /\ b \in [start : Nat, class : Classes, count : Nat \ {0}]
        /\ SlabEnd(b) =< next
        /\ \A s \in SlabBlocks(b) : blocks[s].class = b.class

SmallShape(c, h) == h.magic /\ h.kind = Small /\ h.index = c - 1 /\ h.usable = PayloadSize[c]

\* What the header of a block says, by the block's state.  A block that was cached
\* and is reissued in a fresh slab keeps its header when no whole page covers it.
Fits(b, h) ==
    /\ b.class # 0 /\ b.state = "live" => SmallShape(b.class, h)
    /\ b.class # 0 /\ b.state = "cached" => SmallShape(b.class, h) /\ h.freed
    /\ b.class # 0 /\ b.state = "fresh" => ~h.magic \/ (SmallShape(b.class, h) /\ h.freed)
    /\ b.class = 0 => /\ b.state # "fresh" /\ h.magic /\ h.kind = Large /\ h.index = LargeSentinel
                      /\ h.usable = b.size - HeaderSize
    /\ IF b.state = "live" THEN b.asked # 0 /\ h.requested = b.asked /\ b.asked =< h.usable /\ ~h.freed
       ELSE b.asked = 0

HeadersFit == \A s \in DOMAIN blocks : Fits(blocks[s], header[s])

RequestInv == Built /\ Records /\ Placed /\ Slabbed /\ HeadersFit

\* The numbers of an accepted configuration.
LEMMA ConfigFacts ==
    ASSUME Built, config # NoConfig
    PROVE  /\ config \in Configs /\ ValidConfig(config)
           /\ config.alignment \in Nat \ {0} /\ config.alignment >= HeaderAlignment
           /\ config.arena \in Nat /\ next \in Nat /\ next =< config.arena
  <1>1. config \in Configs /\ ValidConfig(config) /\ next \in Nat /\ next =< config.arena
    BY DEF Built
  <1>2. config \in [arena : Nat, alignment : Nat, refill : Nat, local : Nat]
    BY <1>1, RequestAssumption
  <1>3. config.alignment >= 64
    BY <1>1 DEF ValidConfig, HeaderAlignment
  <1> QED
    BY <1>1, <1>2, <1>3 DEF HeaderAlignment

\* A block's record and its header, field by field.
LEMMA RecordFacts ==
    ASSUME Records, NEW s \in DOMAIN blocks
    PROVE  /\ blocks[s] \in BlockRecord /\ header[s] \in HeaderRecord
           /\ blocks[s].class \in Classes \cup {0} /\ blocks[s].size \in Nat
           /\ blocks[s].state \in {"fresh", "cached", "live"}
           /\ blocks[s].asked \in Nat /\ blocks[s].asked \in Sizes \cup {0}
           /\ header[s].requested \in Nat /\ header[s].requested =< FieldMax
           /\ header[s].usable \in Nat /\ header[s].usable =< FieldMax
  <1>1. blocks[s] \in BlockRecord /\ header[s] \in HeaderRecord
    BY DEF Records
  <1>2. FieldMax \in Nat /\ Sizes \subseteq Nat
    BY RequestAssumption
  <1>3. header[s].requested \in 0..FieldMax /\ header[s].usable \in 0..FieldMax
    BY <1>1 DEF HeaderRecord
  <1>4. /\ blocks[s].class \in Classes \cup {0} /\ blocks[s].size \in Nat
        /\ blocks[s].state \in {"fresh", "cached", "live"} /\ blocks[s].asked \in Sizes \cup {0}
    BY <1>1 DEF BlockRecord
  <1>5. blocks[s].asked \in Nat
    <2> DEFINE x == blocks[s].asked
    <2>1. x \in Sizes \/ x = 0
      BY <1>4
    <2> HIDE DEF x
    <2>2. CASE x \in Sizes
      <3>1. Sizes \subseteq Nat
        BY <1>2
      <3>2. x \in Nat
        BY <2>2, <3>1, Zenon
      <3> QED
        BY <3>2 DEF x
    <2>3. CASE x = 0
      BY <2>3 DEF x
    <2> QED
      BY <2>1, <2>2, <2>3
  <1>6. /\ header[s].requested \in Nat /\ header[s].requested =< FieldMax
        /\ header[s].usable \in Nat /\ header[s].usable =< FieldMax
    BY <1>2, <1>3
  <1> QED
    BY <1>1, <1>4, <1>5, <1>6

\* What was asked for fits the block.
LEMMA AskedFits ==
    ASSUME RequestInv, config # NoConfig, NEW s \in DOMAIN blocks
    PROVE  blocks[s].size >= HeaderSize + blocks[s].asked
  <1> DEFINE b == blocks[s]
             h == header[s]
  <1>1. /\ b.class \in Classes \cup {0} /\ b.size \in Nat /\ b.asked \in Nat /\ h.usable \in Nat
        /\ b.state \in {"fresh", "cached", "live"}
    BY RecordFacts DEF RequestInv
  <1>2. Sized(b) /\ Fits(b, h)
    BY DEF RequestInv, Placed, HeadersFit
  <1>3. HeaderSize = 64
    BY DEF HeaderSize
  <1>4. CASE b.class = 0
    BY <1>1, <1>2, <1>3, <1>4 DEF Sized, Fits
  <1>5. CASE b.class # 0
    <2>1. b.class \in Classes
      BY <1>1, <1>5
    <2>2. /\ BlockSize(b.class, config.alignment) >= HeaderSize + PayloadSize[b.class]
          /\ PayloadSize[b.class] \in Nat
      BY <2>1, ConfigFacts, BlockSizeFacts, TableFacts DEF RequestInv
    <2>3. b.size >= HeaderSize + PayloadSize[b.class]
      BY <1>2, <1>5, <2>2 DEF Sized
    <2>4. b.asked =< PayloadSize[b.class]
      BY <1>1, <1>2, <1>5, <2>2 DEF Fits, SmallShape
    <2> QED
      BY <1>1, <1>3, <2>2, <2>3, <2>4
  <1> QED
    BY <1>4, <1>5

\* The header of a block, decoded.
LEMMA DecodedFacts ==
    ASSUME Records, HeadersFit, NEW s \in DOMAIN blocks
    PROVE  /\ blocks[s].class = 0 => Decoded(header[s]) # "Small"
           /\ blocks[s].class # 0 => Decoded(header[s]) # "Large"
           /\ blocks[s].state = "live" =>
                 /\ Decoded(header[s]) = IF blocks[s].class = 0 THEN "Large" ELSE "Small"
                 /\ ~header[s].freed /\ header[s].requested = blocks[s].asked
           /\ (blocks[s].class # 0 /\ blocks[s].state # "live") =>
                 Decoded(header[s]) = "CorruptHeader" \/ header[s].freed
  <1> DEFINE b == blocks[s]
             h == header[s]
  <1>1. /\ b.class \in Classes \cup {0} /\ b.asked \in Nat /\ h.usable \in Nat /\ h.requested \in Nat
        /\ b.state \in {"fresh", "cached", "live"} /\ h \in HeaderRecord
    BY RecordFacts
  <1>2. Fits(b, h)
    BY DEF HeadersFit
  <1>3. 0 \notin Classes /\ \A c \in Classes : (c - 1) + 1 = c
    BY DEF Classes
  <1>4. ~h.magic => Decoded(h) = "CorruptHeader"
    BY DEF Decoded
  <1>5. CASE b.class = 0
    <2>1. h.kind = Large /\ h.index = LargeSentinel /\ h.magic /\ b.state # "fresh"
      BY <1>2, <1>5 DEF Fits
    <2>2. h.kind # Small
      BY <2>1 DEF Small, Large
    <2>3. Decoded(h) # "Small"
      BY <2>1, <2>2 DEF Decoded
    <2>4. b.state = "live" => /\ Decoded(h) = "Large"
                              /\ ~h.freed /\ h.requested = b.asked
      BY <1>1, <1>2, <2>1, <2>2 DEF Decoded, Fits
    <2> QED
      BY <1>5, <2>3, <2>4
  <1>6. CASE b.class # 0
    <2>1. b.class \in Classes
      BY <1>1, <1>6
    <2>2. h.magic => SmallShape(b.class, h)
      BY <1>1, <1>2, <1>6 DEF Fits
    <2>3. SmallShape(b.class, h) => h.kind = Small /\ h.index + 1 = b.class /\ h.usable = PayloadSize[b.class]
      BY <1>3, <2>1 DEF SmallShape
    <2>4. Decoded(h) # "Large"
      BY <1>4, <2>2, <2>3 DEF Decoded
    <2>5. b.state = "live" => Decoded(h) = "Small" /\ ~h.freed /\ h.requested = b.asked
      BY <1>1, <1>2, <1>6, <2>1, <2>2, <2>3 DEF Decoded, Fits, SmallShape
    <2>6. b.state # "live" => Decoded(h) = "CorruptHeader" \/ h.freed
      BY <1>1, <1>2, <1>4, <1>6 DEF Fits
    <2> QED
      BY <1>6, <2>4, <2>5, <2>6
  <1> QED
    BY <1>5, <1>6

\* What a free finds out.
LEMMA VerdictFacts ==
    ASSUME Records, HeadersFit, NEW s \in DOMAIN blocks, NEW n
    PROVE  /\ Verdict(s) = "ok" <=> blocks[s].state = "live"
           /\ SizedVerdict(s, n) = "ok" <=> blocks[s].state = "live" /\ n = blocks[s].asked
           /\ Verdict(s) # "SizeMismatch"
           /\ SizedVerdict(s, n) = "SizeMismatch" => blocks[s].state = "live" \/ blocks[s].class = 0
  <1> DEFINE b == blocks[s]
             h == header[s]
  <1>1. Decoded(h) \in {"Small", "Large", "CorruptHeader"}
    BY DEF Decoded
  <1>2. CASE b.state = "live" /\ b.class = 0
    <2>1. Decoded(h) = "Large" /\ h.requested = b.asked /\ LargeVerdict(s) = "ok"
      BY <1>2, DecodedFacts DEF LargeVerdict
    <2> QED
      BY <1>2, <2>1 DEF Verdict, SizedVerdict
  <1>3. CASE b.state = "live" /\ b.class # 0
    <2>1. Decoded(h) = "Small" /\ h.requested = b.asked /\ SmallVerdict(s) = "ok"
      BY <1>3, DecodedFacts DEF SmallVerdict
    <2> QED
      BY <1>3, <2>1 DEF Verdict, SizedVerdict
  <1>4. CASE b.state # "live" /\ b.class = 0
    <2>1. Decoded(h) # "Small" /\ LargeVerdict(s) = "AlreadyFreedOrUnknownLarge"
      BY <1>4, DecodedFacts DEF LargeVerdict
    <2> QED
      BY <1>1, <1>4, <2>1 DEF Verdict, SizedVerdict
  <1>5. CASE b.state # "live" /\ b.class # 0
    <2>1. Decoded(h) # "Large" /\ (Decoded(h) = "CorruptHeader" \/ SmallVerdict(s) = "DoubleFree")
      BY <1>5, DecodedFacts DEF SmallVerdict
    <2> QED
      BY <1>1, <1>5, <2>1 DEF Verdict, SizedVerdict
  <1> QED
    BY <1>2, <1>3, <1>4, <1>5

\* The invariant is at least as strong as the three properties of states.
LEMMA InvImplies == ASSUME RequestInv PROVE BlocksHold /\ HeaderTells /\ ConfigWorks
  <1> USE DEF RequestInv
  <1>1. DOMAIN header = DOMAIN blocks
    BY DEF Records
  <1>2. \A s \in DOMAIN blocks : config # NoConfig
    BY DEF Built
  <1>3. TypeOK
    <2>1. config \in Configs \cup {NoConfig} /\ next \in Nat /\ (config # NoConfig => next =< config.arena)
      BY DEF Built
    <2>2. ASSUME NEW s \in DOMAIN blocks
          PROVE  /\ blocks[s].class \in Classes \cup {0}
                 /\ blocks[s].state \in {"fresh", "cached", "live"}
                 /\ blocks[s].asked \in Sizes \cup {0}
                 /\ header[s].requested =< FieldMax /\ header[s].usable =< FieldMax
      BY RecordFacts
    <2> QED
      BY <1>1, <2>1, <2>2 DEF TypeOK
  <1>4. BlocksHold
    <2>1. ASSUME NEW s \in DOMAIN blocks
          PROVE  /\ s % config.alignment = 0
                 /\ s + blocks[s].size =< next
                 /\ blocks[s].size >= HeaderSize + blocks[s].asked
                 /\ \A r \in DOMAIN blocks : r > s => s + blocks[s].size =< r
      <3>1. blocks[s].size >= HeaderSize + blocks[s].asked
        BY <1>2, AskedFits
      <3> QED
        BY <3>1 DEF Placed
    <2> QED
      BY <1>3, <2>1 DEF BlocksHold
  <1>5. HeaderTells
    <2>1. ASSUME NEW s \in DOMAIN blocks, blocks[s].state = "live"
          PROVE  /\ header[s].requested = blocks[s].asked /\ ~header[s].freed
                 /\ IF blocks[s].class = 0
                    THEN Decoded(header[s]) = "Large" /\ header[s].usable = blocks[s].size - HeaderSize
                    ELSE Decoded(header[s]) = "Small" /\ header[s].index + 1 = blocks[s].class
      <3>1. /\ header[s].requested = blocks[s].asked /\ ~header[s].freed
            /\ Decoded(header[s]) = IF blocks[s].class = 0 THEN "Large" ELSE "Small"
        BY <2>1, DecodedFacts
      <3>2. blocks[s].class = 0 => header[s].usable = blocks[s].size - HeaderSize
        BY DEF HeadersFit, Fits
      <3>3. blocks[s].class \in Classes => header[s].index = blocks[s].class - 1 /\ blocks[s].class # 0
        BY <2>1 DEF HeadersFit, Fits, SmallShape, Classes
      <3>4. blocks[s].class \in Classes => header[s].index + 1 = blocks[s].class
        BY <3>3 DEF Classes
      <3>5. blocks[s].class \in Classes \cup {0}
        BY RecordFacts
      <3> QED
        BY <3>1, <3>2, <3>4, <3>5
    <2> QED
      BY <2>1 DEF HeaderTells, LiveBlocks
  <1>6. ConfigWorks
    <2>1. SUFFICES ASSUME config # NoConfig
                   PROVE  /\ \A c \in Classes : CountsWork(config, c)
                          /\ \A n \in Probes :
                                /\ FromRequest(n) = Tightest(n)
                                /\ FromRequest(n) # 0 =>
                                     BlockSize(FromRequest(n), config.alignment) >= HeaderSize + n
      BY DEF ConfigWorks
    <2>2. \A c \in Classes : CountsWork(config, c)
      BY <2>1, ConfigFacts, CountFacts
    <2>3. Probes \subseteq Nat
      <3>1. Sizes \subseteq Nat
        BY RequestAssumption
      <3>2. ASSUME NEW c \in Classes PROVE (PayloadSize[c] - 1)..(PayloadSize[c] + 1) \subseteq Nat
        <4>1. PayloadSize[c] \in Nat \ {0}
          BY TableFacts
        <4> QED
          BY <4>1
      <3> QED
        BY <3>1, <3>2 DEF Probes
    <2>4. ASSUME NEW n \in Probes
          PROVE  /\ FromRequest(n) = Tightest(n)
                 /\ FromRequest(n) # 0 => BlockSize(FromRequest(n), config.alignment) >= HeaderSize + n
      <3> DEFINE c == FromRequest(n)
      <3>1. n \in Nat
        BY <2>3
      <3>2. /\ c \in Classes \cup {0} /\ c = Tightest(n)
            /\ c # 0 => n =< PayloadSize[c]
        BY <3>1, ClassOfRequest
      <3> HIDE DEF c
      <3>3. ASSUME c # 0 PROVE BlockSize(c, config.alignment) >= HeaderSize + n
        <4>1. c \in Classes
          BY <3>2, <3>3
        <4>2. /\ BlockSize(c, config.alignment) \in Nat
              /\ BlockSize(c, config.alignment) >= HeaderSize + PayloadSize[c]
              /\ PayloadSize[c] \in Nat
          BY <2>1, <4>1, ConfigFacts, BlockSizeFacts, TableFacts
        <4>3. n =< PayloadSize[c]
          BY <3>2, <3>3
        <4> QED
          BY <3>1, <4>2, <4>3 DEF HeaderSize
      <3> QED
        BY <3>2, <3>3 DEF c
    <2> QED
      BY <2>2, <2>4
  <1> QED
    BY <1>4, <1>5, <1>6

-----------------------------------------------------------------------------
(* Steps *)

\* A step that leaves blocks where they are, with their classes and sizes.
LEMMA SamePlaces ==
    ASSUME Placed, Slabbed, config' = config, next' = next, slabs' = slabs,
           DOMAIN blocks' = DOMAIN blocks,
           \A s \in DOMAIN blocks : /\ blocks'[s].class = blocks[s].class
                                    /\ blocks'[s].size = blocks[s].size
    PROVE  Placed' /\ Slabbed'
  <1>1. \A s \in DOMAIN blocks : Sized(blocks[s]) => Sized(blocks[s])'
    BY DEF Sized
  <1>2. Placed'
    BY <1>1 DEF Placed
  <1>3. \A b \in slabs : SlabEnd(b)' = SlabEnd(b) /\ SlabBlocks(b)' = SlabBlocks(b)
    BY DEF SlabEnd, SlabBlocks
  <1>4. \A b \in slabs : SlabBlocks(b) \subseteq DOMAIN blocks
    BY DEF SlabBlocks
  <1>5. Slabbed'
    BY <1>3, <1>4 DEF Slabbed
  <1> QED
    BY <1>2, <1>5

\* A step that changes one block and its header.
LEMMA OneBlock ==
    ASSUME RequestInv, config # NoConfig, NEW s \in DOMAIN blocks, NEW b, NEW h,
           b \in BlockRecord, h \in HeaderRecord, Fits(b, h),
           b.class = blocks[s].class, b.size = blocks[s].size,
           blocks' = [blocks EXCEPT ![s] = b], header' = [header EXCEPT ![s] = h],
           UNCHANGED <<config, next, slabs>>
    PROVE  RequestInv'
  <1> USE DEF RequestInv
  <1>1. /\ DOMAIN blocks' = DOMAIN blocks /\ blocks'[s] = b
        /\ \A r \in DOMAIN blocks : r # s => blocks'[r] = blocks[r]
    OBVIOUS
  <1>2. DOMAIN header = DOMAIN blocks
    BY DEF Records
  <1>3. header'[s] = h /\ \A r \in DOMAIN blocks : r # s => header'[r] = header[r]
    BY <1>2
  <1>4. Built'
    BY <1>1 DEF Built
  <1>5. Records'
    BY DEF Records
  <1>6. Placed' /\ Slabbed'
    <2>1. \A r \in DOMAIN blocks : blocks'[r].class = blocks[r].class /\ blocks'[r].size = blocks[r].size
      BY <1>1
    <2> QED
      BY <1>1, <2>1, SamePlaces
  <1>7. HeadersFit'
    <2>1. ASSUME NEW r \in DOMAIN blocks PROVE Fits(blocks'[r], header'[r])
      <3>1. CASE r = s
        BY <1>1, <1>3, <3>1
      <3>2. CASE r # s
        BY <1>1, <1>3, <3>2 DEF HeadersFit
      <3> QED
        BY <3>1, <3>2
    <2> QED
      BY <1>1, <2>1 DEF HeadersFit
  <1> QED
    BY <1>4, <1>5, <1>6, <1>7

\* deallocate_with_cache and deallocate_with_size_checked: a free that is accepted
\* marks the header of a small block, and one that is not changes nothing.
LEMMA FinishStep ==
    ASSUME RequestInv, config # NoConfig, NEW s \in DOMAIN blocks, NEW call, NEW n, NEW verdict,
           verdict = "ok" => blocks[s].state = "live", Finish(s, call, n, verdict)
    PROVE  RequestInv'
  <1> USE DEF RequestInv
  <1> DEFINE b == [blocks[s] EXCEPT !.state = "cached", !.asked = 0]
             h == [header[s] EXCEPT !.freed = (blocks[s].class # 0)]
  <1>1. CASE verdict = "ok"
    <2>1. blocks[s].state = "live"
      BY <1>1
    <2>2. blocks[s] \in BlockRecord /\ header[s] \in HeaderRecord /\ Fits(blocks[s], header[s])
      BY RecordFacts DEF HeadersFit
    <2>3. /\ blocks' = [blocks EXCEPT ![s].state = "cached", ![s].asked = 0]
          /\ header' = [header EXCEPT ![s].freed = (blocks[s].class # 0)]
          /\ UNCHANGED <<config, next, slabs>>
      BY <1>1 DEF Finish
    <2>4. DOMAIN header = DOMAIN blocks
      BY DEF Records
    <2>5. blocks' = [blocks EXCEPT ![s] = b]
      BY <2>3
    <2>6. header' = [header EXCEPT ![s] = h]
      BY <2>3, <2>4
    <2>7. b \in BlockRecord /\ h \in HeaderRecord
      BY <2>2 DEF BlockRecord, HeaderRecord
    <2>8. b.class = blocks[s].class /\ b.size = blocks[s].size /\ b.state = "cached" /\ b.asked = 0
      BY <2>2 DEF BlockRecord
    <2>9. /\ h.magic = header[s].magic /\ h.kind = header[s].kind /\ h.index = header[s].index
          /\ h.usable = header[s].usable /\ h.freed = (blocks[s].class # 0)
      BY <2>2 DEF HeaderRecord
    <2> HIDE DEF b, h
    <2>10. Fits(b, h)
      BY <2>1, <2>2, <2>8, <2>9 DEF Fits, SmallShape
    <2> QED
      BY <2>3, <2>5, <2>6, <2>7, <2>8, <2>10, OneBlock
  <1>2. CASE verdict # "ok"
    <2>1. UNCHANGED <<config, next, slabs, blocks, header>>
      BY <1>2 DEF Finish
    <2>2. Placed' /\ Slabbed'
      BY <2>1, SamePlaces
    <2> QED
      BY <2>1, <2>2 DEF Built, Records, HeadersFit
  <1> QED
    BY <1>1, <1>2

\* allocate_small_with_cache
LEMMA AllocateSmallStep ==
    ASSUME RequestInv, config # NoConfig, NEW n \in Sizes, NEW s \in DOMAIN blocks, AllocateSmall(n, s)
    PROVE  RequestInv'
  <1> USE DEF RequestInv
  <1> DEFINE c == FromRequest(n)
             b == [blocks[s] EXCEPT !.state = "live", !.asked = n]
  <1>1. /\ c # 0 /\ blocks[s].class = c /\ blocks[s].state # "live"
        /\ blocks' = [blocks EXCEPT ![s] = b] /\ UNCHANGED <<config, next, slabs>>
        /\ \/ header' = [header EXCEPT ![s] = SmallHeader(c, n)]
           \/ blocks[s].state = "cached" /\ header' = [header EXCEPT ![s] = Refreshed(header[s], n)]
    <2>1. DOMAIN header = DOMAIN blocks
      BY DEF Records
    <2> QED
      BY <2>1 DEF AllocateSmall, Live
  <1>2. n \in Nat /\ FieldMax \in Nat
    BY RequestAssumption
  <1>3. c \in Classes /\ n # 0 /\ n =< PayloadSize[c]
    BY <1>1, <1>2, ClassOfRequest
  <1> HIDE DEF c
  <1>4. PayloadSize[c] \in Nat /\ PayloadSize[c] =< FieldMax /\ n =< FieldMax
    BY <1>2, <1>3, TableFacts, FieldAssumption
  <1>5. blocks[s] \in BlockRecord /\ header[s] \in HeaderRecord /\ Fits(blocks[s], header[s])
    BY RecordFacts DEF HeadersFit
  <1>6. b \in BlockRecord
    BY <1>5 DEF BlockRecord
  <1>7. b.class = blocks[s].class /\ b.size = blocks[s].size /\ b.state = "live" /\ b.asked = n
    BY <1>5 DEF BlockRecord
  <1> HIDE DEF b
  <1>8. CASE header' = [header EXCEPT ![s] = SmallHeader(c, n)]
    <2> DEFINE h == SmallHeader(c, n)
    <2>1. /\ h.magic /\ h.kind = Small /\ h.index = c - 1 /\ h.requested = n
          /\ h.usable = PayloadSize[c] /\ ~h.freed
      BY DEF SmallHeader, Encoded
    <2>2. c - 1 \in Nat
      BY <1>3 DEF Classes
    <2>3. n \in 0..FieldMax /\ PayloadSize[c] \in 0..FieldMax
      BY <1>2, <1>4
    <2>4. h \in HeaderRecord
      BY <2>2, <2>3 DEF SmallHeader, Encoded, HeaderRecord, Small
    <2> HIDE DEF h
    <2>5. Fits(b, h)
      BY <1>1, <1>3, <1>7, <2>1 DEF Fits, SmallShape
    <2> QED
      BY <1>1, <1>6, <1>7, <1>8, <2>4, <2>5, OneBlock DEF h
  <1>9. CASE blocks[s].state = "cached" /\ header' = [header EXCEPT ![s] = Refreshed(header[s], n)]
    <2> DEFINE h == Refreshed(header[s], n)
    <2>1. n \in 0..FieldMax
      BY <1>2, <1>4
    <2>2. h \in HeaderRecord
      BY <1>5, <2>1 DEF Refreshed, HeaderRecord
    <2>3. /\ h.magic = header[s].magic /\ h.kind = header[s].kind /\ h.index = header[s].index
          /\ h.usable = header[s].usable /\ h.requested = n /\ ~h.freed
      BY <1>5 DEF Refreshed, HeaderRecord
    <2> HIDE DEF h
    <2>4. SmallShape(c, header[s])
      BY <1>1, <1>5, <1>9 DEF Fits
    <2>5. Fits(b, h)
      BY <1>1, <1>3, <1>7, <2>3, <2>4 DEF Fits, SmallShape
    <2> QED
      BY <1>1, <1>6, <1>7, <1>9, <2>2, <2>5, OneBlock DEF h
  <1> QED
    BY <1>1, <1>8, <1>9

\* maybe_sweep: only headers of blocks that become fresh are in the pages given up.
LEMMA DiscardStep ==
    ASSUME RequestInv, config # NoConfig, NEW b \in slabs, Discard(b)
    PROVE  RequestInv'
  <1> USE DEF RequestInv
  <1> DEFINE Inside(s) == InnerStart(b) =< s /\ s < InnerEnd(b)
  <1>1. /\ \A s \in SlabBlocks(b) : blocks[s].state = "cached"
        /\ header' = [s \in DOMAIN header |-> IF Inside(s) THEN ZeroHeader ELSE header[s]]
        /\ blocks' = [s \in DOMAIN blocks |->
                IF s \in SlabBlocks(b) THEN [blocks[s] EXCEPT !.state = "fresh"] ELSE blocks[s]]
        /\ UNCHANGED <<config, next, slabs>>
    BY DEF Discard
  <1>2. DOMAIN header = DOMAIN blocks /\ DOMAIN blocks' = DOMAIN blocks /\ DOMAIN header' = DOMAIN blocks
    BY <1>1 DEF Records
  <1>3. /\ b.start \in Nat /\ b.class \in Classes /\ b.count \in Nat \ {0}
        /\ \A s \in SlabBlocks(b) : blocks[s].class = b.class
    BY DEF Slabbed
  <1>4. SlabEnd(b) \in Nat
    <2>1. BlockSize(b.class, config.alignment) \in Nat
      BY <1>3, ConfigFacts, BlockSizeFacts
    <2>2. b.count * BlockSize(b.class, config.alignment) \in Nat
      <3> DEFINE z == BlockSize(b.class, config.alignment)
                 k == b.count
      <3> HIDE DEF z, k
      <3>1. z \in Nat /\ k \in Nat
        BY <1>3, <2>1 DEF z, k
      <3>2. k * z \in Nat
        BY <3>1, Z3
      <3> QED
        BY <3>2 DEF z, k
    <2> QED
      BY <1>3, <2>2 DEF SlabEnd
  <1>5. ASSUME NEW s \in DOMAIN blocks, Inside(s) PROVE s \in SlabBlocks(b)
    <2>1. PageSize \in Nat \ {0}
      BY RequestAssumption
    <2>2. InnerStart(b) \in Nat /\ b.start =< InnerStart(b)
      BY <1>3, <2>1, AlignUpFacts DEF InnerStart
    <2>3. InnerEnd(b) \in Int /\ InnerEnd(b) =< SlabEnd(b)
      BY <1>4, <2>1, AlignDownFacts DEF InnerEnd
    <2>4. s \in Nat
      BY DEF Placed
    <2>5. b.start =< s /\ s < SlabEnd(b)
      BY <1>3, <1>4, <1>5, <2>2, <2>3, <2>4
    <2> QED
      BY <2>5 DEF SlabBlocks
  <1>6. ASSUME NEW s \in DOMAIN blocks
        PROVE  /\ blocks'[s] \in BlockRecord /\ header'[s] \in HeaderRecord
               /\ blocks'[s].class = blocks[s].class /\ blocks'[s].size = blocks[s].size
               /\ Fits(blocks'[s], header'[s])
    <2>1. blocks[s] \in BlockRecord /\ header[s] \in HeaderRecord /\ Fits(blocks[s], header[s])
      BY RecordFacts DEF HeadersFit
    <2>2. ZeroHeader \in HeaderRecord /\ ~ZeroHeader.magic
      BY RequestAssumption DEF ZeroHeader, HeaderRecord
    <2>3. CASE s \in SlabBlocks(b)
      <3> DEFINE y == [blocks[s] EXCEPT !.state = "fresh"]
      <3>1. blocks'[s] = y
        BY <1>1, <2>3
      <3>2. y \in BlockRecord
        BY <2>1 DEF BlockRecord
      <3>3. /\ y.class = blocks[s].class /\ y.size = blocks[s].size /\ y.state = "fresh"
            /\ y.asked = blocks[s].asked
        BY <2>1 DEF BlockRecord
      <3>4. blocks[s].state = "cached" /\ blocks[s].class = b.class /\ b.class # 0
        BY <1>1, <1>3, <2>3 DEF Classes
      <3>5. header'[s] = ZeroHeader \/ header'[s] = header[s]
        BY <1>1, <1>2
      <3> HIDE DEF y
      <3>6. Fits(y, header'[s])
        BY <2>1, <2>2, <3>3, <3>4, <3>5 DEF Fits
      <3> QED
        BY <2>1, <2>2, <3>1, <3>2, <3>3, <3>5, <3>6
    <2>4. CASE s \notin SlabBlocks(b)
      <3>1. blocks'[s] = blocks[s] /\ header'[s] = header[s]
        BY <1>1, <1>2, <1>5, <2>4
      <3> QED
        BY <2>1, <3>1
    <2> QED
      BY <2>3, <2>4
  <1>7. Built'
    BY <1>1, <1>2 DEF Built
  <1>8. Records'
    BY <1>1, <1>2, <1>6 DEF Records
  <1>9. Placed' /\ Slabbed'
    BY <1>1, <1>2, <1>6, SamePlaces
  <1>10. HeadersFit'
    BY <1>2, <1>6 DEF HeadersFit
  <1> QED
    BY <1>7, <1>8, <1>9, <1>10

\* New blocks above all others, in a new slab or outside all slabs.
LEMMA Grown ==
    ASSUME RequestInv, config # NoConfig, config' = config,
           NEW E \in SUBSET Nat, NEW nb \in [E -> BlockRecord], NEW nh \in [E -> HeaderRecord],
           blocks' = Merge(nb, blocks), header' = Merge(nh, header),
           next' \in Nat, next' =< config.arena, next =< next',
           \A e \in E : /\ next =< e /\ e % config.alignment = 0
                        /\ Sized(nb[e]) /\ Fits(nb[e], nh[e])
                        /\ e + nb[e].size =< next'
                        /\ \A r \in E : r > e => e + nb[e].size =< r,
           \A b \in slabs' : b \in slabs \/
                /\ b \in [start : Nat, class : Classes, count : Nat \ {0}]
                /\ next =< b.start /\ SlabEnd(b) =< next'
                /\ \A e \in E : nb[e].class = b.class
    PROVE  RequestInv'
  <1> USE DEF RequestInv
  <1>1. DOMAIN header = DOMAIN blocks /\ DOMAIN nb = E /\ DOMAIN nh = E
    BY DEF Records
  <1>2. DOMAIN blocks' = E \cup DOMAIN blocks /\ DOMAIN header' = E \cup DOMAIN blocks
    BY <1>1 DEF Merge
  <1>3. \A e \in E : blocks'[e] = nb[e] /\ header'[e] = nh[e]
    BY <1>1 DEF Merge
  <1>4. \A s \in DOMAIN blocks : s \notin E => blocks'[s] = blocks[s] /\ header'[s] = header[s]
    BY <1>1 DEF Merge
  <1>5. next \in Nat /\ config.alignment \in Nat \ {0} /\ HeaderSize = 64
    BY ConfigFacts DEF HeaderSize
  <1>6. ASSUME NEW s \in DOMAIN blocks
        PROVE  s \in Nat /\ blocks[s].size \in Nat /\ s < next /\ s + blocks[s].size =< next
    <2>1. blocks[s].size \in Nat /\ blocks[s].asked \in Nat
      BY RecordFacts
    <2>2. blocks[s].size >= HeaderSize + blocks[s].asked
      BY AskedFits
    <2>3. s \in Nat /\ s + blocks[s].size =< next
      BY DEF Placed
    <2> QED
      BY <1>5, <2>1, <2>2, <2>3
  <1>7. \A s \in DOMAIN blocks : s \notin E
    BY <1>5, <1>6
  <1>8. Built'
    BY <1>2, ConfigFacts DEF Built
  <1>9. Records'
    <2>1. ASSUME NEW s \in E \cup DOMAIN blocks
          PROVE  blocks'[s] \in BlockRecord /\ header'[s] \in HeaderRecord
      BY <1>3, <1>4, <1>7, RecordFacts
    <2> QED
      BY <1>2, <2>1 DEF Records, Merge
  <1>10. \A s \in DOMAIN blocks' : Sized(blocks'[s]) => Sized(blocks[s])'
    BY DEF Sized
  <1>11. ASSUME NEW s \in E \cup DOMAIN blocks
         PROVE  /\ s \in Nat
                /\ s % config.alignment = 0
                /\ Sized(blocks'[s])
                /\ s + blocks'[s].size =< next'
                /\ \A r \in E \cup DOMAIN blocks : r > s => s + blocks'[s].size =< r
                /\ Fits(blocks'[s], header'[s])
    <2>1. CASE s \in E
      <3>1. /\ s \in Nat /\ next =< s /\ s % config.alignment = 0 /\ Sized(nb[s]) /\ Fits(nb[s], nh[s])
            /\ s + nb[s].size =< next' /\ \A r \in E : r > s => s + nb[s].size =< r
        BY <2>1
      <3>2. \A r \in DOMAIN blocks : ~(r > s)
        BY <1>5, <1>6, <3>1
      <3> QED
        BY <1>3, <2>1, <3>1, <3>2
    <2>2. CASE s \in DOMAIN blocks
      <3>1. blocks'[s] = blocks[s] /\ header'[s] = header[s]
        BY <1>4, <1>7, <2>2
      <3>2. /\ s \in Nat /\ s % config.alignment = 0 /\ Sized(blocks[s])
            /\ \A r \in DOMAIN blocks : r > s => s + blocks[s].size =< r
            /\ Fits(blocks[s], header[s])
        BY <2>2 DEF Placed, HeadersFit
      <3>3. blocks[s].size \in Nat /\ s + blocks[s].size =< next
        BY <1>6, <2>2
      <3>4. s + blocks[s].size =< next'
        BY <1>5, <3>2, <3>3
      <3>5. \A r \in E : s + blocks[s].size =< r
        BY <1>5, <3>2, <3>3
      <3> QED
        BY <3>1, <3>2, <3>4, <3>5
    <2> QED
      BY <2>1, <2>2
  <1>12. Placed'
    <2>1. ASSUME NEW s \in DOMAIN blocks'
          PROVE  /\ s \in Nat
                 /\ s % config'.alignment = 0
                 /\ Sized(blocks[s])'
                 /\ s + blocks'[s].size =< next'
                 /\ \A r \in DOMAIN blocks' : r > s => s + blocks'[s].size =< r
      BY <1>2, <1>10, <1>11
    <2> QED
      BY <2>1 DEF Placed
  <1>13. HeadersFit'
    BY <1>2, <1>11 DEF HeadersFit
  <1>14. \A b : SlabEnd(b)' = SlabEnd(b)
    BY DEF SlabEnd
  <1>15. ASSUME NEW b \in slabs'
         PROVE  /\ b \in [start : Nat, class : Classes, count : Nat \ {0}]
                /\ SlabEnd(b) =< next'
                /\ \A s \in DOMAIN blocks' : b.start =< s /\ s < SlabEnd(b) => blocks'[s].class = b.class
    <2>0. ASSUME b \in [start : Nat, class : Classes, count : Nat \ {0}]
          PROVE  b.start \in Nat /\ SlabEnd(b) \in Nat
      <3> DEFINE z == BlockSize(b.class, config.alignment)
                 k == b.count
      <3>1. z \in Nat /\ k \in Nat /\ b.start \in Nat
        BY <2>0, ConfigFacts, BlockSizeFacts
      <3> HIDE DEF z, k
      <3>2. k * z \in Nat
        BY <3>1, Z3
      <3>3. b.start + k * z \in Nat
        BY <3>1, <3>2
      <3> QED
        BY <3>1, <3>3 DEF z, k, SlabEnd
    <2>1. CASE b \in slabs
      <3>1. /\ b \in [start : Nat, class : Classes, count : Nat \ {0}] /\ SlabEnd(b) =< next
            /\ \A s \in SlabBlocks(b) : blocks[s].class = b.class
        BY <2>1 DEF Slabbed
      <3>2. b.start \in Nat /\ SlabEnd(b) \in Nat
        BY <2>0, <3>1
      <3>3. SlabEnd(b) =< next'
        BY <1>5, <3>1, <3>2
      <3>4. ASSUME NEW s \in E \cup DOMAIN blocks, b.start =< s, s < SlabEnd(b)
            PROVE  blocks'[s].class = b.class
        <4>1. s \notin E
          <5>1. SUFFICES ASSUME s \in E PROVE FALSE
            OBVIOUS
          <5>2. s \in Nat /\ next =< s
            BY <5>1
          <5>3. s < SlabEnd(b) /\ SlabEnd(b) =< next /\ SlabEnd(b) \in Nat
            BY <3>1, <3>2, <3>4
          <5> QED
            BY <1>5, <5>2, <5>3
        <4>2. s \in SlabBlocks(b)
          BY <3>4, <4>1 DEF SlabBlocks
        <4> QED
          BY <1>4, <3>1, <3>4, <4>1, <4>2
      <3> QED
        BY <1>2, <3>1, <3>3, <3>4
    <2>2. CASE b \notin slabs
      <3>1. /\ b \in [start : Nat, class : Classes, count : Nat \ {0}]
            /\ next =< b.start /\ SlabEnd(b) =< next'
            /\ \A e \in E : nb[e].class = b.class
        BY <2>2
      <3>2. b.start \in Nat
        BY <3>1
      <3>3. ASSUME NEW s \in E \cup DOMAIN blocks, b.start =< s
            PROVE  blocks'[s].class = b.class
        <4>1. s \notin DOMAIN blocks
          BY <1>5, <1>6, <3>1, <3>2, <3>3
        <4> QED
          BY <1>3, <3>1, <3>3, <4>1
      <3> QED
        BY <1>2, <3>1, <3>3
    <2> QED
      BY <2>1, <2>2
  <1>16. Slabbed'
    BY <1>14, <1>15 DEF Slabbed, SlabBlocks
  <1> QED
    BY <1>8, <1>9, <1>12, <1>13, <1>16

\* refill_cache_from_arena: the first and the last block of the new slab.
LEMMA CarveSlabStep ==
    ASSUME RequestInv, config # NoConfig, NEW c \in Classes, CarveSlab(c)
    PROVE  RequestInv'
  <1> USE DEF RequestInv
  <1> DEFINE a == config.alignment
             size == BlockSize(c, a)
             start == AlignUp(next, a)
             room == (config.arena - start) \div size
             count == Min({RefillCount(config, c), room})
             final == start + (count - 1) * size
             E == {start, final}
             rec == [class |-> c, size |-> size, state |-> "fresh", asked |-> 0]
             nb == [s \in E |-> rec]
             nh == [s \in E |-> ZeroHeader]
             slab == [start |-> start, class |-> c, count |-> count]
  <1>1. /\ start < config.arena /\ count > 0 /\ config' = config
        /\ next' = start + count * size /\ slabs' = slabs \cup {slab}
        /\ blocks' = Merge(nb, blocks) /\ header' = Merge(nh, header)
    BY DEF CarveSlab
  <1>2. /\ a \in Nat \ {0} /\ a >= HeaderAlignment /\ config.arena \in Nat /\ next \in Nat
        /\ config \in Configs /\ ValidConfig(config)
    BY ConfigFacts
  <1>3. start \in Nat /\ start % a = 0 /\ next =< start
    BY <1>2, AlignUpFacts
  <1>4. size \in Nat \ {0} /\ size % a = 0
    BY <1>2, BlockSizeFacts
  <1>5. count \in Nat \ {0} /\ count =< room
    <2> DEFINE x == RefillCount(config, c)
    <2>1. x \in Nat
      BY <1>2, CountFacts
    <2>2. config.arena - start \in Nat
      BY <1>1, <1>2, <1>3
    <2>3. room \in Nat
      BY <1>4, <2>2, QuotientNat
    <2> HIDE DEF x, room
    <2>4. {x, room} \in SUBSET Nat
      BY <2>1, <2>3
    <2>5. CASE x =< room
      <3>1. Min({x, room}) = x
        BY <2>1, <2>3, <2>4, <2>5, MinIs
      <3> QED
        BY <1>1, <2>1, <2>5, <3>1 DEF x
    <2>6. CASE ~(x =< room)
      <3>1. room =< x
        BY <2>1, <2>3, <2>6
      <3>2. Min({x, room}) = room
        BY <2>1, <2>3, <2>4, <3>1, MinIs
      <3> QED
        BY <1>1, <2>3, <3>2 DEF x
    <2> QED
      BY <2>5, <2>6
  <1>6. /\ final \in Nat /\ final % a = 0 /\ start =< final
        /\ final + size = start + count * size
        /\ final # start => start + size =< final
    <2>1. count \in Nat \ {0}
      BY <1>5
    <2>2. /\ a \in Nat \ {0} /\ start \in Nat /\ size \in Nat \ {0}
          /\ AlignedTo(start, a) /\ AlignedTo(size, a)
      BY <1>2, <1>3, <1>4 DEF AlignedTo
    <2>3. final = RowLast(start, size, count) /\ start + count * size = RowEnd(start, size, count)
      BY DEF RowLast, RowEnd
    <2> HIDE DEF a, size, start, count, final, room, E, rec, nb, nh, slab
    <2>4. RowLast(start, size, count) \in Nat
      BY <2>1, <2>2, RowFacts
    <2>5. AlignedTo(RowLast(start, size, count), a)
      BY <2>1, <2>2, RowFacts
    <2>6. start =< RowLast(start, size, count)
      BY <2>1, <2>2, RowFacts
    <2>7. RowLast(start, size, count) + size = RowEnd(start, size, count)
      BY <2>1, <2>2, RowFacts
    <2>8. RowLast(start, size, count) # start => start + size =< RowLast(start, size, count)
      BY <2>1, <2>2, RowFacts
    <2> QED
      BY <2>3, <2>4, <2>5, <2>6, <2>7, <2>8 DEF AlignedTo
  <1>7. count * size \in Nat /\ count * size =< config.arena - start
    <2>1. config.arena - start \in Nat
      BY <1>1, <1>2, <1>3
    <2>2. count \in Nat /\ count =< (config.arena - start) \div size
      BY <1>5
    <2> HIDE DEF size, start, count
    <2> QED
      BY <1>4, <2>1, <2>2, RowFits
  <1>8. next' \in Nat /\ next' =< config.arena /\ next =< next'
    <2> DEFINE w == count * size
    <2>1. w \in Nat /\ w =< config.arena - start /\ next' = start + w
      BY <1>1, <1>7
    <2> HIDE DEF w, start
    <2> QED
      BY <1>2, <1>3, <2>1
  <1>9. /\ rec \in BlockRecord /\ Sized(rec) /\ rec.size = size /\ rec.class = c
        /\ ZeroHeader \in HeaderRecord /\ Fits(rec, ZeroHeader)
    <2>1. c # 0
      BY DEF Classes
    <2>2. rec \in BlockRecord
      BY <1>4 DEF BlockRecord
    <2>3. ZeroHeader \in HeaderRecord
      BY RequestAssumption DEF ZeroHeader, HeaderRecord
    <2>4. Sized(rec)
      BY <2>1 DEF Sized
    <2>5. Fits(rec, ZeroHeader)
      BY <2>1 DEF Fits, ZeroHeader
    <2> QED
      BY <2>2, <2>3, <2>4, <2>5
  <1>10. E \in SUBSET Nat /\ nb \in [E -> BlockRecord] /\ nh \in [E -> HeaderRecord]
    BY <1>3, <1>6, <1>9
  <1>11. \A e \in E : nb[e] = rec /\ nh[e] = ZeroHeader
    OBVIOUS
  <1>12. /\ slab \in [start : Nat, class : Classes, count : Nat \ {0}]
         /\ slab.start = start /\ slab.class = c /\ SlabEnd(slab) = next'
    <2>1. slab \in [start : Nat, class : Classes, count : Nat \ {0}]
      BY <1>3, <1>5
    <2>2. SlabEnd(slab) = start + count * size
      BY DEF SlabEnd
    <2> QED
      BY <1>1, <2>1, <2>2
  <1> HIDE DEF rec, nb, nh, slab
  <1>13. ASSUME NEW e \in E
         PROVE  /\ next =< e /\ e % config.alignment = 0
                /\ Sized(nb[e]) /\ Fits(nb[e], nh[e])
                /\ e + nb[e].size =< next'
                /\ \A r \in E : r > e => e + nb[e].size =< r
    <2>1. nb[e].size = size /\ Sized(nb[e]) /\ Fits(nb[e], nh[e])
      BY <1>9, <1>11
    <2>2. next' = final + size
      BY <1>1, <1>6
    <2> HIDE DEF size, start, final
    <2>3. next =< e /\ e % a = 0
      BY <1>2, <1>3, <1>6
    <2>4. e + size =< next'
      BY <1>3, <1>4, <1>6, <2>2
    <2>5. \A r \in E : r > e => e + size =< r
      BY <1>3, <1>4, <1>6
    <2> QED
      BY <2>1, <2>3, <2>4, <2>5
  <1>14. ASSUME NEW b \in slabs', b \notin slabs
         PROVE  /\ b \in [start : Nat, class : Classes, count : Nat \ {0}]
                /\ next =< b.start /\ SlabEnd(b) =< next'
                /\ \A e \in E : nb[e].class = b.class
    <2>1. b = slab
      BY <1>1, <1>14
    <2>2. next' =< next'
      BY <1>8
    <2> QED
      BY <1>3, <1>9, <1>11, <1>12, <2>1, <2>2
  <1>15. config' = config /\ blocks' = Merge(nb, blocks) /\ header' = Merge(nh, header)
    BY <1>1
  <1> HIDE DEF E
  <1> QED
    BY <1>8, <1>10, <1>13, <1>14, <1>15, Grown

\* allocate_large: a recorded block that is large enough, or one from the arena.
LEMMA AllocateLargeStep ==
    ASSUME RequestInv, config # NoConfig, NEW n \in Sizes, AllocateLarge(n)
    PROVE  RequestInv'
  <1> USE DEF RequestInv
  <1> DEFINE a == config.alignment
             need == NeedLarge(n)
             start == AlignUp(next, a)
  <1>1. /\ a \in Nat \ {0} /\ a >= HeaderAlignment /\ config.arena \in Nat /\ next \in Nat
        /\ n \in Nat /\ n # 0 /\ FieldMax \in Nat /\ HeaderSize = 64
    BY ConfigFacts, RequestAssumption DEF AllocateLarge, HeaderSize
  <1>2. need \in Nat /\ HeaderSize + n =< need
    <2>1. HeaderSize + n \in Nat
      BY <1>1
    <2> QED
      BY <1>1, <2>1, AlignUpFacts DEF NeedLarge
  <1>3. start \in Nat /\ start % a = 0 /\ next =< start
    <2> QED
      BY <1>1, AlignUpFacts
  <1>4. ASSUME NEW z \in Nat, need =< z, z - HeaderSize =< FieldMax
        PROVE  LET h == LargeHeader(n, z) IN
               /\ h \in HeaderRecord
               /\ h.magic /\ h.kind = Large /\ h.index = LargeSentinel /\ h.requested = n
               /\ h.usable = z - HeaderSize /\ ~h.freed /\ n =< h.usable
    <2>1. n =< z - HeaderSize /\ n \in 0..FieldMax /\ z - HeaderSize \in 0..FieldMax
      BY <1>1, <1>2, <1>4
    <2> DEFINE u == z - HeaderSize
    <2> HIDE DEF u
    <2>2. Encoded(Large, LargeSentinel, n, u) \in HeaderRecord
      BY <2>1 DEF Encoded, HeaderRecord, Large, LargeSentinel, u
    <2> QED
      BY <2>1, <2>2 DEF LargeHeader, Encoded, u
  <1>5. CASE FreeLarge(n) # {}
    <2>1. PICK s \in FreeLarge(n) :
            /\ blocks' = [blocks EXCEPT ![s] = Live(blocks[s], n)]
            /\ header' = [header EXCEPT ![s] = LargeHeader(n, blocks[s].size)]
            /\ UNCHANGED <<config, next, slabs>>
      BY <1>5 DEF AllocateLarge
    <2>2. /\ s \in DOMAIN blocks /\ blocks[s].class = 0 /\ blocks[s].state = "cached"
          /\ blocks[s].size >= need
      BY DEF FreeLarge
    <2>3. blocks[s] \in BlockRecord /\ blocks[s].size \in Nat
      BY <2>2, RecordFacts
    <2>4. blocks[s].size - HeaderSize =< FieldMax
      BY <2>2 DEF Placed, Sized
    <2> DEFINE b == Live(blocks[s], n)
               h == LargeHeader(n, blocks[s].size)
    <2>5. b \in BlockRecord
      BY <2>3 DEF BlockRecord, Live
    <2>6. b.class = blocks[s].class /\ b.size = blocks[s].size /\ b.state = "live" /\ b.asked = n
      BY <2>3 DEF BlockRecord, Live
    <2>7. need =< blocks[s].size
      BY <1>2, <2>2, <2>3
    <2>8. /\ h \in HeaderRecord
          /\ h.magic /\ h.kind = Large /\ h.index = LargeSentinel /\ h.requested = n
          /\ h.usable = blocks[s].size - HeaderSize /\ ~h.freed /\ n =< h.usable
      BY <1>4, <2>3, <2>4, <2>7
    <2> HIDE DEF b, h, need
    <2>9. Fits(b, h)
      BY <1>1, <2>2, <2>6, <2>8 DEF Fits
    <2> QED
      BY <2>1, <2>2, <2>5, <2>6, <2>8, <2>9, OneBlock DEF b, h
  <1>6. CASE FreeLarge(n) = {}
    <2> DEFINE fits == EncodesLarge(n, need - HeaderSize)
               rec == [class |-> 0, size |-> need, state |-> "live", asked |-> n]
               nb == [s \in {start} |-> rec]
               nh == [s \in {start} |-> LargeHeader(n, need)]
    <2>1. /\ start + need =< config.arena /\ next' = start + need /\ UNCHANGED <<config, slabs>>
          /\ blocks' = IF ~fits THEN blocks ELSE Merge(nb, blocks)
          /\ header' = IF ~fits THEN header ELSE Merge(nh, header)
      BY <1>6 DEF AllocateLarge
    <2>2. next' \in Nat /\ next' =< config.arena /\ next =< next'
      <3> HIDE DEF start, need
      <3> QED
        BY <1>1, <1>2, <1>3, <2>1
    <2>3. CASE ~fits
      <3>1. UNCHANGED <<config, slabs, blocks, header>>
        BY <2>1, <2>3
      <3>2. Built' /\ Records' /\ HeadersFit'
        BY <2>2, <3>1, ConfigFacts DEF Built, Records, HeadersFit
      <3>3. Placed'
        <4>1. ASSUME NEW s \in DOMAIN blocks
              PROVE  s + blocks[s].size =< next' /\ Sized(blocks[s])'
          <5>1. s \in Nat /\ blocks[s].size \in Nat /\ s + blocks[s].size =< next /\ Sized(blocks[s])
            BY RecordFacts DEF Placed
          <5>2. s + blocks[s].size =< next'
            BY <1>1, <2>2, <5>1
          <5> QED
            BY <3>1, <5>1, <5>2 DEF Sized
        <4> QED
          BY <3>1, <4>1 DEF Placed
      <3>4. Slabbed'
        <4>1. ASSUME NEW b \in slabs PROVE SlabEnd(b) =< next'
          <5> DEFINE z == BlockSize(b.class, config.alignment)
                     k == b.count
          <5>1. b.start \in Nat /\ k \in Nat /\ z \in Nat /\ SlabEnd(b) =< next
            BY ConfigFacts, BlockSizeFacts DEF Slabbed
          <5>2. SlabEnd(b) = b.start + k * z
            BY DEF SlabEnd
          <5> HIDE DEF z, k
          <5>3. k * z \in Nat
            BY <5>1, Z3
          <5>4. SlabEnd(b) \in Nat
            BY <5>1, <5>2, <5>3
          <5> QED
            BY <1>1, <2>2, <5>1, <5>4
        <4>2. \A b \in slabs : SlabEnd(b)' = SlabEnd(b) /\ SlabBlocks(b)' = SlabBlocks(b)
          BY <3>1 DEF SlabEnd, SlabBlocks
        <4> QED
          BY <3>1, <4>1, <4>2 DEF Slabbed
      <3> QED
        BY <3>2, <3>3, <3>4
    <2>4. CASE fits
      <3>1. need - HeaderSize =< FieldMax /\ need >= HeaderSize
        BY <1>1, <1>2, <2>4 DEF EncodesLarge
      <3> DEFINE h == LargeHeader(n, need)
      <3>2. need =< need
        BY <1>2
      <3>3. /\ h \in HeaderRecord
            /\ h.magic /\ h.kind = Large /\ h.index = LargeSentinel /\ h.requested = n
            /\ h.usable = need - HeaderSize /\ ~h.freed /\ n =< h.usable
        BY <1>2, <1>4, <3>1, <3>2
      <3>4. rec \in BlockRecord /\ rec.size = need /\ rec.class = 0 /\ rec.state = "live" /\ rec.asked = n
        BY <1>2 DEF BlockRecord
      <3>5. blocks' = Merge(nb, blocks) /\ header' = Merge(nh, header)
        BY <2>1, <2>4
      <3>6. nb \in [{start} -> BlockRecord] /\ nh \in [{start} -> HeaderRecord]
        BY <3>3, <3>4
      <3>7. nb[start] = rec /\ nh[start] = h
        OBVIOUS
      <3> HIDE DEF rec, h, nb, nh, need, start
      <3>8. Fits(rec, h) /\ Sized(rec)
        BY <1>1, <3>1, <3>3, <3>4 DEF Fits, Sized
      <3>9. \A e \in {start} : /\ next =< e /\ e % config.alignment = 0
                               /\ Sized(nb[e]) /\ Fits(nb[e], nh[e])
                               /\ e + nb[e].size =< next'
                               /\ \A r \in {start} : r > e => e + nb[e].size =< r
        <4>1. next' =< next' /\ ~(start > start)
          BY <1>3, <2>2
        <4> QED
          BY <1>3, <2>1, <3>4, <3>7, <3>8, <4>1
      <3>10. {start} \in SUBSET Nat
        BY <1>3
      <3> QED
        BY <2>1, <2>2, <3>5, <3>6, <3>9, <3>10, Grown
    <2> QED
      BY <2>3, <2>4
  <1> QED
    BY <1>5, <1>6

\* Allocator::new: nothing exists yet, and a valid configuration is not NoConfig.
LEMMA NewStep ==
    ASSUME RequestInv, NEW f \in Configs, New(f)
    PROVE  RequestInv'
  <1> USE DEF RequestInv
  <1>1. /\ config = NoConfig /\ ValidConfig(f) /\ config' = f
        /\ UNCHANGED <<next, slabs, blocks, header>>
    BY DEF New
  <1>2. DOMAIN blocks = {} /\ slabs = {} /\ next = 0
    BY <1>1 DEF Built
  <1>3. f.arena \in Nat
    BY RequestAssumption
  <1>4. Built'
    BY <1>1, <1>2, <1>3 DEF Built
  <1>5. Records'
    BY <1>1 DEF Records
  <1>6. Placed' /\ Slabbed' /\ HeadersFit'
    BY <1>1, <1>2 DEF Placed, Slabbed, HeadersFit
  <1> QED
    BY <1>4, <1>5, <1>6

\* Every step keeps the invariant.
LEMMA StepKeeps == ASSUME RequestInv, [Next]_vars PROVE RequestInv'
  <1>1. CASE UNCHANGED vars
    <2>1. UNCHANGED <<config, next, slabs, blocks, header>>
      BY <1>1 DEF vars
    <2>2. Placed' /\ Slabbed'
      BY <2>1, SamePlaces DEF RequestInv
    <2> QED
      BY <2>1, <2>2 DEF RequestInv, Built, Records, HeadersFit
  <1>2. ASSUME NEW f \in Configs, New(f) PROVE RequestInv'
    BY <1>2, NewStep
  <1>3. ASSUME config # NoConfig, NEW c \in {FromRequest(n) : n \in Sizes} \ {0}, CarveSlab(c)
        PROVE  RequestInv'
    <2>1. c \in Classes
      BY RequestAssumption, ClassOfRequest
    <2> QED
      BY <1>3, <2>1, CarveSlabStep
  <1>4. ASSUME config # NoConfig, NEW n \in Sizes, AllocateLarge(n) PROVE RequestInv'
    BY <1>4, AllocateLargeStep
  <1>5. ASSUME config # NoConfig, NEW n \in Sizes, NEW s \in DOMAIN blocks, AllocateSmall(n, s)
        PROVE  RequestInv'
    BY <1>5, AllocateSmallStep
  <1>6. ASSUME config # NoConfig, NEW s \in DOMAIN blocks, Free(s) PROVE RequestInv'
    <2>1. Verdict(s) = "ok" => blocks[s].state = "live"
      BY VerdictFacts DEF RequestInv
    <2> QED
      BY <1>6, <2>1, FinishStep DEF Free
  <1>7. ASSUME config # NoConfig, NEW s \in DOMAIN blocks, NEW n \in Sizes, FreeSized(s, n)
        PROVE  RequestInv'
    <2>1. SizedVerdict(s, n) = "ok" => blocks[s].state = "live"
      BY VerdictFacts DEF RequestInv
    <2> QED
      BY <1>7, <2>1, FinishStep DEF FreeSized
  <1>8. ASSUME config # NoConfig, NEW b \in slabs, Discard(b) PROVE RequestInv'
    BY <1>8, DiscardStep
  <1> QED
    BY <1>1, <1>2, <1>3, <1>4, <1>5, <1>6, <1>7, <1>8 DEF Next

\* An allocator that is not built has nothing.
LEMMA InitHolds == Init => RequestInv /\ VerdictRight
  <1> SUFFICES ASSUME Init PROVE RequestInv /\ VerdictRight
    OBVIOUS
  <1>1. /\ config = NoConfig /\ next = 0 /\ slabs = {} /\ last = NoFree
        /\ blocks = [s \in {} |-> 0] /\ header = [s \in {} |-> 0]
    BY DEF Init
  <1>2. DOMAIN blocks = {} /\ blocks \in [{} -> BlockRecord] /\ header \in [{} -> HeaderRecord]
    BY <1>1
  <1>3. RequestInv
    BY <1>1, <1>2 DEF RequestInv, Built, Records, Placed, Slabbed, HeadersFit
  <1> QED
    BY <1>1, <1>3 DEF VerdictRight

\* The outcome of a free is right by what its header said before the free.
LEMMA VerdictKept == ASSUME RequestInv, VerdictRight, [Next]_vars PROVE VerdictRight'
  <1>1. CASE last' = NoFree \/ last' = last
    BY <1>1 DEF VerdictRight
  <1>2. ASSUME NEW s \in DOMAIN blocks, Free(s) PROVE VerdictRight'
    <2>1. last' = [call |-> "free", size |-> 0, class |-> blocks[s].class, state |-> blocks[s].state,
                   asked |-> blocks[s].asked, result |-> Verdict(s)]
      BY <1>2 DEF Free, Finish
    <2>2. Verdict(s) = "ok" <=> blocks[s].state = "live"
      BY VerdictFacts DEF RequestInv
    <2>3. Verdict(s) # "SizeMismatch"
      BY VerdictFacts DEF RequestInv
    <2>4. /\ last'.call = "free" /\ last'.state = blocks[s].state /\ last'.result = Verdict(s)
      BY <2>1
    <2> QED
      BY <2>2, <2>3, <2>4 DEF VerdictRight
  <1>3. ASSUME NEW s \in DOMAIN blocks, NEW n \in Sizes, FreeSized(s, n) PROVE VerdictRight'
    <2>1. last' = [call |-> "sized", size |-> n, class |-> blocks[s].class, state |-> blocks[s].state,
                   asked |-> blocks[s].asked, result |-> SizedVerdict(s, n)]
      BY <1>3 DEF FreeSized, Finish
    <2>2. SizedVerdict(s, n) = "ok" <=> blocks[s].state = "live" /\ n = blocks[s].asked
      BY VerdictFacts DEF RequestInv
    <2>3. SizedVerdict(s, n) = "SizeMismatch" => blocks[s].state = "live" \/ blocks[s].class = 0
      BY VerdictFacts DEF RequestInv
    <2>4. /\ last'.call = "sized" /\ last'.state = blocks[s].state /\ last'.size = n
          /\ last'.result = SizedVerdict(s, n) /\ last'.asked = blocks[s].asked
          /\ last'.class = blocks[s].class
      BY <2>1
    <2> QED
      BY <2>2, <2>3, <2>4 DEF VerdictRight
  <1> QED
    BY <1>1, <1>2, <1>3 DEF Next, vars, New, CarveSlab, AllocateSmall, AllocateLarge, Discard

\* The invariant holds throughout.
LEMMA Invariance == Spec => [](RequestInv /\ VerdictRight)
  <1>1. RequestInv /\ VerdictRight /\ [Next]_vars => (RequestInv /\ VerdictRight)'
    BY StepKeeps, VerdictKept
  <1> QED
    BY InitHolds, <1>1, PTL DEF Spec

\* A block handed out holds its header and what was asked for, at the configured
\* alignment, inside the arena and apart from every other block, whatever classes and
\* large blocks are carved and reused (block_size_for_class, reserve_block_span,
\* allocate_large).
THEOREM BlocksAlwaysHold == Spec => []BlocksHold
  BY Invariance, InvImplies, PTL

\* The free path can rely on the header of a live block: no header write, no reuse and
\* no discarded page makes it say something else (header.rs, maybe_sweep).
THEOREM HeadersAlwaysTell == Spec => []HeaderTells
  BY Invariance, InvImplies, PTL

\* A free succeeds exactly when its block is live and its size, if given, is right; a
\* second free of a small block is never taken for a wrong size
\* (deallocate_decoded_with_expected_size).
THEOREM VerdictsRight == Spec => []VerdictRight
  BY Invariance, PTL

\* Every accepted configuration has block counts that the small path can work with, and
\* from_request finds the smallest class that holds a request and its header
\* (validate_allocator_config, SizeClass::from_request).
THEOREM ConfigsWork == Spec => []ConfigWorks
  BY Invariance, InvImplies, PTL

-----------------------------------------------------------------------------
(* Free lists: the blocks on them, in order.                               *)

Ref == Blocks \cup {Nil}

\* No block twice on one list.
Once(s) == \A j, k \in DOMAIN s : s[j] = s[k] => j = k

\* Induction on a set of numbers: counting shows that it misses none.
LEMMA NatSetInduction ==
    ASSUME NEW S, 0 \in S, \A n \in Nat : n \in S => n + 1 \in S
    PROVE  \A n \in Nat : n \in S
<1> SUFFICES ASSUME NEW n \in Nat, n \notin S PROVE FALSE
    OBVIOUS
<1> DEFINE T == {k \in 0 .. n : k \in S}
           F == [k \in T |-> k + 1]
<1>1. IsFiniteSet(T) /\ Cardinality(T) \in Nat
    <2>1. IsFiniteSet(0 .. n)
        BY FS_Interval
    <2>2. T \subseteq 0 .. n
        OBVIOUS
    <2> QED BY <2>1, <2>2, FS_Subset, FS_CardinalityType
<1>2. F \in Injection(T, T \ {0})
    BY DEF Injection, IsInjective
<1>3. IsFiniteSet(T \ {0}) /\ Cardinality(T \ {0}) = Cardinality(T) - 1
    <2>1. 0 \in T
        OBVIOUS
    <2> QED BY <1>1, <2>1, FS_RemoveElement
<1>4. Cardinality(T) <= Cardinality(T \ {0})
    <2> HIDE DEF T, F
    <2> QED BY <1>2, <1>3, FS_Injection
<1> QED BY <1>1, <1>3, <1>4

\* A pushed list: the new node is first, the others move up by one.
LEMMA PrependIs ==
    ASSUME NEW v \in Seq(Blocks), NEW e \in Blocks
    PROVE  /\ <<e>> \o v \in Seq(Blocks)
           /\ Len(<<e>> \o v) = Len(v) + 1
           /\ \A k \in 1 .. Len(v) + 1 : (<<e>> \o v)[k] = IF k = 1 THEN e ELSE v[k - 1]
    OBVIOUS

\* Two lists one after the other.
LEMMA ConcatIs ==
    ASSUME NEW u \in Seq(Blocks), NEW v \in Seq(Blocks)
    PROVE  /\ u \o v \in Seq(Blocks)
           /\ Len(u \o v) = Len(u) + Len(v)
           /\ \A k \in 1 .. Len(u) : (u \o v)[k] = u[k]
           /\ \A k \in 1 .. Len(v) : (u \o v)[Len(u) + k] = v[k]
    OBVIOUS

\* The list that is left when its first n nodes have gone.
LEMMA RestIs ==
    ASSUME NEW v \in Seq(Blocks), NEW n \in 0 .. Len(v)
    PROVE  /\ SubSeq(v, n + 1, Len(v)) \in Seq(Blocks)
           /\ Len(SubSeq(v, n + 1, Len(v))) = Len(v) - n
           /\ \A k \in 1 .. Len(v) - n : SubSeq(v, n + 1, Len(v))[k] = v[n + k]
    OBVIOUS

\* A block pushed to a list that does not have it.
LEMMA ListPush ==
    ASSUME NEW v \in Seq(Blocks), NEW e \in Blocks, Once(v), e \notin ToSet(v), NEW s, s = <<e>> \o v
    PROVE  /\ s \in Seq(Blocks) /\ Len(s) = Len(v) + 1 /\ s # <<>>
           /\ Once(s) /\ ToSet(s) = ToSet(v) \cup {e}
<1> DEFINE n == Len(v)
<1>1. n \in Nat /\ DOMAIN v = 1 .. n
    OBVIOUS
<1>2. /\ s \in Seq(Blocks) /\ Len(s) = n + 1 /\ s # <<>> /\ DOMAIN s = 1 .. n + 1
      /\ s[1] = e /\ \A k \in 1 .. n : s[k + 1] = v[k]
    <2>1. s \in Seq(Blocks) /\ Len(s) = n + 1
        BY PrependIs
    <2>2. s[1] = e /\ \A k \in 1 .. n : s[k + 1] = v[k]
        OBVIOUS
    <2> HIDE DEF n
    <2> QED BY <2>1, <2>2, <1>1
<1> HIDE DEF n
<1>3. \A k \in 1 .. n + 1 : k = 1 \/ \E j \in 1 .. n : k = j + 1
    <2> TAKE k \in 1 .. n + 1
    <2>1. CASE k # 1
        <3>1. k - 1 \in 1 .. n /\ k = (k - 1) + 1
            BY <2>1, <1>1
        <3> QED BY <3>1
    <2> QED BY <2>1
<1>4. \A k \in 1 .. n : v[k] # e
    BY <1>1 DEF ToSet
<1>5. \A j, k \in 1 .. n : v[j] = v[k] => j = k
    BY <1>1 DEF Once
<1>6. ASSUME NEW j \in 1 .. n + 1, NEW k \in 1 .. n + 1, s[j] = s[k] PROVE j = k
    <2>1. CASE j = 1 /\ k = 1
        BY <2>1
    <2>2. CASE j = 1 /\ k # 1
        BY <2>2, <1>2, <1>3, <1>4, <1>6
    <2>3. CASE j # 1 /\ k = 1
        BY <2>3, <1>2, <1>3, <1>4, <1>6
    <2>4. CASE j # 1 /\ k # 1
        BY ONLY <2>4, <1>2, <1>3, <1>5, <1>6
    <2> QED BY <2>1, <2>2, <2>3, <2>4
<1>7. ASSUME NEW x PROVE x \in ToSet(s) <=> x \in ToSet(v) \cup {e}
    <2>1. x \in ToSet(s) <=> \E k \in 1 .. n + 1 : s[k] = x
        BY <1>2 DEF ToSet
    <2>2. x \in ToSet(v) <=> \E k \in 1 .. n : v[k] = x
        BY <1>1 DEF ToSet
    <2>3. \A k \in 1 .. n : k + 1 \in 1 .. n + 1
        BY <1>1
    <2>4. 1 \in 1 .. n + 1
        BY <1>1
    <2> QED BY ONLY <2>1, <2>2, <2>3, <2>4, <1>2, <1>3
<1> QED BY <1>2, <1>6, <1>7 DEF Once, n

\* s is the rest of the list v behind its first n nodes, or those n nodes.
IsRest(v, n, s) == v \in Seq(Blocks) /\ Once(v) /\ n \in 0 .. Len(v) /\ s = SubSeq(v, n + 1, Len(v))

IsFront(v, n, s) == v \in Seq(Blocks) /\ Once(v) /\ n \in 0 .. Len(v) /\ s = SubSeq(v, 1, n)

\* A list without its first n nodes.
LEMMA ListDrop ==
    ASSUME NEW v, NEW n, NEW s, IsRest(v, n, s)
    PROVE  /\ s \in Seq(Blocks) /\ Len(s) = Len(v) - n
           /\ Once(s) /\ \A k \in 1 .. n : v[k] \notin ToSet(s)
           /\ ToSet(s) \subseteq ToSet(v)
<1>0. v \in Seq(Blocks) /\ Once(v) /\ n \in 0 .. Len(v) /\ s = SubSeq(v, n + 1, Len(v))
    BY DEF IsRest
<1> DEFINE L == Len(v)
<1>1. L \in Nat /\ DOMAIN v = 1 .. L /\ n \in 0 .. L
    BY <1>0
<1>2. s \in Seq(Blocks) /\ Len(s) = L - n /\ \A k \in 1 .. L - n : s[k] = v[n + k]
    BY <1>0, RestIs
<1>3. DOMAIN s = 1 .. L - n
    BY <1>2
<1> HIDE DEF L
<1>4. \A j, k \in 1 .. L : v[j] = v[k] => j = k
    BY <1>0, <1>1 DEF Once
<1>5. \A k \in 1 .. L - n : n + k \in 1 .. L
    BY <1>1
<1>6. ASSUME NEW j \in 1 .. L - n, NEW k \in 1 .. L - n, s[j] = s[k] PROVE j = k
    <2>1. v[n + j] = v[n + k] /\ n + j \in 1 .. L /\ n + k \in 1 .. L
        BY <1>2, <1>5, <1>6
    <2>2. n + j = n + k
        BY ONLY <2>1, <1>4
    <2> QED BY <2>2, <1>1
<1>7. \A k \in 1 .. L : k \in 1 .. n \/ \E j \in 1 .. L - n : k = n + j
    <2> TAKE k \in 1 .. L
    <2>1. CASE k > n
        <3>1. k - n \in 1 .. L - n /\ k = n + (k - n)
            BY <2>1, <1>1
        <3> QED BY <3>1
    <2>2. CASE ~(k > n)
        BY <2>2, <1>1
    <2> QED BY <2>1, <2>2
<1>8. \A k \in 1 .. n : k \in 1 .. L /\ \A j \in 1 .. L - n : k # n + j
    BY <1>1
<1>9. ASSUME NEW x PROVE x \in ToSet(s) <=> x \in ToSet(v) \ {v[k] : k \in 1 .. n}
    <2>1. x \in ToSet(s) <=> \E k \in 1 .. L - n : v[n + k] = x
        BY <1>2, <1>3 DEF ToSet
    <2>2. x \in ToSet(v) <=> \E k \in 1 .. L : v[k] = x
        BY <1>1 DEF ToSet
    <2>3. ASSUME NEW k \in 1 .. L - n, v[n + k] = x PROVE \A j \in 1 .. n : v[j] # x
        BY ONLY <2>3, <1>4, <1>5, <1>8
    <2> QED BY ONLY <2>1, <2>2, <2>3, <1>5, <1>7
<1>10. ToSet(s) \subseteq ToSet(v) /\ \A k \in 1 .. n : v[k] \notin ToSet(s)
    BY <1>9
<1> QED BY <1>2, <1>3, <1>6, <1>9, <1>10 DEF Once, L

\* Two lists without a common block, one after the other.
LEMMA ListJoin ==
    ASSUME NEW u \in Seq(Blocks), NEW v \in Seq(Blocks), Once(u), Once(v), ToSet(u) \cap ToSet(v) = {},
           NEW s, s = u \o v
    PROVE  /\ s \in Seq(Blocks) /\ Len(s) = Len(u) + Len(v)
           /\ Once(s) /\ ToSet(s) = ToSet(u) \cup ToSet(v)
<1> DEFINE m == Len(u)
           n == Len(v)
<1>1. m \in Nat /\ n \in Nat /\ DOMAIN u = 1 .. m /\ DOMAIN v = 1 .. n
    OBVIOUS
<1>2. /\ s \in Seq(Blocks) /\ Len(s) = m + n
      /\ \A k \in 1 .. m : s[k] = u[k]
      /\ \A k \in 1 .. n : s[m + k] = v[k]
    BY ConcatIs
<1>3. DOMAIN s = 1 .. m + n
    BY <1>2
<1> HIDE DEF m, n
<1>4. \A j, k \in 1 .. m : u[j] = u[k] => j = k
    BY <1>1 DEF Once
<1>5. \A j, k \in 1 .. n : v[j] = v[k] => j = k
    BY <1>1 DEF Once
<1>6. \A j \in 1 .. m : \A k \in 1 .. n : u[j] # v[k]
    BY <1>1 DEF ToSet
<1>7. \A k \in 1 .. m + n : k \in 1 .. m \/ \E j \in 1 .. n : k = m + j
    <2> TAKE k \in 1 .. m + n
    <2>1. CASE k > m
        <3>1. k - m \in 1 .. n /\ k = m + (k - m)
            BY <2>1, <1>1
        <3> QED BY <3>1
    <2>2. CASE ~(k > m)
        BY <2>2, <1>1
    <2> QED BY <2>1, <2>2
<1>8. /\ \A k \in 1 .. m : k \in 1 .. m + n
      /\ \A k \in 1 .. n : m + k \in 1 .. m + n
    BY <1>1
<1>9. ASSUME NEW j \in 1 .. m + n, NEW k \in 1 .. m + n, s[j] = s[k] PROVE j = k
    <2>1. CASE j \in 1 .. m /\ k \in 1 .. m
        BY ONLY <2>1, <1>2, <1>4, <1>9
    <2>2. CASE j \in 1 .. m /\ k \notin 1 .. m
        <3>1. PICK i \in 1 .. n : k = m + i
            BY <2>2, <1>7
        <3>2. s[j] = u[j] /\ s[k] = v[i]
            BY <3>1, <2>2, <1>2
        <3> QED BY ONLY <3>2, <2>2, <1>6, <1>9, i \in 1 .. n
    <2>3. CASE j \notin 1 .. m /\ k \in 1 .. m
        <3>1. PICK i \in 1 .. n : j = m + i
            BY <2>3, <1>7
        <3>2. s[j] = v[i] /\ s[k] = u[k]
            BY <3>1, <2>3, <1>2
        <3> QED BY ONLY <3>2, <2>3, <1>6, <1>9, i \in 1 .. n
    <2>4. CASE j \notin 1 .. m /\ k \notin 1 .. m
        BY ONLY <2>4, <1>2, <1>5, <1>7, <1>9
    <2> QED BY <2>1, <2>2, <2>3, <2>4
<1>10. ASSUME NEW x PROVE x \in ToSet(s) <=> x \in ToSet(u) \cup ToSet(v)
    <2>1. x \in ToSet(s) <=> \E k \in 1 .. m + n : s[k] = x
        BY <1>3 DEF ToSet
    <2>2. x \in ToSet(u) <=> \E k \in 1 .. m : u[k] = x
        BY <1>1 DEF ToSet
    <2>3. x \in ToSet(v) <=> \E k \in 1 .. n : v[k] = x
        BY <1>1 DEF ToSet
    <2> QED BY ONLY <2>1, <2>2, <2>3, <1>2, <1>7, <1>8
<1> QED BY <1>2, <1>3, <1>9, <1>10 DEF Once, m, n


\* The first n nodes of a list.
LEMMA ListTake ==
    ASSUME NEW v, NEW n, NEW s, IsFront(v, n, s)
    PROVE  /\ s \in Seq(Blocks) /\ Len(s) = n /\ \A k \in 1 .. n : s[k] = v[k]
           /\ Once(s) /\ ToSet(s) \subseteq ToSet(v)
           /\ \A x \in ToSet(s) : \E k \in 1 .. n : x = v[k]
<1>0. v \in Seq(Blocks) /\ Once(v) /\ n \in 0 .. Len(v) /\ s = SubSeq(v, 1, n)
    BY DEF IsFront
<1>1. s \in Seq(Blocks) /\ Len(s) = n /\ DOMAIN s = 1 .. n /\ \A k \in 1 .. n : s[k] = v[k]
    BY <1>0
<1>2. \A k \in 1 .. n : k \in DOMAIN v
    BY <1>0
<1>3. Once(s)
    BY <1>0, <1>1, <1>2 DEF Once
<1>4. ToSet(s) \subseteq ToSet(v) /\ \A x \in ToSet(s) : \E k \in 1 .. n : x = v[k]
    BY ONLY <1>1, <1>2 DEF ToSet
<1> QED BY <1>1, <1>3, <1>4

\* A list has no more nodes than there are blocks.
LEMMA ListFits ==
    ASSUME NEW v \in Seq(Blocks), Once(v)
    PROVE  Len(v) \in 0 .. Cardinality(Blocks)
<1>1. IsFiniteSet(Blocks) /\ Cardinality(Blocks) \in Nat
    BY FreeListAssumption, FS_CardinalityType
<1>2. v \in Injection(1 .. Len(v), Blocks)
    BY DEF Injection, IsInjective, Once
<1>3. Len(v) \in Nat /\ IsFiniteSet(1 .. Len(v)) /\ Cardinality(1 .. Len(v)) = Len(v)
    <2>1. Len(v) \in Nat
        OBVIOUS
    <2> DEFINE m == Len(v)
    <2>2. m \in Nat
        OBVIOUS
    <2> HIDE DEF m
    <2>3. IsFiniteSet(1 .. m) /\ Cardinality(1 .. m) = IF 1 > m THEN 0 ELSE m - 1 + 1
        BY <2>2, FS_Interval
    <2>4. Cardinality(1 .. m) = m
        BY <2>2, <2>3
    <2> QED BY <2>1, <2>3, <2>4 DEF m
<1>4. Cardinality(1 .. Len(v)) <= Cardinality(Blocks)
    BY <1>1, <1>2, <1>3, FS_Injection
<1> QED BY <1>1, <1>3, <1>4

-----------------------------------------------------------------------------
(* FreeList: the walk along the link words.                                *)

\* NextOf and Node, for the words in lk.
LnkNext(lk, b) == IF b = Nil THEN Nil ELSE lk[b]

LnkNode(lk, h, n) ==
    LET at[i \in 1 .. n] == IF i = 1 THEN h ELSE LnkNext(lk, at[i - 1])
    IN  at[n]

\* The equation of the recursive function that Node is defined by.
WalkLoop(g, lk, h, n) == g = [i \in 1 .. n |-> IF i = 1 THEN h ELSE LnkNext(lk, g[i - 1])]

\* c is a walk of n nodes from h.
Walk(c, lk, h, n) ==
    /\ c = [i \in 1 .. n |-> c[i]]
    /\ n >= 1 => c[1] = h
    /\ \A i \in 1 .. n - 1 : c[i + 1] = LnkNext(lk, c[i])

\* A walk is what the recursive function computes.
LEMMA WalkIsLoop ==
    ASSUME NEW lk, NEW h, NEW n \in Nat, NEW c
    PROVE  Walk(c, lk, h, n) <=> WalkLoop(c, lk, h, n)
<1>1. ASSUME Walk(c, lk, h, n) PROVE WalkLoop(c, lk, h, n)
    <2>1. /\ c = [i \in 1 .. n |-> c[i]] /\ (n >= 1 => c[1] = h)
          /\ \A i \in 1 .. n - 1 : c[i + 1] = LnkNext(lk, c[i])
        BY <1>1 DEF Walk
    <2>2. ASSUME NEW i \in 1 .. n PROVE c[i] = IF i = 1 THEN h ELSE LnkNext(lk, c[i - 1])
        <3>1. CASE i = 1
            BY <3>1, <2>1
        <3>2. CASE i # 1
            <4>1. i - 1 \in 1 .. n - 1 /\ (i - 1) + 1 = i
                BY <3>2
            <4> QED BY <4>1, <3>2, <2>1
        <3> QED BY <3>1, <3>2
    <2> QED BY <2>1, <2>2 DEF WalkLoop
<1>2. ASSUME WalkLoop(c, lk, h, n) PROVE Walk(c, lk, h, n)
    <2> DEFINE F == [i \in 1 .. n |-> IF i = 1 THEN h ELSE LnkNext(lk, c[i - 1])]
    <2>1. /\ DOMAIN F = 1 .. n /\ F = [i \in 1 .. n |-> F[i]]
          /\ \A i \in 1 .. n : F[i] = IF i = 1 THEN h ELSE LnkNext(lk, c[i - 1])
        OBVIOUS
    <2>2. c = F
        BY <1>2 DEF WalkLoop
    <2> HIDE DEF F
    <2>3. c = [i \in 1 .. n |-> c[i]]
        BY ONLY <2>1, <2>2
    <2>4. n >= 1 => c[1] = h
        <3>1. n >= 1 => 1 \in 1 .. n
            OBVIOUS
        <3>2. 1 \in 1 .. n => F[1] = h
            BY ONLY <2>1
        <3> QED BY ONLY <3>1, <3>2, <2>2
    <2>5. ASSUME NEW i \in 1 .. n - 1 PROVE c[i + 1] = LnkNext(lk, c[i])
        <3>1. i + 1 \in 1 .. n /\ i + 1 # 1 /\ (i + 1) - 1 = i
            OBVIOUS
        <3> QED BY <3>1, <2>1, <2>2
    <2> QED BY <2>3, <2>4, <2>5 DEF Walk
<1> QED BY <1>1, <1>2

\* Two walks from the same node are the same.
LEMMA WalksAgree ==
    ASSUME NEW lk, NEW h, NEW n \in Nat, NEW c, NEW d, Walk(c, lk, h, n), Walk(d, lk, h, n)
    PROVE  \A i \in 1 .. n : c[i] = d[i]
<1> DEFINE S == {m \in Nat : m + 1 \in 1 .. n => c[m + 1] = d[m + 1]}
<1>1. 0 \in S
    BY DEF Walk
<1>2. ASSUME NEW m \in Nat, m \in S PROVE m + 1 \in S
    <2>1. SUFFICES ASSUME (m + 1) + 1 \in 1 .. n PROVE c[(m + 1) + 1] = d[(m + 1) + 1]
        OBVIOUS
    <2>2. m + 1 \in 1 .. n - 1 /\ m + 1 \in 1 .. n
        BY <2>1
    <2>3. c[m + 1] = d[m + 1]
        BY <2>2, <1>2
    <2> QED BY <2>2, <2>3 DEF Walk
<1> HIDE DEF S
<1>3. \A m \in Nat : m \in S
    BY <1>1, <1>2, NatSetInduction
<1>4. ASSUME NEW i \in 1 .. n PROVE c[i] = d[i]
    <2>1. i - 1 \in Nat /\ (i - 1) + 1 = i
        OBVIOUS
    <2> QED BY <2>1, <1>3 DEF S
<1> QED BY <1>4

\* The node at the end of a walk.
LEMMA NodeOfWalk ==
    ASSUME NEW lk, NEW h, NEW n \in Nat \ {0}, NEW c, Walk(c, lk, h, n)
    PROVE  LnkNode(lk, h, n) = c[n]
<1> DEFINE g == CHOOSE f : f = [i \in 1 .. n |-> IF i = 1 THEN h ELSE LnkNext(lk, f[i - 1])]
<1>1. LnkNode(lk, h, n) = g[n]
    BY DEF LnkNode
<1>2. WalkLoop(c, lk, h, n)
    BY WalkIsLoop
<1>3. g = [i \in 1 .. n |-> IF i = 1 THEN h ELSE LnkNext(lk, g[i - 1])]
    BY <1>2 DEF WalkLoop
<1> HIDE DEF g
<1>4. Walk(g, lk, h, n)
    BY <1>3, WalkIsLoop DEF WalkLoop
<1>5. g[n] = c[n]
    BY <1>4, WalksAgree
<1> QED BY <1>1, <1>5

\* c is the chain of blocks behind h, down to the null link.
Path(lk, h, c) ==
    /\ c \in Seq(Blocks)
    /\ c = <<>> => h = Nil
    /\ c # <<>> => h = c[1] /\ lk[c[Len(c)]] = Nil
    /\ \A i \in 1 .. Len(c) - 1 : lk[c[i]] = c[i + 1]

\* What Node finds along a chain.
LEMMA PathNodes ==
    ASSUME NEW lk, NEW h, NEW c, Path(lk, h, c)
    PROVE  /\ \A i \in 1 .. Len(c) : LnkNode(lk, h, i) = c[i]
           /\ LnkNode(lk, h, Len(c) + 1) = Nil
<1> DEFINE L == Len(c)
<1>1. /\ c \in Seq(Blocks) /\ L \in Nat /\ DOMAIN c = 1 .. L
      /\ \A i \in 1 .. L : c[i] \in Blocks /\ c[i] # Nil
    BY FreeListAssumption DEF Path
<1>2. /\ L = 0 => h = Nil
      /\ L # 0 => h = c[1] /\ lk[c[L]] = Nil
      /\ \A i \in 1 .. L - 1 : lk[c[i]] = c[i + 1]
    BY <1>1 DEF Path
<1> HIDE DEF L
<1>3. ASSUME NEW i \in 1 .. L PROVE LnkNode(lk, h, i) = c[i]
    <2> DEFINE d == [j \in 1 .. i |-> c[j]]
    <2>1. d = [j \in 1 .. i |-> d[j]] /\ \A j \in 1 .. i : d[j] = c[j]
        OBVIOUS
    <2> HIDE DEF d
    <2>2. d[1] = h
        BY <2>1, <1>1, <1>2
    <2>3. ASSUME NEW j \in 1 .. i - 1 PROVE d[j + 1] = LnkNext(lk, d[j])
        <3>1. j \in 1 .. L - 1 /\ j \in 1 .. L /\ j \in 1 .. i /\ j + 1 \in 1 .. i
            BY <1>1
        <3> QED BY <3>1, <2>1, <1>1, <1>2 DEF LnkNext
    <2>4. Walk(d, lk, h, i)
        BY <2>1, <2>2, <2>3 DEF Walk
    <2>5. i \in Nat \ {0} /\ i \in 1 .. i
        BY <1>1
    <2>6. LnkNode(lk, h, i) = d[i]
        BY ONLY <2>4, <2>5, NodeOfWalk
    <2> QED BY <2>1, <2>5, <2>6
<1>4. LnkNode(lk, h, L + 1) = Nil
    <2> DEFINE d == [j \in 1 .. L + 1 |-> IF j = L + 1 THEN Nil ELSE c[j]]
    <2>1. /\ d = [j \in 1 .. L + 1 |-> d[j]]
          /\ \A j \in 1 .. L : d[j] = c[j]
          /\ d[L + 1] = Nil
        BY <1>1
    <2> HIDE DEF d
    <2>2. d[1] = h
        <3>1. CASE L = 0
            <4>1. d[1] = Nil
                BY <3>1, <2>1
            <4> QED BY <4>1, <3>1, <1>2
        <3>2. CASE L # 0
            <4>1. 1 \in 1 .. L
                BY <3>2, <1>1
            <4> QED BY <4>1, <3>2, <2>1, <1>2
        <3> QED BY <3>1, <3>2
    <2>3. ASSUME NEW j \in 1 .. (L + 1) - 1 PROVE d[j + 1] = LnkNext(lk, d[j])
        <3>1. j \in 1 .. L
            BY <1>1
        <3>2. CASE j = L
            <4>1. L # 0 /\ L \in 1 .. L
                BY <3>1, <3>2, <1>1
            <4>2. d[j + 1] = Nil /\ d[j] = c[L] /\ c[L] # Nil /\ lk[c[L]] = Nil
                BY ONLY <4>1, <3>2, <2>1, <1>1, <1>2
            <4> QED BY <4>2 DEF LnkNext
        <3>3. CASE j # L
            <4>1. j \in 1 .. L - 1 /\ j + 1 \in 1 .. L
                BY <3>1, <3>3, <1>1
            <4> QED BY <4>1, <3>1, <2>1, <1>1, <1>2 DEF LnkNext
        <3> QED BY <3>2, <3>3
    <2>4. Walk(d, lk, h, L + 1)
        BY <2>1, <2>2, <2>3 DEF Walk
    <2>5. L + 1 \in Nat \ {0}
        BY <1>1
    <2>6. LnkNode(lk, h, L + 1) = d[L + 1]
        BY ONLY <2>4, <2>5, NodeOfWalk
    <2> QED BY <2>1, <2>6
<1> QED BY <1>3, <1>4 DEF L

\* A word off the chain is rewritten: the chain stays.
LEMMA PathKept ==
    ASSUME NEW lk, NEW h, NEW c, Path(lk, h, c), lk \in [Blocks -> Ref],
           NEW b, NEW w, b \notin ToSet(c), NEW m, m = [lk EXCEPT ![b] = w]
    PROVE  Path(m, h, c)
<1>1. c \in Seq(Blocks) /\ Len(c) \in Nat /\ DOMAIN c = 1 .. Len(c)
    BY DEF Path
<1>2. ASSUME NEW i \in 1 .. Len(c) PROVE m[c[i]] = lk[c[i]]
    <2>1. c[i] \in Blocks /\ c[i] # b
        BY <1>1 DEF ToSet
    <2> QED BY <2>1
<1>3. c # <<>> => Len(c) \in 1 .. Len(c)
    BY <1>1
<1>4. \A i \in 1 .. Len(c) - 1 : i \in 1 .. Len(c)
    BY <1>1
<1> QED BY ONLY <1>1, <1>2, <1>3, <1>4, Path(lk, h, c) DEF Path

\* A block in front of a chain, its word set to the old head.
LEMMA PathPush ==
    ASSUME NEW lk, NEW h, NEW c, Path(lk, h, c), lk \in [Blocks -> Ref],
           NEW b \in Blocks, b \notin ToSet(c), NEW m, m = [lk EXCEPT ![b] = h],
           NEW d, d = <<b>> \o c
    PROVE  Path(m, b, d)
<1> DEFINE L == Len(c)
<1>1. /\ Path(m, h, c) /\ c \in Seq(Blocks) /\ L \in Nat /\ (c = <<>> <=> L = 0)
      /\ DOMAIN c = 1 .. L
    <2>1. Path(m, h, c)
        BY PathKept
    <2>2. c \in Seq(Blocks)
        BY DEF Path
    <2> QED BY <2>1, <2>2
<1>2. m[b] = h
    OBVIOUS
<1>3. /\ d \in Seq(Blocks) /\ Len(d) = L + 1 /\ d # <<>>
      /\ d[1] = b /\ \A k \in 1 .. L : d[k + 1] = c[k]
    <2>1. d \in Seq(Blocks) /\ Len(d) = L + 1
        BY <1>1, PrependIs
    <2>2. d[1] = b /\ \A k \in 1 .. L : d[k + 1] = c[k]
        BY <1>1
    <2> HIDE DEF L
    <2> QED BY <2>1, <2>2, <1>1
<1>4. /\ L = 0 => h = Nil
      /\ L # 0 => h = c[1] /\ m[c[L]] = Nil
      /\ \A i \in 1 .. L - 1 : m[c[i]] = c[i + 1]
    BY <1>1 DEF Path
<1> HIDE DEF L
<1>5. m[d[L + 1]] = Nil
    <2>1. CASE L = 0
        BY <2>1, <1>2, <1>3, <1>4
    <2>2. CASE L # 0
        <3>1. L \in 1 .. L
            BY <2>2, <1>1
        <3> QED BY <3>1, <2>2, <1>3, <1>4
    <2> QED BY <2>1, <2>2
<1>6. ASSUME NEW i \in 1 .. (L + 1) - 1 PROVE m[d[i]] = d[i + 1]
    <2>1. CASE i = 1
        <3>1. L # 0 /\ 1 \in 1 .. L
            BY <2>1, <1>1
        <3>2. d[i + 1] = c[1] /\ d[i] = b
            BY <2>1, <3>1, <1>3
        <3> QED BY <3>1, <3>2, <1>2, <1>4
    <2>2. CASE i # 1
        <3>1. /\ i - 1 \in 1 .. L - 1 /\ i - 1 \in 1 .. L /\ i \in 1 .. L
              /\ (i - 1) + 1 = i
            BY <2>2, <1>1
        <3>2. d[i] = c[i - 1] /\ d[i + 1] = c[i]
            BY <3>1, <1>3
        <3> QED BY <3>1, <3>2, <1>4
    <2> QED BY <2>1, <2>2
<1> QED BY ONLY <1>3, <1>5, <1>6 DEF Path

\* The chain behind its n-th node.
LEMMA PathDrop ==
    ASSUME NEW lk, NEW h, NEW c, Path(lk, h, c), NEW n \in 1 .. Len(c),
           NEW d, d = SubSeq(c, n + 1, Len(c))
    PROVE  Path(lk, LnkNext(lk, c[n]), d)
<1> DEFINE L == Len(c)
<1>1. /\ c \in Seq(Blocks) /\ L \in Nat /\ DOMAIN c = 1 .. L /\ n \in 1 .. L /\ n \in 0 .. L
      /\ c[n] \in Blocks /\ c[n] # Nil
    BY FreeListAssumption DEF Path
<1>2. d \in Seq(Blocks) /\ Len(d) = L - n /\ \A k \in 1 .. L - n : d[k] = c[n + k]
    BY <1>1, RestIs
<1>3. /\ lk[c[L]] = Nil
      /\ \A i \in 1 .. L - 1 : lk[c[i]] = c[i + 1]
    BY <1>1 DEF Path
<1> HIDE DEF L
<1>4. d = <<>> <=> L - n = 0
    <2>1. d = <<>> <=> Len(d) = 0
        BY ONLY <1>2
    <2> QED BY <1>2, <2>1
<1>5. LnkNext(lk, c[n]) = lk[c[n]]
    BY <1>1 DEF LnkNext
<1>6. CASE L = n
    <2>1. d = <<>> /\ lk[c[n]] = Nil
        BY <1>6, <1>1, <1>3, <1>4
    <2>2. 1 .. Len(d) - 1 = {}
        BY <1>6, <1>1, <1>2
    <2> QED BY ONLY <2>1, <2>2, <1>2, <1>5 DEF Path
<1>7. CASE L # n
    <2>1. /\ 1 \in 1 .. L - n /\ L - n \in 1 .. L - n /\ n + (L - n) = L
          /\ n \in 1 .. L - 1 /\ L - n # 0
        BY <1>7, <1>1
    <2>2. d[1] = lk[c[n]] /\ lk[d[L - n]] = Nil
        BY <2>1, <1>2, <1>3
    <2>3. ASSUME NEW i \in 1 .. (L - n) - 1 PROVE lk[d[i]] = d[i + 1]
        <3>1. /\ i \in 1 .. L - n /\ i + 1 \in 1 .. L - n /\ n + i \in 1 .. L - 1
              /\ n + (i + 1) = (n + i) + 1
            BY <1>1
        <3> QED BY <3>1, <1>2, <1>3
    <2> QED BY ONLY <2>1, <2>2, <2>3, <1>2, <1>4, <1>5 DEF Path
<1> QED BY <1>6, <1>7

\* The first n nodes of a chain, cut off behind the last of them.
LEMMA PathTake ==
    ASSUME NEW lk, NEW h, NEW c, Path(lk, h, c), Once(c), lk \in [Blocks -> Ref],
           NEW n \in 1 .. Len(c),
           NEW d, d = SubSeq(c, 1, n), NEW m, m = [lk EXCEPT ![c[n]] = Nil]
    PROVE  Path(m, h, d)
<1> DEFINE L == Len(c)
<1>1. /\ c \in Seq(Blocks) /\ L \in Nat /\ DOMAIN c = 1 .. L /\ n \in 1 .. L /\ n \in 0 .. L
      /\ \A i \in 1 .. L : c[i] \in Blocks
    BY DEF Path
<1>2. d \in Seq(Blocks) /\ Len(d) = n /\ d # <<>> /\ \A k \in 1 .. n : d[k] = c[k]
    <2>1. d \in Seq(Blocks) /\ Len(d) = n /\ \A k \in 1 .. n : d[k] = c[k]
        BY <1>1, ListTake DEF IsFront
    <2>2. n # 0
        OBVIOUS
    <2> QED BY <2>1, <2>2
<1>3. /\ h = c[1]
      /\ \A i \in 1 .. L - 1 : lk[c[i]] = c[i + 1]
    BY <1>1 DEF Path
<1>4. \A i, j \in 1 .. L : c[i] = c[j] => i = j
    BY <1>1 DEF Once
<1> HIDE DEF L
<1>5. m[d[n]] = Nil /\ d[1] = h
    BY <1>1, <1>2, <1>3
<1>6. ASSUME NEW i \in 1 .. n - 1 PROVE m[d[i]] = d[i + 1]
    <2>1. i \in 1 .. n /\ i + 1 \in 1 .. n /\ i \in 1 .. L - 1 /\ i \in 1 .. L /\ i # n
        BY <1>1
    <2>2. c[i] # c[n] /\ c[i] \in Blocks
        BY ONLY <2>1, <1>1, <1>4
    <2>3. m[c[i]] = lk[c[i]]
        BY <2>2
    <2> QED BY <2>1, <2>3, <1>2, <1>3
<1> QED BY ONLY <1>2, <1>5, <1>6 DEF Path

\* A chain spliced in front of another: its last word is set to the other's head.
LEMMA PathJoin ==
    ASSUME NEW lk, NEW h, NEW c, Path(lk, h, c), Once(c), lk \in [Blocks -> Ref], c # <<>>,
           NEW g, NEW e, Path(lk, g, e), ToSet(c) \cap ToSet(e) = {},
           NEW d, d = c \o e, NEW m, m = [lk EXCEPT ![c[Len(c)]] = g]
    PROVE  Path(m, h, d)
<1> DEFINE L == Len(c)
           E == Len(e)
           z == c[Len(c)]
<1>1. /\ c \in Seq(Blocks) /\ L \in Nat /\ L # 0 /\ DOMAIN c = 1 .. L
      /\ e \in Seq(Blocks) /\ E \in Nat /\ DOMAIN e = 1 .. E
      /\ \A i \in 1 .. L : c[i] \in Blocks
    BY DEF Path
<1>2. z \in Blocks /\ z \in ToSet(c) /\ z \notin ToSet(e) /\ m[z] = g
    <2>1. L \in 1 .. L
        BY <1>1
    <2>2. z \in Blocks /\ z \in ToSet(c)
        BY <1>1, <2>1 DEF ToSet
    <2>3. m = [lk EXCEPT ![z] = g]
        OBVIOUS
    <2> HIDE DEF z
    <2> QED BY <2>2, <2>3
<1>3. Path(m, g, e)
    <2> HIDE DEF z
    <2>1. m = [lk EXCEPT ![z] = g]
        BY DEF z
    <2> QED BY ONLY <2>1, <1>2, Path(lk, g, e), lk \in [Blocks -> Ref], PathKept
<1>4. /\ d \in Seq(Blocks) /\ Len(d) = L + E
      /\ \A k \in 1 .. L : d[k] = c[k]
      /\ \A k \in 1 .. E : d[L + k] = e[k]
    BY <1>1, ConcatIs
<1>5. h = c[1] /\ \A i \in 1 .. L - 1 : lk[c[i]] = c[i + 1]
    BY <1>1 DEF Path
<1>6. /\ E = 0 => g = Nil
      /\ E # 0 => g = e[1] /\ m[e[E]] = Nil
      /\ \A i \in 1 .. E - 1 : m[e[i]] = e[i + 1]
    BY <1>1, <1>3 DEF Path
<1>7. \A i, j \in 1 .. L : c[i] = c[j] => i = j
    BY <1>1 DEF Once
<1>8. z = c[L]
    OBVIOUS
<1>9. d # <<>>
    <2> HIDE DEF L, E, z
    <2> QED BY <1>1, <1>4
<1> HIDE DEF L, E, z
<1>10. d[1] = h
    BY <1>1, <1>4, <1>5
<1>11. m[d[L + E]] = Nil
    <2>1. CASE E = 0
        <3>1. L + E = L /\ L \in 1 .. L
            BY <2>1, <1>1
        <3> QED BY <3>1, <2>1, <1>2, <1>4, <1>6, <1>8
    <2>2. CASE E # 0
        <3>1. E \in 1 .. E
            BY <2>2, <1>1
        <3> QED BY <3>1, <2>2, <1>4, <1>6
    <2> QED BY <2>1, <2>2
<1>12. ASSUME NEW i \in 1 .. (L + E) - 1 PROVE m[d[i]] = d[i + 1]
    <2>1. CASE i < L
        <3>1. i \in 1 .. L /\ i + 1 \in 1 .. L /\ i \in 1 .. L - 1 /\ L \in 1 .. L /\ i # L
            BY <2>1, <1>1
        <3>2. c[i] # z /\ c[i] \in Blocks
            BY ONLY <3>1, <1>1, <1>7, <1>8
        <3>3. m[c[i]] = lk[c[i]]
            BY <3>2 DEF z
        <3> QED BY <3>1, <3>3, <1>4, <1>5
    <2>2. CASE i = L
        <3>1. E # 0 /\ 1 \in 1 .. E /\ L \in 1 .. L
            BY <2>2, <1>1
        <3> QED BY <3>1, <2>2, <1>2, <1>4, <1>6, <1>8
    <2>3. CASE i > L
        <3>1. /\ i - L \in 1 .. E /\ i - L \in 1 .. E - 1 /\ (i - L) + 1 \in 1 .. E
              /\ L + (i - L) = i /\ L + ((i - L) + 1) = i + 1
            BY <2>3, <1>1
        <3>2. d[i] = e[i - L] /\ d[i + 1] = e[(i - L) + 1]
            BY ONLY <3>1, <1>4
        <3>3. m[e[i - L]] = e[(i - L) + 1]
            BY ONLY <3>1, <1>6
        <3> QED BY ONLY <3>2, <3>3
    <2> QED BY <2>1, <2>2, <2>3, <1>1
<1> QED BY ONLY <1>4, <1>9, <1>10, <1>11, <1>12 DEF Path

-----------------------------------------------------------------------------
(* FreeList: the arrangement of the blocks on lists and batches.           *)

Places == Lists \cup Batches

ListRecord == [head : Ref, len : Nat]

BatchRecord == [head : Ref, tail : Ref, len : Nat]

\* No block is on two lists or batches, or twice on one.
Apart(P) ==
    \A x \in Places : /\ Once(P[x])
                      /\ \A y \in Places : x # y => ToSet(P[x]) \cap ToSet(P[y]) = {}

ListIs(lk, r, c) == Path(lk, r.head, c) /\ r.len = Len(c)

\* The tail of a batch is the last of its blocks.
BatchIs(lk, r, c) ==
    /\ Path(lk, r.head, c) /\ r.len = Len(c)
    /\ c = <<>> => r.tail = Nil
    /\ c # <<>> => r.tail = c[Len(c)]

\* The words lk, the lists ls and the batches bt hold the sequences P of blocks.
Arranged(lk, ls, bt, P) ==
    /\ lk \in [Blocks -> Ref]
    /\ ls \in [Lists -> ListRecord]
    /\ bt \in [Batches -> BatchRecord]
    /\ P \in [Places -> Seq(Blocks)]
    /\ Apart(P)
    /\ \A l \in Lists : ListIs(lk, ls[l], P[l])
    /\ \A k \in Batches : BatchIs(lk, bt[k], P[k])

\* The inductive invariant: some arrangement is what the words hold.
ChainInv == \E P : Arranged(link, list, batch, P)

\* The chain c survives the change of the words from lk to m.
Spares(lk, m, c) == \A h : Path(lk, h, c) => Path(m, h, c)

\* The words that change are not on the chain.
LEMMA OffChain ==
    ASSUME NEW lk \in [Blocks -> Ref], NEW c, NEW b, NEW w, b \notin ToSet(c), NEW m,
           m = [lk EXCEPT ![b] = w]
    PROVE  Spares(lk, m, c)
BY PathKept DEF Spares

\* One place gets other blocks, and the places stay apart.
LEMMA PlaceChange ==
    ASSUME NEW P \in [Places -> Seq(Blocks)], Apart(P), NEW x \in Places, NEW c \in Seq(Blocks),
           Once(c), \A y \in Places : y # x => ToSet(c) \cap ToSet(P[y]) = {},
           NEW Q, Q = [P EXCEPT ![x] = c]
    PROVE  /\ Q \in [Places -> Seq(Blocks)] /\ Apart(Q)
           /\ Q[x] = c /\ \A y \in Places : y # x => Q[y] = P[y]
<1>1. Q \in [Places -> Seq(Blocks)] /\ Q[x] = c /\ \A y \in Places : y # x => Q[y] = P[y]
    OBVIOUS
<1>2. ASSUME NEW y \in Places PROVE Once(Q[y])
    BY <1>1 DEF Apart
<1>3. ASSUME NEW y \in Places, NEW z \in Places, y # z PROVE ToSet(Q[y]) \cap ToSet(Q[z]) = {}
    <2>1. CASE y = x
        BY <2>1, <1>1, <1>3
    <2>2. CASE z = x
        BY <2>2, <1>1, <1>3
    <2>3. CASE y # x /\ z # x
        BY <2>3, <1>1, <1>3 DEF Apart
    <2> QED BY <2>1, <2>2, <2>3
<1> QED BY <1>1, <1>2, <1>3 DEF Apart

\* What a change of the list l has to keep, with c its new blocks.
ListChange(lk, m, l, r, c, P) ==
    /\ m \in [Blocks -> Ref] /\ r \in ListRecord /\ c \in Seq(Blocks) /\ Once(c)
    /\ \A y \in Places : y # l => ToSet(c) \cap ToSet(P[y]) = {} /\ Spares(lk, m, P[y])
    /\ ListIs(m, r, c)

\* The same for a batch.
BatchChange(lk, m, k, r, c, P) ==
    /\ m \in [Blocks -> Ref] /\ r \in BatchRecord /\ c \in Seq(Blocks) /\ Once(c)
    /\ \A y \in Places : y # k => ToSet(c) \cap ToSet(P[y]) = {} /\ Spares(lk, m, P[y])
    /\ BatchIs(m, r, c)

\* A change of one list.
LEMMA ListChanged ==
    ASSUME NEW lk, NEW ls, NEW bt, NEW P, Arranged(lk, ls, bt, P), NEW l \in Lists,
           NEW m, NEW r, NEW c, ListChange(lk, m, l, r, c, P)
    PROVE  Arranged(m, [ls EXCEPT ![l] = r], bt, [P EXCEPT ![l] = c])
<1> DEFINE Q == [P EXCEPT ![l] = c]
           t == [ls EXCEPT ![l] = r]
<1>1. l \in Places /\ l \notin Batches
    BY FreeListAssumption DEF Places
<1>2. /\ ls \in [Lists -> ListRecord] /\ bt \in [Batches -> BatchRecord]
      /\ P \in [Places -> Seq(Blocks)] /\ Apart(P)
    BY DEF Arranged
<1>3. /\ m \in [Blocks -> Ref] /\ r \in ListRecord /\ c \in Seq(Blocks) /\ Once(c)
      /\ \A y \in Places : y # l => ToSet(c) \cap ToSet(P[y]) = {}
      /\ ListIs(m, r, c)
    BY DEF ListChange
<1>4. \A y \in Places : y # l => Spares(lk, m, P[y])
    BY DEF ListChange
<1>5. /\ Q \in [Places -> Seq(Blocks)] /\ Apart(Q)
      /\ Q[l] = c /\ \A y \in Places : y # l => Q[y] = P[y]
    BY ZenonT(40), <1>1, <1>2, <1>3, PlaceChange
<1>6. t \in [Lists -> ListRecord] /\ t[l] = r /\ \A x \in Lists : x # l => t[x] = ls[x]
    BY <1>2, <1>3
<1> HIDE DEF Q, t
<1>7. ASSUME NEW x \in Lists PROVE ListIs(m, t[x], Q[x])
    <2>1. CASE x = l
        BY <2>1, <1>3, <1>5, <1>6
    <2>2. CASE x # l
        <3>1. x \in Places /\ Q[x] = P[x] /\ t[x] = ls[x]
            BY <2>2, <1>5, <1>6 DEF Places
        <3>2. ListIs(lk, ls[x], P[x]) /\ Spares(lk, m, P[x])
            BY <3>1, <2>2, <1>4 DEF Arranged
        <3> QED BY <3>1, <3>2 DEF ListIs, Spares
    <2> QED BY <2>1, <2>2
<1>8. ASSUME NEW k \in Batches PROVE BatchIs(m, bt[k], Q[k])
    <2>1. k \in Places /\ k # l
        BY <1>1 DEF Places
    <2>2. BatchIs(lk, bt[k], P[k]) /\ Spares(lk, m, P[k]) /\ Q[k] = P[k]
        BY <2>1, <1>4, <1>5 DEF Arranged
    <2> QED BY <2>2 DEF BatchIs, Spares
<1> QED BY <1>2, <1>3, <1>5, <1>6, <1>7, <1>8 DEF Arranged, Q, t

\* A change of one batch.
LEMMA BatchChanged ==
    ASSUME NEW lk, NEW ls, NEW bt, NEW P, Arranged(lk, ls, bt, P), NEW k \in Batches,
           NEW m, NEW r, NEW c, BatchChange(lk, m, k, r, c, P)
    PROVE  Arranged(m, ls, [bt EXCEPT ![k] = r], [P EXCEPT ![k] = c])
<1> DEFINE Q == [P EXCEPT ![k] = c]
           t == [bt EXCEPT ![k] = r]
<1>1. k \in Places /\ k \notin Lists
    BY FreeListAssumption DEF Places
<1>2. /\ ls \in [Lists -> ListRecord] /\ bt \in [Batches -> BatchRecord]
      /\ P \in [Places -> Seq(Blocks)] /\ Apart(P)
    BY DEF Arranged
<1>3. /\ m \in [Blocks -> Ref] /\ r \in BatchRecord /\ c \in Seq(Blocks) /\ Once(c)
      /\ \A y \in Places : y # k => ToSet(c) \cap ToSet(P[y]) = {}
      /\ BatchIs(m, r, c)
    BY DEF BatchChange
<1>4. \A y \in Places : y # k => Spares(lk, m, P[y])
    BY DEF BatchChange
<1>5. /\ Q \in [Places -> Seq(Blocks)] /\ Apart(Q)
      /\ Q[k] = c /\ \A y \in Places : y # k => Q[y] = P[y]
    BY ZenonT(40), <1>1, <1>2, <1>3, PlaceChange
<1>6. t \in [Batches -> BatchRecord] /\ t[k] = r /\ \A x \in Batches : x # k => t[x] = bt[x]
    BY <1>2, <1>3
<1> HIDE DEF Q, t
<1>7. ASSUME NEW x \in Batches PROVE BatchIs(m, t[x], Q[x])
    <2>1. CASE x = k
        BY <2>1, <1>3, <1>5, <1>6
    <2>2. CASE x # k
        <3>1. x \in Places /\ Q[x] = P[x] /\ t[x] = bt[x]
            BY <2>2, <1>5, <1>6 DEF Places
        <3>2. BatchIs(lk, bt[x], P[x]) /\ Spares(lk, m, P[x])
            BY <3>1, <2>2, <1>4 DEF Arranged
        <3> QED BY <3>1, <3>2 DEF BatchIs, Spares
    <2> QED BY <2>1, <2>2
<1>8. ASSUME NEW l \in Lists PROVE ListIs(m, ls[l], Q[l])
    <2>1. l \in Places /\ l # k
        BY <1>1 DEF Places
    <2>2. ListIs(lk, ls[l], P[l]) /\ Spares(lk, m, P[l]) /\ Q[l] = P[l]
        BY <2>1, <1>4, <1>5 DEF Arranged
    <2> QED BY <2>2 DEF ListIs, Spares
<1> QED BY <1>2, <1>3, <1>5, <1>6, <1>7, <1>8 DEF Arranged, Q, t

\* The facts about one place of an arrangement.
LEMMA PlaceFacts ==
    ASSUME NEW lk, NEW ls, NEW bt, NEW P, Arranged(lk, ls, bt, P)
    PROVE  /\ lk \in [Blocks -> Ref]
           /\ \A x \in Places : P[x] \in Seq(Blocks) /\ Once(P[x])
           /\ \A x, y \in Places : x # y => ToSet(P[x]) \cap ToSet(P[y]) = {}
           /\ \A l \in Lists : /\ ls[l] \in ListRecord /\ Path(lk, ls[l].head, P[l])
                               /\ ls[l].len = Len(P[l])
           /\ \A k \in Batches : /\ bt[k] \in BatchRecord /\ Path(lk, bt[k].head, P[k])
                                 /\ bt[k].len = Len(P[k])
                                 /\ P[k] = <<>> => bt[k].tail = Nil
                                 /\ P[k] # <<>> => bt[k].tail = P[k][Len(P[k])]
BY DEF Arranged, Apart, ListIs, BatchIs

\* The same for one list.
LEMMA ListFacts ==
    ASSUME NEW lk, NEW ls, NEW bt, NEW P, Arranged(lk, ls, bt, P), NEW l \in Lists
    PROVE  /\ lk \in [Blocks -> Ref] /\ P[l] \in Seq(Blocks) /\ Once(P[l]) /\ l \in Places
           /\ ls[l] \in ListRecord /\ Path(lk, ls[l].head, P[l]) /\ ls[l].len = Len(P[l])
           /\ \A y \in Places : y # l => ToSet(P[l]) \cap ToSet(P[y]) = {}
<1>1. l \in Places
    BY DEF Places
<1> QED BY <1>1 DEF Arranged, Apart, ListIs

\* The same for one batch.
LEMMA BatchFacts ==
    ASSUME NEW lk, NEW ls, NEW bt, NEW P, Arranged(lk, ls, bt, P), NEW k \in Batches
    PROVE  /\ lk \in [Blocks -> Ref] /\ P[k] \in Seq(Blocks) /\ Once(P[k]) /\ k \in Places
           /\ bt[k] \in BatchRecord /\ Path(lk, bt[k].head, P[k]) /\ bt[k].len = Len(P[k])
           /\ P[k] = <<>> => bt[k].tail = Nil
           /\ P[k] # <<>> => bt[k].tail = P[k][Len(P[k])]
           /\ \A y \in Places : y # k => ToSet(P[k]) \cap ToSet(P[y]) = {}
<1>1. k \in Places
    BY DEF Places
<1> QED BY <1>1 DEF Arranged, Apart, BatchIs

\* Chain, for the words in lk.
LnkChain(lk, h, n) == [i \in 1 .. n |-> LnkNode(lk, h, i)]

\* The chain of the head and length of a list is its sequence of blocks.
LEMMA ChainOfPath ==
    ASSUME NEW lk, NEW h, NEW c, Path(lk, h, c)
    PROVE  LnkChain(lk, h, Len(c)) = c
<1>1. c \in Seq(Blocks) /\ \A i \in 1 .. Len(c) : LnkNode(lk, h, i) = c[i]
    <2>1. c \in Seq(Blocks)
        BY DEF Path
    <2>2. \A i \in 1 .. Len(c) : LnkNode(lk, h, i) = c[i]
        BY PathNodes
    <2> QED BY <2>1, <2>2
<1>2. c = [i \in 1 .. Len(c) |-> c[i]]
    BY <1>1
<1> QED BY ONLY <1>1, <1>2 DEF LnkChain

\* Node, NextOf and Chain read the words that link holds.
LEMMA ReadsLink ==
    /\ \A h, n : Node(h, n) = LnkNode(link, h, n)
    /\ \A h, n : Chain(h, n) = LnkChain(link, h, n)
    /\ \A b : NextOf(b) = LnkNext(link, b)
<1>1. ASSUME NEW b PROVE NextOf(b) = LnkNext(link, b)
    BY DEF NextOf, LnkNext
<1>2. ASSUME NEW h, NEW n PROVE Node(h, n) = LnkNode(link, h, n)
    BY DEF Node, LnkNode, NextOf, LnkNext
<1>3. ASSUME NEW h, NEW n PROVE Chain(h, n) = LnkChain(link, h, n)
    BY <1>2 DEF Chain, LnkChain
<1> QED BY <1>1, <1>2, <1>3

\* The same after a step.
LEMMA ReadsLinkNext == (\A h, n : Chain(h, n) = LnkChain(link, h, n))'
<1>1. ASSUME NEW h, NEW n PROVE Chain(h, n)' = LnkChain(link', h, n)
    BY DEF Chain, LnkChain, Node, LnkNode, NextOf, LnkNext
<1> QED BY <1>1

\* The blocks on the chains of an arrangement, and those on none.
LEMMA LinkedIs ==
    ASSUME NEW P, Arranged(link, list, batch, P)
    PROVE  /\ \A l \in Lists : Chain(list[l].head, list[l].len) = P[l]
           /\ \A k \in Batches : Chain(batch[k].head, batch[k].len) = P[k]
           /\ \A b \in Detached : b \in Blocks /\ \A x \in Places : b \notin ToSet(P[x])
<1>1. ASSUME NEW l \in Lists PROVE Chain(list[l].head, list[l].len) = P[l]
    BY PlaceFacts, ChainOfPath, ReadsLink
<1>2. ASSUME NEW k \in Batches PROVE Chain(batch[k].head, batch[k].len) = P[k]
    BY PlaceFacts, ChainOfPath, ReadsLink
<1>3. ASSUME NEW b \in Detached PROVE b \in Blocks /\ \A x \in Places : b \notin ToSet(P[x])
    <2>1. b \in Blocks /\ b \notin Linked
        BY DEF Detached
    <2>2. ASSUME NEW l \in Lists PROVE b \notin ToSet(P[l])
        <3>1. b \notin ToSet(Chain(list[l].head, list[l].len))
            BY <2>1 DEF Linked
        <3> QED BY <3>1, <1>1
    <2>3. ASSUME NEW k \in Batches PROVE b \notin ToSet(P[k])
        <3>1. b \notin ToSet(Chain(batch[k].head, batch[k].len))
            BY <2>1 DEF Linked
        <3> QED BY <3>1, <1>2
    <2> QED BY <2>1, <2>2, <2>3 DEF Places
<1> QED BY <1>1, <1>2, <1>3

-----------------------------------------------------------------------------
(* FreeList: each operation moves from one arrangement to another.         *)

\* The lists are arranged as nothing at first.
LEMMA StartArranged ==
    ListInit => Arranged(link, list, batch, [x \in Places |-> <<>>])
<1> SUFFICES ASSUME ListInit PROVE Arranged(link, list, batch, [x \in Places |-> <<>>])
    OBVIOUS
<1> DEFINE P == [x \in Places |-> <<>>]
<1>1. P \in [Places -> Seq(Blocks)] /\ \A x \in Places : P[x] = <<>>
    OBVIOUS
<1>2. Apart(P)
    BY <1>1 DEF Apart, Once, ToSet
<1>3. link \in [Blocks -> Ref] /\ list \in [Lists -> ListRecord] /\ batch \in [Batches -> BatchRecord]
    BY DEF ListInit, NewList, EmptyBatch, ListRecord, BatchRecord, Ref
<1>4. ASSUME NEW lk PROVE Path(lk, Nil, <<>>)
    BY DEF Path
<1>5. ASSUME NEW l \in Lists PROVE ListIs(link, list[l], P[l])
    <2>1. list[l].head = Nil /\ list[l].len = 0
        BY DEF ListInit, NewList
    <2>2. P[l] = <<>>
        BY <1>1 DEF Places
    <2> QED BY ONLY <2>1, <2>2, <1>4 DEF ListIs
<1>6. ASSUME NEW k \in Batches PROVE BatchIs(link, batch[k], P[k])
    <2>1. batch[k].head = Nil /\ batch[k].len = 0 /\ batch[k].tail = Nil
        BY DEF ListInit, EmptyBatch
    <2>2. P[k] = <<>>
        BY <1>1 DEF Places
    <2> QED BY ONLY <2>1, <2>2, <1>4 DEF BatchIs
<1> HIDE DEF P
<1>7. Arranged(link, list, batch, P)
    BY  <1>1, <1>2, <1>3, <1>5, <1>6 DEF Arranged
<1> QED BY <1>7 DEF P

\* push_block
LEMMA PushBlockArranges ==
    ASSUME NEW P, Arranged(link, list, batch, P), NEW l \in Lists, NEW b, PushBlock(l, b)
    PROVE  Arranged(link', list', batch', [P EXCEPT ![l] = <<b>> \o P[l]])
<1> DEFINE c == <<b>> \o P[l]
           r == [head |-> b, len |-> list[l].len + 1]
<1>1. /\ link' = [link EXCEPT ![b] = list[l].head] /\ b \in Detached
      /\ list' = [list EXCEPT ![l] = r] /\ batch' = batch
    BY DEF PushBlock
<1>2. b \in Blocks /\ \A x \in Places : b \notin ToSet(P[x])
    BY <1>1, LinkedIs
<1>3. /\ link \in [Blocks -> Ref] /\ P[l] \in Seq(Blocks) /\ Once(P[l]) /\ l \in Places
      /\ list[l] \in ListRecord /\ Path(link, list[l].head, P[l]) /\ list[l].len = Len(P[l])
      /\ \A y \in Places : y # l => ToSet(P[l]) \cap ToSet(P[y]) = {}
    BY ListFacts
<1>4. /\ c \in Seq(Blocks) /\ Len(c) = Len(P[l]) + 1
      /\ Once(c) /\ ToSet(c) = ToSet(P[l]) \cup {b}
    BY <1>2, <1>3, ListPush
<1>5. Path(link', b, c)
    BY <1>1, <1>2, <1>3, PathPush
<1> HIDE DEF c
<1>6. link' \in [Blocks -> Ref]
    BY <1>1, <1>3 DEF ListRecord
<1>7. r \in ListRecord /\ r.head = b /\ r.len = Len(P[l]) + 1
    BY <1>2, <1>3 DEF ListRecord, Ref
<1>8. \A y \in Places : y # l => ToSet(c) \cap ToSet(P[y]) = {}
    BY <1>2, <1>3, <1>4
<1>9. \A y \in Places : y # l => Spares(link, link', P[y])
    BY <1>1, <1>2, <1>3, OffChain
<1> HIDE DEF r
<1>10. ListChange(link, link', l, r, c, P)
    BY <1>4, <1>5, <1>6, <1>7, <1>8, <1>9 DEF ListChange, ListIs
<1> QED BY <1>1, <1>10, ListChanged DEF c

\* A list loses its first n nodes, the words stay.
LEMMA DropArranges ==
    ASSUME NEW lk, NEW ls, NEW bt, NEW P, Arranged(lk, ls, bt, P), NEW l \in Lists,
           NEW n \in 1 .. Len(P[l]), NEW r,
           r = [head |-> LnkNext(lk, P[l][n]), len |-> ls[l].len - n]
    PROVE  Arranged(lk, [ls EXCEPT ![l] = r], bt, [P EXCEPT ![l] = SubSeq(P[l], n + 1, Len(P[l]))])
<1> DEFINE p == P[l]
           c == SubSeq(p, n + 1, Len(p))
<1>1. /\ lk \in [Blocks -> Ref] /\ p \in Seq(Blocks) /\ Once(p) /\ l \in Places
      /\ ls[l] \in ListRecord /\ Path(lk, ls[l].head, p) /\ ls[l].len = Len(p)
      /\ \A y \in Places : y # l => ToSet(p) \cap ToSet(P[y]) = {}
    BY ListFacts
<1>2. n \in 1 .. Len(p)
    OBVIOUS
<1> HIDE DEF p
<1>3. n \in 0 .. Len(p) /\ Len(p) - n \in Nat /\ p[n] \in Blocks /\ p[n] # Nil
    BY <1>1, <1>2, FreeListAssumption
<1>4. c \in Seq(Blocks) /\ Len(c) = Len(p) - n /\ Once(c) /\ ToSet(c) \subseteq ToSet(p)
    <2>1. c = SubSeq(p, n + 1, Len(p))
        OBVIOUS
    <2> HIDE DEF c
    <2>2. IsRest(p, n, c)
        BY <2>1, <1>1, <1>3 DEF IsRest
    <2> QED BY ONLY <2>2, ListDrop
<1>5. Path(lk, LnkNext(lk, p[n]), c)
    BY <1>1, <1>2, PathDrop
<1> HIDE DEF c
<1>6. r \in ListRecord /\ r.head = LnkNext(lk, p[n]) /\ r.len = Len(p) - n
    <2>1. r = [head |-> LnkNext(lk, p[n]), len |-> Len(p) - n]
        BY <1>1 DEF p
    <2>2. LnkNext(lk, p[n]) \in Ref
        BY <1>1, <1>3 DEF LnkNext
    <2> QED BY ONLY <2>1, <2>2, <1>3 DEF ListRecord
<1>7. \A y \in Places : y # l => ToSet(c) \cap ToSet(P[y]) = {} /\ Spares(lk, lk, P[y])
    BY <1>1, <1>4 DEF Spares
<1>8. ListChange(lk, lk, l, r, c, P)
    BY ONLY <1>1, <1>4, <1>5, <1>6, <1>7 DEF ListChange, ListIs
<1> QED BY <1>8, ListChanged DEF c, p

\* pop_block
LEMMA PopBlockArranges ==
    ASSUME NEW P, Arranged(link, list, batch, P), NEW l \in Lists, PopBlock(l)
    PROVE  /\ P[l] # <<>>
           /\ Arranged(link', list', batch', [P EXCEPT ![l] = Tail(P[l])])
<1> DEFINE r == [head |-> NextOf(list[l].head), len |-> list[l].len - 1]
           t == [head |-> LnkNext(link, P[l][1]), len |-> list[l].len - 1]
<1>1. /\ list[l].len # 0 /\ list' = [list EXCEPT ![l] = r] /\ link' = link /\ batch' = batch
    BY DEF PopBlock
<1>2. /\ P[l] \in Seq(Blocks) /\ Path(link, list[l].head, P[l]) /\ list[l].len = Len(P[l])
    BY ListFacts
<1>3. P[l] # <<>> /\ 1 \in 1 .. Len(P[l]) /\ list[l].head = P[l][1]
    BY <1>1, <1>2 DEF Path
<1>4. r = t
    BY <1>3, ReadsLink
<1>5. Tail(P[l]) = SubSeq(P[l], 1 + 1, Len(P[l]))
    BY <1>2, <1>3
<1> HIDE DEF r, t
<1>6. Arranged(link, [list EXCEPT ![l] = t], batch, [P EXCEPT ![l] = SubSeq(P[l], 1 + 1, Len(P[l]))])
    BY <1>3, DropArranges DEF t
<1> QED BY ONLY <1>1, <1>3, <1>4, <1>5, <1>6

\* The list of a slab is replaced by a new one.
LEMMA ReplaceArranges ==
    ASSUME NEW P, Arranged(link, list, batch, P), NEW l \in Lists, Replace(l)
    PROVE  Arranged(link', list', batch', [P EXCEPT ![l] = <<>>])
<1>1. list' = [list EXCEPT ![l] = NewList] /\ link' = link /\ batch' = batch
    BY DEF Replace
<1>2. link \in [Blocks -> Ref]
    BY PlaceFacts
<1>3. NewList \in ListRecord /\ NewList.head = Nil /\ NewList.len = 0
    BY DEF NewList, ListRecord, Ref
<1>4. Path(link, Nil, <<>>) /\ Once(<<>>) /\ ToSet(<<>>) = {} /\ <<>> \in Seq(Blocks) /\ Len(<<>>) = 0
    BY DEF Path, Once, ToSet
<1> DEFINE c == <<>>
<1>5. Path(link, Nil, c) /\ Once(c) /\ ToSet(c) = {} /\ c \in Seq(Blocks) /\ Len(c) = 0
    BY <1>4
<1> HIDE DEF c
<1>6. ListChange(link, link, l, NewList, c, P)
    BY ONLY <1>2, <1>3, <1>5 DEF ListChange, ListIs, Spares
<1>7. Arranged(link, [list EXCEPT ![l] = NewList], batch, [P EXCEPT ![l] = c])
    BY <1>6, ListChanged
<1> QED BY <1>1, <1>7 DEF c

\* A batch is emptied, the words stay.
LEMMA EmptyArranges ==
    ASSUME NEW lk, NEW ls, NEW bt, NEW P, Arranged(lk, ls, bt, P), NEW k \in Batches
    PROVE  Arranged(lk, ls, [bt EXCEPT ![k] = EmptyBatch], [P EXCEPT ![k] = <<>>])
<1>1. lk \in [Blocks -> Ref]
    BY PlaceFacts
<1>2. /\ EmptyBatch \in BatchRecord /\ EmptyBatch.head = Nil /\ EmptyBatch.len = 0
      /\ EmptyBatch.tail = Nil
    BY DEF EmptyBatch, BatchRecord, Ref
<1> DEFINE c == <<>>
<1>3. /\ Path(lk, Nil, c) /\ Once(c) /\ ToSet(c) = {} /\ c \in Seq(Blocks) /\ Len(c) = 0
    BY DEF Path, Once, ToSet
<1>4. c = <<>>
    OBVIOUS
<1> HIDE DEF c
<1>5. BatchChange(lk, lk, k, EmptyBatch, c, P)
    BY ONLY <1>1, <1>2, <1>3, <1>4 DEF BatchChange, BatchIs, Spares
<1>6. Arranged(lk, ls, [bt EXCEPT ![k] = EmptyBatch], [P EXCEPT ![k] = c])
    BY <1>5, BatchChanged
<1> QED BY <1>6 DEF c

\* push_batch
LEMMA PushBatchArranges ==
    ASSUME NEW P, Arranged(link, list, batch, P), NEW l \in Lists, NEW k \in Batches,
           PushBatch(l, k)
    PROVE  Arranged(link', list', batch', [[P EXCEPT ![k] = <<>>] EXCEPT ![l] = P[k] \o P[l]])
<1> DEFINE u == P[k]
           v == P[l]
           c == u \o v
           r == [head |-> batch[k].head, len |-> list[l].len + batch[k].len]
           Q == [P EXCEPT ![k] = <<>>]
           bt == [batch EXCEPT ![k] = EmptyBatch]
<1>1. /\ batch[k].len # 0 /\ link' = [link EXCEPT ![batch[k].tail] = list[l].head]
      /\ list' = [list EXCEPT ![l] = r] /\ batch' = bt
    BY DEF PushBatch
<1>2. /\ link \in [Blocks -> Ref] /\ v \in Seq(Blocks) /\ Once(v) /\ l \in Places
      /\ list[l] \in ListRecord /\ Path(link, list[l].head, v) /\ list[l].len = Len(v)
      /\ \A y \in Places : y # l => ToSet(v) \cap ToSet(P[y]) = {}
    BY ListFacts
<1>3. /\ u \in Seq(Blocks) /\ Once(u) /\ k \in Places
      /\ batch[k] \in BatchRecord /\ Path(link, batch[k].head, u) /\ batch[k].len = Len(u)
      /\ u = <<>> => batch[k].tail = Nil
      /\ u # <<>> => batch[k].tail = u[Len(u)]
      /\ \A y \in Places : y # k => ToSet(u) \cap ToSet(P[y]) = {}
    BY DEF Arranged, Apart, BatchIs, Places
<1>4. k # l /\ P \in [Places -> Seq(Blocks)]
    BY FreeListAssumption DEF Arranged
<1>5. Arranged(link, list, bt, Q)
    BY EmptyArranges
<1>6. ToSet(u) \cap ToSet(v) = {}
    BY <1>2, <1>3, <1>4
<1>7. \A y \in Places : y # l => Q[y] = IF y = k THEN <<>> ELSE P[y]
    BY <1>3, <1>4
<1> HIDE DEF u, v, Q, bt
<1>8. u # <<>> /\ batch[k].tail = u[Len(u)] /\ u[Len(u)] \in ToSet(u)
    <2>1. u # <<>> /\ Len(u) \in DOMAIN u
        BY <1>1, <1>3
    <2> QED BY <2>1, <1>3 DEF ToSet
<1>9. link' = [link EXCEPT ![u[Len(u)]] = list[l].head]
    BY <1>1, <1>8
<1>10. /\ c \in Seq(Blocks) /\ Len(c) = Len(u) + Len(v)
       /\ Once(c) /\ ToSet(c) = ToSet(u) \cup ToSet(v)
    BY <1>2, <1>3, <1>6, ListJoin
<1>11. Path(link', batch[k].head, c)
    <2>1. c = u \o v
        OBVIOUS
    <2> HIDE DEF c
    <2> QED BY ONLY <2>1, <1>2, <1>3, <1>6, <1>8, <1>9, PathJoin
<1> HIDE DEF c
<1>12. link' \in [Blocks -> Ref]
    BY <1>2, <1>9 DEF ListRecord
<1>13. r \in ListRecord /\ r.head = batch[k].head /\ r.len = Len(u) + Len(v)
    <2>1. r = [head |-> batch[k].head, len |-> Len(u) + Len(v)]
        BY <1>2, <1>3
    <2>2. batch[k].head \in Ref /\ Len(u) + Len(v) \in Nat
        BY <1>2, <1>3 DEF BatchRecord
    <2> QED BY ONLY <2>1, <2>2 DEF ListRecord
<1>14. ASSUME NEW y \in Places, y # l
       PROVE  ToSet(c) \cap ToSet(Q[y]) = {} /\ Spares(link, link', Q[y])
    <2>1. CASE y = k
        <3>1. Q[y] = <<>>
            BY <2>1, <1>7, <1>14
        <3>2. ToSet(Q[y]) = {}
            BY <3>1 DEF ToSet
        <3>3. u[Len(u)] \notin ToSet(Q[y])
            BY <3>2
        <3> QED BY ONLY <3>2, <3>3, <1>2, <1>9, OffChain
    <2>2. CASE y # k
        <3>1. /\ Q[y] = P[y] /\ ToSet(u) \cap ToSet(Q[y]) = {} /\ ToSet(v) \cap ToSet(Q[y]) = {}
            BY <2>2, <1>2, <1>3, <1>7, <1>14
        <3>2. u[Len(u)] \notin ToSet(Q[y])
            BY <3>1, <1>8
        <3>3. Spares(link, link', Q[y])
            BY ONLY <3>2, <1>2, <1>9, OffChain
        <3> QED BY <3>1, <3>3, <1>10
    <2> QED BY <2>1, <2>2
<1> HIDE DEF r
<1>15. ListChange(link, link', l, r, c, Q)
    BY ONLY <1>10, <1>11, <1>12, <1>13, <1>14 DEF ListChange, ListIs
<1>16. Arranged(link', [list EXCEPT ![l] = r], bt, [Q EXCEPT ![l] = c])
    BY ONLY <1>5, <1>15, l \in Lists, ListChanged
<1> QED BY ONLY <1>1, <1>16 DEF c, u, v, Q

\* pop_batch
LEMMA PopBatchArranges ==
    ASSUME NEW P, Arranged(link, list, batch, P), NEW l \in Lists, NEW k \in Batches,
           NEW max \in Nat, PopBatch(l, k, max)
    PROVE  \E n \in 1 .. Len(P[l]) :
              /\ P[k] = <<>>
              /\ Arranged(link', list', batch',
                          [[P EXCEPT ![l] = SubSeq(P[l], n + 1, Len(P[l]))]
                              EXCEPT ![k] = SubSeq(P[l], 1, n)])
<1> DEFINE v == P[l]
           n == IF max <= list[l].len THEN max ELSE list[l].len
           z == Node(list[l].head, n)
           s == SubSeq(v, 1, n)
           t == SubSeq(v, n + 1, Len(v))
           r == [head |-> NextOf(z), len |-> list[l].len - n]
           b == [head |-> list[l].head, tail |-> z, len |-> n]
           ls == [list EXCEPT ![l] = r]
           Q == [P EXCEPT ![l] = t]
<1>1. /\ max # 0 /\ list[l].len # 0 /\ batch[k] = EmptyBatch
      /\ batch' = [batch EXCEPT ![k] = b] /\ list' = ls /\ link' = [link EXCEPT ![z] = Nil]
    BY DEF PopBatch
<1>2. /\ link \in [Blocks -> Ref] /\ v \in Seq(Blocks) /\ Once(v) /\ l \in Places
      /\ list[l] \in ListRecord /\ Path(link, list[l].head, v) /\ list[l].len = Len(v)
      /\ \A y \in Places : y # l => ToSet(v) \cap ToSet(P[y]) = {}
    BY ListFacts
<1>3. n \in 1 .. Len(v) /\ n \in 0 .. Len(v)
    BY <1>1, <1>2
<1>4. P[k] = <<>>
    <2>1. P[k] \in Seq(Blocks) /\ batch[k].len = Len(P[k])
        BY BatchFacts
    <2>2. Len(P[k]) = 0
        BY <2>1, <1>1 DEF EmptyBatch
    <2> QED BY <2>1, <2>2
<1>5. k # l /\ k \in Places /\ P \in [Places -> Seq(Blocks)]
    BY FreeListAssumption DEF Arranged, Places
<1> HIDE DEF n
<1>6. z = v[n] /\ v[n] \in ToSet(v) /\ v[n] \in Blocks /\ n \in DOMAIN v
    <2>1. \A i \in 1 .. Len(v) : LnkNode(link, list[l].head, i) = v[i]
        BY <1>2, PathNodes
    <2>2. z = v[n]
        BY <2>1, <1>3, ReadsLink
    <2>3. n \in DOMAIN v /\ v[n] \in Blocks
        BY <1>2, <1>3
    <2> QED BY <2>2, <2>3 DEF ToSet
<1>7. r = [head |-> LnkNext(link, v[n]), len |-> list[l].len - n]
    BY <1>6, ReadsLink
<1> HIDE DEF r, z
<1>8. Arranged(link, ls, batch, Q)
    BY <1>3, <1>7, DropArranges
<1>9. Q[l] = t /\ \A y \in Places : y # l => Q[y] = P[y]
    BY <1>2, <1>5
<1> HIDE DEF ls, Q, v
<1>10. /\ s \in Seq(Blocks) /\ Len(s) = n /\ (\A j \in 1 .. n : s[j] = v[j]) /\ Once(s)
       /\ ToSet(s) \subseteq ToSet(v) /\ \A x \in ToSet(s) : \E j \in 1 .. n : x = v[j]
    <2>2. IsFront(v, n, s)
        BY <1>2, <1>3 DEF IsFront
    <2> HIDE DEF s
    <2> QED BY ONLY <2>2, ListTake
<1>11. /\ t \in Seq(Blocks) /\ \A j \in 1 .. n : v[j] \notin ToSet(t)
    <2>2. IsRest(v, n, t)
        BY <1>2, <1>3 DEF IsRest
    <2> HIDE DEF t
    <2> QED BY ONLY <2>2, ListDrop
<1>12. link' = [link EXCEPT ![v[n]] = Nil]
    BY <1>1, <1>6
<1>13. Path(link', list[l].head, s)
    <2>1. s = SubSeq(v, 1, n)
        OBVIOUS
    <2> HIDE DEF s
    <2> QED BY ONLY <2>1, <1>2, <1>3, <1>12, PathTake
<1> HIDE DEF s, t
<1>14. link' \in [Blocks -> Ref]
    BY <1>2, <1>12 DEF Ref
<1>15. n \in 1 .. n /\ n \in Nat /\ s # <<>> /\ s[Len(s)] = v[n]
    <2>1. n \in 1 .. n /\ n \in Nat /\ n # 0
        BY <1>2, <1>3
    <2> QED BY <2>1, <1>10
<1>16. b \in BatchRecord /\ b.head = list[l].head /\ b.tail = v[n] /\ b.len = n
    <2>1. list[l].head \in Ref /\ v[n] \in Ref
        BY <1>2, <1>6 DEF ListRecord, Ref
    <2> QED BY ONLY <2>1, <1>6, <1>15 DEF BatchRecord
<1>17. ASSUME NEW y \in Places, y # k
       PROVE  ToSet(s) \cap ToSet(Q[y]) = {} /\ Spares(link, link', Q[y])
    <2>1. ToSet(s) \cap ToSet(Q[y]) = {} /\ v[n] \notin ToSet(Q[y])
        <3>1. CASE y = l
            BY <3>1, <1>9, <1>10, <1>11, <1>15
        <3>2. CASE y # l
            BY <3>2, <1>2, <1>6, <1>9, <1>10, <1>17
        <3> QED BY <3>1, <3>2
    <2> QED BY ONLY <2>1, <1>2, <1>12, OffChain
<1> HIDE DEF b
<1>18. BatchChange(link, link', k, b, s, Q)
    BY ONLY <1>10, <1>13, <1>14, <1>15, <1>16, <1>17 DEF BatchChange, BatchIs
<1>19. Arranged(link', ls, [batch EXCEPT ![k] = b], [Q EXCEPT ![k] = s])
    BY ONLY <1>8, <1>18, k \in Batches, BatchChanged
<1>20. Arranged(link', list', batch', [Q EXCEPT ![k] = s])
    BY ONLY <1>1, <1>19
<1> QED BY <1>3, <1>4, <1>20 DEF s, t, v, Q

\* Batch::pop_block_unchecked
LEMMA BatchPopArranges ==
    ASSUME NEW P, Arranged(link, list, batch, P), NEW k \in Batches, BatchPopBlock(k)
    PROVE  /\ P[k] # <<>>
           /\ Arranged(link', list', batch', [P EXCEPT ![k] = Tail(P[k])])
<1> DEFINE v == P[k]
           c == SubSeq(v, 1 + 1, Len(v))
           r == [head |-> NextOf(batch[k].head),
                 tail |-> IF batch[k].len = 1 THEN Nil ELSE batch[k].tail,
                 len |-> batch[k].len - 1]
<1>1. /\ batch[k].len # 0 /\ batch' = [batch EXCEPT ![k] = r] /\ link' = link /\ list' = list
    BY DEF BatchPopBlock
<1>2. /\ link \in [Blocks -> Ref] /\ v \in Seq(Blocks) /\ Once(v) /\ k \in Places
      /\ batch[k] \in BatchRecord /\ Path(link, batch[k].head, v) /\ batch[k].len = Len(v)
      /\ v # <<>> => batch[k].tail = v[Len(v)]
      /\ \A y \in Places : y # k => ToSet(v) \cap ToSet(P[y]) = {}
    BY DEF Arranged, Apart, BatchIs, Places
<1> HIDE DEF v
<1>3. /\ v # <<>> /\ 1 \in 1 .. Len(v) /\ 1 \in 0 .. Len(v) /\ Len(v) - 1 \in Nat
      /\ v[1] \in Blocks /\ v[1] # Nil
    BY <1>1, <1>2, FreeListAssumption
<1>4. batch[k].head = v[1]
    BY <1>2, <1>3 DEF Path
<1>5. c \in Seq(Blocks) /\ Len(c) = Len(v) - 1 /\ Once(c) /\ ToSet(c) \subseteq ToSet(v)
    <2>1. IsRest(v, 1, c)
        BY <1>2, <1>3 DEF IsRest
    <2> HIDE DEF c
    <2> QED BY ONLY <2>1, ListDrop
<1>6. Path(link, LnkNext(link, v[1]), c)
    BY <1>2, <1>3, PathDrop
<1>7. Tail(v) = c
    BY <1>2, <1>3
<1>8. Len(v) # 1 => c # <<>> /\ c[Len(c)] = v[Len(v)]
    <2>1. \A j \in 1 .. Len(v) - 1 : c[j] = v[1 + j]
        BY <1>2, <1>3, RestIs
    <2> HIDE DEF c
    <2>2. Len(v) \in Nat
        BY <1>2
    <2>3. ASSUME Len(v) # 1 PROVE c # <<>> /\ c[Len(c)] = v[Len(v)]
        <3>1. Len(v) - 1 \in 1 .. Len(v) - 1 /\ 1 + (Len(v) - 1) = Len(v) /\ Len(c) # 0
            BY <2>2, <2>3, <1>3, <1>5
        <3> QED BY <3>1, <2>1, <1>5
    <2> QED BY <2>3
<1>9. Len(v) = 1 => c = <<>>
    BY <1>5
<1> HIDE DEF c
<1>10. /\ r \in BatchRecord /\ r.head = LnkNext(link, v[1]) /\ r.len = Len(v) - 1
       /\ r.tail = IF Len(v) = 1 THEN Nil ELSE v[Len(v)]
    <2>1. NextOf(batch[k].head) = LnkNext(link, v[1]) /\ LnkNext(link, v[1]) \in Ref
        BY <1>2, <1>3, <1>4, ReadsLink DEF LnkNext
    <2>2. batch[k].tail = v[Len(v)] /\ batch[k].tail \in Ref /\ Nil \in Ref
        BY <1>2, <1>3 DEF BatchRecord, Ref
    <2> DEFINE g == NextOf(batch[k].head)
               e == IF batch[k].len = 1 THEN Nil ELSE batch[k].tail
               m == batch[k].len - 1
    <2>3. g \in Ref /\ e \in Ref /\ m \in Nat /\ g = LnkNext(link, v[1]) /\ m = Len(v) - 1
          /\ e = IF Len(v) = 1 THEN Nil ELSE v[Len(v)]
        BY ONLY <2>1, <2>2, <1>2, <1>3
    <2> HIDE DEF g, e, m
    <2>4. [head |-> g, tail |-> e, len |-> m] \in BatchRecord
        BY ONLY <2>3 DEF BatchRecord
    <2>5. r = [head |-> g, tail |-> e, len |-> m]
        BY DEF g, e, m
    <2> HIDE DEF r
    <2> QED BY ONLY <2>3, <2>4, <2>5
<1> HIDE DEF r
<1>11. c = <<>> => r.tail = Nil
    BY <1>8, <1>10
<1>12. c # <<>> => r.tail = c[Len(c)]
    BY <1>8, <1>9, <1>10
<1>13. BatchIs(link, r, c)
    BY ONLY <1>5, <1>6, <1>10, <1>11, <1>12 DEF BatchIs
<1>14. \A y \in Places : y # k => ToSet(c) \cap ToSet(P[y]) = {} /\ Spares(link, link, P[y])
    BY <1>2, <1>5 DEF Spares
<1>15. BatchChange(link, link, k, r, c, P)
    BY ONLY <1>2, <1>5, <1>10, <1>13, <1>14 DEF BatchChange
<1>16. Arranged(link, list, [batch EXCEPT ![k] = r], [P EXCEPT ![k] = c])
    BY <1>15, BatchChanged
<1> QED BY ONLY <1>1, <1>3, <1>7, <1>16 DEF v

\* Batch::from_single
LEMMA FromSingleArranges ==
    ASSUME NEW P, Arranged(link, list, batch, P), NEW k \in Batches, NEW b, FromSingle(k, b)
    PROVE  /\ P[k] = <<>>
           /\ Arranged(link', list', batch', [P EXCEPT ![k] = <<b>>])
<1> DEFINE c == <<b>>
           r == [head |-> b, tail |-> b, len |-> 1]
<1>1. /\ b \in Detached /\ batch[k] = EmptyBatch /\ batch' = [batch EXCEPT ![k] = r]
      /\ link' = [link EXCEPT ![b] = Nil] /\ list' = list
    BY DEF FromSingle
<1>2. b \in Blocks /\ \A x \in Places : b \notin ToSet(P[x])
    BY <1>1, LinkedIs
<1>3. P[k] = <<>> /\ link \in [Blocks -> Ref]
    <2>1. P[k] \in Seq(Blocks) /\ batch[k].len = Len(P[k]) /\ link \in [Blocks -> Ref]
        BY BatchFacts
    <2>2. Len(P[k]) = 0
        BY <2>1, <1>1 DEF EmptyBatch
    <2> QED BY <2>1, <2>2
<1>4. link' \in [Blocks -> Ref] /\ link'[b] = Nil
    BY <1>1, <1>2, <1>3 DEF Ref
<1>5. c \in Seq(Blocks) /\ Len(c) = 1 /\ c[1] = b /\ c # <<>> /\ Once(c) /\ ToSet(c) = {b}
    BY <1>2 DEF Once, ToSet
<1> HIDE DEF c
<1>6. 1 .. Len(c) - 1 = {}
    BY <1>5
<1>7. Path(link', b, c)
    BY ONLY <1>4, <1>5, <1>6 DEF Path
<1>8. r \in BatchRecord /\ r.head = b /\ r.tail = b /\ r.len = 1
    BY <1>2 DEF BatchRecord, Ref
<1> HIDE DEF r
<1>9. ASSUME NEW y \in Places PROVE ToSet(c) \cap ToSet(P[y]) = {} /\ Spares(link, link', P[y])
    <2>1. b \notin ToSet(P[y])
        BY <1>2
    <2>2. Spares(link, link', P[y])
        BY ONLY <2>1, <1>1, <1>3, OffChain
    <2> QED BY <2>1, <2>2, <1>5
<1>10. BatchChange(link, link', k, r, c, P)
    BY ONLY <1>4, <1>5, <1>7, <1>8, <1>9 DEF BatchChange, BatchIs
<1>11. Arranged(link', list, [batch EXCEPT ![k] = r], [P EXCEPT ![k] = c])
    BY <1>10, BatchChanged
<1> QED BY <1>1, <1>3, <1>11 DEF c

\* The word of a block on no list is cleared.
LEMMA ClearWordArranges ==
    ASSUME NEW P, Arranged(link, list, batch, P), NEW b, ClearWord(b)
    PROVE  Arranged(link', list', batch', P)
<1>1. b \in Detached /\ link' = [link EXCEPT ![b] = Nil] /\ list' = list /\ batch' = batch
    BY DEF ClearWord
<1>2. b \in Blocks /\ \A x \in Places : b \notin ToSet(P[x])
    BY <1>1, LinkedIs
<1>3. link \in [Blocks -> Ref]
    BY PlaceFacts
<1>4. link' \in [Blocks -> Ref]
    BY <1>1, <1>3 DEF Ref
<1>5. \A x \in Places : Spares(link, link', P[x])
    BY <1>1, <1>2, <1>3, OffChain
<1>6. ASSUME NEW l \in Lists PROVE ListIs(link', list[l], P[l])
    <2>1. ListIs(link, list[l], P[l]) /\ l \in Places
        BY DEF Arranged, Places
    <2> QED BY <2>1, <1>5 DEF ListIs, Spares
<1>7. ASSUME NEW k \in Batches PROVE BatchIs(link', batch[k], P[k])
    <2>1. BatchIs(link, batch[k], P[k]) /\ k \in Places
        BY DEF Arranged, Places
    <2> QED BY <2>1, <1>5 DEF BatchIs, Spares
<1> QED BY <1>1, <1>4, <1>6, <1>7 DEF Arranged

-----------------------------------------------------------------------------
(* FreeList: the theorems.                                                 *)

\* An arrangement is sound: its chains end where their lengths say, and are apart.
LEMMA ArrangedSound == ASSUME NEW P, Arranged(link, list, batch, P) PROVE ChainsSound
<1>1. /\ link \in [Blocks -> Ref]
      /\ \A x \in Places : P[x] \in Seq(Blocks) /\ Once(P[x]) /\ Len(P[x]) \in 0 .. Cardinality(Blocks)
      /\ \A x, y \in Places : x # y => ToSet(P[x]) \cap ToSet(P[y]) = {}
    BY PlaceFacts, ListFits
<1>2. ASSUME NEW l \in Lists
      PROVE  /\ list[l].head \in Ref /\ list[l].len = Len(P[l]) /\ l \in Places
             /\ \A i \in 1 .. list[l].len : Node(list[l].head, i) = P[l][i]
             /\ Node(list[l].head, list[l].len + 1) = Nil
             /\ Chain(list[l].head, list[l].len) = P[l]
    <2>1. /\ l \in Places /\ list[l] \in ListRecord /\ Path(link, list[l].head, P[l])
          /\ list[l].len = Len(P[l])
        BY ListFacts
    <2>2. /\ \A i \in 1 .. Len(P[l]) : LnkNode(link, list[l].head, i) = P[l][i]
          /\ LnkNode(link, list[l].head, Len(P[l]) + 1) = Nil
        BY <2>1, PathNodes
    <2>3. list[l].head \in Ref
        BY <2>1 DEF ListRecord
    <2>4. Chain(list[l].head, list[l].len) = P[l]
        BY LinkedIs
    <2> QED BY ONLY <2>1, <2>2, <2>3, <2>4, ReadsLink
<1>3. ASSUME NEW k \in Batches
      PROVE  /\ batch[k].head \in Ref /\ batch[k].tail \in Ref /\ batch[k].len = Len(P[k]) /\ k \in Places
             /\ \A i \in 1 .. batch[k].len : Node(batch[k].head, i) = P[k][i]
             /\ Node(batch[k].head, batch[k].len + 1) = Nil
             /\ Chain(batch[k].head, batch[k].len) = P[k]
             /\ P[k] = <<>> => batch[k].tail = Nil
             /\ P[k] # <<>> => batch[k].tail = P[k][Len(P[k])]
    <2>1. /\ k \in Places /\ batch[k] \in BatchRecord /\ Path(link, batch[k].head, P[k])
          /\ batch[k].len = Len(P[k])
          /\ P[k] = <<>> => batch[k].tail = Nil
          /\ P[k] # <<>> => batch[k].tail = P[k][Len(P[k])]
        BY DEF Arranged, BatchIs, Places
    <2>2. /\ \A i \in 1 .. Len(P[k]) : LnkNode(link, batch[k].head, i) = P[k][i]
          /\ LnkNode(link, batch[k].head, Len(P[k]) + 1) = Nil
        BY <2>1, PathNodes
    <2>3. batch[k].head \in Ref /\ batch[k].tail \in Ref
        BY <2>1 DEF BatchRecord
    <2>4. Chain(batch[k].head, batch[k].len) = P[k]
        BY LinkedIs
    <2> QED BY ONLY <2>1, <2>2, <2>3, <2>4, ReadsLink
<1>4. \A x \in Places : Nil \notin ToSet(P[x])
    BY <1>1, FreeListAssumption DEF ToSet
<1>5. ListTypeOK
    BY <1>1, <1>2, <1>3 DEF ListTypeOK, Ref
<1>6. ChainsEnd
    <2>1. ASSUME NEW k \in Batches
          PROVE  batch[k].tail = IF batch[k].len = 0 THEN Nil ELSE Node(batch[k].head, batch[k].len)
        <3>1. k \in Places /\ P[k] \in Seq(Blocks) /\ batch[k].len = Len(P[k])
            BY <1>1, <1>3
        <3>2. CASE P[k] = <<>>
            <4>1. batch[k].len = 0
                BY <3>1, <3>2
            <4> QED BY <4>1, <3>2, <1>3
        <3>3. CASE P[k] # <<>>
            <4>1. batch[k].len # 0 /\ batch[k].len \in 1 .. batch[k].len
                BY <3>1, <3>3
            <4>2. Node(batch[k].head, batch[k].len) = P[k][batch[k].len]
                BY <4>1, <1>3
            <4> QED BY <4>1, <4>2, <3>1, <3>3, <1>3
        <3> QED BY <3>2, <3>3
    <2> QED BY <2>1, <1>2, <1>3, <1>4 DEF ChainsEnd
<1>7. ChainsApart
    <2> DEFINE place == [x \in Lists \cup Batches |-> IF x \in Lists THEN list[x] ELSE batch[x]]
    <2>1. ASSUME NEW x \in Lists \cup Batches
          PROVE  /\ x \in Places /\ place[x].len = Len(P[x])
                 /\ \A i \in 1 .. place[x].len : Node(place[x].head, i) = P[x][i]
        <3>1. CASE x \in Lists
            <4>1. place[x] = list[x]
                BY <3>1
            <4> HIDE DEF place
            <4> QED BY <4>1, <3>1, <1>2
        <3>2. CASE x \notin Lists
            <4>1. place[x] = batch[x] /\ x \in Batches
                BY <3>2
            <4> HIDE DEF place
            <4> QED BY <4>1, <1>3
        <3> QED BY <3>1, <3>2
    <2> HIDE DEF place
    <2>2. ASSUME NEW x \in Lists \cup Batches, NEW y \in Lists \cup Batches,
                 NEW i \in 1 .. place[x].len, NEW j \in 1 .. place[y].len,
                 Node(place[x].head, i) = Node(place[y].head, j)
          PROVE  x = y /\ i = j
        <3>1. /\ x \in Places /\ y \in Places /\ P[x] \in Seq(Blocks) /\ P[y] \in Seq(Blocks)
              /\ i \in 1 .. Len(P[x]) /\ j \in 1 .. Len(P[y]) /\ P[x][i] = P[y][j]
            BY <2>1, <2>2, <1>1
        <3>2. i \in DOMAIN P[x] /\ j \in DOMAIN P[y]
            BY <3>1
        <3>3. P[x][i] \in ToSet(P[x]) /\ P[y][j] \in ToSet(P[y])
            BY <3>2 DEF ToSet
        <3>4. x = y
            BY ONLY <3>1, <3>3, <1>1
        <3> QED BY ONLY <3>1, <3>2, <3>4, <1>1 DEF Once
    <2> QED BY <2>2 DEF ChainsApart, place
<1> QED BY <1>5, <1>6, <1>7 DEF ChainsSound

\* What an operation of the lists does to an arrangement.
Moves(P, Q) ==
    \/ \E l \in Lists, b \in Blocks :
          /\ \A x \in Places : b \notin ToSet(P[x])
          /\ Q = [P EXCEPT ![l] = <<b>> \o P[l]]
    \/ \E l \in Lists : P[l] # <<>> /\ Q = [P EXCEPT ![l] = Tail(P[l])]
    \/ \E l \in Lists : Q = [P EXCEPT ![l] = <<>>]
    \/ \E l \in Lists, k \in Batches :
          Q = [[P EXCEPT ![k] = <<>>] EXCEPT ![l] = P[k] \o P[l]]
    \/ \E l \in Lists, k \in Batches : \E n \in 1 .. Len(P[l]) :
          /\ P[k] = <<>>
          /\ Q = [[P EXCEPT ![l] = SubSeq(P[l], n + 1, Len(P[l]))]
                     EXCEPT ![k] = SubSeq(P[l], 1, n)]
    \/ \E k \in Batches : P[k] # <<>> /\ Q = [P EXCEPT ![k] = Tail(P[k])]
    \/ \E k \in Batches, b \in Blocks :
          /\ \A x \in Places : b \notin ToSet(P[x])
          /\ P[k] = <<>> /\ Q = [P EXCEPT ![k] = <<b>>]
    \/ Q = P

\* A step of the lists moves from one arrangement to another.
LEMMA StepMoves ==
    ASSUME NEW P, Arranged(link, list, batch, P), [ListNext]_listVars
    PROVE  \E Q : Arranged(link', list', batch', Q) /\ Moves(P, Q)
<1>1. ASSUME NEW l \in Lists, NEW b \in Blocks, PushBlock(l, b)
      PROVE  \E Q : Arranged(link', list', batch', Q) /\ Moves(P, Q)
    <2> DEFINE Q == [P EXCEPT ![l] = <<b>> \o P[l]]
    <2>1. b \in Detached
        BY <1>1 DEF PushBlock
    <2>2. \A x \in Places : b \notin ToSet(P[x])
        BY <2>1, LinkedIs
    <2>3. Arranged(link', list', batch', Q)
        BY <1>1, PushBlockArranges
    <2>4. Moves(P, Q)
        BY <2>2 DEF Moves
    <2> QED BY <2>3, <2>4
<1>2. ASSUME NEW l \in Lists, PopBlock(l)
      PROVE  \E Q : Arranged(link', list', batch', Q) /\ Moves(P, Q)
    <2> DEFINE Q == [P EXCEPT ![l] = Tail(P[l])]
    <2>1. P[l] # <<>> /\ Arranged(link', list', batch', Q)
        BY <1>2, PopBlockArranges
    <2>2. Moves(P, Q)
        BY <2>1 DEF Moves
    <2> QED BY <2>1, <2>2
<1>3. ASSUME NEW l \in Lists, Replace(l)
      PROVE  \E Q : Arranged(link', list', batch', Q) /\ Moves(P, Q)
    <2> DEFINE Q == [P EXCEPT ![l] = <<>>]
    <2>1. Arranged(link', list', batch', Q)
        BY <1>3, ReplaceArranges
    <2>2. Moves(P, Q)
        BY DEF Moves
    <2> QED BY <2>1, <2>2
<1>4. ASSUME NEW l \in Lists, NEW k \in Batches, PushBatch(l, k)
      PROVE  \E Q : Arranged(link', list', batch', Q) /\ Moves(P, Q)
    <2> DEFINE Q == [[P EXCEPT ![k] = <<>>] EXCEPT ![l] = P[k] \o P[l]]
    <2>1. Arranged(link', list', batch', Q)
        BY <1>4, PushBatchArranges
    <2>2. Moves(P, Q)
        BY DEF Moves
    <2> QED BY <2>1, <2>2
<1>5. ASSUME NEW l \in Lists, NEW k \in Batches, NEW max \in 1 .. Cardinality(Blocks),
             PopBatch(l, k, max)
      PROVE  \E Q : Arranged(link', list', batch', Q) /\ Moves(P, Q)
    <2>1. max \in Nat
        OBVIOUS
    <2> DEFINE Q(n) == [[P EXCEPT ![l] = SubSeq(P[l], n + 1, Len(P[l]))]
                           EXCEPT ![k] = SubSeq(P[l], 1, n)]
    <2>2. PICK n \in 1 .. Len(P[l]) : P[k] = <<>> /\ Arranged(link', list', batch', Q(n))
        BY <2>1, <1>5, PopBatchArranges
    <2>3. Moves(P, Q(n))
        BY <2>2 DEF Moves
    <2> QED BY <2>2, <2>3
<1>6. ASSUME NEW k \in Batches, BatchPopBlock(k)
      PROVE  \E Q : Arranged(link', list', batch', Q) /\ Moves(P, Q)
    <2> DEFINE Q == [P EXCEPT ![k] = Tail(P[k])]
    <2>1. P[k] # <<>> /\ Arranged(link', list', batch', Q)
        BY <1>6, BatchPopArranges
    <2>2. Moves(P, Q)
        BY <2>1 DEF Moves
    <2> QED BY <2>1, <2>2
<1>7. ASSUME NEW k \in Batches, NEW b \in Blocks, FromSingle(k, b)
      PROVE  \E Q : Arranged(link', list', batch', Q) /\ Moves(P, Q)
    <2> DEFINE Q == [P EXCEPT ![k] = <<b>>]
    <2>1. b \in Detached
        BY <1>7 DEF FromSingle
    <2>2. \A x \in Places : b \notin ToSet(P[x])
        BY <2>1, LinkedIs
    <2>3. P[k] = <<>> /\ Arranged(link', list', batch', Q)
        BY <1>7, FromSingleArranges
    <2>4. Moves(P, Q)
        BY <2>2, <2>3 DEF Moves
    <2> QED BY <2>3, <2>4
<1>8. ASSUME NEW b \in Blocks, ClearWord(b)
      PROVE  \E Q : Arranged(link', list', batch', Q) /\ Moves(P, Q)
    <2>1. Arranged(link', list', batch', P)
        BY <1>8, ClearWordArranges
    <2>2. Moves(P, P)
        BY DEF Moves
    <2> QED BY <2>1, <2>2
<1>9. ASSUME UNCHANGED listVars
      PROVE  \E Q : Arranged(link', list', batch', Q) /\ Moves(P, Q)
    <2>1. link' = link /\ list' = list /\ batch' = batch
        BY <1>9 DEF listVars
    <2>2. Arranged(link', list', batch', P) /\ Moves(P, P)
        BY <2>1 DEF Moves
    <2> QED BY <2>2
<1> QED BY <1>1, <1>2, <1>3, <1>4, <1>5, <1>6, <1>7, <1>8, <1>9 DEF ListNext

\* The lists and batches always hold an arrangement of the blocks.
LEMMA AlwaysArranged == ListSpec => []ChainInv
<1>1. ListInit => ChainInv
    BY StartArranged DEF ChainInv
<1>2. ChainInv /\ [ListNext]_listVars => ChainInv'
    <2> SUFFICES ASSUME ChainInv, [ListNext]_listVars PROVE ChainInv'
        OBVIOUS
    <2>1. PICK P : Arranged(link, list, batch, P)
        BY DEF ChainInv
    <2>2. PICK Q : Arranged(link', list', batch', Q)
        BY <2>1, StepMoves
    <2>3. (\E R : Arranged(link, list, batch, R))'
        BY <2>2
    <2> QED BY <2>3 DEF ChainInv
<1> QED BY <1>1, <1>2, PTL DEF ListSpec

\* push_block, pop_block, push_batch, pop_batch and the batches of src/free_list.rs: for
\* every set of blocks, lists and batches, every chain has exactly the nodes its length
\* says and ends in null, a batch's tail is its last node, and no block is on two chains
\* or twice on one, whatever the words of the other blocks hold.
THEOREM FreeListsSound == ListSpec => []ChainsSound
<1>1. ChainInv => ChainsSound
    BY ArrangedSound DEF ChainInv
<1> QED BY <1>1, AlwaysArranged, PTL

-----------------------------------------------------------------------------
(* FreeList implements ListContract.                                       *)

\* The sequences of the lists, and of the batches, in an arrangement.
StackOf(P) == [l \in Lists |-> P[l]]

RunOf(P) == [k \in Batches |-> P[k]]

\* What the contract sees of the lists before a step.
LEMMA MappedIs ==
    ASSUME NEW P, Arranged(link, list, batch, P)
    PROVE  /\ [l \in Lists |-> Chain(list[l].head, list[l].len)] = StackOf(P)
           /\ [k \in Batches |-> Chain(batch[k].head, batch[k].len)] = RunOf(P)
BY LinkedIs DEF StackOf, RunOf

\* What the contract sees of the lists after a step.
LEMMA MappedNext ==
    ASSUME NEW Q, Arranged(link', list', batch', Q)
    PROVE  /\ [l \in Lists |-> Chain(list[l].head, list[l].len)]' = StackOf(Q)
           /\ [k \in Batches |-> Chain(batch[k].head, batch[k].len)]' = RunOf(Q)
<1>1. ASSUME NEW l \in Lists PROVE Chain(list[l].head, list[l].len)' = Q[l]
    <2>1. Path(link', list'[l].head, Q[l]) /\ list'[l].len = Len(Q[l])
        BY ListFacts
    <2>2. LnkChain(link', list'[l].head, list'[l].len) = Q[l]
        BY <2>1, ChainOfPath
    <2>3. Chain(list[l].head, list[l].len)' = LnkChain(link', list'[l].head, list'[l].len)
        BY DEF Chain, LnkChain, Node, LnkNode, NextOf, LnkNext
    <2> QED BY <2>2, <2>3
<1>2. ASSUME NEW k \in Batches PROVE Chain(batch[k].head, batch[k].len)' = Q[k]
    <2>1. Path(link', batch'[k].head, Q[k]) /\ batch'[k].len = Len(Q[k])
        BY DEF Arranged, BatchIs
    <2>2. LnkChain(link', batch'[k].head, batch'[k].len) = Q[k]
        BY <2>1, ChainOfPath
    <2>3. Chain(batch[k].head, batch[k].len)' = LnkChain(link', batch'[k].head, batch'[k].len)
        BY DEF Chain, LnkChain, Node, LnkNode, NextOf, LnkNext
    <2> QED BY <2>2, <2>3
<1> QED BY <1>1, <1>2 DEF StackOf, RunOf

\* Q is P with the sequence c in place x.
Put(P, x, c, Q) == P \in [Places -> Seq(Blocks)] /\ Q = [P EXCEPT ![x] = c]

\* A list changes: the contract sees that list change, and no batch.
LEMMA PutList ==
    ASSUME NEW P, NEW Q, NEW l \in Lists, NEW c, Put(P, l, c, Q)
    PROVE  StackOf(Q) = [StackOf(P) EXCEPT ![l] = c] /\ RunOf(Q) = RunOf(P)
BY FreeListAssumption DEF StackOf, RunOf, Places, Put

\* A batch changes: the contract sees that batch change, and no list.
LEMMA PutBatch ==
    ASSUME NEW P, NEW Q, NEW k \in Batches, NEW c, Put(P, k, c, Q)
    PROVE  RunOf(Q) = [RunOf(P) EXCEPT ![k] = c] /\ StackOf(Q) = StackOf(P)
BY FreeListAssumption DEF StackOf, RunOf, Places, Put

\* The lists implement ListContract: the operations on link words, heads and lengths are
\* those of stacks and runs of blocks, for every set of blocks, lists and batches.
THEOREM FreeListsImplement == ListSpec => ImplementsLists
<1> DEFINE st == [l \in Lists |-> Chain(list[l].head, list[l].len)]
           rn == [k \in Batches |-> Chain(batch[k].head, batch[k].len)]
<1>1. ListInit => Contract!ContractInit
    <2> SUFFICES ASSUME ListInit PROVE Contract!ContractInit
        OBVIOUS
    <2> DEFINE P == [x \in Places |-> <<>>]
    <2>1. st = StackOf(P) /\ rn = RunOf(P)
        BY StartArranged, MappedIs
    <2>2. StackOf(P) = [l \in Lists |-> <<>>] /\ RunOf(P) = [k \in Batches |-> <<>>]
        BY DEF StackOf, RunOf, Places
    <2> QED BY <2>1, <2>2 DEF Contract!ContractInit
<1>2. ChainInv /\ [ListNext]_listVars => [Contract!ContractNext]_<<st, rn>>
    <2> SUFFICES ASSUME ChainInv, [ListNext]_listVars
                 PROVE  Contract!ContractNext \/ (st' = st /\ rn' = rn)
        OBVIOUS
    <2>1. PICK P : Arranged(link, list, batch, P)
        BY DEF ChainInv
    <2>2. PICK Q : Arranged(link', list', batch', Q) /\ Moves(P, Q)
        BY <2>1, StepMoves
    <2>3. P \in [Places -> Seq(Blocks)]
        BY <2>1 DEF Arranged
    <2>4. st = StackOf(P) /\ rn = RunOf(P)
        BY <2>1, MappedIs
    <2>5. st' = StackOf(Q) /\ rn' = RunOf(Q)
        BY <2>2, MappedNext
    <2>6. /\ \A l \in Lists : st[l] = P[l] /\ l \in Places
          /\ \A k \in Batches : rn[k] = P[k] /\ k \in Places /\ k \notin Lists
        BY <2>4, FreeListAssumption DEF StackOf, RunOf, Places
    <2>7. \A n \in Lists \cup Batches : Contract!Place(n) = P[n]
        <3>1. \A n : Contract!Place(n) = IF n \in Lists THEN st[n] ELSE rn[n]
            BY DEF Contract!Place
        <3> HIDE DEF st, rn
        <3> QED BY <3>1, <2>6
    <2>8. ASSUME NEW b \in Blocks, \A x \in Places : b \notin ToSet(P[x])
          PROVE  b \in Contract!Loose
        <3>1. \A s : Contract!ToSet(s) = ToSet(s)
            BY DEF Contract!ToSet, ToSet
        <3> QED BY ONLY <3>1, <2>7, <2>8 DEF Contract!Loose, Places
    <2> HIDE DEF st, rn
    <2>9. ASSUME NEW l \in Lists, NEW b \in Blocks, \A x \in Places : b \notin ToSet(P[x]),
                  Q = [P EXCEPT ![l] = <<b>> \o P[l]]
           PROVE  Contract!ContractNext
        <3> DEFINE c == <<b>> \o P[l]
        <3>1. Put(P, l, c, Q)
            BY <2>3, <2>9 DEF Put
        <3>2. c = <<b>> \o st[l]
            BY <2>6, <2>9
        <3> HIDE DEF c
        <3>3. StackOf(Q) = [StackOf(P) EXCEPT ![l] = c] /\ RunOf(Q) = RunOf(P)
            BY ONLY <3>1, l \in Lists, PutList
        <3>4. st' = [st EXCEPT ![l] = <<b>> \o st[l]] /\ rn' = rn
            BY ONLY <3>2, <3>3, <2>4, <2>5
        <3>5. b \in Contract!Loose
            BY <2>8, <2>9
        <3> QED BY ONLY <3>2, <3>4, <3>5, l \in Lists, b \in Blocks DEF Contract!ContractNext, Contract!Push, st, rn
    <2>10. ASSUME NEW l \in Lists, P[l] # <<>>, Q = [P EXCEPT ![l] = Tail(P[l])]
           PROVE  Contract!ContractNext
        <3> DEFINE c == Tail(P[l])
        <3>1. Put(P, l, c, Q)
            BY <2>3, <2>10 DEF Put
        <3>2. c = Tail(st[l]) /\ st[l] # <<>>
            BY <2>6, <2>10
        <3> HIDE DEF c
        <3>3. StackOf(Q) = [StackOf(P) EXCEPT ![l] = c] /\ RunOf(Q) = RunOf(P)
            BY ONLY <3>1, l \in Lists, PutList
        <3>4. st' = [st EXCEPT ![l] = Tail(st[l])] /\ rn' = rn
            BY ONLY <3>2, <3>3, <2>4, <2>5
        <3> QED BY ONLY <3>2, <3>4, l \in Lists DEF Contract!ContractNext, Contract!Pop, st, rn
    <2>11. ASSUME NEW l \in Lists, Q = [P EXCEPT ![l] = <<>>]
           PROVE  Contract!ContractNext
        <3> DEFINE c == <<>>
        <3>1. Put(P, l, c, Q)
            BY <2>3, <2>11 DEF Put
        <3>2. c = <<>>
            BY <2>6, <2>11
        <3> HIDE DEF c
        <3>3. StackOf(Q) = [StackOf(P) EXCEPT ![l] = c] /\ RunOf(Q) = RunOf(P)
            BY ONLY <3>1, l \in Lists, PutList
        <3>4. st' = [st EXCEPT ![l] = <<>>] /\ rn' = rn
            BY ONLY <3>2, <3>3, <2>4, <2>5
        <3> QED BY ONLY <3>2, <3>4, l \in Lists DEF Contract!ContractNext, Contract!Clear, st, rn
    <2>12. ASSUME NEW l \in Lists, NEW k \in Batches,
                  Q = [[P EXCEPT ![k] = <<>>] EXCEPT ![l] = P[k] \o P[l]]
           PROVE  Contract!ContractNext
        <3> DEFINE e == <<>>
                   c == P[k] \o P[l]
                   R == [P EXCEPT ![k] = e]
        <3>1. e \in Seq(Blocks) /\ e = <<>>
            OBVIOUS
        <3>2. c = rn[k] \o st[l]
            BY <2>6
        <3>3. Q = [R EXCEPT ![l] = c]
            BY <2>12
        <3> HIDE DEF e, c
        <3>4. R \in [Places -> Seq(Blocks)]
            BY <3>1, <2>3
        <3>5. Put(P, k, e, R) /\ Put(R, l, c, Q)
            BY <3>3, <3>4, <2>3 DEF Put
        <3> HIDE DEF R
        <3>6. RunOf(R) = [RunOf(P) EXCEPT ![k] = e] /\ StackOf(R) = StackOf(P)
            BY ONLY <3>5, k \in Batches, PutBatch
        <3>7. StackOf(Q) = [StackOf(R) EXCEPT ![l] = c] /\ RunOf(Q) = RunOf(R)
            BY ONLY <3>5, l \in Lists, PutList
        <3>8. st' = [st EXCEPT ![l] = rn[k] \o st[l]] /\ rn' = [rn EXCEPT ![k] = <<>>]
            BY ONLY <3>1, <3>2, <3>6, <3>7, <2>4, <2>5
        <3>9. Contract!Splice(l, k)
            BY ONLY <3>8 DEF Contract!Splice, st, rn
        <3> QED BY ONLY <3>9, l \in Lists, k \in Batches DEF Contract!ContractNext
    <2>13. ASSUME NEW l \in Lists, NEW k \in Batches, NEW n \in 1 .. Len(P[l]), P[k] = <<>>,
                  Q = [[P EXCEPT ![l] = SubSeq(P[l], n + 1, Len(P[l]))]
                         EXCEPT ![k] = SubSeq(P[l], 1, n)]
           PROVE  Contract!ContractNext
        <3> DEFINE c == SubSeq(P[l], n + 1, Len(P[l]))
                   d == SubSeq(P[l], 1, n)
                   R == [P EXCEPT ![l] = c]
        <3>1. P[l] \in Seq(Blocks) /\ n \in 0 .. Len(P[l]) /\ n <= Len(P[l])
            BY <2>3, <2>6
        <3>2. c \in Seq(Blocks)
            BY <3>1, RestIs
        <3>3. Q = [R EXCEPT ![k] = d]
            BY <2>13
        <3>4. /\ c = SubSeq(st[l], n + 1, Len(st[l])) /\ d = SubSeq(st[l], 1, n)
              /\ n \in 1 .. Len(st[l]) /\ n <= Len(st[l]) /\ rn[k] = <<>>
            <4>1. st[l] = P[l] /\ rn[k] = <<>>
                BY <2>6, <2>13
            <4> QED BY <4>1, <3>1
        <3> HIDE DEF c, d
        <3>5. R \in [Places -> Seq(Blocks)]
            BY <3>2, <2>3
        <3>6. Put(P, l, c, R) /\ Put(R, k, d, Q)
            BY <3>3, <3>5, <2>3 DEF Put
        <3> HIDE DEF R
        <3>7. StackOf(R) = [StackOf(P) EXCEPT ![l] = c] /\ RunOf(R) = RunOf(P)
            BY ONLY <3>6, l \in Lists, PutList
        <3>8. RunOf(Q) = [RunOf(R) EXCEPT ![k] = d] /\ StackOf(Q) = StackOf(R)
            BY ONLY <3>6, k \in Batches, PutBatch
        <3>9. st' = [st EXCEPT ![l] = c] /\ rn' = [rn EXCEPT ![k] = d]
            BY ONLY <3>7, <3>8, <2>4, <2>5
        <3>10. /\ st' = [st EXCEPT ![l] = SubSeq(st[l], n + 1, Len(st[l]))]
               /\ rn' = [rn EXCEPT ![k] = SubSeq(st[l], 1, n)]
            BY ONLY <3>4, <3>9
        <3>11. Contract!Detach(l, k, n)
            BY ONLY <3>4, <3>10 DEF Contract!Detach, st, rn
        <3> QED BY ONLY <3>4, <3>11, l \in Lists, k \in Batches DEF Contract!ContractNext, st
    <2>14. ASSUME NEW k \in Batches, P[k] # <<>>, Q = [P EXCEPT ![k] = Tail(P[k])]
           PROVE  Contract!ContractNext
        <3> DEFINE c == Tail(P[k])
        <3>1. Put(P, k, c, Q)
            BY <2>3, <2>14 DEF Put
        <3>2. c = Tail(rn[k]) /\ rn[k] # <<>>
            BY <2>6, <2>14
        <3> HIDE DEF c
        <3>3. RunOf(Q) = [RunOf(P) EXCEPT ![k] = c] /\ StackOf(Q) = StackOf(P)
            BY ONLY <3>1, k \in Batches, PutBatch
        <3>4. rn' = [rn EXCEPT ![k] = Tail(rn[k])] /\ st' = st
            BY ONLY <3>2, <3>3, <2>4, <2>5
        <3> QED BY ONLY <3>2, <3>4, k \in Batches DEF Contract!ContractNext, Contract!TakeFirst, st, rn
    <2>15. ASSUME NEW k \in Batches, NEW b \in Blocks, \A x \in Places : b \notin ToSet(P[x]),
                  P[k] = <<>>, Q = [P EXCEPT ![k] = <<b>>]
           PROVE  Contract!ContractNext
        <3> DEFINE c == <<b>>
        <3>1. Put(P, k, c, Q)
            BY <2>3, <2>15 DEF Put
        <3>2. c = <<b>> /\ rn[k] = <<>>
            BY <2>6, <2>15
        <3> HIDE DEF c
        <3>3. RunOf(Q) = [RunOf(P) EXCEPT ![k] = c] /\ StackOf(Q) = StackOf(P)
            BY ONLY <3>1, k \in Batches, PutBatch
        <3>4. rn' = [rn EXCEPT ![k] = <<b>>] /\ st' = st
            BY ONLY <3>2, <3>3, <2>4, <2>5
        <3>5. b \in Contract!Loose
            BY <2>8, <2>15
        <3> QED BY ONLY <3>2, <3>4, <3>5, k \in Batches, b \in Blocks DEF Contract!ContractNext, Contract!Single, st, rn
    <2>16. ASSUME Q = P PROVE st' = st /\ rn' = rn
        BY ONLY <2>4, <2>5, <2>16
    <2> QED BY ONLY <2>2, <2>9, <2>10, <2>11, <2>12, <2>13, <2>14, <2>15, <2>16 DEF Moves
<1> QED BY <1>1, <1>2, AlwaysArranged, PTL DEF ListSpec, ImplementsLists, Contract!ContractSpec, st, rn
=============================================================================
