------------------------- MODULE LargeObjectsProofs -------------------------
(***************************************************************************)
(* Proofs about the large-allocation path, for any number of threads and   *)
(* any sizes.                                                              *)
(***************************************************************************)
EXTENDS LargeObjects, FiniteSetTheorems, TLAPS

\* Rounding up to the alignment never rounds down.
LEMMA AlignUpFacts ==
    ASSUME NEW v \in Nat
    PROVE  AlignUp(v) \in Nat /\ AlignUp(v) >= v
<1>1. v % Alignment \in 0 .. Alignment - 1
  BY LargeAssumption
<1> QED
  BY <1>1, LargeAssumption DEF AlignUp

\* Requests and registry fields are numbers.
LEMMA SizesPositive == \A n \in Sizes : n \in Nat /\ n > 0
  BY LargeAssumption

\* The fields of a live record have the types the registry stores.
LEMMA RecordFields ==
    \A r \in Record : r.size \in Nat /\ r.usable \in Int /\ r.requested \in Nat
<1>1. Sizes \cup {0} \subseteq Nat
  BY LargeAssumption
<1> QED
  BY <1>1 DEF Record

\* A block has room for the header and the request.
LEMMA BlockSizeFacts ==
    ASSUME NEW n \in Sizes
    PROVE  BlockSize(n) \in Nat /\ BlockSize(n) >= HeaderSize + n /\ n > 0
<1>1. n \in Nat /\ n > 0 /\ HeaderSize + n \in Nat
  BY LargeAssumption
<1> QED
  BY <1>1, AlignUpFacts DEF BlockSize

Placed == LiveBlocks \cup free \cup leaked

\* What a thread in the middle of an allocation knows about its request and its block.
Underway ==
    \A t \in Threads :
        /\ pc[t] \in {"carve", "write", "record"} => want[t] \in Sizes
        /\ InFlight(t) => blk[t].size >= HeaderSize + want[t]
        /\ pc[t] = "record" =>
              /\ hdr[blk[t].addr] = [requested |-> want[t], usable |-> Usable(blk[t])]
              /\ Encodes(want[t], Usable(blk[t]))

\* Every block has room for a header and a payload; an entry has a size.
Roomy ==
    /\ \A b \in free \cup leaked : b.size > HeaderSize
    /\ \A a \in LiveAddr :
          /\ live[a].requested > 0
          /\ live[a].usable = live[a].size - HeaderSize

\* The inductive invariant.
Inv ==
    /\ TypeOK
    /\ BlocksApart
    /\ Underway
    /\ Roomy
    /\ LiveRecordSound
    /\ LeaksOnlyUnencodable

\* An empty registry over an unused arena satisfies the inductive invariant.
LEMMA InitInv == Init => Inv
<1> SUFFICES ASSUME Init PROVE Inv
  OBVIOUS
<1>1. TypeOK
  <2>1. NoRecord \in Record /\ NoHeader \in Header
    BY DEF NoRecord, Record, NoHeader, Header
  <2>2. 0 \in Addr /\ next \in 0 .. ArenaLen
    BY LargeAssumption DEF Addr, Init
  <2>3. NoBlock \in Block /\ NoFree \in [addr : Addr, header : Header]
    BY <2>1, <2>2 DEF NoBlock, Block, NoFree
  <2> QED
    BY <2>1, <2>2, <2>3 DEF Init, TypeOK
<1>2. LiveAddr = {} /\ LiveBlocks = {} /\ free = {} /\ leaked = {}
  BY DEF Init, LiveAddr, LiveBlocks
<1>3. \A t \in Threads : pc[t] = "idle"
  BY DEF Init
<1> QED
  BY <1>1, <1>2, <1>3 DEF Inv, BlocksApart, Underway, Roomy, LiveRecordSound,
       LeaksOnlyUnencodable, InFlight

-----------------------------------------------------------------------------
\* Every step keeps the types.
LEMMA TypeStep == Inv /\ [Next]_vars => TypeOK'
<1> SUFFICES ASSUME Inv, [Next]_vars PROVE TypeOK'
  OBVIOUS
<1> USE DEF TypeOK
<1>1. ASSUME NEW t \in Threads, NEW n \in Sizes, TakeReusable(t, n) PROVE TypeOK'
  <2>1. PICK b \in free : blk' = [blk EXCEPT ![t] = b] /\ free' = free \ {b}
                          /\ free_bytes' = free_bytes - b.size
    BY <1>1 DEF TakeReusable, BestFit, Fitting
  <2>2. b \in Block /\ b.size \in Int
    BY <2>1 DEF Inv, Block
  <2> QED
    BY <1>1, <2>1, <2>2 DEF TakeReusable, Inv
<1>2. ASSUME NEW t \in Threads, NEW n \in Sizes, MissReusable(t, n) PROVE TypeOK'
  BY <1>2 DEF MissReusable, Inv
<1>3. ASSUME NEW t \in Threads, Carve(t) PROVE TypeOK'
  <2>1. want[t] \in Sizes /\ next \in Nat
    <3>1. next \in Nat
      BY LargeAssumption DEF Inv
    <3>2. pc[t] = "carve"
      BY <1>3 DEF Carve
    <3> QED
      BY <3>1, <3>2 DEF Inv, Underway
  <2>2. AlignUp(next) \in Nat /\ BlockSize(want[t]) \in Nat /\ BlockSize(want[t]) > 0
    <3>1. AlignUp(next) \in Nat
      BY <2>1, AlignUpFacts
    <3>2. BlockSize(want[t]) \in Nat /\ BlockSize(want[t]) >= HeaderSize + want[t] /\ want[t] > 0
      BY <2>1, BlockSizeFacts
    <3>3. want[t] \in Nat /\ HeaderSize \in Nat
      BY <2>1, LargeAssumption
    <3> QED
      BY <3>1, <3>2, <3>3
  <2>3. AlignUp(next) + BlockSize(want[t]) \in 0 .. ArenaLen /\ AlignUp(next) \in Addr
    BY <1>3, <2>2, LargeAssumption DEF Carve, Addr
  <2>4. [addr |-> AlignUp(next), size |-> BlockSize(want[t])] \in Block
    BY <2>2, <2>3 DEF Block
  <2> QED
    BY <1>3, <2>3, <2>4 DEF Carve, Inv
<1>4. ASSUME NEW t \in Threads, OutOfMemory(t) PROVE TypeOK'
  BY <1>4 DEF OutOfMemory, Inv
<1>5. ASSUME NEW t \in Threads, WriteHeader(t) PROVE TypeOK'
  <2>1. want[t] \in Sizes /\ blk[t] \in Block
    BY <1>5 DEF WriteHeader, Inv, Underway
  <2>2. [requested |-> want[t], usable |-> Usable(blk[t])] \in Header
    BY <2>1, LargeAssumption DEF Header, Usable, Block
  <2> QED
    BY <1>5, <2>1, <2>2 DEF WriteHeader, Inv, Block
<1>6. ASSUME NEW t \in Threads, EncodeFails(t) PROVE TypeOK'
  <2>1. NoBlock \in Block
    BY LargeAssumption DEF NoBlock, Block, Addr
  <2> QED
    BY <1>6, <2>1 DEF EncodeFails, Inv
<1>7. ASSUME NEW t \in Threads, RecordLive(t) PROVE TypeOK'
  <2>1. want[t] \in Sizes /\ blk[t] \in Block /\ blk[t].addr \in Addr /\ blk[t].size \in Nat
    BY <1>7 DEF RecordLive, Inv, Underway, Block
  <2>2. [size |-> blk[t].size, requested |-> want[t], usable |-> Usable(blk[t])] \in Record
    BY <2>1, LargeAssumption DEF Record, Usable
  <2>3. NoBlock \in Block
    BY LargeAssumption DEF NoBlock, Block, Addr
  <2> QED
    BY <1>7, <2>1, <2>2, <2>3 DEF RecordLive, Inv
<1>8. ASSUME NEW t \in Threads, NEW a \in Addr, DecodeFree(t, a) PROVE TypeOK'
  BY <1>8 DEF DecodeFree, Inv
<1>9. NoFree \in [addr : Addr, header : Header]
  BY LargeAssumption DEF NoFree, NoHeader, Header, Addr
<1>10. ASSUME NEW t \in Threads, Release(t) PROVE TypeOK'
  <2>1. seen[t].addr \in Addr /\ live[seen[t].addr] \in Record /\ NoRecord \in Record
    BY DEF Inv, NoRecord, Record
  <2>2. live[seen[t].addr].size \in Nat
    BY <2>1 DEF Record
  <2>3. [addr |-> seen[t].addr, size |-> live[seen[t].addr].size] \in Block
    BY <2>1, <2>2 DEF Block
  <2> QED
    BY <1>9, <1>10, <2>1, <2>2, <2>3 DEF Release, Inv
<1>11. ASSUME NEW t \in Threads, ReleaseRejected(t) PROVE TypeOK'
  BY <1>9, <1>11 DEF ReleaseRejected, Inv
<1>12. CASE ReserveElsewhere
  <2>1. AlignUp(next) \in Nat
    BY AlignUpFacts DEF Inv
  <2> QED
    BY <1>12, <2>1, LargeAssumption DEF ReserveElsewhere, Inv
<1>13. CASE UNCHANGED vars
  BY <1>13 DEF vars, Inv
<1> QED
  BY <1>1, <1>2, <1>3, <1>4, <1>5, <1>6, <1>7, <1>8, <1>10, <1>11, <1>12, <1>13 DEF Next

-----------------------------------------------------------------------------
(***************************************************************************)
(* What a step does to the blocks, in terms of sets of blocks: the lemmas  *)
(* below carry BlocksApart through the four ways a block changes its place.*)
(***************************************************************************)

\* The blocks of typed states have numbers for their addresses and sizes.
LEMMA BlocksTyped ==
    ASSUME TypeOK
    PROVE  /\ Placed \subseteq Block
           /\ \A b \in Block : b.addr \in Nat /\ b.size \in Nat
           /\ \A t \in Threads : blk[t] \in Block
           /\ next \in Nat
<1>1. LiveBlocks \subseteq Block
  BY DEF LiveBlocks, LiveAddr, TypeOK, Record, Block
<1>2. \A b \in Block : b.addr \in Nat /\ b.size \in Nat
  BY LargeAssumption DEF Block, Addr
<1> QED
  BY <1>1, <1>2, LargeAssumption DEF Placed, TypeOK

\* An unused place cannot coincide with a used one: blocks are not empty.
LEMMA PositiveSizes ==
    ASSUME Inv
    PROVE  /\ \A b \in Placed : b.size > 0
           /\ \A t \in Threads : InFlight(t) => blk[t].size > 0
<1>1. ASSUME NEW b \in LiveBlocks PROVE b.size > 0
  <2>1. PICK a \in LiveAddr : b = [addr |-> a, size |-> live[a].size]
    BY <1>1 DEF LiveBlocks
  <2>2. live[a] \in Record /\ a \in LiveAddr
    BY <2>1 DEF LiveAddr, Inv, TypeOK
  <2>3. live[a].size \in Nat /\ live[a].usable \in Int /\ live[a].requested \in Nat
    BY <2>2, RecordFields
  <2>4. live[a].requested > 0 /\ live[a].requested <= live[a].usable
        /\ live[a].usable + HeaderSize <= live[a].size
    BY <2>2 DEF Inv, Roomy, LiveRecordSound
  <2> QED
    BY <2>1, <2>3, <2>4, LargeAssumption
<1>2. ASSUME NEW b \in free \cup leaked PROVE b.size > 0
  <2>1. b \in Block /\ b.size > HeaderSize
    BY <1>2 DEF Inv, TypeOK, Roomy
  <2> QED
    BY <2>1, LargeAssumption DEF Block
<1>3. ASSUME NEW t \in Threads, InFlight(t) PROVE blk[t].size > 0
  <2>1. want[t] \in Sizes /\ blk[t].size >= HeaderSize + want[t] /\ blk[t] \in Block
    BY <1>3 DEF Inv, Underway, InFlight, TypeOK
  <2> QED
    BY <2>1, LargeAssumption DEF Block
<1> QED
  BY <1>1, <1>2, <1>3 DEF Placed

\* The panic is unreachable, and the header a thread writes is of no live block.
LEMMA BlockInHandNotLive ==
    ASSUME Inv, NEW t \in Threads, InFlight(t)
    PROVE  live[blk[t].addr] = NoRecord
<1> SUFFICES ASSUME live[blk[t].addr] # NoRecord PROVE FALSE
  OBVIOUS
<1> DEFINE b == [addr |-> blk[t].addr, size |-> live[blk[t].addr].size]
<1>1. blk[t].addr \in Addr /\ blk[t].addr \in Nat /\ blk[t].size \in Nat
  BY LargeAssumption DEF Inv, TypeOK, Block, Addr
<1>2. b \in LiveBlocks
  BY <1>1 DEF LiveBlocks, LiveAddr
<1>3. b.size > 0 /\ blk[t].size > 0 /\ b.size \in Nat
  BY <1>2, PositiveSizes, BlocksTyped DEF Placed, Inv
<1>4. Apart(b, blk[t])
  BY <1>2 DEF Inv, BlocksApart
<1>5. b.addr = blk[t].addr
  OBVIOUS
<1> HIDE DEF b
<1> QED
  BY <1>1, <1>3, <1>4, <1>5 DEF Apart

\* LiveBlocks changes with the one entry that a step changes.
LEMMA LiveBlocksSame ==
    ASSUME live' = live
    PROVE  LiveBlocks' = LiveBlocks /\ LiveAddr' = LiveAddr
  BY DEF LiveBlocks, LiveAddr

\* BlocksApart when only threads that have no block in hand move.
LEMMA ApartIdle ==
    ASSUME Inv, UNCHANGED <<live, free, leaked>>, next' \in Nat, next <= next',
           \A u \in Threads : InFlight(u)' => InFlight(u) /\ blk'[u] = blk[u]
    PROVE  BlocksApart'
<1>1. LiveBlocks' = LiveBlocks
  BY LiveBlocksSame
<1>2. Placed \subseteq Block /\ (\A b \in Block : b.addr \in Nat /\ b.size \in Nat)
      /\ (\A u \in Threads : blk[u] \in Block) /\ next \in Nat
  BY BlocksTyped DEF Inv
<1> QED
  BY <1>1, <1>2 DEF BlocksApart, Apart, Inv, Placed

\* Reusing a cached block keeps the blocks apart: it leaves the free list as it goes into the thread's hands.
LEMMA ApartTake ==
    ASSUME Inv, NEW t \in Threads, NEW n \in Sizes, TakeReusable(t, n)
    PROVE  BlocksApart'
<1>1. PICK b \in free : blk' = [blk EXCEPT ![t] = b] /\ free' = free \ {b}
  BY DEF TakeReusable, BestFit, Fitting
<1>2. LiveBlocks' = LiveBlocks /\ leaked' = leaked /\ next' = next
  BY LiveBlocksSame DEF TakeReusable
<1>3. blk'[t] = b /\ \A u \in Threads \ {t} : blk'[u] = blk[u] /\ (InFlight(u)' <=> InFlight(u))
  BY <1>1 DEF Inv, TypeOK, TakeReusable, InFlight
<1>4. b.addr + b.size <= next
  BY DEF Inv, BlocksApart
<1>5. \A c \in (LiveBlocks \cup free \cup leaked) \ {b} : Apart(b, c) /\ Apart(c, b)
  BY DEF Inv, BlocksApart
<1>6. \A u \in Threads \ {t} : InFlight(u) => Apart(b, blk[u]) /\ Apart(blk[u], b)
  BY DEF Inv, BlocksApart, Apart
<1>7. b \notin LiveBlocks /\ b \notin leaked
  BY DEF Inv, BlocksApart
<1> QED
  BY <1>1, <1>2, <1>3, <1>4, <1>5, <1>6, <1>7 DEF Inv, BlocksApart

\* A span carved at the bump offset is apart from every block below it.
LEMMA ApartCarve ==
    ASSUME Inv, NEW t \in Threads, Carve(t)
    PROVE  BlocksApart'
<1>1. UNCHANGED <<live, free, leaked>> /\ LiveBlocks' = LiveBlocks
  BY LiveBlocksSame DEF Carve
<1>2. Placed \subseteq Block /\ (\A c \in Block : c.addr \in Nat /\ c.size \in Nat)
      /\ (\A u \in Threads : blk[u] \in Block) /\ next \in Nat
  BY BlocksTyped DEF Inv
<1>3. want[t] \in Sizes
  BY DEF Carve, Inv, Underway
<1> DEFINE b == [addr |-> AlignUp(next), size |-> BlockSize(want[t])]
<1>4. AlignUp(next) \in Nat /\ AlignUp(next) >= next /\ BlockSize(want[t]) \in Nat
  BY <1>2, <1>3, AlignUpFacts, BlockSizeFacts
<1>5. b.addr \in Nat /\ b.size \in Nat /\ b.addr >= next /\ next' = b.addr + b.size
  BY <1>4 DEF Carve
<1>6. blk'[t] = b /\ \A u \in Threads \ {t} : blk'[u] = blk[u] /\ (InFlight(u)' <=> InFlight(u))
  BY DEF Inv, TypeOK, Carve, InFlight
<1> HIDE DEF b
<1>7. next <= next'
  BY <1>2, <1>5
<1>8. \A c \in Placed : c.addr + c.size <= next /\ c.addr + c.size <= next' /\ Apart(c, b)
  <2> SUFFICES ASSUME NEW c \in Placed
               PROVE  c.addr + c.size <= next /\ c.addr + c.size <= next' /\ Apart(c, b)
    OBVIOUS
  <2>1. c.addr + c.size <= next
    BY DEF Inv, BlocksApart, Placed
  <2> QED
    BY <1>2, <1>5, <1>7, <2>1 DEF Apart
<1>9. \A u \in Threads : InFlight(u) =>
         blk[u].addr + blk[u].size <= next' /\ Apart(blk[u], b) /\ Apart(b, blk[u])
  <2> SUFFICES ASSUME NEW u \in Threads, InFlight(u)
               PROVE  blk[u].addr + blk[u].size <= next' /\ Apart(blk[u], b) /\ Apart(b, blk[u])
    OBVIOUS
  <2>1. blk[u].addr + blk[u].size <= next
    BY DEF Inv, BlocksApart
  <2> QED
    BY <1>2, <1>5, <1>7, <2>1 DEF Apart
<1>10. b.addr + b.size <= next'
  BY <1>5
<1> QED
  BY <1>1, <1>6, <1>8, <1>9, <1>10 DEF Inv, BlocksApart, Placed

\* The block in hand is put down: it becomes a live or a dropped block.
LEMMA ApartPutDown ==
    ASSUME Inv, NEW t \in Threads, InFlight(t), ~InFlight(t)',
           \/ LiveBlocks' = LiveBlocks \cup {blk[t]} /\ leaked' = leaked
           \/ LiveBlocks' = LiveBlocks /\ leaked' = leaked \cup {blk[t]},
           free' = free, next' = next,
           \A u \in Threads \ {t} : blk'[u] = blk[u] /\ (InFlight(u)' <=> InFlight(u))
    PROVE  BlocksApart'
<1>1. blk[t].addr + blk[t].size <= next
  BY DEF Inv, BlocksApart
<1>2. \A c \in LiveBlocks \cup free \cup leaked : Apart(blk[t], c) /\ Apart(c, blk[t])
  BY DEF Inv, BlocksApart, Apart
<1>3. \A u \in Threads \ {t} : InFlight(u) => Apart(blk[t], blk[u])
  BY DEF Inv, BlocksApart
<1>4. blk[t] \notin LiveBlocks \cup free \cup leaked
  <2> SUFFICES ASSUME blk[t] \in LiveBlocks \cup free \cup leaked PROVE FALSE
    OBVIOUS
  <2>1. Apart(blk[t], blk[t])
    BY <1>2
  <2>2. blk[t].size > 0 /\ blk[t].addr \in Nat /\ blk[t].size \in Nat
    BY PositiveSizes, BlocksTyped DEF Inv
  <2> QED
    BY <2>1, <2>2 DEF Apart
<1> QED
  BY <1>1, <1>2, <1>3, <1>4 DEF Inv, BlocksApart

\* Abandoning a block whose request the header cannot encode keeps the blocks apart.
LEMMA ApartEncodeFails ==
    ASSUME Inv, NEW t \in Threads, EncodeFails(t)
    PROVE  BlocksApart'
<1>1. LiveBlocks' = LiveBlocks /\ leaked' = leaked \cup {blk[t]} /\ free' = free /\ next' = next
  BY LiveBlocksSame DEF EncodeFails
<1>2. InFlight(t) /\ ~InFlight(t)'
  BY DEF EncodeFails, InFlight, Inv, TypeOK
<1>3. \A u \in Threads \ {t} : blk'[u] = blk[u] /\ (InFlight(u)' <=> InFlight(u))
  BY DEF EncodeFails, InFlight, Inv, TypeOK
<1> QED
  BY <1>1, <1>2, <1>3, ApartPutDown

\* The entry that record_live_allocation makes is the block in hand.
LEMMA RecordEffect ==
    ASSUME Inv, NEW t \in Threads, RecordLive(t)
    PROVE  /\ blk[t].addr \in Addr
           /\ live'[blk[t].addr] =
                 [size |-> blk[t].size, requested |-> want[t], usable |-> Usable(blk[t])]
           /\ want[t] \in Nat /\ want[t] > 0
           /\ \A a \in Addr \ {blk[t].addr} : live'[a] = live[a]
           /\ LiveAddr' = LiveAddr \cup {blk[t].addr}
           /\ LiveBlocks' = LiveBlocks \cup {blk[t]}
<1> DEFINE rec == [size |-> blk[t].size, requested |-> want[t], usable |-> Usable(blk[t])]
<1>1. live \in [Addr -> Record] /\ blk[t] \in Block /\ blk[t].addr \in Addr
  BY DEF Inv, TypeOK, Block
<1>2. live' = [live EXCEPT ![blk[t].addr] = rec]
  BY DEF RecordLive
<1>3. want[t] \in Sizes
  BY DEF RecordLive, Inv, Underway
<1>4. want[t] \in Nat /\ want[t] > 0
  BY <1>3, SizesPositive
<1>5. rec.requested = want[t] /\ rec.size = blk[t].size /\ NoRecord.requested = 0
  BY DEF NoRecord
<1> HIDE DEF rec
<1>6. live'[blk[t].addr] = rec /\ \A a \in Addr \ {blk[t].addr} : live'[a] = live[a]
  BY <1>1, <1>2
<1>7. rec # NoRecord
  BY <1>4, <1>5
<1>8. live[blk[t].addr] = NoRecord
  BY DEF RecordLive
<1>9. LiveAddr' = LiveAddr \cup {blk[t].addr} /\ blk[t].addr \notin LiveAddr
  BY <1>1, <1>6, <1>7, <1>8 DEF LiveAddr
<1>10. [addr |-> blk[t].addr, size |-> live'[blk[t].addr].size] = blk[t]
  BY <1>1, <1>5, <1>6 DEF Block
<1>11. \A a \in LiveAddr : live'[a] = live[a]
  BY <1>6, <1>9 DEF LiveAddr
<1>12. LiveBlocks' = LiveBlocks \cup {blk[t]}
  BY <1>9, <1>10, <1>11 DEF LiveBlocks
<1> QED
  BY <1>1, <1>4, <1>6, <1>9, <1>12 DEF rec

\* Registering the block in hand keeps the blocks apart.
LEMMA ApartRecord ==
    ASSUME Inv, NEW t \in Threads, RecordLive(t)
    PROVE  BlocksApart'
<1>1. LiveBlocks' = LiveBlocks \cup {blk[t]}
  BY RecordEffect
<1>2. leaked' = leaked /\ free' = free /\ next' = next
  BY DEF RecordLive
<1>3. InFlight(t) /\ ~InFlight(t)'
  BY DEF RecordLive, InFlight, Inv, TypeOK
<1>4. \A u \in Threads \ {t} : blk'[u] = blk[u] /\ (InFlight(u)' <=> InFlight(u))
  BY DEF RecordLive, InFlight, Inv, TypeOK
<1> QED
  BY <1>1, <1>2, <1>3, <1>4, ApartPutDown

\* A release moves one block from the registry to the free pool.
LEMMA ReleaseEffect ==
    ASSUME Inv, NEW t \in Threads, Release(t)
    PROVE  \E b \in LiveBlocks :
              /\ b.addr = seen[t].addr /\ b.addr \in LiveAddr
              /\ b.size = live[b.addr].size
              /\ free' = free \cup {b}
              /\ LiveBlocks' = LiveBlocks \ {b}
              /\ LiveAddr' = LiveAddr \ {b.addr}
              /\ \A a \in LiveAddr' : live'[a] = live[a]
<1> DEFINE a == seen[t].addr
           b == [addr |-> a, size |-> live[a].size]
<1>1. live \in [Addr -> Record] /\ a \in Addr
  BY DEF Inv, TypeOK
<1>2. live' = [live EXCEPT ![a] = NoRecord] /\ live[a] # NoRecord /\ free' = free \cup {b}
  BY DEF Release, Matches
<1>3. live'[a] = NoRecord /\ \A c \in Addr \ {a} : live'[c] = live[c]
  BY <1>1, <1>2
<1>4. a \in LiveAddr /\ LiveAddr' = LiveAddr \ {a} /\ \A c \in LiveAddr' : live'[c] = live[c]
  BY <1>1, <1>2, <1>3 DEF LiveAddr
<1>5. b \in LiveBlocks
  BY <1>4 DEF LiveBlocks
<1>6. LiveBlocks' = LiveBlocks \ {b}
  <2>1. ASSUME NEW x \in LiveBlocks' PROVE x \in LiveBlocks \ {b}
    <3>1. PICK c \in LiveAddr' : x = [addr |-> c, size |-> live'[c].size]
      BY <2>1 DEF LiveBlocks
    <3>2. c \in LiveAddr /\ c # a /\ live'[c] = live[c]
      BY <1>4, <3>1
    <3>3. x \in LiveBlocks
      BY <3>1, <3>2 DEF LiveBlocks
    <3>4. x.addr = c /\ b.addr = a
      BY <3>1
    <3> QED
      BY <3>2, <3>3, <3>4
  <2>2. ASSUME NEW x \in LiveBlocks, x # b PROVE x \in LiveBlocks'
    <3>1. PICK c \in LiveAddr : x = [addr |-> c, size |-> live[c].size]
      BY <2>2 DEF LiveBlocks
    <3>2. c \in LiveAddr' /\ live'[c] = live[c]
      BY <1>4, <2>2, <3>1
    <3> QED
      BY <3>1, <3>2 DEF LiveBlocks
  <2> QED
    BY <2>1, <2>2
<1>7. b.addr = a /\ b.size = live[a].size
  OBVIOUS
<1> HIDE DEF b
<1> QED
  BY <1>2, <1>4, <1>5, <1>6, <1>7

\* Moving a live block to the free list keeps the blocks apart.
LEMMA ApartRelease ==
    ASSUME Inv, NEW t \in Threads, Release(t)
    PROVE  BlocksApart'
<1>1. PICK b \in LiveBlocks : free' = free \cup {b} /\ LiveBlocks' = LiveBlocks \ {b}
  BY ReleaseEffect
<1>2. leaked' = leaked /\ next' = next
  BY DEF Release
<1>3. \A u \in Threads : blk'[u] = blk[u] /\ (InFlight(u)' => InFlight(u))
  BY DEF Release, InFlight, Inv, TypeOK
<1> QED
  BY <1>1, <1>2, <1>3 DEF Inv, BlocksApart

\* Every step keeps the blocks apart.
LEMMA ApartStep == Inv /\ [Next]_vars => BlocksApart'
<1> SUFFICES ASSUME Inv, [Next]_vars PROVE BlocksApart'
  OBVIOUS
<1>1. next \in Nat
  BY LargeAssumption DEF Inv, TypeOK
<1>2. CASE UNCHANGED <<next, live, free, leaked, blk, pc>>
  BY <1>1, <1>2, ApartIdle DEF InFlight
<1>3. ASSUME NEW t \in Threads, UNCHANGED <<next, live, free, leaked, blk>>,
             \E to \in {"idle", "carve", "release"} : pc' = [pc EXCEPT ![t] = to]
      PROVE  BlocksApart'
  <2>1. \A u \in Threads : InFlight(u)' => InFlight(u) /\ blk'[u] = blk[u]
    BY <1>3 DEF InFlight, Inv, TypeOK
  <2> QED
    BY <1>1, <1>3, <2>1, ApartIdle
<1>4. ASSUME NEW t \in Threads, WriteHeader(t) PROVE BlocksApart'
  <2>1. \A u \in Threads : InFlight(u)' => InFlight(u) /\ blk'[u] = blk[u]
    BY <1>4 DEF WriteHeader, InFlight, Inv, TypeOK
  <2> QED
    BY <1>1, <1>4, <2>1, ApartIdle DEF WriteHeader
<1>5. CASE ReserveElsewhere
  <2>1. AlignUp(next) \in Nat /\ AlignUp(next) >= next
    BY <1>1, AlignUpFacts
  <2>2. next' \in Nat /\ next <= next'
    BY <1>1, <1>5, <2>1, LargeAssumption DEF ReserveElsewhere
  <2> QED
    BY <1>5, <2>2, ApartIdle DEF ReserveElsewhere, InFlight
<1>6. ASSUME NEW t \in Threads, NEW n \in Sizes, MissReusable(t, n) PROVE BlocksApart'
  BY <1>3, <1>6 DEF MissReusable
<1>7. ASSUME NEW t \in Threads, OutOfMemory(t) \/ ReleaseRejected(t) PROVE BlocksApart'
  BY <1>3, <1>7 DEF OutOfMemory, ReleaseRejected
<1>8. ASSUME NEW t \in Threads, NEW a \in Addr, DecodeFree(t, a) PROVE BlocksApart'
  BY <1>3, <1>8 DEF DecodeFree
<1>9. CASE UNCHANGED vars
  BY <1>2, <1>9 DEF vars
<1> QED
  BY <1>4, <1>5, <1>6, <1>7, <1>8, <1>9, ApartTake, ApartCarve, ApartEncodeFails, ApartRecord,
     ApartRelease DEF Next

-----------------------------------------------------------------------------
\* The registry and the headers, through the steps that touch one of them.
LEMMA SoundStep == Inv /\ [Next]_vars => LiveRecordSound' /\ Roomy'
<1> SUFFICES ASSUME Inv, [Next]_vars PROVE LiveRecordSound' /\ Roomy'
  OBVIOUS
<1>1. CASE UNCHANGED <<live, hdr, free, leaked>>
  BY <1>1, LiveBlocksSame DEF Inv, LiveRecordSound, Roomy, LiveAddr
<1>2. ASSUME NEW t \in Threads, NEW n \in Sizes, TakeReusable(t, n)
      PROVE  LiveRecordSound' /\ Roomy'
  <2>1. free' \subseteq free /\ UNCHANGED <<live, hdr, leaked>>
    BY <1>2 DEF TakeReusable
  <2> QED
    BY <2>1, LiveBlocksSame DEF Inv, LiveRecordSound, Roomy
<1>3. ASSUME NEW t \in Threads, WriteHeader(t) PROVE LiveRecordSound' /\ Roomy'
  <2>1. live[blk[t].addr] = NoRecord
    BY <1>3, BlockInHandNotLive DEF WriteHeader, InFlight
  <2>2. UNCHANGED <<live, free, leaked>> /\ LiveAddr' = LiveAddr
    BY <1>3, LiveBlocksSame DEF WriteHeader
  <2>3. \A a \in LiveAddr : hdr'[a] = hdr[a]
    BY <1>3, <2>1 DEF WriteHeader, LiveAddr, Inv, TypeOK
  <2> QED
    BY <2>2, <2>3 DEF Inv, LiveRecordSound, Roomy
<1>4. ASSUME NEW t \in Threads, EncodeFails(t) PROVE LiveRecordSound' /\ Roomy'
  <2>1. UNCHANGED <<live, hdr, free>> /\ LiveAddr' = LiveAddr /\ leaked' = leaked \cup {blk[t]}
    BY <1>4, LiveBlocksSame DEF EncodeFails
  <2>2. blk[t].size > HeaderSize
    <3>1. want[t] \in Sizes /\ blk[t].size >= HeaderSize + want[t] /\ blk[t] \in Block
      BY <1>4 DEF EncodeFails, InFlight, Inv, Underway, TypeOK
    <3>2. want[t] \in Nat /\ want[t] > 0 /\ blk[t].size \in Nat /\ HeaderSize \in Nat
      BY <3>1, SizesPositive, LargeAssumption DEF Block
    <3> QED
      BY <3>1, <3>2
  <2> QED
    BY <2>1, <2>2 DEF Inv, LiveRecordSound, Roomy
<1>5. ASSUME NEW t \in Threads, RecordLive(t) PROVE LiveRecordSound' /\ Roomy'
  <2> DEFINE a == blk[t].addr
  <2>1. hdr[a] = [requested |-> want[t], usable |-> Usable(blk[t])]
        /\ Encodes(want[t], Usable(blk[t]))
    BY <1>5 DEF RecordLive, Inv, Underway
  <2>2. live'[a] = [size |-> blk[t].size, requested |-> want[t], usable |-> Usable(blk[t])]
        /\ want[t] \in Nat /\ want[t] > 0
    BY <1>5, RecordEffect
  <2>3. LiveAddr' = LiveAddr \cup {a} /\ \A c \in LiveAddr \ {a} : live'[c] = live[c]
    BY <1>5, RecordEffect DEF LiveAddr
  <2>4. UNCHANGED <<hdr, free, leaked>>
    BY <1>5 DEF RecordLive
  <2>5. blk[t].size \in Nat /\ Usable(blk[t]) = blk[t].size - HeaderSize /\ HeaderSize \in Nat
    BY LargeAssumption DEF Usable, Inv, TypeOK, Block
  <2>6. live'[a].requested = want[t] /\ live'[a].size = blk[t].size
        /\ live'[a].usable = Usable(blk[t])
    BY <2>2
  <2>7. hdr[a].requested = want[t] /\ hdr[a].usable = Usable(blk[t])
    BY <2>1
  <2>8. live'[a].requested <= live'[a].usable /\ live'[a].usable + HeaderSize <= live'[a].size
        /\ live'[a].usable = live'[a].size - HeaderSize /\ live'[a].requested > 0
    BY <2>1, <2>2, <2>5, <2>6 DEF Encodes
  <2> HIDE DEF a
  <2> QED
    BY <2>3, <2>4, <2>6, <2>7, <2>8 DEF Inv, LiveRecordSound, Roomy
<1>6. ASSUME NEW t \in Threads, Release(t) PROVE LiveRecordSound' /\ Roomy'
  <2>1. PICK b \in LiveBlocks :
              /\ b.addr \in LiveAddr /\ b.size = live[b.addr].size
              /\ free' = free \cup {b}
              /\ LiveAddr' = LiveAddr \ {b.addr}
              /\ \A a \in LiveAddr' : live'[a] = live[a]
    BY <1>6, ReleaseEffect
  <2>2. UNCHANGED <<hdr, leaked>>
    BY <1>6 DEF Release
  <2>3. b.size > HeaderSize
    <3>1. live[b.addr] \in Record
      BY <2>1 DEF LiveAddr, Inv, TypeOK
    <3>2. live[b.addr].requested \in Nat /\ live[b.addr].size \in Nat
          /\ live[b.addr].usable \in Int /\ HeaderSize \in Nat
      BY <3>1, RecordFields, LargeAssumption
    <3>3. live[b.addr].requested > 0 /\ live[b.addr].requested <= live[b.addr].usable
          /\ live[b.addr].usable + HeaderSize <= live[b.addr].size
      BY <2>1 DEF Inv, Roomy, LiveRecordSound
    <3> QED
      BY <2>1, <3>2, <3>3
  <2> QED
    BY <2>1, <2>2, <2>3 DEF Inv, LiveRecordSound, Roomy
<1>7. ASSUME NEW t \in Threads, NEW n \in Sizes, MissReusable(t, n)
      PROVE  LiveRecordSound' /\ Roomy'
  BY <1>1, <1>7 DEF MissReusable
<1>8. ASSUME NEW t \in Threads, Carve(t) \/ OutOfMemory(t) \/ ReleaseRejected(t)
      PROVE  LiveRecordSound' /\ Roomy'
  BY <1>1, <1>8 DEF Carve, OutOfMemory, ReleaseRejected
<1>9. ASSUME NEW t \in Threads, NEW a \in Addr, DecodeFree(t, a)
      PROVE  LiveRecordSound' /\ Roomy'
  BY <1>1, <1>9 DEF DecodeFree
<1>10. CASE ReserveElsewhere \/ UNCHANGED vars
  BY <1>1, <1>10 DEF ReserveElsewhere, vars
<1> QED
  BY <1>2, <1>3, <1>4, <1>5, <1>6, <1>7, <1>8, <1>9, <1>10 DEF Next

\* The facts a thread carries from one step of its allocation to the next.  Only the
\* header could be disturbed by others, and the block in hand belongs to nobody else.
LEMMA UnderwayStep == Inv /\ [Next]_vars => Underway'
<1> SUFFICES ASSUME Inv, [Next]_vars PROVE Underway'
  OBVIOUS
<1> DEFINE Fact(u) ==
             /\ pc[u] \in {"carve", "write", "record"} => want[u] \in Sizes
             /\ InFlight(u) => blk[u].size >= HeaderSize + want[u]
             /\ pc[u] = "record" =>
                   /\ hdr[blk[u].addr] = [requested |-> want[u], usable |-> Usable(blk[u])]
                   /\ Encodes(want[u], Usable(blk[u]))
<1>1. \A u \in Threads : Fact(u)
  BY DEF Inv, Underway
<1>2. ASSUME NEW u \in Threads, UNCHANGED <<pc[u], want[u], blk[u], hdr>> PROVE Fact(u)'
  BY <1>1, <1>2 DEF InFlight
<1>3. ASSUME NEW u \in Threads, pc'[u] \in {"idle", "release"} PROVE Fact(u)'
  BY <1>3 DEF InFlight
<1>4. SUFFICES ASSUME NEW u \in Threads PROVE Fact(u)'
  BY DEF Underway
<1>5. ASSUME NEW t \in Threads, NEW n \in Sizes, TakeReusable(t, n) PROVE Fact(u)'
  <2>1. CASE u # t
    BY <1>2, <1>5, <2>1 DEF TakeReusable, Inv, TypeOK
  <2>2. CASE u = t
    <3>1. PICK b \in free : blk' = [blk EXCEPT ![t] = b] /\ b.size >= BlockSize(n)
      BY <1>5 DEF TakeReusable, BestFit, Fitting
    <3>2. blk'[u] = b /\ want'[u] = n /\ pc'[u] = "write" /\ b \in Block
      BY <1>5, <2>2, <3>1 DEF TakeReusable, Inv, TypeOK
    <3>3. BlockSize(n) \in Nat /\ BlockSize(n) >= HeaderSize + n /\ n \in Nat
      BY BlockSizeFacts, SizesPositive
    <3>4. b.size >= HeaderSize + n
      BY <3>1, <3>2, <3>3, LargeAssumption DEF Block
    <3> QED
      BY <3>2, <3>4 DEF InFlight
  <2> QED
    BY <2>1, <2>2
<1>6. ASSUME NEW t \in Threads, NEW n \in Sizes, MissReusable(t, n) PROVE Fact(u)'
  <2>1. CASE u # t
    BY <1>2, <1>6, <2>1 DEF MissReusable, Inv, TypeOK
  <2>2. CASE u = t
    BY <1>6, <2>2 DEF MissReusable, InFlight, Inv, TypeOK
  <2> QED
    BY <2>1, <2>2
<1>7. ASSUME NEW t \in Threads, Carve(t) PROVE Fact(u)'
  <2>1. CASE u # t
    BY <1>2, <1>7, <2>1 DEF Carve, Inv, TypeOK
  <2>2. CASE u = t
    <3>1. want[t] \in Sizes
      BY <1>1, <1>7 DEF Carve
    <3>2. BlockSize(want[t]) >= HeaderSize + want[t]
      BY <3>1, BlockSizeFacts
    <3>3. pc'[t] = "write" /\ want' = want /\ blk'[t].size = BlockSize(want[t])
      BY <1>7 DEF Carve, Inv, TypeOK
    <3> QED
      BY <2>2, <3>1, <3>2, <3>3 DEF InFlight
  <2> QED
    BY <2>1, <2>2
<1>8. ASSUME NEW t \in Threads, WriteHeader(t) PROVE Fact(u)'
  <2>1. UNCHANGED <<want, blk>> /\ pc' = [pc EXCEPT ![t] = "record"] /\ pc[t] = "write"
    BY <1>8 DEF WriteHeader
  <2>2. hdr' = [hdr EXCEPT ![blk[t].addr] =
                   [requested |-> want[t], usable |-> Usable(blk[t])]]
        /\ Encodes(want[t], Usable(blk[t]))
    BY <1>8 DEF WriteHeader
  <2>3. blk[t].addr \in Addr /\ blk[u].addr \in Addr /\ hdr \in [Addr -> Header]
    BY DEF Inv, TypeOK, Block
  <2>4. CASE u = t
    <3>1. hdr'[blk[t].addr] = [requested |-> want[t], usable |-> Usable(blk[t])]
      BY <2>2, <2>3
    <3>2. want[t] \in Sizes /\ blk[t].size >= HeaderSize + want[t]
      BY <1>1, <2>1 DEF InFlight
    <3> QED
      BY <2>1, <2>2, <2>4, <3>1, <3>2
  <2>5. CASE u # t /\ ~InFlight(u)
    BY <1>1, <2>1, <2>5 DEF InFlight, Inv, TypeOK
  <2>6. CASE u # t /\ InFlight(u)
    <3>1. Apart(blk[t], blk[u]) /\ blk[t].size > 0 /\ blk[u].size > 0
      BY <2>1, <2>6, PositiveSizes DEF Inv, BlocksApart, InFlight
    <3>2. blk[t] \in Block /\ blk[u] \in Block /\ \A b \in Block : b.addr \in Nat /\ b.size \in Nat
      BY BlocksTyped DEF Inv
    <3>3. blk[t].addr # blk[u].addr
      BY <3>1, <3>2 DEF Apart
    <3>4. hdr'[blk[u].addr] = hdr[blk[u].addr] /\ pc'[u] = pc[u]
      BY <2>1, <2>2, <2>3, <2>6, <3>3 DEF Inv, TypeOK
    <3> QED
      BY <1>1, <2>1, <3>4 DEF InFlight
  <2> QED
    BY <2>4, <2>5, <2>6
<1>9. ASSUME NEW t \in Threads, OutOfMemory(t) PROVE Fact(u)'
  BY <1>2, <1>3, <1>9 DEF OutOfMemory, Inv, TypeOK
<1>10. ASSUME NEW t \in Threads, EncodeFails(t) PROVE Fact(u)'
  BY <1>2, <1>3, <1>10 DEF EncodeFails, Inv, TypeOK
<1>11. ASSUME NEW t \in Threads, RecordLive(t) PROVE Fact(u)'
  BY <1>2, <1>3, <1>11 DEF RecordLive, Inv, TypeOK
<1>12. ASSUME NEW t \in Threads, NEW a \in Addr, DecodeFree(t, a) PROVE Fact(u)'
  BY <1>2, <1>3, <1>12 DEF DecodeFree, Inv, TypeOK
<1>13. ASSUME NEW t \in Threads, Release(t) \/ ReleaseRejected(t) PROVE Fact(u)'
  BY <1>2, <1>3, <1>13 DEF Release, ReleaseRejected, Inv, TypeOK
<1>14. CASE ReserveElsewhere \/ UNCHANGED vars
  BY <1>2, <1>14 DEF ReserveElsewhere, vars
<1> QED
  BY <1>5, <1>6, <1>7, <1>8, <1>9, <1>10, <1>11, <1>12, <1>13, <1>14 DEF Next

\* A block that fits its request fails to be encoded only if it is too large.
LEMMA LeakStep == Inv /\ [Next]_vars => LeaksOnlyUnencodable'
<1> SUFFICES ASSUME Inv, [Next]_vars PROVE LeaksOnlyUnencodable'
  OBVIOUS
<1>1. CASE leaked' = leaked
  BY <1>1 DEF Inv, LeaksOnlyUnencodable
<1>2. ASSUME NEW t \in Threads, EncodeFails(t) PROVE LeaksOnlyUnencodable'
  <2>1. want[t] \in Sizes /\ blk[t].size >= HeaderSize + want[t] /\ blk[t] \in Block
        /\ ~Encodes(want[t], Usable(blk[t])) /\ leaked' = leaked \cup {blk[t]}
    BY <1>2 DEF EncodeFails, InFlight, Inv, Underway, TypeOK
  <2>2. want[t] \in Nat /\ blk[t].size \in Nat /\ HeaderSize \in Nat /\ MaxEncoded \in Nat
    BY <2>1, SizesPositive, LargeAssumption DEF Block
  <2>3. Usable(blk[t]) > MaxEncoded
    BY <2>1, <2>2 DEF Usable, Encodes
  <2> QED
    BY <2>1, <2>3 DEF Inv, LeaksOnlyUnencodable
<1>3. CASE \A t \in Threads : ~EncodeFails(t)
  <2>1. leaked' = leaked
    BY <1>3 DEF Next, vars, TakeReusable, MissReusable, Carve, OutOfMemory, WriteHeader,
         RecordLive, DecodeFree, Release, ReleaseRejected, ReserveElsewhere
  <2> QED
    BY <1>1, <2>1
<1> QED
  BY <1>2, <1>3

-----------------------------------------------------------------------------
\* The invariant holds in every reachable state.
LEMMA InvHolds == Spec => []Inv
<1>1. Inv /\ [Next]_vars => Inv'
  BY TypeStep, ApartStep, UnderwayStep, SoundStep, LeakStep DEF Inv
<1> QED
  BY <1>1, InitInv, PTL DEF Spec

\* The variables of the large path keep their types; `next` stays inside the arena.
THEOREM LargeTypeCorrect == Spec => []TypeOK
<1>1. Inv => TypeOK
  BY DEF Inv
<1> QED
  BY <1>1, InvHolds, PTL

\* No two large blocks ever overlap and none is in two places (LargeObjectState's live
\* and free lists, the hands of a thread between its two locked sections).
THEOREM LargeBlocksApart == Spec => []BlocksApart
<1>1. Inv => BlocksApart
  BY DEF Inv
<1> QED
  BY <1>1, InvHolds, PTL

\* The panic in record_live_allocation is unreachable, whatever stale frees callers make.
THEOREM NoDoubleRegistration == Spec => []PanicUnreachable
<1>1. Inv => PanicUnreachable
  BY BlockInHandNotLive DEF PanicUnreachable, InFlight
<1> QED
  BY <1>1, InvHolds, PTL

\* A live block has room for its request and a header that its holder's free passes.
THEOREM LiveRecordsSound == Spec => []LiveRecordSound
<1>1. Inv => LiveRecordSound
  BY DEF Inv
<1> QED
  BY <1>1, InvHolds, PTL

\* allocate_large drops a block only when encode_large_fields cannot hold its size.
THEOREM LeaksUnencodable == Spec => []LeaksOnlyUnencodable
<1>1. Inv => LeaksOnlyUnencodable
  BY DEF Inv
<1> QED
  BY <1>1, InvHolds, PTL

-----------------------------------------------------------------------------
(***************************************************************************)
(* The counters.  MapThenSumSet adds up a set in an order that is left     *)
(* open; the next lemmas show that the order does not matter.              *)
(***************************************************************************)

Total(S) == MapThenSumSet(SizeOf, S)

\* Finite sets of blocks.
BlockSets == {S \in SUBSET Block : IsFiniteSet(S)}

\* The equation of the recursive function that adds up the blocks of S.
SumLoop(g, S) ==
    g = [s \in SUBSET S |-> IF s = {} THEN 0
                            ELSE LET x == CHOOSE x \in s : TRUE IN SizeOf(x) + g[s \ {x}]]

\* A sum over the subsets of S that any element may be taken out of.
Additive(g, S) ==
    /\ g \in [SUBSET S -> Int]
    /\ g[{}] = 0
    /\ \A s \in SUBSET S : \A x \in s : g[s] = x.size + g[s \ {x}]

\* Induction on a set of numbers: counting shows that it misses none.
LEMMA NumberInduction ==
    ASSUME NEW S, 0 \in S, \A n \in Nat : n \in S => n + 1 \in S
    PROVE  \A n \in Nat : n \in S
<1> SUFFICES ASSUME NEW n \in Nat, n \notin S PROVE FALSE
  OBVIOUS
<1> DEFINE T == {k \in 0 .. n : k \in S}
           F == [k \in T |-> k + 1]
<1>1. IsFiniteSet(T) /\ Cardinality(T) \in Nat
  <2>1. IsFiniteSet(0 .. n)
    BY FS_Interval
  <2>2. T \subseteq 0 .. n
    OBVIOUS
  <2> QED
    BY <2>1, <2>2, FS_Subset, FS_CardinalityType
<1>2. F \in Injection(T, T \ {0})
  BY DEF Injection, IsInjective
<1>3. IsFiniteSet(T \ {0}) /\ Cardinality(T \ {0}) = Cardinality(T) - 1
  <2>1. 0 \in T
    OBVIOUS
  <2> QED
    BY <1>1, <2>1, FS_RemoveElement
<1>4. Cardinality(T) <= Cardinality(T \ {0})
  <2> HIDE DEF T, F
  <2> QED
    BY <1>2, <1>3, FS_Injection
<1> QED
  BY <1>1, <1>3, <1>4

\* A set of n + 1 elements without one of them.
LEMMA OneLess ==
    ASSUME NEW n \in Nat, NEW S, IsFiniteSet(S), Cardinality(S) = n + 1, NEW x \in S
    PROVE  IsFiniteSet(S \ {x}) /\ Cardinality(S \ {x}) = n
<1>1. IsFiniteSet(S \ {x}) /\ Cardinality(S \ {x}) = Cardinality(S) - 1
  BY FS_RemoveElement
<1> QED
  BY <1>1

\* The sum over one more block.
LEMMA AdditiveStep ==
    ASSUME NEW S \in SUBSET Block, NEW x \in S, NEW g, Additive(g, S \ {x})
    PROVE  \E h : Additive(h, S)
<1> DEFINE R == S \ {x}
           h == [s \in SUBSET S |-> IF x \in s THEN x.size + g[s \ {x}] ELSE g[s]]
<1>1. g \in [SUBSET R -> Int] /\ g[{}] = 0
      /\ \A s \in SUBSET R : \A y \in s : g[s] = y.size + g[s \ {y}]
  BY DEF Additive
<1>2. \A y \in S : y.size \in Int
  BY DEF Block
<1>3. \A s \in SUBSET S : (x \notin s => s \in SUBSET R) /\ s \ {x} \in SUBSET R
  OBVIOUS
<1>4. \A s \in SUBSET S : (x \in s => h[s] = x.size + g[s \ {x}]) /\ (x \notin s => h[s] = g[s])
  OBVIOUS
<1>5. h \in [SUBSET S -> Int]
  BY <1>1, <1>2, <1>3
<1> HIDE DEF h, R
<1>6. h[{}] = 0
  BY <1>1, <1>4
<1>7. ASSUME NEW s \in SUBSET S, NEW y \in s PROVE h[s] = y.size + h[s \ {y}]
  <2>1. s \ {y} \in SUBSET S
    OBVIOUS
  <2>2. CASE y = x
    BY <2>1, <2>2, <1>4
  <2>3. CASE y # x /\ x \notin s
    <3>1. s \in SUBSET R /\ x \notin s \ {y}
      BY <2>3, <1>3
    <3>2. g[s] = y.size + g[s \ {y}]
      BY <3>1, <1>1
    <3> QED
      BY <3>1, <3>2, <2>1, <2>3, <1>4
  <2>4. CASE y # x /\ x \in s
    <3> DEFINE r == s \ {x}
    <3>1. r \in SUBSET R /\ y \in r
      BY <2>4, <1>3
    <3>2. g[r] = y.size + g[r \ {y}]
      BY <3>1, <1>1
    <3>3. r \ {y} = (s \ {y}) \ {x} /\ r \ {y} \in SUBSET R
      BY <3>1
    <3>4. h[s] = x.size + g[r] /\ h[s \ {y}] = x.size + g[r \ {y}]
      BY <3>3, <2>1, <2>4, <1>4
    <3>5. g[r \ {y}] \in Int /\ x.size \in Int /\ y.size \in Int
      BY <3>3, <1>1, <1>2
    <3> QED
      BY <3>2, <3>4, <3>5
  <2> QED
    BY <2>2, <2>3, <2>4
<1> QED
  BY <1>5, <1>6, <1>7 DEF Additive

\* Every finite set of blocks has such a sum.
LEMMA AdditiveExists == ASSUME NEW S \in BlockSets PROVE \E g : Additive(g, S)
<1> DEFINE N == {n \in Nat : \A T \in BlockSets : Cardinality(T) = n => \E g : Additive(g, T)}
<1>1. 0 \in N
  <2>1. ASSUME NEW T \in BlockSets, Cardinality(T) = 0 PROVE \E g : Additive(g, T)
    <3>1. T = {}
      BY <2>1, FS_EmptySet DEF BlockSets
    <3> DEFINE g == [s \in SUBSET T |-> 0]
    <3>2. g \in [SUBSET T -> Int] /\ g[{}] = 0
      OBVIOUS
    <3> HIDE DEF g
    <3>3. Additive(g, T)
      BY <3>1, <3>2 DEF Additive
    <3> QED
      BY <3>3
  <2> QED
    BY <2>1
<1>2. ASSUME NEW n \in Nat, n \in N PROVE n + 1 \in N
  <2>1. ASSUME NEW T \in BlockSets, Cardinality(T) = n + 1 PROVE \E g : Additive(g, T)
    <3>1. T # {} /\ IsFiniteSet(T) /\ T \in SUBSET Block
      BY <2>1, FS_EmptySet DEF BlockSets
    <3>2. PICK x \in T : TRUE
      BY <3>1
    <3>3. T \ {x} \in BlockSets /\ Cardinality(T \ {x}) = n
      <4>1. IsFiniteSet(T \ {x}) /\ Cardinality(T \ {x}) = n
        BY <2>1, <3>1, OneLess
      <4> QED
        BY <3>1, <4>1 DEF BlockSets
    <3>4. PICK g : Additive(g, T \ {x})
      BY <1>2, <3>3
    <3> QED
      BY <3>1, <3>4, AdditiveStep
  <2> QED
    BY <2>1
<1> HIDE DEF N
<1>3. Cardinality(S) \in Nat
  BY FS_CardinalityType DEF BlockSets
<1>4. Cardinality(S) \in N
  BY <1>1, <1>2, <1>3, NumberInduction
<1> QED
  BY <1>4 DEF N

\* MapThenSumSet computes it.
LEMMA TotalIs == ASSUME NEW S \in BlockSets, NEW g, Additive(g, S) PROVE Total(S) = g[S]
<1> DEFINE it == CHOOSE f : SumLoop(f, S)
<1>1. Total(S) = it[S]
  BY DEF Total, MapThenSumSet, MapThenFoldSet, SumLoop
<1>2. SumLoop(g, S)
  <2> DEFINE pick(s) == CHOOSE x \in s : TRUE
             h == [s \in SUBSET S |-> IF s = {} THEN 0 ELSE SizeOf(pick(s)) + g[s \ {pick(s)}]]
  <2>1. g \in [SUBSET S -> Int]
    BY DEF Additive
  <2>2. ASSUME NEW s \in SUBSET S PROVE g[s] = h[s]
    <3>1. CASE s = {}
      BY <3>1 DEF Additive
    <3>2. CASE s # {}
      <4>1. pick(s) \in s
        BY <3>2
      <4> HIDE DEF pick
      <4>2. g[s] = pick(s).size + g[s \ {pick(s)}]
        BY <4>1 DEF Additive
      <4> QED
        BY <3>2, <4>2 DEF SizeOf
    <3> QED
      BY <3>1, <3>2
  <2>3. g = h
    BY <2>1, <2>2
  <2> QED
    BY <2>3 DEF SumLoop
<1>3. SumLoop(it, S)
  BY <1>2
<1> HIDE DEF it
<1>4. \A s \in SUBSET S : it[s] = IF s = {} THEN 0
                                  ELSE LET x == CHOOSE x \in s : TRUE IN SizeOf(x) + it[s \ {x}]
  <2> DEFINE h == [s \in SUBSET S |-> IF s = {} THEN 0
                       ELSE LET x == CHOOSE x \in s : TRUE IN SizeOf(x) + it[s \ {x}]]
  <2>1. it = h
    BY <1>3 DEF SumLoop
  <2>2. \A s \in SUBSET S : h[s] = IF s = {} THEN 0
                                   ELSE LET x == CHOOSE x \in s : TRUE IN SizeOf(x) + it[s \ {x}]
    OBVIOUS
  <2> HIDE DEF h
  <2> QED
    BY <2>1, <2>2
<1> DEFINE N == {n \in Nat : \A s \in SUBSET S : Cardinality(s) = n => it[s] = g[s]}
<1>5. IsFiniteSet(S) /\ \A s \in SUBSET S : IsFiniteSet(s)
  BY FS_Subset DEF BlockSets
<1>6. 0 \in N
  <2>1. ASSUME NEW s \in SUBSET S, Cardinality(s) = 0 PROVE it[s] = g[s]
    <3>1. s = {}
      BY <2>1, <1>5, FS_EmptySet
    <3> QED
      BY <3>1, <1>4 DEF Additive
  <2> QED
    BY <2>1
<1>7. ASSUME NEW n \in Nat, n \in N PROVE n + 1 \in N
  <2>1. ASSUME NEW s \in SUBSET S, Cardinality(s) = n + 1 PROVE it[s] = g[s]
    <3> DEFINE x == CHOOSE y \in s : TRUE
    <3>1. s # {} /\ IsFiniteSet(s)
      BY <2>1, <1>5, FS_EmptySet
    <3>2. x \in s
      BY <3>1
    <3>3. it[s] = SizeOf(x) + it[s \ {x}]
      BY <3>1, <1>4
    <3> HIDE DEF x
    <3>4. s \ {x} \in SUBSET S /\ Cardinality(s \ {x}) = n
      BY <2>1, <3>1, <3>2, OneLess
    <3>5. it[s \ {x}] = g[s \ {x}]
      BY <1>7, <3>4
    <3>6. g[s] = x.size + g[s \ {x}]
      BY <3>2 DEF Additive
    <3> QED
      BY <3>3, <3>5, <3>6 DEF SizeOf
  <2> QED
    BY <2>1
<1> HIDE DEF N
<1>8. Cardinality(S) \in Nat
  BY <1>5, FS_CardinalityType
<1>9. Cardinality(S) \in N
  BY <1>6, <1>7, <1>8, NumberInduction
<1> QED
  BY <1>1, <1>9 DEF N

\* One block more or less.
LEMMA TotalSteps ==
    /\ Total({}) = 0
    /\ \A S \in BlockSets : Total(S) \in Int
    /\ \A S \in BlockSets : \A x \in S :
          S \ {x} \in BlockSets /\ Total(S \ {x}) = Total(S) - x.size
    /\ \A S \in BlockSets : \A x \in Block \ S :
          S \cup {x} \in BlockSets /\ Total(S \cup {x}) = Total(S) + x.size
<1>1. ASSUME NEW S \in BlockSets PROVE Total(S) \in Int
  <2>1. PICK g : Additive(g, S)
    BY AdditiveExists
  <2>2. Total(S) = g[S]
    BY <2>1, TotalIs
  <2> QED
    BY <2>1, <2>2 DEF Additive
<1>2. ASSUME NEW S \in BlockSets, NEW x \in S
      PROVE  S \ {x} \in BlockSets /\ Total(S) = x.size + Total(S \ {x})
  <2> DEFINE R == S \ {x}
  <2>1. R \in BlockSets
    BY FS_Subset DEF BlockSets
  <2>2. PICK g : Additive(g, S)
    BY AdditiveExists
  <2> DEFINE h == [s \in SUBSET R |-> g[s]]
  <2>3. SUBSET R \subseteq SUBSET S
    OBVIOUS
  <2>4. h \in [SUBSET R -> Int] /\ \A s \in SUBSET R : h[s] = g[s]
    BY <2>2, <2>3 DEF Additive
  <2> HIDE DEF h, R
  <2>5. Additive(h, R)
    <3>1. h[{}] = 0
      BY <2>2, <2>4 DEF Additive
    <3>2. ASSUME NEW s \in SUBSET R, NEW y \in s PROVE h[s] = y.size + h[s \ {y}]
      <4>1. s \in SUBSET S /\ s \ {y} \in SUBSET R
        BY <2>3
      <4>2. g[s] = y.size + g[s \ {y}]
        BY <4>1, <2>2 DEF Additive
      <4> QED
        BY <4>1, <4>2, <2>4
    <3> QED
      BY <3>1, <3>2, <2>4 DEF Additive
  <2>6. Total(S) = g[S] /\ Total(R) = h[R]
    BY <2>1, <2>2, <2>5, TotalIs
  <2>7. g[S] = x.size + g[R]
    BY <2>2 DEF Additive, R
  <2> QED
    BY <2>1, <2>4, <2>6, <2>7 DEF R
<1>3. Total({}) = 0
  <2>1. {} \in BlockSets
    BY FS_EmptySet DEF BlockSets
  <2>2. PICK g : Additive(g, {})
    BY <2>1, AdditiveExists
  <2>3. Total({}) = g[{}]
    BY <2>1, <2>2, TotalIs
  <2> QED
    BY <2>2, <2>3 DEF Additive
<1>4. ASSUME NEW S \in BlockSets, NEW x \in S
      PROVE  S \ {x} \in BlockSets /\ Total(S \ {x}) = Total(S) - x.size
  <2>1. x.size \in Int
    BY DEF BlockSets, Block
  <2>2. S \ {x} \in BlockSets /\ Total(S) = x.size + Total(S \ {x}) /\ Total(S \ {x}) \in Int
    BY <1>1, <1>2
  <2> QED
    BY <2>1, <2>2
<1>5. ASSUME NEW S \in BlockSets, NEW x \in Block \ S
      PROVE  S \cup {x} \in BlockSets /\ Total(S \cup {x}) = Total(S) + x.size
  <2> DEFINE R == S \cup {x}
  <2>1. R \in BlockSets /\ x \in R /\ R \ {x} = S
    BY FS_AddElement DEF BlockSets
  <2> HIDE DEF R
  <2>2. Total(R) = x.size + Total(S) /\ Total(S) \in Int
    BY <2>1, <1>1, <1>2
  <2>3. x.size \in Int
    BY DEF Block
  <2> QED
    BY <2>1, <2>2, <2>3 DEF R
<1> QED
  BY <1>1, <1>3, <1>4, <1>5

\* The registry and the free list hold finitely many blocks, and the counters count them.
Counted ==
    /\ LiveBlocks \in BlockSets /\ free \in BlockSets
    /\ live_bytes = Total(LiveBlocks)
    /\ free_blocks = Cardinality(free)
    /\ free_bytes = Total(free)

\* A free list with one block less or more, and its length.
LEMMA FreeCount ==
    ASSUME NEW S \in BlockSets
    PROVE  /\ \A b \in S : Cardinality(S \ {b}) = Cardinality(S) - 1
           /\ \A b \in Block \ S : Cardinality(S \cup {b}) = Cardinality(S) + 1
<1>1. IsFiniteSet(S)
  BY DEF BlockSets
<1>2. \A b \in S : Cardinality(S \ {b}) = Cardinality(S) - 1
  BY <1>1, FS_RemoveElement
<1>3. \A b \in Block \ S : Cardinality(S \cup {b}) = Cardinality(S) + 1
  BY <1>1, FS_AddElement
<1> QED
  BY <1>2, <1>3

\* At the start nothing is counted.
LEMMA CountedInit == Init => Counted
<1> SUFFICES ASSUME Init PROVE Counted
  OBVIOUS
<1>1. LiveBlocks = {} /\ free = {} /\ live_bytes = 0 /\ free_blocks = 0 /\ free_bytes = 0
  BY DEF Init, LiveBlocks, LiveAddr
<1>2. {} \in BlockSets /\ Cardinality({}) = 0
  BY FS_EmptySet DEF BlockSets
<1> QED
  BY <1>1, <1>2, TotalSteps DEF Counted

\* A free block goes into a thread's hands.
LEMMA CountedTake ==
    ASSUME Inv, Counted, NEW t \in Threads, NEW n \in Sizes, TakeReusable(t, n)
    PROVE  Counted'
<1>1. PICK b \in BestFit(n) : free' = free \ {b} /\ free_bytes' = free_bytes - b.size
  BY DEF TakeReusable
<1>2. b \in free
  BY DEF BestFit, Fitting
<1>3. free_blocks' = free_blocks - 1 /\ live_bytes' = live_bytes /\ LiveBlocks' = LiveBlocks
  BY LiveBlocksSame DEF TakeReusable
<1>4. free \ {b} \in BlockSets /\ Total(free \ {b}) = Total(free) - b.size
  BY <1>2, TotalSteps DEF Counted
<1>5. Cardinality(free \ {b}) = Cardinality(free) - 1
  BY <1>2, FreeCount DEF Counted
<1> QED
  BY <1>1, <1>3, <1>4, <1>5 DEF Counted

\* The block in hand is registered.
LEMMA CountedRecord ==
    ASSUME Inv, Counted, NEW t \in Threads, RecordLive(t)
    PROVE  Counted'
<1> DEFINE b == blk[t]
<1>1. LiveBlocks' = LiveBlocks \cup {b}
  BY RecordEffect
<1>2. /\ free' = free /\ free_blocks' = free_blocks /\ free_bytes' = free_bytes
      /\ live_bytes' = live_bytes + b.size /\ live[b.addr] = NoRecord
  BY DEF RecordLive
<1>3. b \in Block
  BY DEF Inv, TypeOK
<1>4. b \notin LiveBlocks
  <2>1. SUFFICES ASSUME b \in LiveBlocks PROVE FALSE
    OBVIOUS
  <2>2. PICK a \in LiveAddr : b = [addr |-> a, size |-> live[a].size]
    BY <2>1 DEF LiveBlocks
  <2>3. b.addr = a
    BY <2>2
  <2> QED
    BY <2>3, <1>2 DEF LiveAddr
<1> HIDE DEF b
<1>5. LiveBlocks \cup {b} \in BlockSets /\ Total(LiveBlocks \cup {b}) = Total(LiveBlocks) + b.size
  BY <1>3, <1>4, TotalSteps DEF Counted
<1> QED
  BY <1>1, <1>2, <1>5 DEF Counted

\* A live block goes to the free list, with its bytes.
LEMMA CountedRelease ==
    ASSUME Inv, Counted, NEW t \in Threads, Release(t)
    PROVE  Counted'
<1>1. PICK b \in LiveBlocks : /\ b.addr = seen[t].addr
                              /\ b.size = live[b.addr].size
                              /\ free' = free \cup {b}
                              /\ LiveBlocks' = LiveBlocks \ {b}
  BY ReleaseEffect
<1>2. /\ live_bytes' = live_bytes - b.size /\ free_bytes' = free_bytes + b.size
      /\ free_blocks' = free_blocks + 1
  BY <1>1 DEF Release
<1>3. b \in Block \ free
  <2>1. free \cap LiveBlocks = {}
    BY DEF Inv, BlocksApart
  <2> QED
    BY <2>1 DEF Counted, BlockSets
<1>4. LiveBlocks \ {b} \in BlockSets /\ Total(LiveBlocks \ {b}) = Total(LiveBlocks) - b.size
  BY TotalSteps DEF Counted
<1>5. free \cup {b} \in BlockSets /\ Total(free \cup {b}) = Total(free) + b.size
  BY <1>3, TotalSteps DEF Counted
<1>6. Cardinality(free \cup {b}) = Cardinality(free) + 1
  BY <1>3, FreeCount DEF Counted
<1> QED
  BY <1>1, <1>2, <1>4, <1>5, <1>6 DEF Counted

\* Every step keeps the counters exact.
LEMMA CountedStep == Inv /\ Counted /\ [Next]_vars => Counted'
<1> SUFFICES ASSUME Inv, Counted, [Next]_vars PROVE Counted'
  OBVIOUS
<1>1. ASSUME UNCHANGED <<live, live_bytes, free, free_blocks, free_bytes>> PROVE Counted'
  BY <1>1, LiveBlocksSame DEF Counted
<1>2. ASSUME NEW t \in Threads,
             \/ \E n \in Sizes : MissReusable(t, n)
             \/ Carve(t) \/ OutOfMemory(t) \/ WriteHeader(t) \/ EncodeFails(t)
             \/ \E a \in Addr : DecodeFree(t, a)
             \/ ReleaseRejected(t)
      PROVE  Counted'
  BY <1>1, <1>2 DEF MissReusable, Carve, OutOfMemory, WriteHeader, EncodeFails, DecodeFree,
                    ReleaseRejected
<1>3. CASE ReserveElsewhere
  BY <1>1, <1>3 DEF ReserveElsewhere
<1>4. CASE UNCHANGED vars
  BY <1>1, <1>4 DEF vars
<1> QED
  BY <1>2, <1>3, <1>4, CountedTake, CountedRecord, CountedRelease DEF Next

\* The counters of stats(), which every call updates by a difference, are at all times
\* the sums over the registry and over the free list.
THEOREM LargeCountersRight == Spec => []LargeCountersExact
<1>1. Inv /\ Counted => LargeCountersExact
  BY DEF Counted, LargeCountersExact, Total
<1> QED
  BY <1>1, CountedInit, CountedStep, InvHolds, PTL DEF Spec
=============================================================================
