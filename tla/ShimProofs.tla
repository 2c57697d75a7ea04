----------------------------- MODULE ShimProofs -----------------------------
(***************************************************************************)
(* Proofs about Shim, for every number of threads, every set of layouts    *)
(* and every placement of the blocks of System: each allocation is backed  *)
(* by the memory that its free returns, the allocator's own vectors stay   *)
(* outside the arena, and only a program's late free aborts the process.   *)
(***************************************************************************)
EXTENDS Shim, TLAPS

-----------------------------------------------------------------------------
(* Rounding *)

\* Quotient and remainder.
LEMMA Division ==
    ASSUME NEW a \in Nat \ {0}, NEW x \in Nat
    PROVE  /\ x % a \in 0..(a - 1)
           /\ \E q \in Nat : x = a * q + (x % a)
  <1>1. x = a * (x \div a) + (x % a) /\ x \div a \in Nat /\ x % a \in 0..(a - 1)
    BY Z3
  <1>2. \E q \in Nat : x = a * q + (x % a)
    BY <1>1, Zenon
  <1> QED BY <1>1, <1>2

\* A multiple leaves no remainder.
LEMMA MultipleDivides ==
    ASSUME NEW a \in Nat \ {0}, NEW q \in Nat
    PROVE  (a * q) % a = 0
  BY Z3

\* A number without remainder is a multiple.
LEMMA DividesMultiple ==
    ASSUME NEW a \in Nat \ {0}, NEW x \in Nat, x % a = 0
    PROVE  \E q \in Nat : x = a * q
  <1>1. PICK q \in Nat : x = a * q + (x % a)
    BY Division
  <1>2. a * q \in Nat
    BY Z3
  <1>3. a * q + 0 = a * q
    BY <1>2
  <1>4. x = a * q
    BY <1>1, <1>3, Zenon
  <1> QED BY <1>4, Zenon

\* Rounding up yields a multiple, at most a - 1 above.
LEMMA AlignUpFacts ==
    ASSUME NEW a \in Nat \ {0}, NEW x \in Nat
    PROVE  /\ AlignUp(x, a) \in Nat
           /\ AlignUp(x, a) % a = 0
           /\ x =< AlignUp(x, a) /\ AlignUp(x, a) =< x + (a - 1)
  <1>1. x % a \in 0..(a - 1)
    BY Division
  <1>2. PICK q \in Nat : x = a * q + (x % a)
    BY Division
  <1>3. CASE x % a = 0
    BY <1>1, <1>3 DEF AlignUp
  <1>4. CASE x % a # 0
    <2> DEFINE r == x % a
               y == x + (a - r)
               z == a * q
    <2>1. AlignUp(x, a) = y
      BY <1>4 DEF AlignUp
    <2>2. z \in Nat /\ z + a = a * (q + 1) /\ q + 1 \in Nat
      BY Z3
    <2>3. x = z + r /\ r \in 0..(a - 1)
      BY <1>1, <1>2
    <2> HIDE DEF r, z
    <2>4. y = z + a
      BY <2>2, <2>3
    <2>5. y = a * (q + 1)
      BY <2>2, <2>4, Zenon
    <2>6. y % a = 0
      BY <2>2, <2>5, MultipleDivides
    <2>7. y \in Nat /\ x =< y /\ y =< x + (a - 1)
      BY <2>3, <1>4 DEF r
    <2> QED BY <2>1, <2>6, <2>7, Zenon
  <1> QED BY <1>3, <1>4

\* What divides a divisor divides.
LEMMA DividesTransitive ==
    ASSUME NEW a \in Nat \ {0}, NEW p \in Nat \ {0}, NEW x \in Nat, p % a = 0, x % p = 0
    PROVE  x % a = 0
  <1>1. PICK q \in Nat : x = p * q
    BY DividesMultiple
  <1>2. PICK k \in Nat : p = a * k
    BY DividesMultiple
  <1>3. (a * k) * q = a * (k * q) /\ k * q \in Nat
    BY Z3
  <1>4. x = a * (k * q)
    BY <1>1, <1>2, <1>3, Zenon
  <1> QED BY <1>3, <1>4, MultipleDivides

\* A layout and its fallback layout.
LEMMA LayoutFacts ==
    ASSUME NEW l \in Layouts
    PROVE  /\ l.size \in Nat /\ l.size > 0 /\ l.align \in Nat /\ l.align > 0
           /\ FallbackAlignment(l) \in Nat /\ FallbackAlignment(l) > 0
           /\ FallbackLayout(l).size = l.size + PrefixSize + FallbackAlignment(l) - 1
           /\ FallbackLayout(l).align = FallbackAlignment(l)
           /\ FallbackLayout(l).size \in Nat /\ FallbackLayout(l).size > 0
           /\ PrefixSize \in Nat /\ PrefixAlign \in Nat
  <1>1. l \in [size : Nat \ {0}, align : Nat \ {0}]
    BY ShimAssumption
  <1>2. /\ l.size \in Nat /\ l.size > 0 /\ l.align \in Nat /\ l.align > 0
        /\ PrefixSize \in Nat /\ PrefixAlign \in Nat /\ PrefixAlign > 0
    BY <1>1, ShimAssumption
  <1>3. FallbackAlignment(l) \in Nat /\ FallbackAlignment(l) > 0
    BY <1>2 DEF FallbackAlignment
  <1> QED BY <1>2, <1>3 DEF FallbackLayout

\* fallback_alloc rounds within what try_fallback_layout reserves: the pointer is aligned,
\* with the prefix in front of it and the payload behind it inside the block.
LEMMA FallbackPtrFacts ==
    ASSUME NEW l \in Layouts, NEW raw \in Nat
    PROVE  /\ FallbackPtr(raw, l) \in Nat
           /\ FallbackPtr(raw, l) % l.align = 0
           /\ raw + PrefixSize =< FallbackPtr(raw, l)
           /\ FallbackPtr(raw, l) + l.size =< raw + FallbackLayout(l).size
           /\ raw =< FallbackPtr(raw, l)
           /\ FallbackPtr(raw, l) < raw + FallbackLayout(l).size
  <1> DEFINE f == FallbackAlignment(l)
             p == FallbackPtr(raw, l)
  <1>1. /\ l.size \in Nat /\ l.size > 0 /\ l.align \in Nat \ {0}
        /\ f \in Nat \ {0} /\ PrefixSize \in Nat /\ PrefixAlign \in Nat \ {0}
        /\ FallbackLayout(l).size = l.size + PrefixSize + f - 1
    BY LayoutFacts, ShimAssumption
  <1>2. raw + PrefixSize \in Nat
    BY <1>1
  <1>3. /\ p \in Nat /\ p % f = 0
        /\ raw + PrefixSize =< p /\ p =< (raw + PrefixSize) + (f - 1)
    BY <1>1, <1>2, AlignUpFacts DEF FallbackPtr
  <1>4. f % l.align = 0
    <2>1. CASE l.align > PrefixAlign
      <3>1. f = l.align * 1
        BY <2>1, <1>1 DEF FallbackAlignment
      <3> QED BY <3>1, <1>1, MultipleDivides
    <2>2. CASE ~(l.align > PrefixAlign)
      BY <2>2, <1>1, ShimAssumption DEF FallbackAlignment
    <2> QED BY <2>1, <2>2
  <1> HIDE DEF f, p
  <1>5. p % l.align = 0
    BY <1>1, <1>3, <1>4, DividesTransitive
  <1>6. /\ raw + PrefixSize =< p
        /\ p + l.size =< raw + FallbackLayout(l).size
        /\ raw =< p
        /\ p < raw + FallbackLayout(l).size
    BY <1>1, <1>3
  <1> QED BY <1>3, <1>5, <1>6 DEF p


-----------------------------------------------------------------------------
(* The inductive invariant *)

Uses == {"shim", "api", "local", "central", "retired"}

Metadata == {"local", "central", "retired"}

Alloc == [ptr : Nat, layout : Layouts, use : Uses, owner : Threads \cup {NoOne}]

Extent == [ptr : Nat, layout : Layouts]

\* The layouts a call into Orthotope may have.
Served == {l \in Layouts : ~SelectsSystem(l)}

Call == {NoCall, [op |-> "exit"]}
        \cup [op : {"alloc"}, layout : Served, use : {"shim", "api"}]
        \cup [op : {"free"}, alloc : Alloc]

\* The types, with the parts of a call.
Typed ==
    /\ global \in {"ok", "failed"}
    /\ tls \in [Threads -> {"alive", "gone"}]
    /\ panicking \in [Threads -> BOOLEAN]
    /\ call \in [Threads -> Call]
    /\ live \subseteq Alloc
    /\ leaked \subseteq Extent
    /\ \A b \in system : /\ b.raw \in RawAddrs
                         /\ b.layout.size \in Nat /\ b.layout.size > 0
    /\ arena \subseteq ArenaPtrs
    /\ \A p \in DOMAIN prefix : p \notin ArenaPtrs /\ prefix[p] \in RawAddrs
    /\ aborted \in Threads \cup {NoOne}

\* The destructor of the cache runs after the cell is marked destroyed, and not while
\* the thread unwinds.
ExitsGone == \A t \in Threads : call[t].op = "exit" => tls[t] = "gone" /\ ~panicking[t]

View(a) == [ptr |-> a.ptr, layout |-> a.layout]

Freeing(t) == call[t].op = "free"

\* No pointer is held twice: by two allocations in use, two that are being freed, two
\* that were given up, or one of each.
Unique ==
    /\ \A a, b \in live : a.ptr = b.ptr => a = b
    /\ \A x, y \in leaked : x.ptr = y.ptr => x = y
    /\ \A a \in live, x \in leaked : a.ptr # x.ptr
    /\ \A t \in Threads : Freeing(t) =>
        /\ \A a \in live \cup leaked : a.ptr # call[t].alloc.ptr
        /\ \A u \in Threads \ {t} : Freeing(u) => call[u].alloc.ptr # call[t].alloc.ptr

\* What is being freed or given up is in the arena, the vectors of the allocator are not,
\* and what the program asked api::allocate for is.
RightPlace ==
    /\ \A x \in leaked : InArena(x)
    /\ \A t \in Threads : Freeing(t) => InArena(call[t].alloc)
    /\ \A a \in live : /\ a.use \in Metadata => ~InArena(a) /\ ~SelectsSystem(a.layout)
                       /\ a.use = "api" => InArena(a)

\* The memory under an allocation: a pointer of the arena, a block of System as it is,
\* or one that begins with the prefix.
Backed(x) ==
    /\ InArena(x) => x.ptr \in arena /\ ~SelectsSystem(x.layout)
    /\ ~InArena(x) =>
        /\ Backing(x) \in system
        /\ IF SelectsSystem(x.layout) THEN x.ptr % x.layout.align = 0
           ELSE /\ x.ptr \in DOMAIN prefix
                /\ HasFallback(x.layout)
                /\ x.ptr = FallbackPtr(prefix[x.ptr], x.layout)

\* Every allocation has its memory, every block outstanding has its allocation, and the
\* blocks of System are apart.
Memory ==
    /\ \A x \in Held : Backed(x)
    /\ \A p \in arena : \E x \in Held : InArena(x) /\ x.ptr = p
    /\ \A b \in system : \E x \in Held : ~InArena(x) /\ Backing(x) = b
    /\ \A b, c \in system : b # c => \/ b.raw + b.layout.size =< c.raw
                                     \/ c.raw + c.layout.size =< b.raw

\* The inductive invariant.
ShimInv ==
    Typed /\ ExitsGone /\ Unique /\ RightPlace /\ Memory /\ AbortOnlyAfterTeardown

-----------------------------------------------------------------------------
(* Facts about calls and allocations *)

\* A call is one of four kinds.
LEMMA CallFacts ==
    ASSUME NEW k \in Call
    PROVE  /\ k.op \in {"none", "alloc", "free", "exit"}
           /\ k.op = "none" <=> k = NoCall
           /\ k.op = "alloc" => k.layout \in Layouts /\ ~SelectsSystem(k.layout)
                                /\ k.use \in {"shim", "api"}
           /\ k.op = "free" => k.alloc \in Alloc
  <1>1. CASE k = NoCall
    BY <1>1 DEF NoCall
  <1>2. CASE k = [op |-> "exit"]
    BY <1>2 DEF NoCall
  <1>3. CASE k \in [op : {"alloc"}, layout : Served, use : {"shim", "api"}]
    BY <1>3 DEF NoCall, Served
  <1>4. CASE k \in [op : {"free"}, alloc : Alloc]
    BY <1>4 DEF NoCall
  <1> QED BY <1>1, <1>2, <1>3, <1>4 DEF Call

\* The extent of an allocation keeps its pointer and its layout.
LEMMA ViewFacts ==
    ASSUME NEW a
    PROVE  /\ View(a).ptr = a.ptr /\ View(a).layout = a.layout
           /\ View(View(a)) = View(a)
           /\ a \in Alloc => View(a) \in Extent
           /\ InArena(View(a)) <=> InArena(a)
           /\ Backing(View(a)) = Backing(a)
           /\ Backed(View(a)) <=> Backed(a)
  BY DEF View, Alloc, Extent, InArena, Backing, Backed

\* An extent is its own.
LEMMA ExtentView == \A x \in Extent : View(x) = x
  BY DEF View, Extent

\* Who holds memory.
LEMMA HeldIs ==
    \A x : x \in Held <=> \/ \E a \in live : x = View(a)
                          \/ \E a \in leaked : x = View(a)
                          \/ \E t \in Threads : Freeing(t) /\ x = View(call[t].alloc)
  BY DEF Held, View, Freeing

\* What is held is an extent, and its pointer tells it.
LEMMA HeldFacts ==
    ASSUME ShimInv
    PROVE  /\ \A x \in Held : x \in Extent /\ x.ptr \in Nat /\ x.layout \in Layouts
           /\ \A x, y \in Held : x.ptr = y.ptr => x = y
           /\ \A a \in live : View(a) \in Held
           /\ \A x \in leaked : x \in Held
           /\ \A t \in Threads : Freeing(t) => View(call[t].alloc) \in Held
  <1>1. \A t \in Threads : Freeing(t) => call[t].alloc \in Alloc
    BY CallFacts DEF ShimInv, Typed, Freeing
  <1>2. \A x \in leaked : View(x) = x /\ x \in Extent
    BY ExtentView DEF ShimInv, Typed
  <1>3. \A x \in Held : x \in Extent
    BY <1>1, <1>2, HeldIs, ViewFacts DEF ShimInv, Typed
  <1>4. \A x \in Held : x.ptr \in Nat /\ x.layout \in Layouts
    BY <1>3 DEF Extent
  <1>5. ASSUME NEW x \in Held, NEW y \in Held, x.ptr = y.ptr PROVE x = y
    <2>1. ASSUME NEW a \in live, x = View(a) PROVE x = y
      BY <1>5, <2>1, HeldIs, ViewFacts DEF ShimInv, Unique
    <2>2. ASSUME NEW a \in leaked, x = View(a) PROVE x = y
      BY <1>5, <2>2, HeldIs, ViewFacts DEF ShimInv, Unique
    <2>3. ASSUME NEW t \in Threads, Freeing(t), x = View(call[t].alloc) PROVE x = y
      BY <1>5, <2>3, HeldIs, ViewFacts DEF ShimInv, Unique
    <2> QED BY <2>1, <2>2, <2>3, HeldIs
  <1> QED BY <1>2, <1>3, <1>4, <1>5, HeldIs

-----------------------------------------------------------------------------
(* What a step does to the memory *)

\* A step that leaves the backends and the set of held extents alone.
LEMMA SameMemory ==
    ASSUME Memory, Held' = Held, UNCHANGED <<system, arena, prefix>>
    PROVE  Memory'
  <1>1. \A x : (Backed(x)' <=> Backed(x)) /\ Backing(x)' = Backing(x)
               /\ (InArena(x)' <=> InArena(x))
    BY DEF Backed, Backing, InArena
  <1> QED BY <1>1 DEF Memory

\* The blocks of System under two extents are different.
LEMMA BackingTells ==
    ASSUME ShimInv, NEW x \in Held, NEW y \in Held, ~InArena(x), ~InArena(y),
           Backing(x) = Backing(y)
    PROVE  x = y
  <1>1. Backed(x) /\ Backed(y)
    BY DEF ShimInv, Memory
  <1>2. x.layout \in Layouts /\ y.layout \in Layouts
    BY HeldFacts
  <1>3. x.ptr = y.ptr
    <2>1. CASE SelectsSystem(x.layout) /\ SelectsSystem(y.layout)
      BY <2>1 DEF Backing
    <2>2. ASSUME NEW u \in Layouts, NEW v \in Layouts, SelectsSystem(u), ~SelectsSystem(v)
          PROVE  u # FallbackLayout(v)
      <3>1. u.align > HeaderAlignment
        BY <2>2, LayoutFacts DEF SelectsSystem
      <3>2. v.align =< HeaderAlignment
        BY <2>2, LayoutFacts, ShimAssumption DEF SelectsSystem
      <3>3. FallbackLayout(v).align =< HeaderAlignment
        BY <3>2, LayoutFacts, ShimAssumption DEF FallbackAlignment
      <3>4. u.align \in Nat /\ FallbackLayout(v).align \in Nat /\ HeaderAlignment \in Nat
        BY LayoutFacts, ShimAssumption
      <3> QED BY <3>1, <3>3, <3>4
    <2>3. CASE SelectsSystem(x.layout) /\ ~SelectsSystem(y.layout)
      BY <1>2, <2>2, <2>3 DEF Backing
    <2>4. CASE ~SelectsSystem(x.layout) /\ SelectsSystem(y.layout)
      BY <1>2, <2>2, <2>4 DEF Backing
    <2>5. CASE ~SelectsSystem(x.layout) /\ ~SelectsSystem(y.layout)
      <3>1. /\ x.ptr = FallbackPtr(prefix[x.ptr], x.layout)
            /\ y.ptr = FallbackPtr(prefix[y.ptr], y.layout)
        BY <1>1, <2>5 DEF Backed
      <3>2. /\ prefix[x.ptr] = prefix[y.ptr]
            /\ FallbackLayout(x.layout) = FallbackLayout(y.layout)
        BY <2>5 DEF Backing
      <3>3. FallbackAlignment(x.layout) = FallbackAlignment(y.layout)
        BY <1>2, <3>2, LayoutFacts
      <3> QED BY <3>1, <3>2, <3>3 DEF FallbackPtr
    <2> QED BY <2>1, <2>3, <2>4, <2>5
  <1> QED BY <1>3, HeldFacts

\* An extent outside the arena lies in the block of System under it.
LEMMA InsideBacking ==
    ASSUME ShimInv, NEW x \in Held, ~InArena(x)
    PROVE  /\ Backing(x) \in system /\ Backing(x).raw \in Nat
           /\ Backing(x).layout.size \in Nat
           /\ Backing(x).raw =< x.ptr
           /\ x.ptr < Backing(x).raw + Backing(x).layout.size
  <1>1. Backed(x) /\ x.layout \in Layouts /\ x.ptr \in Nat
    BY HeldFacts DEF ShimInv, Memory
  <1>2. Backing(x) \in system
    BY <1>1 DEF Backed
  <1>3. Backing(x).raw \in RawAddrs /\ Backing(x).raw \in Nat
    BY <1>2, ShimAssumption DEF ShimInv, Typed
  <1>4. CASE SelectsSystem(x.layout)
    <2>1. Backing(x) = [raw |-> x.ptr, layout |-> x.layout]
      BY <1>4 DEF Backing
    <2> QED BY <1>1, <1>2, <1>3, <2>1, LayoutFacts
  <1>5. CASE ~SelectsSystem(x.layout)
    <2>1. Backing(x) = [raw |-> prefix[x.ptr], layout |-> FallbackLayout(x.layout)]
      BY <1>5 DEF Backing
    <2>2. x.ptr = FallbackPtr(Backing(x).raw, x.layout)
      BY <1>1, <1>5, <2>1 DEF Backed
    <2>3. /\ Backing(x).raw =< x.ptr
          /\ x.ptr < Backing(x).raw + FallbackLayout(x.layout).size
      BY <1>1, <1>3, <2>2, FallbackPtrFacts
    <2> QED BY <1>1, <1>2, <1>3, <2>1, <2>3, LayoutFacts
  <1> QED BY <1>4, <1>5

\* A block System gives is apart from every other, and so is what is put into it.
LEMMA SystemGivesNew ==
    ASSUME ShimInv, NEW L, L.size \in Nat, L.size > 0, NEW raw \in SystemGives(L),
           NEW p \in Nat, raw =< p, p < raw + L.size, p \notin ArenaPtrs
    PROVE  /\ raw \in RawAddrs /\ raw \in Nat
           /\ [raw |-> raw, layout |-> L] \notin system
           /\ \A x \in Held : x.ptr # p
  <1>1. raw \in RawAddrs /\ raw \in Nat
    BY ShimAssumption DEF SystemGives
  <1>2. \A b \in system : raw + L.size =< b.raw \/ b.raw + b.layout.size =< raw
    BY DEF SystemGives
  <1>3. [raw |-> raw, layout |-> L] \notin system
    <2> DEFINE n == [raw |-> raw, layout |-> L]
    <2>1. n.raw = raw /\ n.layout = L
      OBVIOUS
    <2> HIDE DEF n
    <2>2. n \notin system
      BY <1>1, <1>2, <2>1
    <2> QED BY <2>2 DEF n
  <1>4. ASSUME NEW x \in Held, x.ptr = p PROVE FALSE
    <2>1. ~InArena(x)
      BY <1>4 DEF InArena
    <2>2. /\ Backing(x) \in system /\ Backing(x).raw \in Nat
          /\ Backing(x).layout.size \in Nat
          /\ Backing(x).raw =< p /\ p < Backing(x).raw + Backing(x).layout.size
      BY <1>4, <2>1, InsideBacking
    <2>3. \/ raw + L.size =< Backing(x).raw
          \/ Backing(x).raw + Backing(x).layout.size =< raw
      BY <1>2, <2>2
    <2> QED BY <1>1, <2>2, <2>3
  <1> QED BY <1>1, <1>3, <1>4

\* A step that takes a block of System for a new extent x: as it is, or with a prefix.
AddsBlock(x, raw, L) ==
    /\ x \in Extent /\ Held' = Held \cup {x}
    /\ raw \in SystemGives(L)
    /\ system' = system \cup {[raw |-> raw, layout |-> L]}
    /\ UNCHANGED arena
    /\ \/ /\ SelectsSystem(x.layout) /\ L = x.layout /\ x.ptr = raw
          /\ UNCHANGED prefix
       \/ /\ ~SelectsSystem(x.layout) /\ HasFallback(x.layout) /\ L = FallbackLayout(x.layout)
          /\ x.ptr = FallbackPtr(raw, x.layout)
          /\ prefix' = WritePrefix(x.ptr, raw)

\* A pointer in a new block is held by no one.
LEMMA BlockIsNew ==
    ASSUME ShimInv, NEW x, NEW raw, NEW L, AddsBlock(x, raw, L)
    PROVE  /\ raw \in RawAddrs /\ raw \in Nat
           /\ L.size \in Nat /\ L.size > 0
           /\ x.ptr \in Nat /\ x.layout \in Layouts
           /\ x.ptr \notin ArenaPtrs
           /\ [raw |-> raw, layout |-> L] \notin system
           /\ \A y \in Held : y.ptr # x.ptr
  <1>1. x.ptr \in Nat /\ x.layout \in Layouts
    BY DEF AddsBlock, Extent
  <1>2. raw \in RawAddrs /\ raw \in Nat
    BY ShimAssumption DEF AddsBlock, SystemGives
  <1>3. /\ L.size \in Nat /\ L.size > 0 /\ raw =< x.ptr /\ x.ptr < raw + L.size
        /\ x.ptr \notin ArenaPtrs
    <2>1. CASE SelectsSystem(x.layout)
      BY <1>1, <1>2, <2>1, LayoutFacts, PlacesAssumption DEF AddsBlock
    <2>2. CASE ~SelectsSystem(x.layout)
      <3>1. /\ L = FallbackLayout(x.layout) /\ HasFallback(x.layout)
            /\ x.ptr = FallbackPtr(raw, x.layout)
        BY <2>2 DEF AddsBlock
      <3> QED BY <1>1, <1>2, <3>1, LayoutFacts, FallbackPtrFacts, PlacesAssumption
    <2> QED BY <2>1, <2>2
  <1>4. raw \in SystemGives(L)
    BY DEF AddsBlock
  <1> QED BY <1>1, <1>2, <1>3, <1>4, SystemGivesNew

\* Taking a block of System keeps the memory in order.
LEMMA AddBlockKeeps ==
    ASSUME ShimInv, NEW x, NEW raw, NEW L, AddsBlock(x, raw, L)
    PROVE  Memory'
  <1> DEFINE n == [raw |-> raw, layout |-> L]
  <1>1. /\ raw \in RawAddrs /\ raw \in Nat
        /\ L.size \in Nat /\ L.size > 0
        /\ x.ptr \in Nat /\ x.layout \in Layouts
        /\ x.ptr \notin ArenaPtrs
        /\ n \notin system
        /\ \A y \in Held : y.ptr # x.ptr
    BY BlockIsNew
  <1>2. /\ Held' = Held \cup {x} /\ system' = system \cup {n} /\ arena' = arena
        /\ raw \in SystemGives(L)
    BY DEF AddsBlock
  <1>3. \A y \in Held : (y.ptr \in DOMAIN prefix => y.ptr \in DOMAIN prefix'
                                                    /\ prefix'[y.ptr] = prefix[y.ptr])
    BY <1>1 DEF AddsBlock, WritePrefix
  <1>4. \A y \in Held : Backed(y)
    BY DEF ShimInv, Memory
  <1>5. \A y \in Held : ~InArena(y) => Backing(y)' = Backing(y)
    BY <1>3, <1>4 DEF Backed, Backing
  <1>6. \A y \in Held : Backed(y)'
    BY <1>2, <1>3, <1>4, <1>5 DEF Backed, InArena
  <1>7. ~InArena(x) /\ ~InArena(x)'
    BY <1>1 DEF InArena
  <1>8. Backing(x)' = n /\ Backed(x)'
    <2>1. CASE SelectsSystem(x.layout)
      <3>1. L = x.layout /\ x.ptr = raw
        BY <2>1 DEF AddsBlock
      <3>2. raw % L.align = 0
        BY <1>2 DEF SystemGives
      <3>3. Backing(x)' = n
        BY <2>1, <3>1 DEF Backing
      <3> QED BY <1>2, <1>7, <2>1, <3>1, <3>2, <3>3 DEF Backed
    <2>2. CASE ~SelectsSystem(x.layout)
      <3>1. /\ L = FallbackLayout(x.layout) /\ HasFallback(x.layout)
            /\ x.ptr = FallbackPtr(raw, x.layout)
            /\ x.ptr \in DOMAIN prefix' /\ prefix'[x.ptr] = raw
        BY <2>2 DEF AddsBlock, WritePrefix
      <3>2. Backing(x)' = n
        BY <2>2, <3>1 DEF Backing
      <3> QED BY <1>2, <1>7, <2>2, <3>1, <3>2 DEF Backed
    <2> QED BY <2>1, <2>2
  <1>9. \A p \in arena' : \E y \in Held' : InArena(y)' /\ y.ptr = p
    BY <1>2 DEF ShimInv, Memory, InArena
  <1>10. \A b \in system' : \E y \in Held' : ~InArena(y)' /\ Backing(y)' = b
    <2>1. \A b \in system : \E y \in Held : ~InArena(y) /\ Backing(y) = b
      BY DEF ShimInv, Memory
    <2>2. \A b \in system : \E y \in Held' : ~InArena(y)' /\ Backing(y)' = b
      BY <1>2, <1>5, <2>1 DEF InArena
    <2> QED BY <1>2, <1>7, <1>8, <2>2
  <1>11. \A b, c \in system' : b # c => \/ b.raw + b.layout.size =< c.raw
                                        \/ c.raw + c.layout.size =< b.raw
    <2>1. n.raw = raw /\ n.layout = L
      OBVIOUS
    <2>2. \A b \in system : \/ n.raw + n.layout.size =< b.raw
                            \/ b.raw + b.layout.size =< n.raw
      BY <1>2, <2>1 DEF SystemGives
    <2> HIDE DEF n
    <2> QED BY <1>2, <2>2 DEF ShimInv, Memory
  <1>12. \A y \in Held' : Backed(y)'
    BY <1>2, <1>6, <1>8
  <1> QED BY <1>9, <1>10, <1>11, <1>12 DEF Memory

\* A step that takes a pointer of the arena for a new extent x.
AddsPtr(x) ==
    /\ x \in Extent /\ Held' = Held \cup {x}
    /\ ~SelectsSystem(x.layout)
    /\ x.ptr \in ArenaPtrs \ arena
    /\ arena' = arena \cup {x.ptr}
    /\ UNCHANGED <<system, prefix>>

\* Taking a pointer of the arena keeps the memory in order, and it is held by no one.
LEMMA AddPtrKeeps ==
    ASSUME ShimInv, NEW x, AddsPtr(x)
    PROVE  Memory' /\ \A y \in Held : y.ptr # x.ptr
  <1>1. \A y : Backing(y)' = Backing(y) /\ (InArena(y)' <=> InArena(y))
    BY DEF AddsPtr, Backing, InArena
  <1>2. \A y \in Held : Backed(y) /\ Backed(y)'
    BY <1>1 DEF ShimInv, Memory, Backed, AddsPtr
  <1>3. InArena(x)' /\ Backed(x)'
    BY DEF AddsPtr, InArena, Backed
  <1>4. \A y \in Held : y.ptr # x.ptr
    BY <1>2 DEF Backed, InArena, AddsPtr
  <1>5. \A y \in Held' : Backed(y)'
    BY <1>2, <1>3 DEF AddsPtr
  <1>6. \A p \in arena' : \E y \in Held' : InArena(y)' /\ y.ptr = p
    BY <1>1, <1>3 DEF AddsPtr, ShimInv, Memory
  <1>7. \A b \in system' : \E y \in Held' : ~InArena(y)' /\ Backing(y)' = b
    BY <1>1 DEF AddsPtr, ShimInv, Memory
  <1> QED BY <1>4, <1>5, <1>6, <1>7 DEF AddsPtr, ShimInv, Memory

\* A step that returns the memory of x to where it came from.
Removes(x) ==
    /\ x \in Held /\ Held' = Held \ {x}
    /\ UNCHANGED prefix
    /\ arena' = IF InArena(x) THEN arena \ {x.ptr} ELSE arena
    /\ system' = IF InArena(x) THEN system ELSE system \ {Backing(x)}

\* Returning it keeps the memory in order.
LEMMA RemoveKeeps ==
    ASSUME ShimInv, NEW x, Removes(x)
    PROVE  Memory'
  <1>1. \A y : Backing(y)' = Backing(y) /\ (InArena(y)' <=> InArena(y))
    BY DEF Removes, Backing, InArena
  <1>2. x \in Held /\ Held' = Held \ {x} /\ prefix' = prefix
    BY DEF Removes
  <1>3. \A y \in Held : Backed(y)
    BY DEF ShimInv, Memory
  <1>4. \A y \in Held \ {x} : InArena(y) => y.ptr \in arena'
    BY <1>2, <1>3, HeldFacts DEF Removes, Backed
  <1>5. \A y \in Held \ {x} : ~InArena(y) => Backing(y) \in system'
    BY <1>2, <1>3, BackingTells DEF Removes, Backed
  <1>6. \A y \in Held' : Backed(y)'
    BY <1>1, <1>2, <1>3, <1>4, <1>5 DEF Backed
  <1>7. \A p \in arena' : \E y \in Held' : InArena(y)' /\ y.ptr = p
    <2> SUFFICES ASSUME NEW p \in arena' PROVE \E y \in Held' : InArena(y) /\ y.ptr = p
      BY <1>1
    <2>1. p \in arena /\ (InArena(x) => p # x.ptr)
      BY DEF Removes
    <2>2. PICK y \in Held : InArena(y) /\ y.ptr = p
      BY <2>1 DEF ShimInv, Memory
    <2> QED BY <1>2, <2>1, <2>2
  <1>8. \A b \in system' : \E y \in Held' : ~InArena(y)' /\ Backing(y)' = b
    <2> SUFFICES ASSUME NEW b \in system' PROVE \E y \in Held' : ~InArena(y) /\ Backing(y) = b
      BY <1>1
    <2>1. b \in system /\ (~InArena(x) => b # Backing(x))
      BY DEF Removes
    <2>2. PICK y \in Held : ~InArena(y) /\ Backing(y) = b
      BY <2>1 DEF ShimInv, Memory
    <2> QED BY <1>2, <2>1, <2>2
  <1>9. system' \subseteq system
    BY DEF Removes
  <1> QED BY <1>6, <1>7, <1>8, <1>9 DEF ShimInv, Memory

-----------------------------------------------------------------------------
(* What a step does to the holders *)

\* A step that changes no holder.
LEMMA QuietKeeps ==
    ASSUME ShimInv, UNCHANGED <<live, leaked, system, arena, prefix>>,
           \A u \in Threads : /\ Freeing(u)' <=> Freeing(u)
                              /\ Freeing(u) => call'[u] = call[u]
    PROVE  Unique' /\ RightPlace' /\ Memory'
  <1>1. Held' = Held
    <2>1. \A x : x \in Held' <=> \/ \E a \in live' : x = View(a)
                                 \/ \E a \in leaked' : x = View(a)
                                 \/ \E u \in Threads : Freeing(u)' /\ x = View(call'[u].alloc)
      BY DEF Held, View, Freeing
    <2>2. \A x : x \in Held' <=> x \in Held
      BY <2>1, HeldIs
    <2>3. Held' \subseteq Held /\ Held \subseteq Held'
      BY <2>2
    <2> QED BY <2>3
  <1>2. Memory'
    BY <1>1, SameMemory DEF ShimInv
  <1>3. Unique'
    BY DEF ShimInv, Unique
  <1>4. RightPlace'
    BY DEF ShimInv, RightPlace, InArena
  <1> QED BY <1>2, <1>3, <1>4

\* The holders after a step.
LEMMA HeldIsPrimed ==
    \A x : x \in Held' <=> \/ \E a \in live' : x = View(a)
                           \/ \E a \in leaked' : x = View(a)
                           \/ \E u \in Threads : Freeing(u)' /\ x = View(call'[u].alloc)
  BY DEF Held, View, Freeing

\* The allocations in use under new labels: who uses a buffer changes, not its memory.
Relabels(M) ==
    /\ M \subseteq Alloc
    /\ \A x : (\E a \in M : x = View(a)) <=> (\E a \in live : x = View(a))
    /\ \A a, b \in M : a.ptr = b.ptr => a = b

\* The allocations in use are labels of themselves.
LEMMA LiveRelabels ==
    ASSUME ShimInv
    PROVE  Relabels(live)
  BY DEF ShimInv, Typed, Unique, Relabels

\* A step that adds an allocation adds its extent.
LEMMA AddHeld ==
    ASSUME NEW M, Relabels(M), NEW a, live' = M \cup {a}, UNCHANGED <<leaked, call>>
    PROVE  Held' = Held \cup {View(a)}
  <1>1. \A u \in Threads : (Freeing(u)' <=> Freeing(u)) /\ call'[u] = call[u]
    BY DEF Freeing
  <1>2. \A x : x \in Held' <=> x \in Held \/ x = View(a)
    BY <1>1, HeldIs, HeldIsPrimed DEF Relabels
  <1>3. Held' \subseteq Held \cup {View(a)} /\ Held \cup {View(a)} \subseteq Held'
    BY <1>2
  <1> QED BY <1>3

\* A new allocation at a pointer no one holds.
LEMMA AddUnique ==
    ASSUME ShimInv, NEW M, Relabels(M), NEW a, live' = M \cup {a}, UNCHANGED <<leaked, call>>,
           \A y \in Held : y.ptr # a.ptr
    PROVE  Unique'
  <1>1. \A b \in M : \E c \in live : b.ptr = c.ptr
    BY ViewFacts DEF Relabels
  <1>2. \A c \in live : c.ptr # a.ptr
    BY HeldFacts, ViewFacts
  <1>3. \A x \in leaked : x.ptr # a.ptr
    BY HeldFacts
  <1>4. \A u \in Threads : Freeing(u) => call[u].alloc.ptr # a.ptr
    BY HeldFacts, ViewFacts
  <1>5. \A b \in M : b.ptr # a.ptr
    BY <1>1, <1>2
  <1>6. \A u \in Threads : (Freeing(u)' <=> Freeing(u)) /\ call'[u] = call[u]
    BY DEF Freeing
  <1>7. \A b, c \in live' : b.ptr = c.ptr => b = c
    BY <1>5 DEF Relabels
  <1>8. \A b \in live', x \in leaked' : b.ptr # x.ptr
    BY <1>1, <1>3 DEF ShimInv, Unique
  <1>9. \A u \in Threads : Freeing(u) => \A b \in live' \cup leaked' : b.ptr # call[u].alloc.ptr
    BY <1>1, <1>4 DEF ShimInv, Unique
  <1> QED BY <1>6, <1>7, <1>8, <1>9 DEF ShimInv, Unique

\* A step that takes an allocation out of use and gives it to no one else.
LEMMA DropHeld ==
    ASSUME ShimInv, NEW a \in live, live' = live \ {a}, UNCHANGED <<leaked, call>>
    PROVE  View(a) \in Held /\ Held' = Held \ {View(a)} /\ Unique' /\ RightPlace'
  <1>1. \A u \in Threads : (Freeing(u)' <=> Freeing(u)) /\ call'[u] = call[u]
    BY DEF Freeing
  <1>2. View(a) \in Held
    BY HeldIs
  <1>3. \A b \in live \ {a} : View(b) # View(a)
    BY ViewFacts DEF ShimInv, Unique
  <1>4. \A x \in leaked : View(x) # View(a)
    BY ViewFacts DEF ShimInv, Unique
  <1>5. \A u \in Threads : Freeing(u) => View(call[u].alloc) # View(a)
    BY ViewFacts DEF ShimInv, Unique
  <1>6. \A x : x \in Held' <=> x \in Held /\ x # View(a)
    BY <1>1, <1>3, <1>4, <1>5, HeldIs, HeldIsPrimed
  <1>7. Held' \subseteq Held \ {View(a)} /\ Held \ {View(a)} \subseteq Held'
    BY <1>6
  <1>8. Held' = Held \ {View(a)}
    BY <1>7
  <1>9. Unique'
    BY <1>1 DEF ShimInv, Unique
  <1>10. RightPlace'
    BY <1>1 DEF ShimInv, RightPlace, InArena
  <1> QED BY <1>2, <1>8, <1>9, <1>10

\* A step that passes an allocation of the arena from its user to a call that frees it.
LEMMA PassToCall ==
    ASSUME ShimInv, NEW a \in live, NEW t \in Threads, ~Freeing(t), InArena(a),
           live' = live \ {a}, call' = [call EXCEPT ![t] = [op |-> "free", alloc |-> a]],
           UNCHANGED leaked
    PROVE  Held' = Held /\ Unique' /\ RightPlace'
  <1>1. call'[t] = [op |-> "free", alloc |-> a] /\ Freeing(t)' /\ call'[t].alloc = a
    BY DEF ShimInv, Typed, Freeing
  <1>2. \A u \in Threads \ {t} : (Freeing(u)' <=> Freeing(u)) /\ call'[u] = call[u]
    BY DEF ShimInv, Typed, Freeing
  <1>3. \A x : x \in Held' <=> x \in Held
    <2>1. \A x : (\E b \in live : x = View(b)) <=> (x = View(a) \/ \E b \in live' : x = View(b))
      OBVIOUS
    <2>2. \A x : (\E u \in Threads : Freeing(u)' /\ x = View(call'[u].alloc))
                 <=> \/ x = View(a)
                     \/ \E u \in Threads : Freeing(u) /\ x = View(call[u].alloc)
      BY <1>1, <1>2
    <2> QED BY <2>1, <2>2, HeldIs, HeldIsPrimed
  <1>4. Held' \subseteq Held /\ Held \subseteq Held'
    BY <1>3
  <1>5. Unique'
    <2>1. \A b \in live' \cup leaked' : b.ptr # a.ptr
      BY DEF ShimInv, Unique
    <2>2. \A u \in Threads : Freeing(u) => call[u].alloc.ptr # a.ptr
      BY DEF ShimInv, Unique
    <2> QED BY <1>1, <1>2, <2>1, <2>2 DEF ShimInv, Unique
  <1>6. RightPlace'
    BY <1>1, <1>2 DEF ShimInv, RightPlace, InArena
  <1> QED BY <1>4, <1>5, <1>6

\* A step that gives up an allocation of the arena.
LEMMA PassToLeaked ==
    ASSUME ShimInv, NEW a \in live, InArena(a),
           live' = live \ {a}, leaked' = leaked \cup {View(a)}, UNCHANGED call
    PROVE  Held' = Held /\ Unique' /\ RightPlace'
  <1>1. \A u \in Threads : (Freeing(u)' <=> Freeing(u)) /\ call'[u] = call[u]
    BY DEF Freeing
  <1>2. View(View(a)) = View(a) /\ View(a).ptr = a.ptr /\ InArena(View(a))
    BY ViewFacts
  <1>3. \A x : x \in Held' <=> x \in Held
    <2>1. \A x : (\E b \in live : x = View(b)) <=> (x = View(a) \/ \E b \in live' : x = View(b))
      OBVIOUS
    <2>2. \A x : (\E b \in leaked' : x = View(b))
                 <=> (x = View(a) \/ \E b \in leaked : x = View(b))
      BY <1>2
    <2> QED BY <1>1, <2>1, <2>2, HeldIs, HeldIsPrimed
  <1>4. Held' \subseteq Held /\ Held \subseteq Held'
    BY <1>3
  <1>5. Unique'
    <2>1. \A b \in live' \cup leaked : b.ptr # a.ptr
      BY DEF ShimInv, Unique
    <2>2. \A u \in Threads : Freeing(u) => call[u].alloc.ptr # a.ptr
      BY DEF ShimInv, Unique
    <2>3. \A x \in leaked' : x \in leaked \/ x.ptr = a.ptr
      BY <1>2
    <2>4. \A x, y \in leaked' : x.ptr = y.ptr => x = y
      BY <1>2, <2>1 DEF ShimInv, Unique
    <2>5. \A b \in live', x \in leaked' : b.ptr # x.ptr
      BY <2>1, <2>3 DEF ShimInv, Unique
    <2>6. \A b, c \in live' : b.ptr = c.ptr => b = c
      BY DEF ShimInv, Unique
    <2>7. \A u \in Threads : Freeing(u) => \A b \in live' \cup leaked' : b.ptr # call[u].alloc.ptr
      BY <2>2, <2>3 DEF ShimInv, Unique
    <2> QED BY <1>1, <2>4, <2>5, <2>6, <2>7 DEF ShimInv, Unique
  <1>6. RightPlace'
    <2>1. \A x \in leaked' : InArena(x)'
      BY <1>2 DEF ShimInv, RightPlace, InArena
    <2> QED BY <1>1, <2>1 DEF ShimInv, RightPlace, InArena
  <1> QED BY <1>4, <1>5, <1>6

\* A call that freed an allocation ends.
LEMMA EndOfFree ==
    ASSUME ShimInv, NEW t \in Threads, Freeing(t), call' = [call EXCEPT ![t] = NoCall],
           UNCHANGED <<live, leaked>>
    PROVE  /\ View(call[t].alloc) \in Held
           /\ Held' = Held \ {View(call[t].alloc)} /\ Unique' /\ RightPlace'
  <1> DEFINE a == call[t].alloc
  <1>1. ~Freeing(t)'
    BY DEF ShimInv, Typed, Freeing, NoCall
  <1>2. \A u \in Threads \ {t} : (Freeing(u)' <=> Freeing(u)) /\ call'[u] = call[u]
    BY DEF ShimInv, Typed, Freeing
  <1>3. View(a) \in Held
    BY HeldIs
  <1>4. \A b \in live \cup leaked : View(b) # View(a)
    BY ViewFacts DEF ShimInv, Unique
  <1>5. \A u \in Threads \ {t} : Freeing(u) => View(call[u].alloc) # View(a)
    BY ViewFacts DEF ShimInv, Unique
  <1>6. \A x : x \in Held' <=> x \in Held /\ x # View(a)
    BY <1>1, <1>2, <1>4, <1>5, HeldIs, HeldIsPrimed
  <1>7. Held' \subseteq Held \ {View(a)} /\ Held \ {View(a)} \subseteq Held'
    BY <1>6
  <1>8. Unique'
    BY <1>1, <1>2 DEF ShimInv, Unique
  <1>9. RightPlace'
    BY <1>1, <1>2 DEF ShimInv, RightPlace, InArena
  <1> QED BY <1>3, <1>7, <1>8, <1>9

\* The unwinding leaves a call that was freeing an allocation.
LEMMA UnwoundFree ==
    ASSUME ShimInv, NEW t \in Threads, Freeing(t), call' = [call EXCEPT ![t] = NoCall],
           leaked' = leaked \cup {View(call[t].alloc)}, UNCHANGED live
    PROVE  Held' = Held /\ Unique' /\ RightPlace'
  <1> DEFINE a == call[t].alloc
  <1>1. ~Freeing(t)'
    BY DEF ShimInv, Typed, Freeing, NoCall
  <1>2. \A u \in Threads \ {t} : (Freeing(u)' <=> Freeing(u)) /\ call'[u] = call[u]
    BY DEF ShimInv, Typed, Freeing
  <1>3. View(View(a)) = View(a) /\ View(a).ptr = a.ptr /\ InArena(View(a))
    BY ViewFacts DEF ShimInv, RightPlace
  <1>4. \A b \in live \cup leaked : b.ptr # a.ptr
    BY DEF ShimInv, Unique
  <1>5. \A u \in Threads \ {t} : Freeing(u) => call[u].alloc.ptr # a.ptr
    BY DEF ShimInv, Unique
  <1>6. \A x : x \in Held' <=> x \in Held
    <2>1. \A x : (\E b \in leaked' : x = View(b))
                 <=> (x = View(a) \/ \E b \in leaked : x = View(b))
      BY <1>3
    <2>2. \A x : (\E u \in Threads : Freeing(u) /\ x = View(call[u].alloc))
                 <=> \/ x = View(a)
                     \/ \E u \in Threads : Freeing(u)' /\ x = View(call'[u].alloc)
      BY <1>1, <1>2
    <2> QED BY <2>1, <2>2, HeldIs, HeldIsPrimed
  <1>7. Held' \subseteq Held /\ Held \subseteq Held'
    BY <1>6
  <1> HIDE DEF a
  <1>8. Unique'
    <2>1. \A x \in leaked' : x \in leaked \/ x.ptr = a.ptr
      BY <1>3 DEF a
    <2>2. \A x, y \in leaked' : x.ptr = y.ptr => x = y
      BY <1>3, <1>4 DEF ShimInv, Unique, a
    <2>3. \A b \in live, x \in leaked' : b.ptr # x.ptr
      BY <1>4, <2>1 DEF ShimInv, Unique
    <2>4. \A u \in Threads \ {t} :
             Freeing(u) => \A b \in live \cup leaked' : b.ptr # call[u].alloc.ptr
      BY <1>5, <2>1 DEF ShimInv, Unique
    <2> QED BY <1>1, <1>2, <2>2, <2>3, <2>4 DEF ShimInv, Unique
  <1>9. RightPlace'
    <2>1. \A x \in leaked' : InArena(x)'
      BY <1>3 DEF ShimInv, RightPlace, InArena, a
    <2> QED BY <1>1, <1>2, <2>1 DEF ShimInv, RightPlace, InArena
  <1> QED BY <1>7, <1>8, <1>9

-----------------------------------------------------------------------------
(* The actions *)

\* Whoever may borrow the cache is outside any call; code of the allocator may not.
LEMMA ThreadFacts ==
    ASSUME ShimInv, NEW t \in Threads
    PROVE  /\ call[t] \in Call
           /\ CacheFree(t) => call[t] = NoCall /\ ~Freeing(t)
           /\ InAllocator(t) => ~CacheFree(t)
           /\ call[t].op = "exit" => ~CacheFree(t)
  <1>1. call[t] \in Call
    BY DEF ShimInv, Typed
  <1>2. ASSUME CacheFree(t) PROVE call[t] = NoCall
    <2>1. call[t].op \notin {"alloc", "free"} /\ tls[t] = "alive"
      BY <1>2 DEF CacheFree, Borrowed
    <2>2. call[t].op # "exit"
      BY <2>1 DEF ShimInv, ExitsGone
    <2> QED BY <1>1, <2>1, <2>2, CallFacts
  <1>3. NoCall.op = "none"
    BY DEF NoCall
  <1> QED BY <1>1, <1>2, <1>3 DEF Freeing, InAllocator

\* The bytes before a pointer tell the memory of Orthotope from a fallback block.
LEMMA PrefixTells ==
    ASSUME ShimInv, NEW a \in live
    PROVE  /\ a \in Alloc /\ a.layout \in Layouts /\ a.ptr \in Nat
           /\ Backed(a)
           /\ SelectsSystem(a.layout) => ~InArena(a)
           /\ ~SelectsSystem(a.layout) => (a.ptr \in DOMAIN prefix <=> ~InArena(a))
           /\ ~SelectsSystem(a.layout) /\ ~InArena(a) => HasFallback(a.layout)
  <1>1. a \in Alloc /\ a.layout \in Layouts /\ a.ptr \in Nat
    BY DEF ShimInv, Typed, Alloc
  <1>2. View(a) \in Held
    BY HeldIs
  <1>3. Backed(a)
    BY <1>2, ViewFacts DEF ShimInv, Memory
  <1> QED BY <1>1, <1>3 DEF Backed, InArena, ShimInv, Typed

\* A free that reaches the thread cache is of memory of the arena.
LEMMA ForCacheInArena ==
    ASSUME ShimInv, NEW a \in live, NEW t, ForCache(t, a)
    PROVE  InArena(a) /\ a.use \notin Metadata
  <1>1. InArena(a)
    <2>1. CASE a.use = "api"
      BY <2>1 DEF ShimInv, RightPlace
    <2>2. CASE ~SelectsSystem(a.layout) /\ ~HasPrefix(t, a)
      BY <2>2, PrefixTells DEF HasPrefix
    <2> QED BY <2>1, <2>2 DEF ForCache
  <1> QED BY <1>1 DEF ShimInv, RightPlace

\* Without the cache, memory comes from a block of System with a prefix.
LEMMA FallbackPlace ==
    ASSUME NEW t, ~CacheFree(t), NEW l, NEW place \in NestedPlaces(t, l), Occupy(place, l)
    PROVE  /\ HasFallback(l)
           /\ \E raw \in SystemGives(FallbackLayout(l)) :
                /\ place.ptr = FallbackPtr(raw, l)
                /\ system' = system \cup {[raw |-> raw, layout |-> FallbackLayout(l)]}
                /\ prefix' = WritePrefix(place.ptr, raw)
                /\ UNCHANGED arena
  <1>1. HasFallback(l)
    BY DEF NestedPlaces
  <1>2. PICK raw \in SystemGives(FallbackLayout(l)) :
            place = [ptr |-> FallbackPtr(raw, l), raw |-> raw]
    BY <1>1 DEF NestedPlaces
  <1>3. raw # 0
    BY ShimAssumption DEF SystemGives
  <1>4. place.raw = raw /\ place.ptr = FallbackPtr(raw, l)
    BY <1>2
  <1> QED BY <1>1, <1>3, <1>4 DEF Occupy

\* A block taken from System keeps the types.
LEMMA AddBlockTyped ==
    ASSUME ShimInv, NEW x, NEW raw, NEW L, AddsBlock(x, raw, L)
    PROVE  /\ \A b \in system' : /\ b.raw \in RawAddrs
                                 /\ b.layout.size \in Nat /\ b.layout.size > 0
           /\ \A p \in DOMAIN prefix' : p \notin ArenaPtrs /\ prefix'[p] \in RawAddrs
  <1>1. raw \in RawAddrs /\ L.size \in Nat /\ L.size > 0 /\ x.ptr \notin ArenaPtrs
    BY BlockIsNew
  <1>2. system' = system \cup {[raw |-> raw, layout |-> L]}
    BY DEF AddsBlock
  <1>3. \A b \in system' : b.raw \in RawAddrs /\ b.layout.size \in Nat /\ b.layout.size > 0
    BY <1>1, <1>2 DEF ShimInv, Typed
  <1>4. \A p \in DOMAIN prefix' : p \notin ArenaPtrs /\ prefix'[p] \in RawAddrs
    <2>1. CASE UNCHANGED prefix
      BY <2>1 DEF ShimInv, Typed
    <2>2. CASE prefix' = WritePrefix(x.ptr, raw)
      BY <1>1, <2>2 DEF WritePrefix, ShimInv, Typed
    <2> QED BY <2>1, <2>2 DEF AddsBlock
  <1> QED BY <1>3, <1>4

\* A new allocation in a block of System, with the labels of the others changed or not.
LEMMA AddBlockInv ==
    ASSUME ShimInv, aborted = NoOne, NEW M, Relabels(M), NEW a \in Alloc, NEW raw, NEW L,
           live' = M \cup {a},
           raw \in SystemGives(L),
           system' = system \cup {[raw |-> raw, layout |-> L]},
           UNCHANGED <<global, tls, call, panicking, arena, leaked, aborted>>,
           \/ /\ SelectsSystem(a.layout) /\ L = a.layout /\ a.ptr = raw
              /\ UNCHANGED prefix
           \/ /\ ~SelectsSystem(a.layout) /\ HasFallback(a.layout)
              /\ L = FallbackLayout(a.layout) /\ a.ptr = FallbackPtr(raw, a.layout)
              /\ prefix' = WritePrefix(a.ptr, raw),
           a.use # "api", a.use \in Metadata => ~SelectsSystem(a.layout),
           \A b \in M : /\ b.use \in Metadata => ~InArena(b) /\ ~SelectsSystem(b.layout)
                        /\ b.use = "api" => InArena(b)
    PROVE  ShimInv'
  <1> DEFINE x == View(a)
  <1>1. x.ptr = a.ptr /\ x.layout = a.layout /\ x \in Extent
    BY ViewFacts
  <1>2. Held' = Held \cup {x}
    BY AddHeld
  <1>3. AddsBlock(x, raw, L)
    BY <1>1, <1>2 DEF AddsBlock
  <1> HIDE DEF x
  <1>4. a.ptr \notin ArenaPtrs /\ \A y \in Held : y.ptr # a.ptr
    BY <1>1, <1>3, BlockIsNew
  <1>5. Memory'
    BY <1>3, AddBlockKeeps
  <1>6. Unique'
    BY <1>4, AddUnique
  <1>7. Typed'
    <2>1. live' \subseteq Alloc
      BY DEF Relabels
    <2> QED BY <1>3, <2>1, AddBlockTyped DEF ShimInv, Typed
  <1>8. RightPlace'
    <2>1. ~InArena(a)
      BY <1>4 DEF InArena
    <2>2. \A b \in live' : /\ b.use \in Metadata => ~InArena(b) /\ ~SelectsSystem(b.layout)
                           /\ b.use = "api" => InArena(b)
      BY <2>1
    <2> QED BY <2>2 DEF ShimInv, RightPlace, InArena, Freeing
  <1>9. ExitsGone' /\ AbortOnlyAfterTeardown'
    BY DEF ShimInv, ExitsGone, AbortOnlyAfterTeardown
  <1> QED BY <1>5, <1>6, <1>7, <1>8, <1>9 DEF ShimInv

\* An allocation record has the fields it is made of.
LEMMA AllocationFacts ==
    ASSUME NEW p \in Nat, NEW l \in Layouts, NEW use \in Uses, NEW o \in Threads \cup {NoOne}
    PROVE  /\ Allocation(p, l, use, o) \in Alloc
           /\ Allocation(p, l, use, o).ptr = p
           /\ Allocation(p, l, use, o).layout = l
           /\ Allocation(p, l, use, o).use = use
  BY DEF Allocation, Alloc

\* shim.alloc of a layout Orthotope does not serve.
LEMMA SystemAllocKeeps ==
    ASSUME ShimInv, aborted = NoOne, NEW t \in Threads, NEW l \in Layouts, SystemAlloc(t, l)
    PROVE  ShimInv'
  <1>1. PICK raw \in SystemGives(l) :
            /\ system' = system \cup {[raw |-> raw, layout |-> l]}
            /\ live' = live \cup {Allocation(raw, l, "shim", NoOne)}
    BY DEF SystemAlloc
  <1> DEFINE a == Allocation(raw, l, "shim", NoOne)
  <1>2. raw \in Nat
    BY ShimAssumption DEF SystemGives
  <1>3. a \in Alloc /\ a.ptr = raw /\ a.layout = l /\ a.use = "shim"
    BY <1>2, AllocationFacts DEF Uses
  <1> HIDE DEF a
  <1>4. live' = live \cup {a}
    BY <1>1 DEF a
  <1>5. SelectsSystem(l) /\ UNCHANGED <<global, tls, call, panicking, arena, prefix, leaked, aborted>>
    BY DEF SystemAlloc
  <1>6. \A b \in live : /\ b.use \in Metadata => ~InArena(b) /\ ~SelectsSystem(b.layout)
                        /\ b.use = "api" => InArena(b)
    BY DEF ShimInv, RightPlace
  <1>7. a.use # "api" /\ a.use \notin Metadata
    BY <1>3 DEF Metadata
  <1> QED BY <1>1, <1>3, <1>4, <1>5, <1>6, <1>7, LiveRelabels, AddBlockInv

\* shim.alloc while the cache is borrowed or destroyed.
LEMMA FallbackAllocKeeps ==
    ASSUME ShimInv, aborted = NoOne, NEW t \in Threads, NEW l \in Layouts, FallbackAlloc(t, l)
    PROVE  ShimInv'
  <1>1. /\ ~CacheFree(t) /\ ~SelectsSystem(l)
        /\ UNCHANGED <<global, tls, call, panicking, leaked, aborted>>
    BY DEF FallbackAlloc
  <1>2. PICK place \in NestedPlaces(t, l) :
            /\ Occupy(place, l)
            /\ live' = live \cup {Allocation(place.ptr, l, "shim", NoOne)}
    BY DEF FallbackAlloc
  <1>3. HasFallback(l)
    BY <1>1, <1>2, FallbackPlace
  <1>4. PICK raw \in SystemGives(FallbackLayout(l)) :
            /\ place.ptr = FallbackPtr(raw, l)
            /\ system' = system \cup {[raw |-> raw, layout |-> FallbackLayout(l)]}
            /\ prefix' = WritePrefix(place.ptr, raw)
            /\ UNCHANGED arena
    BY <1>1, <1>2, FallbackPlace
  <1> DEFINE a == Allocation(place.ptr, l, "shim", NoOne)
             L == FallbackLayout(l)
  <1>5. place.ptr \in Nat
    BY <1>4, ShimAssumption, FallbackPtrFacts DEF SystemGives
  <1>6. a \in Alloc /\ a.ptr = place.ptr /\ a.layout = l /\ a.use = "shim"
    BY <1>5, AllocationFacts DEF Uses
  <1>7. live' = live \cup {a} /\ raw \in SystemGives(L)
        /\ system' = system \cup {[raw |-> raw, layout |-> L]}
    BY <1>2, <1>4
  <1>8. /\ HasFallback(a.layout) /\ ~SelectsSystem(a.layout)
        /\ L = FallbackLayout(a.layout) /\ a.ptr = FallbackPtr(raw, a.layout)
        /\ prefix' = WritePrefix(a.ptr, raw)
    BY <1>1, <1>3, <1>4, <1>6
  <1> HIDE DEF a, L
  <1>9. \A b \in live : /\ b.use \in Metadata => ~InArena(b) /\ ~SelectsSystem(b.layout)
                        /\ b.use = "api" => InArena(b)
    BY DEF ShimInv, RightPlace
  <1>10. a.use # "api" /\ a.use \notin Metadata
    BY <1>6 DEF Metadata
  <1> QED BY <1>1, <1>4, <1>6, <1>7, <1>8, <1>9, <1>10, LiveRelabels, AddBlockInv

\* A vector of the allocator grows: its new buffer is a fallback block, since the cache is
\* borrowed or gone, and the old buffer is retired.
LEMMA GrowKeeps ==
    ASSUME ShimInv, aborted = NoOne, NEW t \in Threads, NEW use \in {"local", "central"},
           Grow(t, use)
    PROVE  ShimInv'
  <1> DEFINE owner == IF use = "local" THEN t ELSE NoOne
             old == {a \in live : a.use = use /\ a.owner = owner}
             R(a) == [a EXCEPT !.use = "retired", !.owner = t]
             M == (live \ old) \cup {R(a) : a \in old}
             l == MetaLayout
             L == FallbackLayout(l)
  <1>1. /\ ~CacheFree(t)
        /\ UNCHANGED <<global, tls, call, panicking, leaked, aborted>>
    BY ThreadFacts DEF Grow
  <1>2. PICK place \in NestedPlaces(t, l) :
            Occupy(place, l) /\ live' = M \cup {Allocation(place.ptr, l, use, owner)}
    BY DEF Grow
  <1>3. HasFallback(l)
    BY <1>1, <1>2, FallbackPlace
  <1>4. PICK raw \in SystemGives(L) :
            /\ place.ptr = FallbackPtr(raw, l)
            /\ system' = system \cup {[raw |-> raw, layout |-> L]}
            /\ prefix' = WritePrefix(place.ptr, raw)
            /\ UNCHANGED arena
    BY <1>1, <1>2, FallbackPlace
  <1> DEFINE n == Allocation(place.ptr, l, use, owner)
  <1>5. place.ptr \in Nat /\ l \in Layouts /\ ~SelectsSystem(l)
    BY <1>4, ShimAssumption, PlacesAssumption, FallbackPtrFacts DEF SystemGives
  <1>6. n \in Alloc /\ n.ptr = place.ptr /\ n.layout = l /\ n.use = use
    BY <1>5, AllocationFacts DEF Uses
  <1>7. \A a \in old : /\ R(a) \in Alloc /\ R(a).ptr = a.ptr /\ R(a).layout = a.layout
                       /\ R(a).use = "retired"
    BY DEF ShimInv, Typed, Alloc, Uses
  <1>8. \A a \in old : View(R(a)) = View(a)
    BY <1>7 DEF View
  <1>9. Relabels(M)
    <2>1. M \subseteq Alloc
      BY <1>7 DEF ShimInv, Typed
    <2>2. \A x : (\E a \in M : x = View(a)) <=> (\E a \in live : x = View(a))
      BY <1>8
    <2>3. \A a, b \in M : a.ptr = b.ptr => a = b
      <3>1. \A a, b \in live : a.ptr = b.ptr => a = b
        BY DEF ShimInv, Unique
      <3> SUFFICES ASSUME NEW a \in M, NEW b \in M, a.ptr = b.ptr PROVE a = b
        OBVIOUS
      <3>2. \A c \in live : (IF c \in old THEN R(c) ELSE c).ptr = c.ptr
        BY <1>7
      <3>3. PICK c \in live : a = IF c \in old THEN R(c) ELSE c
        OBVIOUS
      <3>4. PICK d \in live : b = IF d \in old THEN R(d) ELSE d
        OBVIOUS
      <3>5. c.ptr = a.ptr /\ d.ptr = b.ptr
        BY <3>2, <3>3, <3>4
      <3>6. c = d
        BY <3>1, <3>5
      <3> QED BY <3>3, <3>4, <3>6
    <2> QED BY <2>1, <2>2, <2>3 DEF Relabels
  <1>10. \A b \in M : /\ b.use \in Metadata => ~InArena(b) /\ ~SelectsSystem(b.layout)
                      /\ b.use = "api" => InArena(b)
    <2>1. \A b \in live : /\ b.use \in Metadata => ~InArena(b) /\ ~SelectsSystem(b.layout)
                          /\ b.use = "api" => InArena(b)
      BY DEF ShimInv, RightPlace
    <2>2. \A b \in old : b.use \in Metadata
      BY DEF Metadata
    <2>3. \A b \in old : ~InArena(R(b)) /\ ~SelectsSystem(R(b).layout) /\ R(b).use # "api"
      BY <1>7, <2>1, <2>2 DEF InArena
    <2> QED BY <2>1, <2>3
  <1>11. /\ HasFallback(n.layout) /\ ~SelectsSystem(n.layout)
         /\ L = FallbackLayout(n.layout) /\ n.ptr = FallbackPtr(raw, n.layout)
         /\ prefix' = WritePrefix(n.ptr, raw)
         /\ n.use # "api"
    BY <1>3, <1>4, <1>5, <1>6
  <1>12. live' = M \cup {n}
    BY <1>2
  <1> HIDE DEF M, n, L, l, owner, old, R
  <1> QED BY <1>1, <1>4, <1>6, <1>9, <1>10, <1>11, <1>12, AddBlockInv

\* A step that only changes the call, the cell or the panic of one thread, and neither
\* begins nor ends a free.
LEMMA QuietInv ==
    ASSUME ShimInv, NEW t \in Threads,
           UNCHANGED <<global, live, system, arena, prefix, leaked>>,
           NEW k \in Call, call' = [call EXCEPT ![t] = k],
           Freeing(t) => k = call[t], k.op = "free" => Freeing(t),
           tls' \in [Threads -> {"alive", "gone"}],
           panicking' \in [Threads -> BOOLEAN],
           aborted' \in Threads \cup {NoOne},
           ExitsGone', AbortOnlyAfterTeardown'
    PROVE  ShimInv'
  <1>1. call'[t] = k /\ \A u \in Threads \ {t} : call'[u] = call[u]
    BY DEF ShimInv, Typed
  <1>2. \A u \in Threads : (Freeing(u)' <=> Freeing(u)) /\ (Freeing(u) => call'[u] = call[u])
    BY <1>1 DEF Freeing
  <1>3. Unique' /\ RightPlace' /\ Memory'
    BY <1>2, QuietKeeps
  <1>4. Typed'
    BY DEF ShimInv, Typed
  <1> QED BY <1>3, <1>4 DEF ShimInv

\* shim.alloc or api::allocate borrows the cache.
LEMMA EnterAllocKeeps ==
    ASSUME ShimInv, aborted = NoOne, NEW t \in Threads, NEW l \in Layouts,
           NEW use \in {"shim", "api"}, EnterAlloc(t, l, use)
    PROVE  ShimInv'
  <1> DEFINE k == [op |-> "alloc", layout |-> l, use |-> use]
  <1>1. /\ CacheFree(t) /\ ~SelectsSystem(l) /\ call' = [call EXCEPT ![t] = k]
        /\ UNCHANGED <<global, tls, panicking, live, system, arena, prefix, leaked, aborted>>
    BY DEF EnterAlloc
  <1>2. k \in Call /\ k.op = "alloc"
    BY <1>1 DEF Call, Served
  <1>3. ~Freeing(t)
    BY <1>1, ThreadFacts
  <1> HIDE DEF k
  <1>4. ExitsGone' /\ AbortOnlyAfterTeardown'
    BY <1>1, <1>2 DEF ShimInv, Typed, ExitsGone, AbortOnlyAfterTeardown
  <1>5. /\ tls' \in [Threads -> {"alive", "gone"}] /\ panicking' \in [Threads -> BOOLEAN]
        /\ aborted' \in Threads \cup {NoOne}
    BY <1>1 DEF ShimInv, Typed
  <1> QED BY <1>1, <1>2, <1>3, <1>4, <1>5, QuietInv

\* allocate_with_cache returns a pointer.
LEMMA AllocDoneKeeps ==
    ASSUME ShimInv, aborted = NoOne, NEW t \in Threads, AllocDone(t)
    PROVE  ShimInv'
  <1>1. /\ call[t].op = "alloc" /\ call' = [call EXCEPT ![t] = NoCall]
        /\ UNCHANGED <<global, tls, panicking, system, prefix, leaked, aborted>>
    BY DEF AllocDone
  <1>2. PICK p \in ArenaPtrs \ arena :
            /\ arena' = arena \cup {p}
            /\ live' = live \cup {Allocation(p, call[t].layout, call[t].use, NoOne)}
    BY DEF AllocDone
  <1> DEFINE a == Allocation(p, call[t].layout, call[t].use, NoOne)
             x == View(a)
  <1>3. /\ call[t].layout \in Layouts /\ ~SelectsSystem(call[t].layout)
        /\ call[t].use \in {"shim", "api"}
    BY <1>1, ThreadFacts, CallFacts
  <1>4. a \in Alloc /\ a.ptr = p /\ a.layout = call[t].layout /\ a.use \in {"shim", "api"}
    BY <1>3, ShimAssumption, AllocationFacts DEF Uses
  <1>5. x \in Extent /\ x.ptr = p /\ x.layout = call[t].layout
    BY <1>4, ViewFacts
  <1>6. call'[t] = NoCall /\ \A u \in Threads \ {t} : call'[u] = call[u]
    BY <1>1 DEF ShimInv, Typed
  <1>7. \A u \in Threads : (Freeing(u)' <=> Freeing(u)) /\ (Freeing(u) => call'[u] = call[u])
    BY <1>1, <1>6 DEF Freeing, NoCall
  <1>8. live' = live \cup {a}
    BY <1>2
  <1> HIDE DEF a, x
  <1>9. Held' = Held \cup {x}
    <2>1. \A y : y \in Held' <=> y \in Held \/ y = x
      BY <1>1, <1>7, <1>8, HeldIs, HeldIsPrimed DEF x
    <2>2. Held' \subseteq Held \cup {x} /\ Held \cup {x} \subseteq Held'
      BY <2>1
    <2> QED BY <2>2
  <1>10. AddsPtr(x)
    BY <1>1, <1>2, <1>3, <1>5, <1>9 DEF AddsPtr
  <1>11. Memory' /\ \A y \in Held : y.ptr # p
    BY <1>5, <1>10, AddPtrKeeps
  <1>12. Unique'
    <2>1. \A b \in live \cup leaked : b.ptr # p
      BY <1>11, HeldFacts, ViewFacts
    <2>2. \A u \in Threads : Freeing(u) => call[u].alloc.ptr # p
      BY <1>11, HeldFacts, ViewFacts
    <2>3. \A b, c \in live' : b.ptr = c.ptr => b = c
      BY <1>4, <1>8, <2>1 DEF ShimInv, Unique
    <2>4. \A b \in live', y \in leaked : b.ptr # y.ptr
      BY <1>4, <1>8, <2>1 DEF ShimInv, Unique
    <2>5. \A u \in Threads : Freeing(u) => \A b \in live' \cup leaked : b.ptr # call[u].alloc.ptr
      BY <1>4, <1>8, <2>2 DEF ShimInv, Unique
    <2> QED BY <1>1, <1>7, <2>3, <2>4, <2>5 DEF ShimInv, Unique
  <1>13. RightPlace'
    <2>1. InArena(a) /\ a.use \notin Metadata
      BY <1>2, <1>4 DEF InArena, Metadata
    <2>2. \A b \in live' : /\ b.use \in Metadata => ~InArena(b) /\ ~SelectsSystem(b.layout)
                           /\ b.use = "api" => InArena(b)
      BY <1>8, <2>1 DEF ShimInv, RightPlace
    <2> QED BY <1>1, <1>7, <2>2 DEF ShimInv, RightPlace, InArena
  <1>14. Typed'
    <2>1. NoCall \in Call
      BY DEF Call
    <2>2. call' \in [Threads -> Call]
      BY <1>1, <2>1 DEF ShimInv, Typed
    <2> QED BY <1>1, <1>2, <1>4, <1>8, <2>2 DEF ShimInv, Typed
  <1>15. ExitsGone' /\ AbortOnlyAfterTeardown'
    BY <1>1, <1>6 DEF ShimInv, ExitsGone, AbortOnlyAfterTeardown, NoCall
  <1> QED BY <1>11, <1>12, <1>13, <1>14, <1>15 DEF ShimInv

\* A free of a block of System as it is, or behind a prefix: the block that is freed is the
\* one under the allocation.
LEMMA SystemFreesKeep ==
    ASSUME ShimInv, aborted = NoOne, NEW t \in Threads, NEW a \in live,
           SystemFree(t, a) \/ FallbackFree(t, a)
    PROVE  ShimInv'
  <1>1. /\ live' = live \ {a}
        /\ UNCHANGED <<global, tls, call, panicking, arena, prefix, leaked, aborted>>
    BY DEF SystemFree, FallbackFree
  <1>2. ~InArena(a) /\ system' = system \ {Backing(a)}
    <2>1. CASE SystemFree(t, a)
      BY <2>1, PrefixTells DEF SystemFree, Backing
    <2>2. CASE FallbackFree(t, a)
      BY <2>2, PrefixTells DEF FallbackFree, HasPrefix, Backing
    <2> QED BY <2>1, <2>2
  <1>3. View(a) \in Held /\ Held' = Held \ {View(a)} /\ Unique' /\ RightPlace'
    BY <1>1, DropHeld
  <1>4. ~InArena(View(a)) /\ Backing(View(a)) = Backing(a)
    BY <1>2, ViewFacts
  <1>5. Removes(View(a))
    BY <1>1, <1>2, <1>3, <1>4 DEF Removes
  <1>6. Memory'
    BY <1>5, RemoveKeeps
  <1>7. Typed'
    BY <1>1, <1>2 DEF ShimInv, Typed
  <1>8. ExitsGone' /\ AbortOnlyAfterTeardown'
    BY <1>1 DEF ShimInv, ExitsGone, AbortOnlyAfterTeardown
  <1> QED BY <1>3, <1>6, <1>7, <1>8 DEF ShimInv

\* A free that borrows the cache.
LEMMA EnterFreeKeeps ==
    ASSUME ShimInv, aborted = NoOne, NEW t \in Threads, NEW a \in live, EnterFree(t, a)
    PROVE  ShimInv'
  <1> DEFINE k == [op |-> "free", alloc |-> a]
  <1>1. /\ CacheFree(t) /\ ForCache(t, a) /\ live' = live \ {a}
        /\ call' = [call EXCEPT ![t] = k]
        /\ UNCHANGED <<global, tls, panicking, system, arena, prefix, leaked, aborted>>
    BY DEF EnterFree
  <1>2. ~Freeing(t) /\ InArena(a) /\ a \in Alloc
    BY <1>1, ThreadFacts, ForCacheInArena, PrefixTells
  <1>3. Held' = Held /\ Unique' /\ RightPlace'
    BY <1>1, <1>2, PassToCall
  <1>4. Memory'
    BY <1>1, <1>3, SameMemory DEF ShimInv
  <1>5. k \in Call /\ k.op = "free"
    BY <1>2 DEF Call
  <1> HIDE DEF k
  <1>6. Typed'
    BY <1>1, <1>5 DEF ShimInv, Typed
  <1>7. ExitsGone' /\ AbortOnlyAfterTeardown'
    BY <1>1, <1>5 DEF ShimInv, Typed, ExitsGone, AbortOnlyAfterTeardown
  <1> QED BY <1>3, <1>4, <1>6, <1>7 DEF ShimInv

\* deallocate_with_cache returns.
LEMMA FreeDoneKeeps ==
    ASSUME ShimInv, aborted = NoOne, NEW t \in Threads, FreeDone(t)
    PROVE  ShimInv'
  <1> DEFINE a == call[t].alloc
  <1>1. /\ Freeing(t) /\ arena' = arena \ {a.ptr} /\ call' = [call EXCEPT ![t] = NoCall]
        /\ UNCHANGED <<global, tls, panicking, live, system, prefix, leaked, aborted>>
    BY DEF FreeDone, Freeing
  <1>2. View(a) \in Held /\ Held' = Held \ {View(a)} /\ Unique' /\ RightPlace'
    BY <1>1, EndOfFree
  <1>3. InArena(View(a)) /\ View(a).ptr = a.ptr
    BY <1>1, ViewFacts DEF ShimInv, RightPlace
  <1>4. Removes(View(a))
    BY <1>1, <1>2, <1>3 DEF Removes
  <1>5. Memory'
    BY <1>4, RemoveKeeps
  <1>6. NoCall \in Call /\ NoCall.op = "none"
    BY DEF Call, NoCall
  <1>7. Typed'
    BY <1>1, <1>6 DEF ShimInv, Typed
  <1>8. ExitsGone' /\ AbortOnlyAfterTeardown'
    BY <1>1, <1>6 DEF ShimInv, Typed, ExitsGone, AbortOnlyAfterTeardown
  <1> QED BY <1>2, <1>5, <1>7, <1>8 DEF ShimInv

\* collapse_dealloc_result gives a block up.
LEMMA GiveUpKeeps ==
    ASSUME ShimInv, aborted = NoOne, NEW t \in Threads, NEW a \in live, GiveUp(t, a)
    PROVE  ShimInv'
  <1>1. /\ ForCache(t, a) /\ live' = live \ {a} /\ leaked' = leaked \cup {View(a)}
        /\ UNCHANGED <<global, tls, call, panicking, system, arena, prefix, aborted>>
    BY DEF GiveUp, View
  <1>2. InArena(a) /\ a \in Alloc /\ View(a) \in Extent
    BY <1>1, ForCacheInArena, PrefixTells, ViewFacts
  <1>3. Held' = Held /\ Unique' /\ RightPlace'
    BY <1>1, <1>2, PassToLeaked
  <1>4. Memory'
    BY <1>1, <1>3, SameMemory DEF ShimInv
  <1>5. Typed'
    BY <1>1, <1>2 DEF ShimInv, Typed
  <1>6. ExitsGone' /\ AbortOnlyAfterTeardown'
    BY <1>1 DEF ShimInv, ExitsGone, AbortOnlyAfterTeardown
  <1> QED BY <1>3, <1>4, <1>5, <1>6 DEF ShimInv

\* The unwinding leaves a call.
LEMMA UnwindKeeps ==
    ASSUME ShimInv, aborted = NoOne, NEW t \in Threads, Unwind(t)
    PROVE  ShimInv'
  <1>1. /\ call' = [call EXCEPT ![t] = NoCall]
        /\ UNCHANGED <<global, tls, panicking, live, system, arena, prefix, aborted>>
        /\ leaked' = leaked \cup {View(call[x].alloc) : x \in {x \in {t} : Freeing(x)}}
    BY DEF Unwind, View, Freeing
  <1>2. NoCall \in Call /\ NoCall.op = "none"
    BY DEF Call, NoCall
  <1>3. ExitsGone' /\ AbortOnlyAfterTeardown'
    BY <1>1, <1>2 DEF ShimInv, Typed, ExitsGone, AbortOnlyAfterTeardown
  <1>4. CASE Freeing(t)
    <2>1. leaked' = leaked \cup {View(call[t].alloc)}
      BY <1>1, <1>4
    <2>2. Held' = Held /\ Unique' /\ RightPlace'
      BY <1>1, <1>4, <2>1, UnwoundFree
    <2>3. Memory'
      BY <1>1, <2>2, SameMemory DEF ShimInv
    <2>4. View(call[t].alloc) \in Extent
      BY <1>4, ThreadFacts, CallFacts, ViewFacts DEF Freeing
    <2>5. Typed'
      BY <1>1, <1>2, <2>1, <2>4 DEF ShimInv, Typed
    <2> QED BY <1>3, <2>2, <2>3, <2>5 DEF ShimInv
  <1>5. CASE ~Freeing(t)
    <2>1. leaked' = leaked
      BY <1>1, <1>5
    <2>2. /\ tls' \in [Threads -> {"alive", "gone"}] /\ panicking' \in [Threads -> BOOLEAN]
          /\ aborted' \in Threads \cup {NoOne}
      BY <1>1 DEF ShimInv, Typed
    <2> QED BY <1>1, <1>2, <1>3, <1>5, <2>1, <2>2, QuietInv
  <1> QED BY <1>4, <1>5

\* The steps that end a call without a free, or that change the panic or the cell of a
\* thread.
LEMMA ThreadStepsKeep ==
    ASSUME ShimInv, aborted = NoOne, NEW t \in Threads,
           AllocFails(t) \/ Panic(t) \/ CatchUnwind(t) \/ ThreadExit(t) \/ CacheDropped(t)
    PROVE  ShimInv'
  <1>1. /\ call[t] \in Call /\ NoCall \in Call /\ NoCall.op = "none"
        /\ [op |-> "exit"] \in Call /\ [op |-> "exit"].op = "exit"
    BY ThreadFacts DEF Call, NoCall
  <1>2. /\ tls \in [Threads -> {"alive", "gone"}] /\ panicking \in [Threads -> BOOLEAN]
        /\ call \in [Threads -> Call] /\ aborted \in Threads \cup {NoOne}
    BY DEF ShimInv, Typed
  <1>3. UNCHANGED <<global, live, system, arena, prefix, leaked, aborted>>
    BY DEF AllocFails, Panic, CatchUnwind, ThreadExit, CacheDropped
  <1>4. aborted' \in Threads \cup {NoOne} /\ AbortOnlyAfterTeardown'
    BY <1>2, <1>3 DEF AbortOnlyAfterTeardown
  <1>5. CASE AllocFails(t) \/ CacheDropped(t)
    <2>1. /\ call' = [call EXCEPT ![t] = NoCall] /\ UNCHANGED <<tls, panicking>>
          /\ ~Freeing(t)
      BY <1>5 DEF AllocFails, CacheDropped, Freeing
    <2>2. ExitsGone'
      BY <1>1, <1>2, <2>1 DEF ShimInv, ExitsGone
    <2> QED BY <1>1, <1>2, <1>3, <1>4, <2>1, <2>2, QuietInv
  <1>6. CASE Panic(t) \/ CatchUnwind(t)
    <2>1. /\ call' = [call EXCEPT ![t] = call[t]] /\ UNCHANGED <<tls, call>>
          /\ call[t].op # "exit"
      BY <1>1, <1>2, <1>6 DEF Panic, CatchUnwind
    <2>2. \E b \in BOOLEAN : panicking' = [panicking EXCEPT ![t] = b]
      BY <1>6 DEF Panic, CatchUnwind
    <2>3. panicking' \in [Threads -> BOOLEAN] /\ \A u \in Threads \ {t} : panicking'[u] = panicking[u]
      BY <1>2, <2>2
    <2>4. ExitsGone'
      BY <2>1, <2>3 DEF ShimInv, ExitsGone
    <2>5. call[t].op = "free" => Freeing(t)
      BY DEF Freeing
    <2> QED BY <1>1, <1>2, <1>3, <1>4, <2>1, <2>3, <2>4, <2>5, QuietInv
  <1>7. CASE ThreadExit(t)
    <2> DEFINE k == [op |-> "exit"]
    <2>1. /\ call' = [call EXCEPT ![t] = k] /\ tls' = [tls EXCEPT ![t] = "gone"]
          /\ UNCHANGED panicking /\ ~panicking[t] /\ call[t] = NoCall
      BY <1>7 DEF ThreadExit
    <2>2. ~Freeing(t) /\ k \in Call /\ k.op = "exit"
      BY <1>1, <2>1 DEF Freeing
    <2> HIDE DEF k
    <2>3. tls' \in [Threads -> {"alive", "gone"}] /\ panicking' \in [Threads -> BOOLEAN]
      BY <1>2, <2>1
    <2>4. ExitsGone'
      BY <1>2, <2>1 DEF ShimInv, ExitsGone
    <2> QED BY <1>3, <1>4, <2>1, <2>2, <2>3, <2>4, QuietInv
  <1> QED BY <1>5, <1>6, <1>7

\* A free that aborts the process is one the program makes after its cache is destroyed:
\* the allocator's own buffers are fallback blocks, which need no cache, and a fallback
\* block has a fallback layout.
LEMMA AbortKeeps ==
    ASSUME ShimInv, aborted = NoOne, NEW t \in Threads, NEW a \in live, Abort(t, a)
    PROVE  ShimInv'
  <1>1. /\ MayFree(t, a) /\ ~SelectsSystem(a.layout) /\ aborted' = t
        /\ IF HasPrefix(t, a) THEN ~HasFallback(a.layout) ELSE ~CacheFree(t) /\ ~panicking[t]
        /\ UNCHANGED <<global, tls, call, panicking, live, system, arena, prefix, leaked>>
    BY DEF Abort
  <1>2. InArena(a) /\ ~CacheFree(t) /\ ~panicking[t]
    BY <1>1, PrefixTells DEF HasPrefix
  <1>3. a.use \notin Metadata
    BY <1>2 DEF ShimInv, RightPlace
  <1>4. ProgramRuns(t)
    BY <1>1, <1>3 DEF MayFree, Retired, Metadata
  <1>5. call[t] = NoCall /\ tls[t] # "alive"
    BY <1>2, <1>4 DEF ProgramRuns, CacheFree, Borrowed, NoCall
  <1>6. AbortOnlyAfterTeardown'
    BY <1>1, <1>2, <1>5 DEF AbortOnlyAfterTeardown, ShimInv, Typed
  <1>7. call' = [call EXCEPT ![t] = call[t]]
    BY <1>1 DEF ShimInv, Typed
  <1>8. /\ tls' \in [Threads -> {"alive", "gone"}] /\ panicking' \in [Threads -> BOOLEAN]
        /\ aborted' \in Threads \cup {NoOne} /\ call[t] \in Call
    BY <1>1, ThreadFacts DEF ShimInv, Typed
  <1>9. ExitsGone'
    BY <1>1 DEF ShimInv, ExitsGone
  <1>10. call[t].op = "free" => Freeing(t)
    BY DEF Freeing
  <1> QED BY <1>1, <1>6, <1>7, <1>8, <1>9, <1>10, QuietInv

\* At first no one holds anything.
LEMMA ShimInit == Init => ShimInv
  <1> SUFFICES ASSUME Init PROVE ShimInv
    OBVIOUS
  <1>1. /\ live = {} /\ leaked = {} /\ system = {} /\ arena = {} /\ aborted = NoOne
        /\ DOMAIN prefix = {} /\ call = [t \in Threads |-> NoCall]
        /\ tls = [t \in Threads |-> "alive"] /\ panicking = [t \in Threads |-> FALSE]
        /\ global \in {"ok", "failed"}
    BY DEF Init
  <1>2. NoCall \in Call /\ NoCall.op = "none"
    BY DEF Call, NoCall
  <1>3. \A t \in Threads : call[t].op = "none"
    BY <1>1, <1>2
  <1>4. Typed
    BY <1>1, <1>2 DEF Typed
  <1>5. \A x : x \notin Held
    BY <1>1, <1>3, HeldIs DEF Freeing
  <1>6. Memory
    BY <1>1, <1>5 DEF Memory
  <1>7. Unique /\ RightPlace /\ ExitsGone
    BY <1>1, <1>3 DEF Unique, RightPlace, ExitsGone, Freeing
  <1>8. AbortOnlyAfterTeardown
    BY <1>1 DEF AbortOnlyAfterTeardown
  <1> QED BY <1>4, <1>6, <1>7, <1>8 DEF ShimInv

\* Every step keeps the invariant.
LEMMA ShimStep == ShimInv /\ [Next]_vars => ShimInv'
  <1> SUFFICES ASSUME ShimInv, [Next]_vars PROVE ShimInv'
    OBVIOUS
  <1>1. CASE UNCHANGED vars
    <2>1. UNCHANGED <<global, tls, call, panicking, live, system, arena, prefix, leaked, aborted>>
      BY <1>1 DEF vars
    <2>2. \A u \in Threads : (Freeing(u)' <=> Freeing(u)) /\ (Freeing(u) => call'[u] = call[u])
      BY <2>1 DEF Freeing
    <2>3. Unique' /\ RightPlace' /\ Memory'
      BY <2>1, <2>2, QuietKeeps
    <2> QED BY <2>1, <2>3 DEF ShimInv, Typed, ExitsGone, AbortOnlyAfterTeardown
  <1>2. ASSUME aborted = NoOne, NEW t \in Threads, Step(t) PROVE ShimInv'
    <2>1. ASSUME NEW l \in Layouts, SystemAlloc(t, l) PROVE ShimInv'
      BY <1>2, <2>1, SystemAllocKeeps
    <2>2. ASSUME NEW l \in Layouts, FallbackAlloc(t, l) PROVE ShimInv'
      BY <1>2, <2>2, FallbackAllocKeeps
    <2>3. ASSUME NEW l \in Layouts, NEW use \in {"shim", "api"}, EnterAlloc(t, l, use)
          PROVE  ShimInv'
      BY <1>2, <2>3, EnterAllocKeeps
    <2>4. ASSUME NEW use \in {"local", "central"}, Grow(t, use) PROVE ShimInv'
      BY <1>2, <2>4, GrowKeeps
    <2>5. CASE AllocDone(t)
      BY <1>2, <2>5, AllocDoneKeeps
    <2>6. CASE FreeDone(t)
      BY <1>2, <2>6, FreeDoneKeeps
    <2>7. ASSUME NEW a \in live, SystemFree(t, a) \/ FallbackFree(t, a) PROVE ShimInv'
      BY <1>2, <2>7, SystemFreesKeep
    <2>8. ASSUME NEW a \in live, EnterFree(t, a) PROVE ShimInv'
      BY <1>2, <2>8, EnterFreeKeeps
    <2>9. ASSUME NEW a \in live, GiveUp(t, a) PROVE ShimInv'
      BY <1>2, <2>9, GiveUpKeeps
    <2>10. ASSUME NEW a \in live, Abort(t, a) PROVE ShimInv'
      BY <1>2, <2>10, AbortKeeps
    <2>11. CASE Unwind(t)
      BY <1>2, <2>11, UnwindKeeps
    <2>12. CASE AllocFails(t) \/ Panic(t) \/ CatchUnwind(t) \/ ThreadExit(t) \/ CacheDropped(t)
      BY <1>2, <2>12, ThreadStepsKeep
    <2> QED BY <1>2, <2>1, <2>2, <2>3, <2>4, <2>5, <2>6, <2>7, <2>8, <2>9, <2>10, <2>11,
               <2>12 DEF Step
  <1>3. CASE Stopped
    BY <1>1, <1>3 DEF Stopped
  <1> QED BY <1>1, <1>2, <1>3 DEF Next

\* The invariant of the proofs holds in every reachable state.
LEMMA ShimInvHolds == Spec => []ShimInv
  BY ShimInit, ShimStep, PTL DEF Spec

-----------------------------------------------------------------------------
(* The theorems *)

\* Every allocation has the memory it needs, aligned and large enough, from the backend,
\* at the address and with the layout that its free will name; nothing else is outstanding
\* in System or in the arena.  This holds for re-entrant allocations, on threads whose
\* cache is destroyed, and while threads unwind.
THEOREM EveryBlockBacked == Spec => []BlocksBacked
  <1>1. ShimInv => TypeOK
    <2> SUFFICES ASSUME ShimInv PROVE TypeOK
      OBVIOUS
    <2>1. Typed
      BY DEF ShimInv
    <2>2. \A t \in Threads : call[t].op \in {"none", "alloc", "free", "exit"}
      BY <2>1, CallFacts DEF Typed
    <2>3. \A a \in live : /\ a.layout \in Layouts /\ a.use \in Uses
                          /\ a.owner \in Threads \cup {NoOne}
      BY <2>1 DEF Typed, Alloc
    <2> QED BY <2>1, <2>2, <2>3 DEF Typed, TypeOK, Uses
  <1>2. ShimInv => BackendsAgree
    <2> SUFFICES ASSUME ShimInv PROVE BackendsAgree
      OBVIOUS
    <2>1. \A x \in Held : Backed(x)
      BY DEF ShimInv, Memory
    <2>2. arena = {a.ptr : a \in {a \in Held : InArena(a)}}
      <3>1. \A p \in arena : \E x \in Held : InArena(x) /\ x.ptr = p
        BY DEF ShimInv, Memory
      <3>2. \A x \in Held : InArena(x) => x.ptr \in arena
        BY <2>1 DEF Backed
      <3> QED BY <3>1, <3>2
    <2>3. system = {Backing(a) : a \in {a \in Held : ~InArena(a)}}
      <3>1. \A b \in system : \E x \in Held : ~InArena(x) /\ Backing(x) = b
        BY DEF ShimInv, Memory
      <3>2. \A x \in Held : ~InArena(x) => Backing(x) \in system
        BY <2>1 DEF Backed
      <3> QED BY <3>1, <3>2
    <2>4. \A a \in leaked : InArena(a)
      BY DEF ShimInv, RightPlace
    <2> QED BY <2>2, <2>3, <2>4 DEF BackendsAgree
  <1>3. ShimInv => FallbackFits
    <2> SUFFICES ASSUME ShimInv, NEW x \in Held, ~InArena(x)
                 PROVE  /\ x.ptr % x.layout.align = 0
                        /\ SelectsSystem(x.layout) \/
                             /\ x.ptr - PrefixSize >= prefix[x.ptr]
                             /\ x.ptr + x.layout.size
                                 =< prefix[x.ptr] + FallbackLayout(x.layout).size
      BY DEF FallbackFits
    <2>1. Backed(x) /\ x.layout \in Layouts
      BY HeldFacts DEF ShimInv, Memory
    <2>2. CASE SelectsSystem(x.layout)
      BY <2>1, <2>2 DEF Backed
    <2>3. CASE ~SelectsSystem(x.layout)
      <3> DEFINE raw == prefix[x.ptr]
                 p == x.ptr
      <3>1. raw \in Nat
        BY <2>1, <2>3, ShimAssumption DEF Backed, ShimInv, Typed
      <3>2. p = FallbackPtr(raw, x.layout)
        BY <2>1, <2>3 DEF Backed
      <3> HIDE DEF raw, p
      <3>3. /\ p \in Nat /\ p % x.layout.align = 0
            /\ raw + PrefixSize =< p
            /\ p + x.layout.size =< raw + FallbackLayout(x.layout).size
        BY <2>1, <3>1, <3>2, FallbackPtrFacts
      <3>4. p - PrefixSize >= raw
        BY <3>1, <3>3, ShimAssumption
      <3> QED BY <3>3, <3>4 DEF raw, p
    <2> QED BY <2>2, <2>3
  <1> QED BY <1>1, <1>2, <1>3, ShimInvHolds, PTL DEF BlocksBacked

\* The allocator's vectors never lie in the arena: the borrow of the cache, or its
\* destruction, sends every allocation the allocator makes to System.
THEOREM MetadataStaysOutside == Spec => []MetadataOutside
  <1>1. ShimInv => MetadataOutside
    BY DEF ShimInv, RightPlace, MetadataOutside, Metadata
  <1> QED BY <1>1, ShimInvHolds, PTL

\* The process is aborted only by a free the program makes on a thread whose cache is
\* destroyed, outside a panic.
THEOREM AbortsOnlyLate == Spec => []AbortOnlyAfterTeardown
  <1>1. ShimInv => AbortOnlyAfterTeardown
    BY DEF ShimInv
  <1> QED BY <1>1, ShimInvHolds, PTL
=============================================================================
