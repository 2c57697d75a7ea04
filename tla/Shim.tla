-------------------------------- MODULE Shim --------------------------------
(***************************************************************************)
(* The GlobalAlloc shim, the process-global functions and the thread-local *)
(* cache they share (global_alloc.rs, api.rs, lib.rs).                     *)
(*                                                                         *)
(* A shim request goes to one of three places: to System unchanged (over-  *)
(* aligned layouts), to Orthotope, or, when the cache of the thread is     *)
(* borrowed or destroyed, to System behind an in-band prefix.  A free has  *)
(* only the pointer, the layout and the bytes before the pointer to find   *)
(* the same place again.  The allocator's own vectors are allocated        *)
(* through the same shim, from inside its critical sections.               *)
(*                                                                         *)
(* What Orthotope does with a request is the subject of SmallPath and      *)
(* LargeObjects; here it hands out a pointer that is not in use, or none.  *)
(* A call that changes nothing (a null result, an error) is a stutter.     *)
(***************************************************************************)
EXTENDS Integers, FiniteSets

CONSTANTS
    Threads,
    Layouts,        \* the layouts programs ask for: [size, align]
    MetaLayout,     \* the layout of an internal vector of the allocator
    RawAddrs,       \* addresses System.alloc returns
    ArenaPtrs,      \* user pointers inside Orthotope's arena
    HeaderAlignment,
    PrefixSize,     \* size_of::<SystemFallbackPrefix>()
    PrefixAlign,    \* align_of::<SystemFallbackPrefix>()
    IsizeMax,       \* the largest size of a Layout, rounded up to its alignment
    MaxLive         \* bound on allocations alive at a time

NoOne == "no one"
NoCall == [op |-> "none"]

ASSUME ShimAssumption ==
    /\ NoOne \notin Threads
    /\ Layouts \subseteq [size : Nat \ {0}, align : Nat \ {0}]
    /\ MetaLayout \in Layouts
    /\ RawAddrs \cup ArenaPtrs \subseteq Nat \ {0}
    /\ HeaderAlignment \in Nat /\ PrefixSize \in Nat /\ PrefixAlign \in Nat \ {0}
    \* an alignment is a power of two
    /\ \A l \in Layouts : l.align =< PrefixAlign => PrefixAlign % l.align = 0
    /\ PrefixAlign =< HeaderAlignment

VARIABLES
    global,     \* the outcome of the LazyLock: "ok" or "failed"
    tls,        \* per thread: the cell "alive" or "gone"
    call,       \* per thread: the call that holds the cell, or runs its destructor
    panicking,  \* per thread: thread::panicking()
    live,       \* allocations in use, with the layout they were asked with
    system,     \* blocks outstanding in System: [raw, layout]
    arena,      \* pointers outstanding in Orthotope
    prefix,     \* the SystemFallbackPrefix in memory, by the address it precedes
    leaked,     \* allocations a free gave up: [ptr, layout]
    aborted     \* the thread that aborted the process

vars == <<global, tls, call, panicking, live, system, arena, prefix, leaked, aborted>>

-----------------------------------------------------------------------------
(* Layouts *)

\* select_backend
SelectsSystem(l) == l.size = 0 \/ l.align > HeaderAlignment

AlignUp(x, a) == IF x % a = 0 THEN x ELSE x + (a - (x % a))

FallbackAlignment(l) == IF l.align > PrefixAlign THEN l.align ELSE PrefixAlign

\* try_fallback_layout; it has no result when HasFallback is false
FallbackLayout(l) ==
    [size  |-> l.size + PrefixSize + FallbackAlignment(l) - 1,
     align |-> FallbackAlignment(l)]

HasFallback(l) ==
    FallbackLayout(l).size =< IsizeMax - (FallbackLayout(l).align - 1)

\* The pointer fallback_alloc returns for the block System gave it.
FallbackPtr(raw, l) == AlignUp(raw + PrefixSize, FallbackAlignment(l))

\* Orthotope serves the layouts of its own vectors, and its arena is one block of
\* System that no other block overlaps.
ASSUME PlacesAssumption ==
    /\ ~SelectsSystem(MetaLayout)
    /\ \A raw \in RawAddrs :
        /\ raw \notin ArenaPtrs
        /\ \A l \in Layouts : HasFallback(l) => FallbackPtr(raw, l) \notin ArenaPtrs

\* What System.alloc may return: an aligned block apart from the ones outstanding.
SystemGives(l) ==
    {raw \in RawAddrs :
        /\ raw % l.align = 0
        /\ \A b \in system : \/ raw + l.size =< b.raw
                             \/ b.raw + b.layout.size =< raw}

-----------------------------------------------------------------------------
(* The thread-local cache *)

\* The RefCell is mutably borrowed by an outer call of the same thread.
Borrowed(t) == call[t].op \in {"alloc", "free"}

\* Mutant of CacheFree: the cache can be borrowed again inside a call.
CacheFreeShared(t) == tls[t] = "alive"

\* try_with_thread_cache runs its closure; otherwise it returns Ok(None).
CacheFree(t) == tls[t] = "alive" /\ ~Borrowed(t)

\* The program's own code runs: outside the allocator, or in the panic hook and
\* in the destructors of an unwinding that started inside it.
ProgramRuns(t) == call[t] = NoCall \/ panicking[t]

\* The allocator's own code runs, in a call or in the destructor of the cache.
InAllocator(t) == call[t] # NoCall /\ ~panicking[t]

Init ==
    /\ global \in {"ok", "failed"}
    /\ tls = [t \in Threads |-> "alive"]
    /\ call = [t \in Threads |-> NoCall]
    /\ panicking = [t \in Threads |-> FALSE]
    /\ live = {} /\ system = {} /\ arena = {} /\ leaked = {}
    /\ prefix = [a \in {} |-> 0]
    /\ aborted = NoOne

-----------------------------------------------------------------------------
(* Allocation *)

Allocation(ptr, l, use, owner) ==
    [ptr |-> ptr, layout |-> l, use |-> use, owner |-> owner]

\* shim.alloc of a layout Orthotope does not serve
SystemAlloc(t, l) ==
    /\ ProgramRuns(t) /\ SelectsSystem(l)
    /\ \E raw \in SystemGives(l) :
        /\ system' = system \cup {[raw |-> raw, layout |-> l]}
        /\ live' = live \cup {Allocation(raw, l, "shim", NoOne)}
    /\ UNCHANGED <<global, tls, call, panicking, arena, prefix, leaked, aborted>>

\* shim.alloc that completes without entering Orthotope's core: the places it may
\* return.  Memory of the arena is one only if the cache could be borrowed again.
NestedPlaces(t, l) ==
    IF CacheFree(t)
    THEN {[ptr |-> p, raw |-> 0] : p \in ArenaPtrs \ arena}
    ELSE {[ptr |-> FallbackPtr(raw, l), raw |-> raw] :
            raw \in IF HasFallback(l) THEN SystemGives(FallbackLayout(l)) ELSE {}}

\* fallback_alloc writes the prefix in front of the pointer it returns.
WritePrefix(ptr, raw) ==
    [a \in DOMAIN prefix \cup {ptr} |-> IF a = ptr THEN raw ELSE prefix[a]]

Occupy(place, l) ==
    IF place.raw = 0
    THEN arena' = arena \cup {place.ptr} /\ UNCHANGED <<system, prefix>>
    ELSE /\ system' = system \cup {[raw |-> place.raw, layout |-> FallbackLayout(l)]}
         /\ prefix' = WritePrefix(place.ptr, place.raw)
         /\ UNCHANGED arena

\* shim.alloc by the program while the cache is borrowed or destroyed
FallbackAlloc(t, l) ==
    /\ global = "ok"
    /\ ProgramRuns(t) /\ ~SelectsSystem(l) /\ ~CacheFree(t)
    /\ \E place \in NestedPlaces(t, l) :
        /\ Occupy(place, l)
        /\ live' = live \cup {Allocation(place.ptr, l, "shim", NoOne)}
    /\ UNCHANGED <<global, tls, call, panicking, leaked, aborted>>

\* A vector of the allocator grows inside a call: of the thread's cache
\* ("local") or of the central pool and the large registry ("central").  The
\* new buffer comes from shim.alloc; the old one is retired, to be freed next.
Retired(t) == {a \in live : a.use = "retired" /\ a.owner = t}

Grow(t, use) ==
    /\ InAllocator(t) /\ Retired(t) = {}
    /\ use = "local" => Borrowed(t)
    /\ LET owner == IF use = "local" THEN t ELSE NoOne
           old == {a \in live : a.use = use /\ a.owner = owner}
       IN \E place \in NestedPlaces(t, MetaLayout) :
            /\ Occupy(place, MetaLayout)
            /\ live' = (live \ old)
                       \cup {[a EXCEPT !.use = "retired", !.owner = t] : a \in old}
                       \cup {Allocation(place.ptr, MetaLayout, use, owner)}
    /\ UNCHANGED <<global, tls, call, panicking, leaked, aborted>>

\* shim.alloc ("shim") or api::allocate ("api") borrows the cache ...
EnterAlloc(t, l, use) ==
    /\ global = "ok"
    /\ ProgramRuns(t) /\ CacheFree(t) /\ ~SelectsSystem(l)
    /\ call' = [call EXCEPT ![t] = [op |-> "alloc", layout |-> l, use |-> use]]
    /\ UNCHANGED <<global, tls, panicking, live, system, arena, prefix, leaked, aborted>>

\* ... and allocate_with_cache returns a pointer
AllocDone(t) ==
    /\ InAllocator(t) /\ call[t].op = "alloc" /\ Retired(t) = {}
    /\ \E p \in ArenaPtrs \ arena :
        /\ arena' = arena \cup {p}
        /\ live' = live \cup {Allocation(p, call[t].layout, call[t].use, NoOne)}
    /\ call' = [call EXCEPT ![t] = NoCall]
    /\ UNCHANGED <<global, tls, panicking, system, prefix, leaked, aborted>>

\* ... or an error
AllocFails(t) ==
    /\ InAllocator(t) /\ call[t].op = "alloc" /\ Retired(t) = {}
    /\ call' = [call EXCEPT ![t] = NoCall]
    /\ UNCHANGED <<global, tls, panicking, live, system, arena, prefix, leaked, aborted>>

-----------------------------------------------------------------------------
(* Deallocation *)

\* Who frees what: the program its allocations, on any thread; the allocator the
\* buffer it has just replaced and, in its destructor, those of the cache.
MayFree(t, a) ==
    \/ ProgramRuns(t) /\ a.use \in {"shim", "api"}
    \/ InAllocator(t) /\ a \in Retired(t)
    \/ call[t].op = "exit" /\ a.use = "local" /\ a.owner = t

\* Mutant of HasPrefix: the prefix is looked at only where the cache is available.
HasPrefixIfCached(t, a) == CacheFree(t) /\ a.ptr \in DOMAIN prefix

\* fallback_raw_ptr finds a prefix that names this pointer.
HasPrefix(t, a) == a.ptr \in DOMAIN prefix

\* The free is served by the thread cache: api::deallocate does not look for a prefix.
ForCache(t, a) == a.use = "api" \/ (~SelectsSystem(a.layout) /\ ~HasPrefix(t, a))

SystemFree(t, a) ==
    /\ MayFree(t, a) /\ a.use # "api" /\ SelectsSystem(a.layout)
    /\ system' = system \ {[raw |-> a.ptr, layout |-> a.layout]}
    /\ live' = live \ {a}
    /\ UNCHANGED <<global, tls, call, panicking, arena, prefix, leaked, aborted>>

\* Mutant of FallbackFree: the block is freed with the layout of the request.
FallbackFreeGivenLayout(t, a) ==
    /\ MayFree(t, a) /\ a.use # "api" /\ ~SelectsSystem(a.layout) /\ HasPrefix(t, a)
    /\ HasFallback(a.layout)
    /\ system' = system \ {[raw |-> prefix[a.ptr], layout |-> a.layout]}
    /\ live' = live \ {a}
    /\ UNCHANGED <<global, tls, call, panicking, arena, prefix, leaked, aborted>>

FallbackFree(t, a) ==
    /\ MayFree(t, a) /\ a.use # "api" /\ ~SelectsSystem(a.layout) /\ HasPrefix(t, a)
    /\ HasFallback(a.layout)
    /\ system' = system \ {[raw |-> prefix[a.ptr], layout |-> FallbackLayout(a.layout)]}
    /\ live' = live \ {a}
    /\ UNCHANGED <<global, tls, call, panicking, arena, prefix, leaked, aborted>>

EnterFree(t, a) ==
    /\ MayFree(t, a) /\ ForCache(t, a) /\ CacheFree(t)
    /\ live' = live \ {a}
    /\ call' = [call EXCEPT ![t] = [op |-> "free", alloc |-> a]]
    /\ UNCHANGED <<global, tls, panicking, system, arena, prefix, leaked, aborted>>

FreeDone(t) ==
    /\ InAllocator(t) /\ call[t].op = "free" /\ Retired(t) = {}
    /\ arena' = arena \ {call[t].alloc.ptr}
    /\ call' = [call EXCEPT ![t] = NoCall]
    /\ UNCHANGED <<global, tls, panicking, live, system, prefix, leaked, aborted>>

\* collapse_dealloc_result: Ok(None) while panicking gives the block up ...
GiveUp(t, a) ==
    /\ MayFree(t, a) /\ a.use # "api" /\ ForCache(t, a) /\ ~CacheFree(t)
    /\ panicking[t]
    /\ live' = live \ {a}
    /\ leaked' = leaked \cup {[ptr |-> a.ptr, layout |-> a.layout]}
    /\ UNCHANGED <<global, tls, call, panicking, system, arena, prefix, aborted>>

\* ... and aborts the process otherwise, as does a fallback block whose layout
\* has no fallback layout.
Abort(t, a) ==
    /\ MayFree(t, a) /\ a.use # "api" /\ ~SelectsSystem(a.layout)
    /\ IF HasPrefix(t, a) THEN ~HasFallback(a.layout) ELSE ~CacheFree(t) /\ ~panicking[t]
    /\ aborted' = t
    /\ UNCHANGED <<global, tls, call, panicking, live, system, arena, prefix, leaked>>

-----------------------------------------------------------------------------
(* Panics and the end of a thread *)

\* A panic in the program, also one it catches in a late thread-local
\* destructor, or in an assertion of the allocator.
Panic(t) ==
    /\ ~panicking[t] /\ call[t].op # "exit" /\ Retired(t) = {}
    /\ panicking' = [panicking EXCEPT ![t] = TRUE]
    /\ UNCHANGED <<global, tls, call, live, system, arena, prefix, leaked, aborted>>

\* The unwinding leaves the call: the borrow ends, a block being freed is lost.
Unwind(t) ==
    /\ panicking[t] /\ Borrowed(t)
    /\ leaked' = leaked \cup
        {[ptr |-> call[x].alloc.ptr, layout |-> call[x].alloc.layout] :
            x \in {x \in {t} : call[x].op = "free"}}
    /\ call' = [call EXCEPT ![t] = NoCall]
    /\ UNCHANGED <<global, tls, panicking, live, system, arena, prefix, aborted>>

CatchUnwind(t) ==
    /\ panicking[t] /\ call[t] = NoCall
    /\ panicking' = [panicking EXCEPT ![t] = FALSE]
    /\ UNCHANGED <<global, tls, call, live, system, arena, prefix, leaked, aborted>>

\* The cell is marked destroyed, then ThreadCacheHandle::drop drains the cache and
\* its vectors are freed.  Other thread-local destructors may still run after it.
ThreadExit(t) ==
    /\ tls[t] = "alive" /\ call[t] = NoCall /\ ~panicking[t]
    /\ tls' = [tls EXCEPT ![t] = "gone"]
    /\ call' = [call EXCEPT ![t] = [op |-> "exit"]]
    /\ UNCHANGED <<global, panicking, live, system, arena, prefix, leaked, aborted>>

CacheDropped(t) ==
    /\ call[t].op = "exit" /\ Retired(t) = {}
    /\ \A a \in live : ~(a.use = "local" /\ a.owner = t)
    /\ call' = [call EXCEPT ![t] = NoCall]
    /\ UNCHANGED <<global, tls, panicking, live, system, arena, prefix, leaked, aborted>>

-----------------------------------------------------------------------------
\* Room for one more allocation (a bound of the model).
Room == Cardinality(live) + Cardinality({t \in Threads : call[t].op = "alloc"})
        + Cardinality(leaked) < MaxLive

Step(t) ==
    \/ Room /\ \E l \in Layouts : \/ SystemAlloc(t, l)
                                  \/ FallbackAlloc(t, l)
                                  \/ \E use \in {"shim", "api"} : EnterAlloc(t, l, use)
    \/ Room /\ \E use \in {"local", "central"} : Grow(t, use)
    \/ AllocDone(t) \/ AllocFails(t) \/ FreeDone(t)
    \/ \E a \in live : \/ SystemFree(t, a) \/ FallbackFree(t, a)
                       \/ EnterFree(t, a) \/ GiveUp(t, a) \/ Abort(t, a)
    \/ Panic(t) \/ Unwind(t) \/ CatchUnwind(t)
    \/ ThreadExit(t) \/ CacheDropped(t)

\* An aborted process takes no more steps.
Stopped == aborted # NoOne /\ UNCHANGED vars

Next == (aborted = NoOne /\ \E t \in Threads : Step(t)) \/ Stopped

Spec == Init /\ [][Next]_vars

-----------------------------------------------------------------------------
(* Properties *)

\* Types; a prefix in memory names an address System.alloc has returned.
TypeOK ==
    /\ global \in {"ok", "failed"}
    /\ tls \in [Threads -> {"alive", "gone"}]
    /\ panicking \in [Threads -> BOOLEAN]
    /\ \A t \in Threads : call[t].op \in {"none", "alloc", "free", "exit"}
    /\ \A a \in live : /\ a.layout \in Layouts
                       /\ a.use \in {"shim", "api", "local", "central", "retired"}
                       /\ a.owner \in Threads \cup {NoOne}
    /\ \A b \in system : b.raw \in RawAddrs
    /\ arena \subseteq ArenaPtrs
    /\ \A p \in DOMAIN prefix : prefix[p] \in RawAddrs
    /\ aborted \in Threads \cup {NoOne}

\* Allocations that still occupy memory: in use, being freed, or given up.
Held ==
    {[ptr |-> a.ptr, layout |-> a.layout] : a \in live \cup leaked}
    \cup {[ptr |-> call[t].alloc.ptr, layout |-> call[t].alloc.layout] :
            t \in {t \in Threads : call[t].op = "free"}}

InArena(a) == a.ptr \in ArenaPtrs

\* The block of System under an allocation that is not in the arena.
Backing(a) ==
    IF SelectsSystem(a.layout) THEN [raw |-> a.ptr, layout |-> a.layout]
    ELSE [raw |-> prefix[a.ptr], layout |-> FallbackLayout(a.layout)]

\* Both backends agree with the program: the blocks outstanding in System, with
\* the layouts they were asked with, and the pointers outstanding in the arena
\* are those under the allocations the program and the allocator hold.  So every
\* free goes back to the backend, the address and the layout of its allocation,
\* whichever thread frees it and whatever the state of that thread's cache, and
\* nothing is lost but what collapse_dealloc_result gives up, which is memory of
\* the arena: a block of System finds its way back even then.
BackendsAgree ==
    /\ \A a \in leaked : InArena(a)
    /\ arena = {a.ptr : a \in {a \in Held : InArena(a)}}
    /\ system = {Backing(a) : a \in {a \in Held : ~InArena(a)}}

\* A pointer from the shim has the alignment asked for, and a fallback block holds
\* its prefix and its payload (try_fallback_layout reserves enough, fallback_alloc
\* rounds within it).
FallbackFits ==
    \A a \in Held :
        ~InArena(a) => /\ a.ptr % a.layout.align = 0
                       /\ SelectsSystem(a.layout) \/
                            /\ a.ptr - PrefixSize >= prefix[a.ptr]
                            /\ a.ptr + a.layout.size
                                =< prefix[a.ptr] + FallbackLayout(a.layout).size

\* Every allocation has the memory it needs from the backend that will get it back.
BlocksBacked == TypeOK /\ BackendsAgree /\ FallbackFits

\* The allocator's own vectors are never in memory it manages: the borrow of the
\* cache sends every allocation of a critical section to System, so that growing
\* a vector under a class mutex never takes that mutex again.
MetadataOutside ==
    \A a \in live : a.use \in {"local", "central", "retired"} => ~InArena(a)

\* A program that frees what it allocated is aborted only by its own free, on a
\* thread whose cache is destroyed and that is not panicking: never by a free the
\* allocator makes inside a call or in the destructor of a cache, and never
\* because the cache is borrowed.
AbortOnlyAfterTeardown ==
    aborted # NoOne => /\ tls[aborted] = "gone"
                       /\ call[aborted] = NoCall
                       /\ ~panicking[aborted]
=============================================================================
