# A verification project for Orthotope

Orthotope is an arena-backed memory allocator in Rust: fixed size classes, one cache
per thread, a shared central pool, and a tracked path for large allocations. This
directory holds TLA+ models of it, the TLC runs that check them on small instances,
and proofs, checked by TLAPS, of what holds for every instance. Source paths below are
relative to the crate's `src/`.

## 1. The system

| Component | State | Operations | Correct when |
|---|---|---|---|
| Arena (`arena.rs`) | one mapping, the atomic bump offset `next` | `reserve_span`, `reserve_block_span` (CAS loops), `page_aligned_inner_range`, `advise_free` | spans are disjoint, aligned, inside; a refusal is true; the loop ends; a discarded range stays inside its slab |
| Central pool (`central_pool.rs`) | per class: slab records, index by start, three buckets with back-pointers, recent slab, epoch, sweep cursor; a remote inbox | `register_slab`, `take_refill`, `return_batch`, `publish_remote_batch`, `maybe_sweep` | every block is filed under its slab, buckets and slots agree, only full slabs are discarded, whole slabs are loaned only when all their blocks are there |
| Thread cache (`thread_cache.rs`) | per class: hot slot, owned slabs with fresh cursor and free list, `available_slabs`, shared list, counters; staged remote frees; a 32-bit id | `pop_available`, `push_and_should_drain`, refill, overflow drain, remote staging and flush, `drain_all_to_central`, Drop | counters are exact (the unchecked pops trust them), the cache is bounded, nothing is lost at thread exit |
| Small path (`allocator.rs`, `header.rs`) | the 64-byte header before every block: magic, size, owner id, freed marker | allocate, deallocate, size-checked deallocate | a block has one holder; its header is what its allocation wrote; a stale free is rejected |
| Large path (`large_object.rs`) | live registry, best-fit free pool, byte counters | take, record, release | no two blocks overlap, no double registration, exact counters |
| Free list (`free_list.rs`) | heads, tails and lengths; one link word in each header | push, pop, detach and splice batches | a list is the sequence its operations say; it ends at its length; no two share a block; no stale word is followed |
| Configuration, size classes (`config.rs`, `size_class.rs`) | none | validation, block counts, class of a request, block sizes | the tightest class serves a request, blocks hold header and payload, counts are never zero |
| Shim and TLS (`lib.rs`, `api.rs`, `global_alloc.rs`) | a thread-local handle in a `RefCell`, a lazily made global allocator, a prefix before fallback blocks | `alloc`/`dealloc` with System fallback, `allocate`, `deallocate`, thread exit | a free goes to the backend, address and layout of its allocation; the allocator's own vectors never come from itself; leaks and aborts only where documented |
| Allocator instances (`allocator.rs`, `thread_cache.rs`) | ids, the owner and configuration a cache is bound to | `new`, `bind_to_allocator`, drop | no block enters another allocator's pool; none is forgotten at a rebind |

Threads share the arena offset (lock-free), one mutex per class pool, one per remote
inbox and one for the large registry. A refill, a return and `block_counts` take the inbox
mutex of a class while they hold its class mutex, one class at a time; a publication
takes the inbox mutex alone. A thread's cache is its own. Blocks wander: arena
→ slab in a cache → the program → hot slot, slab list or (freed by another thread)
staging → inbox → pool → refill as a batch or as a whole slab, whose blocks then count as
fresh again. What is hard is exactly this circulation: a block's place is not recorded
anywhere, it is implied by counters, list membership and slab state in three components,
read and written by several threads in separate locked sections; and the header of a
block in a list is only partly rewritten on reuse, while the kernel may zero the header
of a block on a discarded page. `PROJECT.json` lists the hazards with their lines.

## 2. The modules

| Module | What it is |
|---|---|
| `CentralSlabs` | the pool of one class as a value: operators for its methods, on sets and counters |
| `LocalCache` | the local cache of one class as a value: operators for its methods |
| `SmallPath` | the small-object path: threads, caches, pool, inbox, arena, headers, MADV_FREE |
| `Malloc` | the abstract allocator that `SmallPath` implements: a stock of free blocks and what is handed out of it |
| `SlabVectors` | what the two represented slab tables share: spans of the arena, the sorted index, `swap_remove` |
| `ClassPool` | the class pool as represented: vectors, sorted index, buckets, slots, epochs, cursor |
| `CentralContract` | the pool's contract in terms of `CentralSlabs`, which `ClassPool` implements |
| `Arena`, `BumpArena` | the CAS loops, and the atomic append-only arena they implement |
| `LargeObjects` | the large path with its two locked sections and unlocked header read |
| `PoolLocks`, `AtomicPool` | all classes of the pool, lock by lock, and the atomic pool they implement |
| `LocalClassCache`, `CacheContract` | the local cache of a class as represented, and the contract of `LocalCache` it keeps |
| `FreeList`, `ListContract` | intrusive lists over link words, and the sequences of blocks they implement |
| `CacheBinding` | several allocators and the caches bound to them in turn |
| `Requests` | sizes in bytes: configurations, classes, block geometry, header encoding, verdicts on frees, page ranges |
| `Shim` | the GlobalAlloc shim, the global functions and the thread-local cache |
| `MCSmallPath`, `MCArena`, `MCClassPool`, `MCPoolLocks`, `MCLocalClassCache`, `MCCacheBinding`, `MCRequests`, `MCShim` | instances for TLC |
| `ArenaProofs`, `SmallPathProofs`, `SlabVectorsProofs`, `PoolLocksProofs`, `LargeObjectsProofs`, `BlockProofs`, `CacheBindingProofs`, `ShimProofs` | theorems, with the lemmas they rest on; `SlabVectorsProofs` is about `ClassPool` and `LocalClassCache`, `BlockProofs` about `Requests` and `FreeList` |

**SmallPath.** One size class. An address is the index of a block-sized cell; `next` is
the arena offset in blocks; what other classes and large objects take is `others`. A step
is what a thread does without another thread being able to see anything in between: a
section under the class mutex (drain the inbox, change the pool, sweep), the CAS that
takes arena space, or any amount of work on its own cache. So an allocation that refills
is two to four steps (`RefillMiss`, `Carve`, `Register`, `AllocateRefilled`), an overflow
or a flush is a free and then `Return` or `Publish`, and `drain_all_to_central` is a loop
of `DrainPop` and `Return`. `ExitThread` is the end of the drain in Drop of the handle:
the thread is gone and another starts with a new cache and any id, because the id counter
wraps. `KernelReclaim` zeroes a page that the sweep discarded and nobody wrote since.
Blocks and pages are treated as the same size: a discarded slab is discarded in all its
blocks, which is the worst case. The model is of a build with `debug_assertions`; without
them there is no freed marker and the two properties about stale frees do not apply. A
free may be of any block whose header passes the checks, also by a caller with no right
to it: the check and the free are then one step, which leaves out the data race of two
simultaneous frees of one pointer (undefined behaviour by the contract of `deallocate`).

The order of intrusive lists and of `available_slabs` is left open: where the code takes
the last, the model may take any. Everything shown therefore holds for every order.
`ClassPool` has the central order as the code has it. It counts epochs modulo the sweep
interval and ages up to the cold threshold, which is exact, so the run needs no bound on
the number of operations.

**LargeObjects.** Addresses are bytes. `take_reusable_block`, `Arena::allocate_block`, the
header write, `record_live_allocation`, the header read of a free and
`validate_and_release_live_allocation` are separate steps of any number of threads; a free
may be of any pointer ever returned. The arena's own interleaving is module `Arena`.

**How the modules fit.** `SmallPath` composes `CentralSlabs` and `LocalCache`, one class
pool and one class cache as values. What these abstract from is settled below them:
`ClassPool` and `LocalClassCache` are the two structures as the code represents them, each
shown to keep the contract that `SmallPath` builds on; `FreeList` shows that the lists in
both are sequences although they live in the blocks; `PoolLocks` shows that the sections
`SmallPath` takes as one step are atomic; `Arena` does the same for the reservations.
`Shim` stands above: it takes Orthotope as a place that hands out pointers.

**PoolLocks.** Every acquisition of a mutex and every piece of work between two of them is
a step. A refill and a return take the class mutex, then the inbox mutex, empty the inbox,
release it, file what was in it (`FilePending`, with the class mutex only), do their own
work and unlock. `block_counts` takes the two mutexes of one class after the other, in
class order. The refinement mapping adds to the abstract pool what a drainer has in its
hands, and takes effect at the step that the code's locks make the linearization point;
a count is allowed to mix instants of different classes, as its documentation says, but not
of a class and its inbox.

**LocalClassCache.** One class of a thread cache with its vectors: `slabs`,
`slabs_by_start`, `available_slabs` with the back-pointers `available_slot`, `recent_slab`,
the hot slot and the shared list. Blocks are numbers, a slab is an interval. Any block that
is out may be pushed: of a slab of this cache, or of one it never had.

**FreeList.** `link` is the word of every block's header, in a list or not. Blocks outside
every list keep their word; a reset list (`Replace`) and a header rewrite (`ClearWord`) are
actions. `Chain` follows the words as far as the length says.

**CacheBinding.** A call is one step and begins with `bind_to_allocator`. An allocator and
its `id` are two things: blocks belong to the instance, a cache knows the number that the
instance drew from `NEXT_ALLOCATOR_ID` (a counter of machine-word width, which is taken not
to wrap). Dropping an allocator unmaps its arena and leaves caches that serve it as they
are. Which blocks a refill or a drain takes is left open, in a number the configuration
allows. Calls that panic in the assertion of the binding change nothing.

**Requests.** Real numbers of bytes. Of the blocks of a slab only the first and the last
are represented: they are the ones that share pages with neighbours. A header is its
fields; a discarded page is zeroed at once (the late zeroing is in `SmallPath`). Frees may
be of any block, live or not, sized or not.

**Shim.** A thread is in the program, in a call that holds the `RefMut` of its cache, or in
the destructor of the cache. Inside a call the allocator's vectors may grow (`Grow`), which
goes through the shim as in a program that installs it; a panic may start anywhere, its
hook and the destructors it runs are program code that allocates and frees while the borrow
lasts; `CatchUnwind` ends it. `System` is external: it gives any aligned block apart from
the outstanding ones, and a free of a block or layout it does not know would show as a
disagreement (`BackendsAgree`). Prefixes stay in memory after their block is freed, so a
later block may lie behind a stale one.

## 3. The runs

| Run | Instance | Shows |
|---|---|---|
| `reissue` | 2 threads, 3 blocks, slabs of at most 2, limit 2, batch 1, ids {1,2}, one block may go elsewhere | `SmallPath` implements `Malloc`; types, exact counters, sound headers, rejection of stale frees, unused discarded pages and caches within their limit between calls, through carve, drain, completion, discard and reissue of slabs, with colliding ids (555k states) |
| `staged` | 2 threads, 3 blocks, refill 4, batch 2, fair | with staged remote frees, multi-block batches and a slab cut short by the end of the arena: no block is in two places, none is lost, every call returns (476k) |
| `drain_batch` | 2 threads, 4 blocks, batch 2 | a violation, see section 5 |
| `arena` | 3 threads, 12 bytes, alignment 2, word 0..15 | disjoint spans, true refusals, atomicity, termination (106k) |
| `class_pool` | slabs of 2, 2 and 1 blocks in any order of registration, interval 3, age 2, scan 2 | buckets, slots, cursor, lookup, and the contract (12k) |
| `large` | 2 threads, 8 bytes, header 1, alignment 2, sizes 1, 2, 3 and one that no header can hold | no overlap, no double registration, headers agree with the registry, exact counters (56k) |
| `free_list` | 4 blocks, 2 lists, 2 batches | lists end, share nothing, and are the sequences of `ListContract` (5k) |
| `local_cache` | slabs of 2, 1 and 1 blocks and a foreign block, batches of 2 | available list, lookup, and the contract of `LocalCache` (75k) |
| `pool_locks` | 2 threads, 2 classes, 3 blocks, fair | atomicity of the locked sections and of `block_counts` per class, no deadlock, every call completes (136k) |
| `shim` | 2 threads, 3 allocations, 3 raw addresses, 2 arena pointers, 3 layouts | backends agree, fallback blocks fit, vectors stay outside, aborts only after teardown (412k) |
| `binding` | 2 caches, 2 allocators in succession or at once, 4 blocks each, 2 configurations | blocks stay at home, none is forgotten, limits follow the owner, nothing is given out after its arena is gone (400k) |
| `requests` | sizes 1, 64, the first large one and one no header encodes; 2 spans; 2 valid and 3 invalid configurations | blocks hold, headers tell, verdicts are right; at both ends of all twelve classes the tightest class serves, and no count is zero (165k) |

Why the bounds are enough to be interesting: three blocks in slabs of at most two give a
slab that is whole, one that is cut short, and a neighbour for the address lookup; two
threads give every owner/remote combination, and with two ids also the collision; a cache
limit of two makes overflow drains happen with the hot slot, a slab and the shared list
all in play. `CacheBounded` is checked in `reissue`, where a cache can come to hold three
blocks against a limit of two and a refill of two; in `staged` a refill is larger than the
arena, so the bound on local blocks could not fail there. Its other half, on staged frees,
has batches of one in `reissue` and batches of two in `binding` (`BoundByOwner`), whose two
configurations differ in every count and whose arenas have more blocks than either lets a
cache keep. In `pool_locks` two classes suffice for the order in which `block_counts`
goes through them. In `shim` three allocations are a program's block, the allocator's
vector and the buffer it replaces; the addresses are so chosen that one pointer can lie
behind another's stale prefix, and that a pointer must be rounded up. The vectors there
have the alignment of a header, the strictest that the shim passes to Orthotope.
`FieldMax` in `requests` is 19 999 999 instead of 2^32 - 1 (TLC's integers have 32 bits):
what matters is that it lies between a large size that can be encoded and one that cannot.
In `binding` the program may drop its last allocator, after which nothing happens:
deadlock is not checked there. Every action of every module fires in some run.

The properties are stated in the modules, each with the behaviour it is about. Several are
conjunctions of named parts: `HeadersSound`, `BucketsSound`, `ChainsSound`,
`VectorsSound`, `BlocksBacked`, `BlocksAccounted`, `BlocksHold`. The size that a header
carries is settled with real sizes in `requests` (`HeaderTells`); `staged` has one size.
The main properties: `ExclusiveOwnership` and `NothingLost` say that at every moment each
carved block is in exactly one place; `CountersExact` that every counter an unchecked pop
relies on is exact; `LiveHeaderSound` and `RecycledHeaderFit` that partial header
refreshes leave a right header; `DiscardedPagesUnused` that MADV_FREE hits nothing that is
read again; `StaleFreeRejected` that the header check accepts no block that is not in use.
README.md of the crate does not promise the latter for pages the kernel reclaimed; the
model shows that a zeroed header is refused as corrupt.

Fairness. `FairSpec` of `SmallPath` asks that a thread inside a call keeps taking steps
(the OS runs it, parking_lot's mutexes are eventually fair, locked sections are finite);
no call is obliged to be made. `FairSpec` of `Arena` asks the same and that a weak
compare-and-swap on an unchanged offset does not fail spuriously for ever, which the
hardware's LL/SC progress guarantee gives. `PoolLocks` asks that a thread that holds a lock
goes on and that a thread that waits for a mutex which is free again and again gets it:
parking_lot hands a mutex over fairly after at most a millisecond of contention.

## 4. The proofs

For every number of threads, blocks, ids and sizes:

- `ArenaProofs`: types, `SpansDisjoint`, `RefusalIsFinal`, and that `Arena` implements
  `BumpArena`. The inductive invariant adds to the type that a thread at its CAS has a
  request that fits at the offset it loaded, and that refused requests stay refused
  because `next` only grows. `InnerRangeInside`: the page range passed to madvise lies
  inside the slab.
- `SmallPathProofs`: `TypeCorrect` and `StaleFreesRejected`, after lemmas on the operators
  of `CentralSlabs` and `LocalCache`: each keeps the pool or cache well-formed (slabs inside
  the arena, fresh cursors within capacity, available slabs really able to yield a block)
  and coherent (counters count, lists lie in their slab, states agree with counts), and
  moves exactly the blocks it says. The type invariant is not
  inductive as it stands: a popped fresh block is an address only if its slab lies in the
  arena, and a slab lies in the arena only if the reserved span did. `TypeInv` adds these.
  `StaleFreesRejected` is then inductive relative to `TypeInv`: the freed marker, a header
  initialised with requested size 0, and a zeroed page are each refused.
  The second half: `ExclusiveOwnership`, `NothingLost`, `CountersExact`, the refinement of
  `Malloc`, `HeadersSound`, `DiscardedPagesUnused` and `CacheBounded`, in three layers.
  `OwnInv` is about places. That a block has one place is not inductive without knowing
  what the counters mean: a slab is reissued whole because a counter says that all its
  blocks are in the pool. So `OwnInv` joins to the two place invariants (with
  `CountersExact`, the coherence of pool and caches, in `Accounted`) two more facts:
  `Layout`, that what the arena has given out is the slabs, the spans that threads have
  reserved and not yet registered, and the rest, without overlap, and that a slab known to
  a cache is one of the pool with the same capacity; and `InTransit`, that only a call
  under way has a span or a batch.
  Each action is then shown to move blocks from one place to another (the operators'
  lemmas say which), and a move keeps the partition. The refinement follows from the same
  facts: the abstract stock is the union of the places other than the program, so a
  transfer is a stuttering step. `FitInv` adds to this what headers say: a header that
  the next allocation only refreshes is initialised and names the owner, along every path
  on which a block can come back to the cache, and no discarded page holds a block whose
  header is still read. `Within` bounds a cache in the middle of a call, which the bound
  between calls needs; it says by how much a refill or a free may have overshot before the
  drain that follows.
- `SlabVectorsProofs`, the class cache: `VectorsSound` of `LocalClassCache`, and that it
  implements `CacheContract`. `CacheInv` says that the index is sorted and names every slab
  (`Indexed`), that the records are spans, each once (`SpansRecorded`), that the available
  list and the slots point at each other (`Listed`), that no block is held twice
  (`CacheStock`), and that `total_len` counts what is not outside. The last part is what a
  pop of the shared list needs: it tests only the counter. Lemmas on `swap_remove`, on
  insertion into the sorted index and on lists under push, drop and join carry the argument;
  `MarkAvailableIs`, `MarkUnavailableIs`, `PushSpilledIs` and `PoppedIs` then say what one
  method does to a sound cache. The contract's state is `CacheView`, in which the vector of
  records becomes a map from starts and a list the set of its nodes; `MapChanged` and
  `ReadyChanged` say how that picture changes when one slab does, and every call maps to the
  step of the contract with the same blocks.
- `SlabVectorsProofs`, the class pool: `BucketsSound` and `LookupRight` of `ClassPool`, and
  that it implements `CentralContract`. `PoolInv` says that every slab is in the bucket of
  its state at the slot it remembers (`Bucketed`), that the index is sorted and complete, that
  a slab's list lies in the slab, that ages and the cursor are in range, and that every
  issued block has its slab on record. A returned batch is a loop over its blocks, which the
  model writes as a recursive function; `ReturnAllIs` shows by induction on the length that
  it is the last state of that loop, so that what each turn keeps the call keeps. For
  the contract, `LedgerInv` adds that a slab's count is that of its blocks which are not
  issued (`Ledger`): it is why a batch of blocks that were issued fills a slab exactly
  when the last of them comes back. Through the loop, `LoopSoFar` compares the pool with
  the contract's one step on the nodes returned so far.
- `PoolLocksProofs`: `PoolLocks` implements `AtomicPool`, for every number of threads,
  classes and blocks. The inductive invariant `LockInv` says where each kind of call can
  be, that the holder of a class mutex is exactly the call inside its section (`Exclusive`;
  a publication never is), and what a call has found out (`Results`): the length that
  `block_counts` read from a pool is still true when it adds the inbox, because it keeps the
  mutex. `StepKeeps` is the heart of the argument: a step touches only the pool whose mutex
  its thread holds or takes, so the mapping of every other call and pool is unchanged.
  Begin steps map to `Invoke`, `Finish` to `Respond`; the effect is at `TakePending`,
  `RegisterBody`, `PublishBody` and `CountInbox`, and all others are stuttering steps.
- `CacheBindingProofs`: `BlocksAccounted`, `BoundByOwner` and `LiveMapped`. `BindInv` says
  that every block is in one place (`Placed`), that what a cache holds belongs to the
  allocator whose id it carries (`AllAtHome`), that its counts are those of that allocator's
  configuration (`Configured`), and that no two allocators ever had the same id
  (`Distinct`). The last is what makes the others inductive: a new allocator's id is beyond
  that of every cache (`NewKeeps`), so no cache that outlived its owner serves it. One family
  of lemmas on moving blocks between places serves all calls.
- `ShimProofs`: `BlocksBacked`, `MetadataOutside` and `AbortOnlyAfterTeardown`. `ShimInv`
  says that no two allocations share a pointer (`Unique`), that each has the memory behind
  it that its place implies, with the prefix that names its raw address and layout
  (`RightPlace`, `Memory`), and that a thread that is gone has nothing under way
  (`ExitsGone`). Facts on rounding show that the fallback block holds prefix, padding and
  payload for every alignment and every address.
- `LargeObjectsProofs`: types, `BlocksApart`, `PanicUnreachable` (the double-registration `panic!` of
  `record_live_allocation` never fires), `LiveRecordSound`, `LeaksOnlyUnencodable` and
  `LargeCountersExact`. The
  invariant adds what a thread in the middle of an allocation knows of its request, block
  and header (`Underway`) and that every block is non-empty (`Roomy`). The argument: the
  block in a thread's hands is apart from every live block, so the header it writes and
  the entry it registers hit no live one; a cached block leaves the free list as it is
  taken, and a carved one lies above all the others. For the counters, a sum over a finite
  set is shown to change by the size of the element that enters or leaves it, whatever the
  order in which the library's fold visits the set.
- `BlockProofs`, sizes and headers: `BlocksHold`, `HeaderTells`, `VerdictRight` and `ConfigWorks`, for every
  set of configurations and sizes, every page size and every width of a header field that
  holds the payload sizes (`FieldAssumption`). `RequestInv` says where blocks and slabs lie
  (`Placed`, `Slabbed`: no large block lies inside a slab, which is why a discard touches
  only blocks of the slab) and what each header says by the state of its block
  (`HeadersFit`): a cached small block keeps the whole shape of its header and the freed
  marker, a fresh one has either no magic or such a marker, since a reissued block whose
  page was not discarded keeps its old header. The verdict on a free follows from that
  alone. `ConfigWorks` rests on the table of the classes: each begins where the one before
  it ends, so `from_request` finds the smallest that holds the request.
- `BlockProofs`, the lists: `ChainsSound` of `FreeList`, and that it implements
  `ListContract`. `ChainInv` says that there is an arrangement of blocks into sequences, one
  for each list and batch, no block in two places or twice in one, such that the link words
  along each are those of that sequence. It is stronger than following the words as far as
  the length says, which is a recursive function; a lemma by induction on the length shows
  that the function yields the sequence. Every operation then puts a new sequence in one or
  two places, and writes only words of blocks that are not on the others.

Assumptions on constants are the named ASSUMEs of the modules. They are what the code
validates or guarantees (positive refill count, a limit of at least two, alignment no
larger than the arena, finitely many blocks), and TLC evaluates them on every run. `Shim`
also assumes how addresses lie: System's memory is apart from the arena, alignments are
such that those below the prefix's divide it, and the layout of the allocator's vectors is
not one that the shim sends to System by itself (`PlacesAssumption`); these are facts
of the platform and of the layouts in the code.

Induction over data (the loop over a returned batch, a sum over a set, a chain of links) is
done with one lemma on sets of numbers, `NatSetInduction` and its like, applied to the set
of lengths for which the claim holds.

Only model-checked, and why: liveness (`CallsReturn`, `ReservationReturns`,
`CallsComplete`), since fairness is outside the prover's reach. Every other property of a
passing run is a theorem. The refuted claim of section 5 is a run alone.

## 5. Disagreements between code and documentation

`config.rs` says that `drain_count` is the number of blocks drained when the local limit
is exceeded. `pop_batch` takes them from one source per call (shared list, else one slab,
else the hot slot) and returns fewer when that source has fewer. Run `drain_batch` shows
an overflow drain of one block with a drain count of two. It costs an extra trip to the
pool and breaks nothing: `CacheBounded` holds all the same.

The documentation of `OrthotopeGlobalAlloc` says that the only tolerated leak is a
reentrant borrow of the cache during a panic. `collapse_dealloc_result` accepts any
unavailable cache while the thread panics, and a destroyed cache is one too
(`try_with_thread_cache` maps both to `Ok(None)`). The model has the step (`GiveUp` of
`Shim`): a thread-local destructor that runs after the cache's own panics, catches the
panic, and what is freed during the unwinding leaks. No property is claimed of it; outside
a panic the same free aborts the process, which the documentation does not exclude:
`AbortOnlyAfterTeardown` says that this is the only way a correct program is aborted.

## 6. Not modelled

Not modelled: mmap and the alignment of its base; the byte layout of headers; statistics
as a whole-allocator snapshot (documented as best effort; its part with locks,
`block_counts`, is in `PoolLocks`); a class cache's test-only `pop_block`; allocations that
parking_lot itself makes under the shim; benchmarks, examples and the smoke binary, which
are clients of the library.

The proofs end where the models do: that the contract modules' operators, which
`SmallPath` uses by name, are the ones `ClassPool` and `LocalClassCache` implement is a
matter of reading (`CentralContract` and `CacheContract` only wrap them in actions), and so
is that a section under a mutex in `SmallPath` is a call of `PoolLocks`.
