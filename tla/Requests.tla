------------------------------ MODULE Requests ------------------------------
(***************************************************************************)
(* From a request in bytes to a block and back: configuration checks, size *)
(* classes, block geometry, header encoding and decoding, the verdict on a *)
(* free, and the pages a discarded slab gives up, in real numbers of bytes *)
(* (config.rs, size_class.rs, header.rs, and their use in allocator.rs and *)
(* arena.rs).  Calls are atomic; a debug build, with the freed marker.     *)
(*                                                                         *)
(* Of the blocks of a slab the first and the last stand for all.           *)
(***************************************************************************)
EXTENDS Integers, Sequences, FiniteSets, FiniteSetsExt

CONSTANTS
    Configs,        \* [arena, alignment, refill, local]: AllocatorConfig, in bytes
    Sizes,          \* requested sizes
    PageSize,       \* system_page_size()
    FieldMax,       \* the largest value of a u32 header field
    MaxSpans        \* bound on reservations from the arena

HeaderSize == 64
HeaderAlignment == 64
BlockAlignment == 64

ASSUME RequestAssumption ==
    /\ Configs \subseteq [arena : Nat, alignment : Nat, refill : Nat, local : Nat]
    /\ Sizes \subseteq Nat
    /\ PageSize \in Nat \ {0} /\ FieldMax \in Nat /\ MaxSpans \in Nat

VARIABLES
    config,     \* the allocator's configuration, or NoConfig before it is built
    next,       \* Arena::next
    slabs,      \* spans carved for a class: [start, class, count]
    blocks,     \* by start: class (0: large), size, state, and the size asked for
    header,     \* by start: the header bytes in memory
    last        \* the call just made, if it was a free, and its outcome

vars == <<config, next, slabs, blocks, header, last>>

NoConfig == [alignment |-> 0]
NoFree == [call |-> "none"]

-----------------------------------------------------------------------------
(* Size classes: B64, B256, B4K, B6K, ..., B16M are 1..12; 0 is none *)

AlignUp(v, a) == IF v % a = 0 THEN v ELSE v + (a - (v % a))
AlignDown(v, a) == v - (v % a)

PayloadSize == <<64, 256, 4096, 6 * 1024, 8192, 16384, 32768, 65536, 131072,
                 262144, 1048576, 16777216>>
Classes == 1..12

\* A u32 field holds the payload size of every class.
ASSUME FieldAssumption == \A c \in Classes : PayloadSize[c] =< FieldMax

\* SizeClass::from_request: the lower ends of its twelve ranges
FirstRequest == <<1, 65, 257, 4097, 6145, 8193, 16385, 32769, 65537, 131073,
                  262145, 1048577>>
\* Mutant of FromRequest: the upper ends are left out.
FromRequestExclusive(n) ==
    Max({c \in Classes : FirstRequest[c] =< n /\ n < PayloadSize[c]} \cup {0})

FromRequest(n) ==
    Max({c \in Classes : FirstRequest[c] =< n /\ n =< PayloadSize[c]} \cup {0})

EffectiveAlignment(a) == IF a < BlockAlignment THEN BlockAlignment ELSE a
\* Mutant of BlockSize: no room for the header.
BlockSizeBare(c, a) == AlignUp(PayloadSize[c], EffectiveAlignment(a))

BlockSize(c, a) == AlignUp(PayloadSize[c] + HeaderSize, EffectiveAlignment(a))

AtLeast(m, n) == IF n < m THEN m ELSE n
RefillCount(f, c) == AtLeast(1, f.refill \div BlockSize(c, f.alignment))
LocalLimit(f, c) == AtLeast(2, f.local \div BlockSize(c, f.alignment))
DrainCount(f, c) == AtLeast(1, RefillCount(f, c) \div 2)

\* is_power_of_two, for a number other than zero: no odd number above one divides it.
IsPowerOfTwo(n) == {d \in 2..n : n % d = 0 /\ d % 2 = 1} = {}

\* validate_allocator_config and the arena's validate_config
ValidConfig(f) ==
    /\ f.alignment >= HeaderAlignment
    /\ f.arena # 0
    /\ IsPowerOfTwo(f.alignment)
    /\ f.arena >= f.alignment

-----------------------------------------------------------------------------
(* Headers *)

Small == 1
Large == 2
LargeSentinel == 255

\* Memory of the arena before it is written, and after the kernel took a page.
ZeroHeader ==
    [magic |-> FALSE, kind |-> 0, index |-> 0, requested |-> 0, usable |-> 0, freed |-> FALSE]

Encoded(kind, index, requested, usable) ==
    [magic |-> TRUE, kind |-> kind, index |-> index,
     requested |-> requested, usable |-> usable, freed |-> FALSE]

\* write_small_to_block_unchecked; the index of a class is its place from zero.
SmallHeader(c, n) == Encoded(Small, c - 1, n, PayloadSize[c])

\* refresh_small_requested_size_unchecked after clear_small_free_metadata
Refreshed(h, n) == [h EXCEPT !.requested = n, !.freed = FALSE]

\* encode_large_fields
EncodesLarge(n, usable) == n # 0 /\ usable >= n /\ n =< FieldMax /\ usable =< FieldMax

\* validate_prefix: the class, Large, or CorruptHeader
Decoded(h) ==
    IF ~h.magic \/ h.requested = 0 \/ h.usable < h.requested THEN "CorruptHeader"
    ELSE IF h.kind = Small
         THEN IF h.index + 1 \in Classes /\ h.usable = PayloadSize[h.index + 1]
              THEN "Small" ELSE "CorruptHeader"
         ELSE IF h.index = LargeSentinel THEN "Large" ELSE "CorruptHeader"

-----------------------------------------------------------------------------
(* Allocation *)

Init ==
    /\ config = NoConfig
    /\ next = 0
    /\ slabs = {}
    /\ blocks = [s \in {} |-> 0]
    /\ header = [s \in {} |-> 0]
    /\ last = NoFree

\* Allocator::new; an invalid configuration is an error and builds nothing.
New(f) ==
    /\ config = NoConfig
    /\ ValidConfig(f)
    /\ config' = f
    /\ UNCHANGED <<next, slabs, blocks, header, last>>

Merge(new, old) ==
    [s \in DOMAIN new \cup DOMAIN old |-> IF s \in DOMAIN new THEN new[s] ELSE old[s]]

\* refill_cache_from_arena: a span of at most refill_count blocks, as many as fit.
CarveSlab(c) ==
    LET size == BlockSize(c, config.alignment)
        start == AlignUp(next, config.alignment)
        room == (config.arena - start) \div size
        count == Min({RefillCount(config, c), room})
        ends == {start, start + (count - 1) * size}
    IN /\ start < config.arena /\ count > 0
       /\ Cardinality(slabs) < MaxSpans
       /\ \A s \in DOMAIN blocks : ~(blocks[s].class = c /\ blocks[s].state # "live")
       /\ next' = start + count * size
       /\ slabs' = slabs \cup {[start |-> start, class |-> c, count |-> count]}
       /\ blocks' = Merge([s \in ends |->
                [class |-> c, size |-> size, state |-> "fresh", asked |-> 0]], blocks)
       /\ header' = Merge([s \in ends |-> ZeroHeader], header)
       /\ last' = NoFree
       /\ UNCHANGED config

Live(b, n) == [b EXCEPT !.state = "live", !.asked = n]

\* allocate_small_with_cache: the header is written whole for a fresh block and,
\* for one that comes back, written whole or refreshed.
AllocateSmall(n, s) ==
    LET c == FromRequest(n) IN
    /\ c # 0 /\ blocks[s].class = c /\ blocks[s].state # "live"
    /\ \/ header' = [header EXCEPT ![s] = SmallHeader(c, n)]
       \/ /\ blocks[s].state = "cached"
          /\ header' = [header EXCEPT ![s] = Refreshed(@, n)]
    /\ blocks' = [blocks EXCEPT ![s] = Live(@, n)]
    /\ last' = NoFree
    /\ UNCHANGED <<config, next, slabs>>

\* allocate_large: the smallest free large block that is large enough, or a new
\* one from the arena, which is lost when its size does not fit the header.
NeedLarge(n) == AlignUp(HeaderSize + n, config.alignment)
FreeLarge(n) ==
    {s \in DOMAIN blocks : /\ blocks[s].class = 0 /\ blocks[s].state = "cached"
                           /\ blocks[s].size >= NeedLarge(n)}

LargeHeader(n, size) == Encoded(Large, LargeSentinel, n, size - HeaderSize)

AllocateLarge(n) ==
    /\ n # 0 /\ FromRequest(n) = 0
    /\ IF FreeLarge(n) # {}
       THEN \E s \in FreeLarge(n) :
                /\ \A r \in FreeLarge(n) : blocks[s].size =< blocks[r].size
                /\ blocks' = [blocks EXCEPT ![s] = Live(@, n)]
                /\ header' = [header EXCEPT ![s] = LargeHeader(n, blocks[s].size)]
                /\ UNCHANGED next
       ELSE LET start == AlignUp(next, config.alignment)
                size == NeedLarge(n)
                fits == EncodesLarge(n, size - HeaderSize)
            IN /\ start + size =< config.arena
               /\ Cardinality(DOMAIN blocks) < 2 * MaxSpans
               /\ next' = start + size
               /\ blocks' = IF ~fits THEN blocks ELSE Merge([s \in {start} |->
                    [class |-> 0, size |-> size, state |-> "live", asked |-> n]], blocks)
               /\ header' = IF ~fits THEN header
                            ELSE Merge([s \in {start} |-> LargeHeader(n, size)], header)
    /\ last' = NoFree
    /\ UNCHANGED <<config, slabs>>

-----------------------------------------------------------------------------
(* Deallocation: of a live pointer, or of a stale one *)

\* deallocate_with_cache: what the header says, the freed marker of a small block,
\* the registry of live large ones.
SmallVerdict(s) == IF header[s].freed THEN "DoubleFree" ELSE "ok"
LargeVerdict(s) ==
    IF blocks[s].class = 0 /\ blocks[s].state = "live" THEN "ok"
    ELSE "AlreadyFreedOrUnknownLarge"
Verdict(s) ==
    CASE Decoded(header[s]) = "Small" -> SmallVerdict(s)
      [] Decoded(header[s]) = "Large" -> LargeVerdict(s)
      [] OTHER -> "CorruptHeader"

\* Mutant of SizedVerdict: the size is compared first.
SizedVerdictSizeFirst(s, n) ==
    IF Decoded(header[s]) # "CorruptHeader" /\ header[s].requested # n
    THEN "SizeMismatch" ELSE Verdict(s)

\* deallocate_with_size_checked: the size is compared after the marker of a small
\* block, and before the registry of large ones.
SizedVerdict(s, n) ==
    LET mismatch == header[s].requested # n IN
    CASE Decoded(header[s]) = "Small" ->
            IF SmallVerdict(s) = "ok" /\ mismatch THEN "SizeMismatch" ELSE SmallVerdict(s)
      [] Decoded(header[s]) = "Large" ->
            IF mismatch THEN "SizeMismatch" ELSE LargeVerdict(s)
      [] OTHER -> "CorruptHeader"

Finish(s, call, n, verdict) ==
    /\ last' = [call |-> call, size |-> n, class |-> blocks[s].class, state |-> blocks[s].state,
                asked |-> blocks[s].asked, result |-> verdict]
    /\ IF verdict = "ok"
       THEN /\ blocks' = [blocks EXCEPT ![s].state = "cached", ![s].asked = 0]
            /\ header' = [header EXCEPT ![s].freed = blocks[s].class # 0]
       ELSE UNCHANGED <<blocks, header>>
    /\ UNCHANGED <<config, next, slabs>>

Free(s) == Finish(s, "free", 0, Verdict(s))
FreeSized(s, n) == Finish(s, "sized", n, SizedVerdict(s, n))

\* A slab that is complete in the pool gives its whole pages back (maybe_sweep):
\* page_aligned_inner_range of the slab.  It will be reissued as fresh.
SlabEnd(b) == b.start + b.count * BlockSize(b.class, config.alignment)
\* Mutant of InnerStart: rounded down.
InnerStartDown(b) == AlignDown(b.start, PageSize)

InnerStart(b) == AlignUp(b.start, PageSize)
InnerEnd(b) == AlignDown(SlabEnd(b), PageSize)

SlabBlocks(b) == {s \in DOMAIN blocks : b.start =< s /\ s < SlabEnd(b)}

Discard(b) ==
    /\ \A s \in SlabBlocks(b) : blocks[s].state = "cached"
    /\ InnerStart(b) < InnerEnd(b)
    /\ header' = [s \in DOMAIN header |->
            IF InnerStart(b) =< s /\ s < InnerEnd(b) THEN ZeroHeader ELSE header[s]]
    /\ blocks' = [s \in DOMAIN blocks |->
            IF s \in SlabBlocks(b) THEN [blocks[s] EXCEPT !.state = "fresh"] ELSE blocks[s]]
    /\ last' = NoFree
    /\ UNCHANGED <<config, next, slabs>>

Next ==
    \/ \E f \in Configs : New(f)
    \/ /\ config # NoConfig
       /\ \/ \E c \in {FromRequest(n) : n \in Sizes} \ {0} : CarveSlab(c)
          \/ \E n \in Sizes : AllocateLarge(n)
          \/ \E n \in Sizes, s \in DOMAIN blocks : AllocateSmall(n, s)
          \/ \E s \in DOMAIN blocks : Free(s) \/ \E n \in Sizes : FreeSized(s, n)
          \/ \E b \in slabs : Discard(b)

Spec == Init /\ [][Next]_vars

-----------------------------------------------------------------------------
(* Properties *)

TypeOK ==
    /\ config \in Configs \cup {NoConfig}
    /\ next \in Nat
    /\ config # NoConfig => next =< config.arena
    /\ DOMAIN blocks = DOMAIN header
    /\ \A s \in DOMAIN blocks :
        /\ blocks[s].class \in Classes \cup {0}
        /\ blocks[s].state \in {"fresh", "cached", "live"}
        /\ blocks[s].asked \in Sizes \cup {0}
        /\ header[s].requested =< FieldMax /\ header[s].usable =< FieldMax

LiveBlocks == {s \in DOMAIN blocks : blocks[s].state = "live"}

\* A block holds the header and what was asked for, in the arena, at the
\* alignment of the configuration, and apart from every other block.
BlocksHold == TypeOK /\
    \A s \in DOMAIN blocks :
        /\ s % config.alignment = 0
        /\ s + blocks[s].size =< next
        /\ blocks[s].size >= HeaderSize + blocks[s].asked
        /\ \A r \in DOMAIN blocks : r > s => s + blocks[s].size =< r

\* The header of a live block tells what the free path must know, although slabs
\* that share its pages are discarded and it was reused by one of three kinds of
\* header writes.
HeaderTells ==
    \A s \in LiveBlocks :
        LET h == header[s] IN
        /\ h.requested = blocks[s].asked /\ ~h.freed
        /\ IF blocks[s].class = 0 THEN Decoded(h) = "Large" /\ h.usable = blocks[s].size - HeaderSize
           ELSE Decoded(h) = "Small" /\ h.index + 1 = blocks[s].class

\* A free succeeds exactly when the block is live and the size, if given, is the
\* one asked for; and a second free of a small block is never reported as a wrong
\* size (the order deallocate_decoded_with_expected_size keeps).
VerdictRight ==
    last # NoFree =>
        /\ last.result = "ok" <=> /\ last.state = "live"
                                  /\ last.call = "sized" => last.size = last.asked
        /\ last.result = "SizeMismatch" => last.state = "live" \/ last.class = 0

\* The block counts of a configuration are ones the small path can work with: a
\* refill brings a block, a drain moves one and no more than a refill, and the
\* cache keeps at least two.
CountsWork(f, c) ==
    /\ 1 =< DrainCount(f, c) /\ DrainCount(f, c) =< RefillCount(f, c)
    /\ 2 =< LocalLimit(f, c)

\* The smallest class that holds a request, found by its definition.
Tightest(n) ==
    LET fits == {c \in Classes : PayloadSize[c] >= n} IN
    IF n = 0 \/ fits = {} THEN 0 ELSE Min(fits)

\* Requests around every boundary of the classes.
Probes == Sizes \cup UNION {(PayloadSize[c] - 1)..(PayloadSize[c] + 1) : c \in Classes}

\* An accepted configuration works for every class, and from_request sends every
\* request to the smallest class whose block holds it and its header, to the large
\* path only when there is none.
ConfigWorks ==
    config # NoConfig =>
        /\ \A c \in Classes : CountsWork(config, c)
        /\ \A n \in Probes :
            LET c == FromRequest(n) IN
            /\ c = Tightest(n)
            /\ c # 0 => BlockSize(c, config.alignment) >= HeaderSize + n
=============================================================================
