---------------------------- MODULE SlabVectors -----------------------------
(***************************************************************************)
(* What the represented slab tables of src/central_pool.rs (ClassPool) and *)
(* src/thread_cache.rs (LocalClassCache) have in common: slab records in a *)
(* vector that only grows, an index of it sorted by start address, and     *)
(* vectors of slab ids from which one leaves by swap_remove.               *)
(***************************************************************************)
EXTENDS Integers, FiniteSets, Sequences, SequencesExt

CONSTANTS
    ArenaBlocks,   \* addresses are 0 .. ArenaBlocks-1, as in CentralSlabs
    Spans,         \* the slabs [start, count] the arena hands to the class
    MaxBatch       \* the largest batch: `max` of pop_batch, and a bound on the others

\* Spans are what the arena reserves: not empty, inside it, and no two overlap.
ASSUME SpansAssumption ==
    /\ ArenaBlocks \in Nat
    /\ MaxBatch \in Nat \ {0}
    /\ \A sp \in Spans : /\ sp.start \in Nat /\ sp.count \in Nat \ {0}
                         /\ sp.start + sp.count <= ArenaBlocks
    /\ \A sp, tp \in Spans : \/ sp = tp
                             \/ sp.start + sp.count <= tp.start
                             \/ tp.start + tp.count <= sp.start

SpanBlocks(sp) == sp.start .. sp.start + sp.count - 1

SlabContains(slab, b) == slab.start <= b /\ b < slab.start + slab.capacity

Smaller(a, b) == IF a <= b THEN a ELSE b

\* Vec::swap_remove at a slot
SwapRemove(v, slot) == Front([v EXCEPT ![slot] = Last(v)])

\* The slab records that start at s: one, or none.
SlabsAt(c, s) == {i \in DOMAIN c.slabs : c.slabs[i].start = s}

\* How many slabs of the sorted index start at or below b (partition_point).
StartsUpTo(c, b) ==
    Cardinality({k \in DOMAIN c.by_start : c.slabs[c.by_start[k]].start <= b})
=============================================================================
