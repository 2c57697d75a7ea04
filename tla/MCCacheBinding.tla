--------------------------- MODULE MCCacheBinding ---------------------------
(* Instances of CacheBinding.  The two configurations differ in every count, and *)
(* with four blocks to an arena a cache could exceed what each of them allows. *)
EXTENDS CacheBinding, TLC

MCConfigs == {[refill |-> 1, limit |-> 2, drain |-> 1], [refill |-> 2, limit |-> 3, drain |-> 2]}

Symmetry == Permutations(Caches) \cup Permutations(Slots) \cup Permutations(Allocators)
=============================================================================
