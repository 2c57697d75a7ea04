---------------------------- MODULE MCSmallPath -----------------------------
(* Small instances of the small-object path.  Threads are interchangeable.  *)
EXTENDS SmallPath, TLC

ThreadSymmetry == Permutations(Caches)
=============================================================================
