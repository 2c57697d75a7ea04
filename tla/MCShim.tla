------------------------------- MODULE MCShim -------------------------------
(***************************************************************************)
(* Instances of Shim.  The layouts: a small one, one at the header         *)
(* alignment, one above it (System), and one so large that it has no       *)
(* fallback layout.  Raw addresses lie so that a pointer of one block may  *)
(* sit behind the stale prefix of another.                                 *)
(***************************************************************************)
EXTENDS Shim, TLC

MCMetaLayout == [size |-> 40, align |-> 64]
MCLayouts == {MCMetaLayout, [size |-> 40, align |-> 128], [size |-> 505, align |-> 8]}

Symmetry == Permutations(Threads)
=============================================================================
