---------------------------- MODULE MCClassPool -----------------------------
(* Three adjacent slabs of 2, 2 and 1 blocks, registered in any order.       *)
EXTENDS ClassPool

MCSpans == { [start |-> 0, count |-> 2], [start |-> 2, count |-> 2], [start |-> 4, count |-> 1] }
=============================================================================
