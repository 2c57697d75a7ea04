------------------------- MODULE MCLocalClassCache --------------------------
(* Slabs of 2, 1 and 1 blocks, taken in any order, and a block of a slab that *)
(* this cache never gets.                                                    *)
EXTENDS LocalClassCache

MCSpans == { [start |-> 0, count |-> 2], [start |-> 2, count |-> 1], [start |-> 4, count |-> 1] }
=============================================================================
