------------------------------ MODULE MCArena -------------------------------
(* Three threads reserve spans and block spans from a small arena.          *)
EXTENDS Arena

\* An unaligned span, a block span of up to two blocks, one larger than the arena
\* whose end does not fit the machine word, and a zero-sized one.
MCRequests ==
    { [kind |-> "span",   size |-> 3,  target |-> 1],
      [kind |-> "blocks", size |-> 4,  target |-> 2],
      [kind |-> "span",   size |-> 14, target |-> 1],
      [kind |-> "span",   size |-> 0,  target |-> 1] }
=============================================================================
