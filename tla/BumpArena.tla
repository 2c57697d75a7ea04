----------------------------- MODULE BumpArena ------------------------------
(***************************************************************************)
(* What the arena promises: an append-only row of non-empty spans.  Each   *)
(* reservation starts at or after the end of everything reserved before,   *)
(* at an aligned offset, and stays inside the arena.                       *)
(***************************************************************************)
EXTENDS Integers, Sequences

CONSTANTS ArenaLen, Alignment

VARIABLES next,   \* offset of the first byte that is not reserved
          spans   \* the spans reserved so far, oldest first

BumpInit == next = 0 /\ spans = <<>>

Reserve(start, size) ==
    /\ next <= start
    /\ start % Alignment = 0
    /\ size > 0
    /\ start + size <= ArenaLen
    /\ spans' = Append(spans, [start |-> start, size |-> size])
    /\ next' = start + size

BumpNext == \E start \in 0 .. ArenaLen, size \in 0 .. ArenaLen : Reserve(start, size)

BumpSpec == BumpInit /\ [][BumpNext]_<<next, spans>>
=============================================================================
