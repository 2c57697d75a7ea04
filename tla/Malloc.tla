------------------------------- MODULE Malloc -------------------------------
(***************************************************************************)
(* What a program may rely on: the allocator has a stock of free blocks,   *)
(* which grows out of the arena.  An allocation takes one block out of the *)
(* stock and a free puts it back; nothing else leaves the stock, and no    *)
(* block is in it while it is handed out.                                  *)
(***************************************************************************)
CONSTANTS Blocks, Requests

VARIABLES
    alloc,   \* per block: the size it was requested with, 0 when it is not handed out
    stock    \* the blocks that can be handed out

MallocInit == alloc = [b \in Blocks |-> 0] /\ stock = {}

\* The arena gives blocks nobody has had before.
Grow(B) ==
    /\ \A b \in B : alloc[b] = 0 /\ b \notin stock
    /\ stock' = stock \cup B
    /\ UNCHANGED alloc

Allocate(b, size) ==
    /\ alloc[b] = 0 /\ b \in stock
    /\ alloc' = [alloc EXCEPT ![b] = size]
    /\ stock' = stock \ {b}

Deallocate(b) ==
    /\ alloc[b] # 0 /\ b \notin stock
    /\ alloc' = [alloc EXCEPT ![b] = 0]
    /\ stock' = stock \cup {b}

MallocNext ==
    \/ \E B \in SUBSET Blocks : Grow(B)
    \/ \E b \in Blocks :
          \/ \E size \in Requests : Allocate(b, size)
          \/ Deallocate(b)

MallocSpec == MallocInit /\ [][MallocNext]_<<alloc, stock>>
=============================================================================
