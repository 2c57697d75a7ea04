---------------------------- MODULE ListContract ----------------------------
(***************************************************************************)
(* What FreeList and Batch of src/free_list.rs promise: a list is a stack  *)
(* of blocks, a batch is a detached run of blocks, and every transfer      *)
(* between them keeps the order and moves each block exactly once.  There  *)
(* is no word on link words, lengths or tails.                             *)
(***************************************************************************)
EXTENDS Sequences, SequencesExt, Integers

CONSTANTS Blocks, Lists, Batches

VARIABLES stack,   \* per list: its blocks, the head first
          run      \* per batch: its blocks, the head first

Place(name) == IF name \in Lists THEN stack[name] ELSE run[name]

\* Blocks that no list and no batch has.
Loose == Blocks \ UNION {ToSet(Place(n)) : n \in Lists \cup Batches}

ContractInit ==
    /\ stack = [l \in Lists |-> <<>>]
    /\ run = [k \in Batches |-> <<>>]

Push(l, b) ==
    /\ b \in Loose
    /\ stack' = [stack EXCEPT ![l] = <<b>> \o @]
    /\ UNCHANGED run

Pop(l) ==
    /\ stack[l] # <<>>
    /\ stack' = [stack EXCEPT ![l] = Tail(@)]
    /\ UNCHANGED run

Splice(l, k) ==
    /\ stack' = [stack EXCEPT ![l] = run[k] \o @]
    /\ run' = [run EXCEPT ![k] = <<>>]

Detach(l, k, n) ==
    /\ run[k] = <<>>
    /\ n <= Len(stack[l])
    /\ run' = [run EXCEPT ![k] = SubSeq(stack[l], 1, n)]
    /\ stack' = [stack EXCEPT ![l] = SubSeq(@, n + 1, Len(@))]

TakeFirst(k) ==
    /\ run[k] # <<>>
    /\ run' = [run EXCEPT ![k] = Tail(@)]
    /\ UNCHANGED stack

Single(k, b) ==
    /\ b \in Loose
    /\ run[k] = <<>>
    /\ run' = [run EXCEPT ![k] = <<b>>]
    /\ UNCHANGED stack

Clear(l) ==
    /\ stack' = [stack EXCEPT ![l] = <<>>]
    /\ UNCHANGED run

ContractNext ==
    \/ \E l \in Lists : \/ \E b \in Blocks : Push(l, b)
                        \/ Pop(l)
                        \/ Clear(l)
                        \/ \E k \in Batches : \/ Splice(l, k)
                                              \/ \E n \in 1 .. Len(stack[l]) : Detach(l, k, n)
    \/ \E k \in Batches : TakeFirst(k) \/ \E b \in Blocks : Single(k, b)

ContractSpec == ContractInit /\ [][ContractNext]_<<stack, run>>
=============================================================================
