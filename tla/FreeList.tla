------------------------------ MODULE FreeList ------------------------------
(***************************************************************************)
(* The intrusive lists of src/free_list.rs over the link words in the      *)
(* block headers (free_list_link, src/header.rs): several lists, several   *)
(* detached batches, and one word per block that all of them share.        *)
(*                                                                         *)
(* A block outside every list keeps whatever its word last held until a    *)
(* header rewrite or a discarded page clears it: lists must never come     *)
(* across such a word.  Every list belongs to one owner at a time (a cache *)
(* or a mutex), so one call is one step.                                   *)
(***************************************************************************)
EXTENDS Integers, FiniteSets, Sequences, SequencesExt

CONSTANTS
    Blocks,     \* blocks of one class
    Lists,      \* FreeLists: a slab's list, a shared list, an inbox, ...
    Batches,    \* variables that hold a Batch on its way between two lists
    Nil         \* the zero link word, Option::None

ASSUME FreeListAssumption ==
    /\ Nil \notin Blocks
    /\ IsFiniteSet(Blocks)
    /\ Lists \cap Batches = {}

VARIABLES
    link,    \* per block: the word free_list_link of its header
    list,    \* per list: its head and len
    batch    \* per batch: its head, tail and len

listVars == <<link, list, batch>>

-----------------------------------------------------------------------------
\* FreeList::new
NewList == [head |-> Nil, len |-> 0]

\* Batch::empty
EmptyBatch == [head |-> Nil, tail |-> Nil, len |-> 0]

\* read_small_free_list_next; the word of no block is not read by the code.
NextOf(b) == IF b = Nil THEN Nil ELSE link[b]

\* The node n - 1 links behind h.
Node(h, n) ==
    LET at[i \in 1 .. n] == IF i = 1 THEN h ELSE NextOf(at[i - 1])
    IN  at[n]

\* The blocks reached from h in n nodes.
Chain(h, n) == [i \in 1 .. n |-> Node(h, i)]

Linked == (UNION {ToSet(Chain(list[l].head, list[l].len)) : l \in Lists})
          \cup (UNION {ToSet(Chain(batch[k].head, batch[k].len)) : k \in Batches})

\* Blocks in no list: in use, in a hot slot, or fresh in a slab.
Detached == Blocks \ Linked

IsEmpty(x) == x.head = Nil

-----------------------------------------------------------------------------
ListInit ==
    /\ link = [b \in Blocks |-> Nil]
    /\ list = [l \in Lists |-> NewList]
    /\ batch = [k \in Batches |-> EmptyBatch]

\* FreeList::push_block
PushBlock(l, b) ==
    /\ b \in Detached
    /\ link' = [link EXCEPT ![b] = list[l].head]
    /\ list' = [list EXCEPT ![l] = [head |-> b, len |-> @.len + 1]]
    /\ UNCHANGED batch

\* FreeList::pop_block and pop_block_unchecked: the popped block keeps its word.
PopBlock(l) ==
    /\ list[l].len # 0
    /\ list' = [list EXCEPT ![l] = [head |-> NextOf(@.head), len |-> @.len - 1]]
    /\ UNCHANGED <<link, batch>>

\* Mutant of PushBatch: the batch is spliced without linking its tail to the list.
PushBatchDropsList(l, k) ==
    /\ list' = [list EXCEPT ![l] = [head |-> batch[k].head, len |-> @.len + batch[k].len]]
    /\ batch[k].len # 0
    /\ batch' = [batch EXCEPT ![k] = EmptyBatch]
    /\ UNCHANGED link

\* FreeList::push_batch; the value of the batch is consumed.
PushBatch(l, k) ==
    /\ batch[k].len # 0
    /\ link' = [link EXCEPT ![batch[k].tail] = list[l].head]
    /\ list' = [list EXCEPT ![l] = [head |-> batch[k].head, len |-> @.len + batch[k].len]]
    /\ batch' = [batch EXCEPT ![k] = EmptyBatch]

\* Mutant of PopBatch: the batch is not terminated.
PopBatchUnterminated(l, k, max) ==
    LET take == IF max <= list[l].len THEN max ELSE list[l].len
        tail == Node(list[l].head, take)
    IN  /\ max # 0 /\ list[l].len # 0
        /\ batch[k] = EmptyBatch
        /\ batch' = [batch EXCEPT ![k] = [head |-> list[l].head, tail |-> tail, len |-> take]]
        /\ list' = [list EXCEPT ![l] = [head |-> NextOf(tail), len |-> @.len - take]]
        /\ UNCHANGED link

\* FreeList::pop_batch and pop_batch_unchecked: the first `max` nodes leave together.
PopBatch(l, k, max) ==
    LET take == IF max <= list[l].len THEN max ELSE list[l].len
        tail == Node(list[l].head, take)
    IN  /\ max # 0 /\ list[l].len # 0
        /\ batch[k] = EmptyBatch
        /\ batch' = [batch EXCEPT ![k] = [head |-> list[l].head, tail |-> tail, len |-> take]]
        /\ list' = [list EXCEPT ![l] = [head |-> NextOf(tail), len |-> @.len - take]]
        /\ link' = [link EXCEPT ![tail] = Nil]

\* Batch::pop_block_unchecked
BatchPopBlock(k) ==
    /\ batch[k].len # 0
    /\ batch' = [batch EXCEPT ![k] = [head |-> NextOf(@.head),
                                      tail |-> IF @.len = 1 THEN Nil ELSE @.tail,
                                      len |-> @.len - 1]]
    /\ UNCHANGED <<link, list>>

\* Batch::from_single
FromSingle(k, b) ==
    /\ b \in Detached
    /\ batch[k] = EmptyBatch
    /\ batch' = [batch EXCEPT ![k] = [head |-> b, tail |-> b, len |-> 1]]
    /\ link' = [link EXCEPT ![b] = Nil]
    /\ UNCHANGED list

\* The list of a slab is replaced by a new one when all its blocks are accounted for
\* (record_returned_block, LocalSlab::reset): its nodes keep their words.
Replace(l) ==
    /\ list[l].len # 0
    /\ list' = [list EXCEPT ![l] = NewList]
    /\ UNCHANGED <<link, batch>>

\* The header of a block in no list is written anew, or its page is discarded
\* (write_encoded_fields, MADV_FREE): the word is zero again.
ClearWord(b) ==
    /\ b \in Detached
    /\ link[b] # Nil
    /\ link' = [link EXCEPT ![b] = Nil]
    /\ UNCHANGED <<list, batch>>

ListNext ==
    \/ \E l \in Lists : \/ \E b \in Blocks : PushBlock(l, b)
                        \/ PopBlock(l)
                        \/ Replace(l)
                        \/ \E k \in Batches : \/ PushBatch(l, k)
                                              \/ \E max \in 1 .. Cardinality(Blocks) :
                                                    PopBatch(l, k, max)
    \/ \E k \in Batches : BatchPopBlock(k) \/ \E b \in Blocks : FromSingle(k, b)
    \/ \E b \in Blocks : ClearWord(b)

ListSpec == ListInit /\ [][ListNext]_listVars

-----------------------------------------------------------------------------
\* The type invariant: heads, tails and links are blocks or null, lengths are numbers
\* no larger than the number of blocks.
ListTypeOK ==
    /\ link \in [Blocks -> Blocks \cup {Nil}]
    /\ \A l \in Lists : /\ list[l].head \in Blocks \cup {Nil}
                        /\ list[l].len \in 0 .. Cardinality(Blocks)
    /\ \A k \in Batches : /\ {batch[k].head, batch[k].tail} \subseteq Blocks \cup {Nil}
                          /\ batch[k].len \in 0 .. Cardinality(Blocks)

\* Every chain has exactly len nodes: len links lead to null, so the two tests for
\* emptiness (head.is_none() in is_empty, len == 0 in the pops) always agree, and a
\* batch's tail is its last node, where push_batch will write.  Stale words of blocks
\* that were popped, forgotten or recycled never become part of a chain.
ChainsEnd ==
    /\ \A l \in Lists : Node(list[l].head, list[l].len + 1) = Nil
                        /\ Nil \notin ToSet(Chain(list[l].head, list[l].len))
    /\ \A k \in Batches : Node(batch[k].head, batch[k].len + 1) = Nil
                          /\ Nil \notin ToSet(Chain(batch[k].head, batch[k].len))
                          /\ batch[k].tail = IF batch[k].len = 0 THEN Nil
                                             ELSE Node(batch[k].head, batch[k].len)

\* No block is on two chains, or twice on one.
ChainsApart ==
    LET place == [x \in Lists \cup Batches |-> IF x \in Lists THEN list[x] ELSE batch[x]]
    IN  \A x, y \in Lists \cup Batches :
           \A i \in 1 .. place[x].len, j \in 1 .. place[y].len :
              Node(place[x].head, i) = Node(place[y].head, j) => x = y /\ i = j

\* The lists are well formed: of their types, ended and apart.
ChainsSound == ListTypeOK /\ ChainsEnd /\ ChainsApart

Contract == INSTANCE ListContract
    WITH stack <- [l \in Lists |-> Chain(list[l].head, list[l].len)],
         run <- [k \in Batches |-> Chain(batch[k].head, batch[k].len)]

\* The lists behave as stacks and the batches as runs of blocks, whatever is left in
\* the words of the blocks that are in neither.
ImplementsLists == Contract!ContractSpec
=============================================================================
