----------------------------- MODULE PoolLocks ------------------------------
(***************************************************************************)
(* The locking of CentralPool (src/central_pool.rs): per class one mutex   *)
(* for the ClassPool and one for the RemoteReturnInbox.  Refills and       *)
(* returns hold the class mutex throughout and the inbox mutex only while  *)
(* they take what is pending; publishing takes the inbox mutex alone;      *)
(* block_counts holds both of one class while it adds up, class by class.  *)
(*                                                                         *)
(* What is behind the mutexes is cut down to the blocks and their order: a *)
(* ClassPool is the list of blocks it would hand out and a slab is a       *)
(* single block (module ClassPool has the rest).                           *)
(***************************************************************************)
EXTENDS Integers, FiniteSets, Sequences, SequencesExt

CONSTANTS
    Threads,
    Blocks,        \* the blocks of all classes
    NumClasses,    \* NUM_CLASSES
    ClassOf(_),    \* the class of a block
    MaxRefill,     \* refill_count
    NoThread       \* the holder of a free mutex

ASSUME PoolLocksAssumption ==
    /\ NoThread \notin Threads
    /\ IsFiniteSet(Blocks)
    /\ NumClasses \in Nat \ {0} /\ MaxRefill \in Nat \ {0}
    /\ \A b \in Blocks : ClassOf(b) \in 1 .. NumClasses

VARIABLES
    lists,    \* per class: the content of CentralPool::lists
    lists_by, \* per class: the thread that holds its mutex
    inbox,    \* per class: the content of CentralPool::remote_inboxes
    inbox_by, \* per class: the thread that holds its mutex
    fresh,    \* blocks of slabs not registered yet
    out,      \* registered blocks that callers have
    call      \* per thread: the call under way and where it is

vars == <<lists, lists_by, inbox, inbox_by, fresh, out, call>>

Classes == 1 .. NumClasses

\* `at` is the next thing the call does; `pending` what it took from the inbox.
NoCall == [op |-> "none", class |-> 1, at |-> "idle", arg |-> <<>>, pending |-> <<>>,
           res |-> <<>>]

\* ClassPool::return_batch on the list of blocks: one after the other.
File(p, list) == Reverse(list) \o p

\* ClassPool::take_refill: the blocks handed out, and what stays.
First(p) == SubSeq(p, 1, IF MaxRefill <= Len(p) THEN MaxRefill ELSE Len(p))
Rest(p)  == SubSeq(p, Len(First(p)) + 1, Len(p))

At(t, op, at) == call[t].op = op /\ call[t].at = at

Goto(t, at) == call' = [call EXCEPT ![t].at = at]

-----------------------------------------------------------------------------
Init ==
    /\ lists = [k \in Classes |-> <<>>] /\ lists_by = [k \in Classes |-> NoThread]
    /\ inbox = [k \in Classes |-> <<>>] /\ inbox_by = [k \in Classes |-> NoThread]
    /\ fresh = Blocks
    /\ out = {}
    /\ call = [t \in Threads |-> NoCall]

Begin(t, op, k, arg, at) ==
    /\ call[t] = NoCall
    /\ call' = [call EXCEPT ![t] = [NoCall EXCEPT !.op = op, !.class = k, !.arg = arg, !.at = at]]
    /\ fresh' = fresh \ ToSet(arg)
    /\ out' = out \ ToSet(arg)
    /\ UNCHANGED <<lists, lists_by, inbox, inbox_by>>

\* The calls of the pool's users, with the blocks they are given.
BeginRegister(t, b) == b \in fresh /\ Begin(t, "register", ClassOf(b), <<b>>, "lists")
BeginTake(t, k)     == Begin(t, "take", k, <<>>, "lists")
BeginCount(t)       == Begin(t, "count", 1, <<>>, "lists")
BeginReturn(t, k, list)  == Begin(t, "return", k, list, "lists")
BeginPublish(t, k, list) == Begin(t, "publish", k, list, "inbox")

\* self.lists[class].lock()
LockLists(t) ==
    LET k == call[t].class
    IN  /\ call[t].at = "lists"
        /\ lists_by[k] = NoThread
        /\ lists_by' = [lists_by EXCEPT ![k] = t]
        /\ Goto(t, IF call[t].op \in {"register", "count"} THEN "body" ELSE "inbox")
        /\ UNCHANGED <<lists, inbox, inbox_by, fresh, out>>

\* self.remote_inboxes[class].lock()
LockInbox(t) ==
    LET k == call[t].class
    IN  /\ call[t].at = "inbox"
        /\ inbox_by[k] = NoThread
        /\ inbox_by' = [inbox_by EXCEPT ![k] = t]
        /\ Goto(t, "holding")
        /\ UNCHANGED <<lists, lists_by, inbox, fresh, out>>

\* register_slab: the slab is known from here on.
RegisterBody(t) ==
    /\ At(t, "register", "body")
    /\ call' = [call EXCEPT ![t].res = call[t].arg, ![t].at = "unlock"]
    /\ UNCHANGED <<lists, lists_by, inbox, inbox_by, fresh, out>>

\* drain_remote_inbox: take_pending, and the inbox mutex is released.
TakePending(t) ==
    LET k == call[t].class
    IN  /\ call[t].op \in {"take", "return"} /\ call[t].at = "holding"
        /\ call' = [call EXCEPT ![t].pending = inbox[k], ![t].at = "file"]
        /\ inbox' = [inbox EXCEPT ![k] = <<>>]
        /\ inbox_by' = [inbox_by EXCEPT ![k] = NoThread]
        /\ UNCHANGED <<lists, lists_by, fresh, out>>

\* drain_remote_inbox: pool.return_batch(pending)
FilePending(t) ==
    LET k == call[t].class
    IN  /\ call[t].at = "file"
        /\ lists' = [lists EXCEPT ![k] = File(@, call[t].pending)]
        /\ call' = [call EXCEPT ![t].pending = <<>>, ![t].at = "body"]
        /\ UNCHANGED <<lists_by, inbox, inbox_by, fresh, out>>

\* pool.take_refill(max)
TakeBody(t) ==
    LET k == call[t].class
    IN  /\ At(t, "take", "body")
        /\ lists' = [lists EXCEPT ![k] = Rest(@)]
        /\ call' = [call EXCEPT ![t].res = First(lists[k]), ![t].at = "unlock"]
        /\ UNCHANGED <<lists_by, inbox, inbox_by, fresh, out>>

\* pool.return_batch(batch)
ReturnBody(t) ==
    LET k == call[t].class
    IN  /\ At(t, "return", "body")
        /\ lists' = [lists EXCEPT ![k] = File(@, call[t].arg)]
        /\ Goto(t, "unlock")
        /\ UNCHANGED <<lists_by, inbox, inbox_by, fresh, out>>

\* Mutant of PublishBody: the publisher also wants the class mutex and spins for it
\* with the inbox mutex in its hands.
PublishBodyInverted(t) ==
    LET k == call[t].class
    IN  \/ /\ At(t, "publish", "holding") /\ lists_by[k] # NoThread
           /\ Goto(t, "spinning")
           /\ UNCHANGED <<lists, lists_by, inbox, inbox_by, fresh, out>>
        \/ /\ At(t, "publish", "spinning")
           /\ Goto(t, "holding")
           /\ UNCHANGED <<lists, lists_by, inbox, inbox_by, fresh, out>>
        \/ /\ At(t, "publish", "holding") /\ lists_by[k] = NoThread
           /\ inbox' = [inbox EXCEPT ![k] = call[t].arg \o @]
           /\ inbox_by' = [inbox_by EXCEPT ![k] = NoThread]
           /\ Goto(t, "done")
           /\ UNCHANGED <<lists, lists_by, fresh, out>>

\* publish_remote_batch: inbox.push_batch(batch), and the mutex is released.
PublishBody(t) ==
    LET k == call[t].class
    IN  /\ At(t, "publish", "holding")
        /\ inbox' = [inbox EXCEPT ![k] = call[t].arg \o @]
        /\ inbox_by' = [inbox_by EXCEPT ![k] = NoThread]
        /\ Goto(t, "done")
        /\ UNCHANGED <<lists, lists_by, fresh, out>>

\* Mutant of CountLists: the class mutex is released once the pool is counted.
CountListsReleases(t) ==
    LET k == call[t].class
    IN  /\ At(t, "count", "body")
        /\ call' = [call EXCEPT ![t].res = Append(@, Len(lists[k])), ![t].at = "inbox"]
        /\ lists_by' = [lists_by EXCEPT ![k] = NoThread]
        /\ UNCHANGED <<lists, inbox, inbox_by, fresh, out>>

\* block_counts: central_block_count of one class; its mutex stays locked.
CountLists(t) ==
    LET k == call[t].class
    IN  /\ At(t, "count", "body")
        /\ call' = [call EXCEPT ![t].res = Append(@, Len(lists[k])), ![t].at = "inbox"]
        /\ UNCHANGED <<lists, lists_by, inbox, inbox_by, fresh, out>>

\* block_counts: pending_len is added, both guards are dropped, the next class follows.
CountInbox(t) ==
    LET k == call[t].class
    IN  /\ At(t, "count", "holding")
        /\ call' = [call EXCEPT ![t].res[k] = @ + Len(inbox[k]),
                                ![t].class = IF k < NumClasses THEN k + 1 ELSE k,
                                ![t].at = IF k < NumClasses THEN "lists" ELSE "done"]
        /\ inbox_by' = [inbox_by EXCEPT ![k] = NoThread]
        /\ lists_by' = [lists_by EXCEPT ![k] = NoThread]
        /\ UNCHANGED <<lists, inbox, fresh, out>>

\* The guard of the class mutex is dropped.
Unlock(t) ==
    /\ call[t].at = "unlock"
    /\ lists_by' = [lists_by EXCEPT ![call[t].class] = NoThread]
    /\ Goto(t, "done")
    /\ UNCHANGED <<lists, inbox, inbox_by, fresh, out>>

Finish(t) ==
    /\ call[t].at = "done"
    /\ out' = IF call[t].op \in {"take", "register"} THEN out \cup ToSet(call[t].res) ELSE out
    /\ call' = [call EXCEPT ![t] = NoCall]
    /\ UNCHANGED <<lists, lists_by, inbox, inbox_by, fresh>>

\* The blocks of class k that callers have, in any order and number.
Lots(k) == UNION {SetToSeqs(B) : B \in (SUBSET {b \in out : ClassOf(b) = k}) \ {{}}}

BeginCall(t) ==
    \/ \E b \in fresh : BeginRegister(t, b)
    \/ \E k \in Classes : \/ BeginTake(t, k)
                          \/ \E list \in Lots(k) : BeginReturn(t, k, list)
                          \/ \E list \in Lots(k) : BeginPublish(t, k, list)
    \/ BeginCount(t)

\* What a thread does inside a call once it has its mutex.
Proceed(t) ==
    \/ RegisterBody(t) \/ TakePending(t) \/ FilePending(t) \/ TakeBody(t) \/ ReturnBody(t)
    \/ PublishBody(t) \/ CountLists(t) \/ CountInbox(t) \/ Unlock(t) \/ Finish(t)

Next == \E t \in Threads : BeginCall(t) \/ LockLists(t) \/ LockInbox(t) \/ Proceed(t)

\* A thread inside a call keeps running, and parking_lot's mutexes are eventually fair:
\* a thread that waits for one that is free again and again gets it.
Fairness ==
    \A t \in Threads : /\ WF_vars(Proceed(t))
                       /\ SF_vars(LockLists(t))
                       /\ SF_vars(LockInbox(t))

Spec == Init /\ [][Next]_vars /\ Fairness

-----------------------------------------------------------------------------
\* Every call of every thread returns: no order of calls on any classes makes threads
\* wait for each other's mutexes for ever.
CallsComplete == \A t \in Threads : call[t].at # "idle" ~> call[t].at = "idle"

-----------------------------------------------------------------------------
\* A refill or return takes effect when it takes what is pending in the inbox; what it
\* still has to do to the pool is determined by then and nobody can see the pool before
\* it is done.
Determined(t) == call[t].op \in {"take", "return"} /\ call[t].at \in {"file", "body"}

WithPending(t, p) == IF call[t].at = "file" THEN File(p, call[t].pending) ELSE p

AbstractList(k) ==
    LET p == lists[k]
        t == lists_by[k]
    IN  IF t = NoThread \/ ~Determined(t) THEN p
        ELSE IF call[t].op = "take" THEN Rest(WithPending(t, p))
        ELSE File(WithPending(t, p), call[t].arg)

AbstractResult(t) ==
    LET c == call[t]
    IN  CASE c.op = "take" /\ Determined(t) -> First(WithPending(t, lists[c.class]))
          [] c.op = "count" /\ c.at \in {"inbox", "holding"} -> Front(c.res)
          [] OTHER -> c.res

AbstractCall(t) ==
    [op |-> call[t].op, class |-> IF call[t].op = "count" THEN 1 ELSE call[t].class,
     arg |-> call[t].arg, res |-> AbstractResult(t),
     done |-> Determined(t) \/ call[t].at \in {"unlock", "done"}]

Atomic == INSTANCE AtomicPool
    WITH pool <- [k \in Classes |-> AbstractList(k)],
         call <- [t \in Threads |-> AbstractCall(t)]

\* Every call of the central pool appears to happen at one instant: refills and returns
\* together with the drain of the inbox, although a batch published meanwhile is left
\* for the next call, and the count of a class is one that was true at some instant.
ImplementsAtomic == Atomic!ContractSpec
=============================================================================
