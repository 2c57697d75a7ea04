----------------------------- MODULE AtomicPool -----------------------------
(***************************************************************************)
(* What the locking of CentralPool (src/central_pool.rs) promises: every   *)
(* call takes effect at one instant between its invocation and its return. *)
(* A refill or a return empties the remote inbox of its class into the     *)
(* pool in the same instant; block_counts reads one class per instant.     *)
(* This is the atomicity that module SmallPath takes for granted.          *)
(***************************************************************************)
EXTENDS Integers, Sequences, SequencesExt

CONSTANTS Threads, Blocks, NumClasses, ClassOf(_), MaxRefill

VARIABLES
    pool,    \* per class: the blocks of its ClassPool, the next to leave first
    inbox,   \* per class: the pending list of its RemoteReturnInbox
    fresh,   \* blocks of slabs not registered yet
    out,     \* registered blocks that callers have
    call     \* per thread: the call under way

NoCall == [op |-> "none", class |-> 1, arg |-> <<>>, res |-> <<>>, done |-> FALSE]

\* return_batch files the blocks of a list one after the other.
File(p, list) == Reverse(list) \o p

First(p) == SubSeq(p, 1, IF MaxRefill <= Len(p) THEN MaxRefill ELSE Len(p))

Rest(p) == SubSeq(p, Len(First(p)) + 1, Len(p))

ContractInit ==
    /\ pool = [k \in 1 .. NumClasses |-> <<>>]
    /\ inbox = [k \in 1 .. NumClasses |-> <<>>]
    /\ fresh = Blocks
    /\ out = {}
    /\ call = [t \in Threads |-> NoCall]

\* What a call is given: blocks of its class that the caller has, or a fresh slab.
Args(op, k) ==
    LET of(S) == {b \in S : ClassOf(b) = k}
    IN  CASE op = "register" -> {<<b>> : b \in of(fresh)}
          [] op \in {"return", "publish"} ->
                UNION {SetToSeqs(B) : B \in (SUBSET of(out)) \ {{}}}
          [] op = "take" -> {<<>>}
          [] OTHER -> IF k = 1 THEN {<<>>} ELSE {}

Invoke(t) ==
    /\ call[t] = NoCall
    /\ \E op \in {"register", "take", "return", "publish", "count"}, k \in 1 .. NumClasses :
       \E arg \in Args(op, k) :
         /\ call' = [call EXCEPT ![t] = [NoCall EXCEPT !.op = op, !.class = k, !.arg = arg]]
         /\ out' = out \ ToSet(arg)
         /\ fresh' = fresh \ ToSet(arg)
    /\ UNCHANGED <<pool, inbox>>

Drained(k) == File(pool[k], inbox[k])

Effect(t) ==
    LET c == call[t]
        k == c.class
        Done(res) == call' = [call EXCEPT ![t].res = res, ![t].done = TRUE]
        counted == Append(c.res, Len(pool[Len(c.res) + 1]) + Len(inbox[Len(c.res) + 1]))
    IN  /\ ~c.done
        /\ \/ /\ c.op = "register"
              /\ Done(c.arg)
              /\ UNCHANGED <<pool, inbox>>
           \/ /\ c.op = "take"
              /\ Done(First(Drained(k)))
              /\ pool' = [pool EXCEPT ![k] = Rest(Drained(k))]
              /\ inbox' = [inbox EXCEPT ![k] = <<>>]
           \/ /\ c.op = "return"
              /\ Done(<<>>)
              /\ pool' = [pool EXCEPT ![k] = File(Drained(k), c.arg)]
              /\ inbox' = [inbox EXCEPT ![k] = <<>>]
           \/ /\ c.op = "publish"
              /\ Done(<<>>)
              /\ inbox' = [inbox EXCEPT ![k] = c.arg \o @]
              /\ UNCHANGED pool
           \/ /\ c.op = "count"
              /\ call' = [call EXCEPT ![t].res = counted, ![t].done = (Len(counted) = NumClasses)]
              /\ UNCHANGED <<pool, inbox>>
        /\ UNCHANGED <<fresh, out>>

Respond(t) ==
    /\ call[t].done
    /\ out' = IF call[t].op \in {"take", "register"} THEN out \cup ToSet(call[t].res) ELSE out
    /\ call' = [call EXCEPT ![t] = NoCall]
    /\ UNCHANGED <<pool, inbox, fresh>>

ContractNext == \E t \in Threads : Invoke(t) \/ Effect(t) \/ Respond(t)

ContractSpec == ContractInit /\ [][ContractNext]_<<pool, inbox, fresh, out, call>>
=============================================================================
