------------------------------- MODULE Arena --------------------------------
(***************************************************************************)
(* The arena of src/arena.rs: threads reserve spans of one mapping by a    *)
(* load / compute / compare_exchange_weak loop on the bump offset.         *)
(***************************************************************************)
EXTENDS Integers, Sequences

CONSTANTS
    Threads,
    ArenaLen,        \* Arena::len, in bytes
    Alignment,  \* Arena::alignment
    MaxWord,    \* usize::MAX
    Requests    \* the reservations asked for

ASSUME ArenaAssumption ==
    /\ ArenaLen \in Nat \ {0}
    /\ Alignment \in Nat \ {0}
    /\ Alignment <= ArenaLen           \* validate_config
    /\ MaxWord \in Nat
    /\ ArenaLen <= MaxWord
    /\ Requests \subseteq [kind : {"span", "blocks"}, size : Nat, target : Nat]

VARIABLES
    next,    \* Arena::next
    pc,      \* per thread: "idle", at the "load" or at the "cas" of the loop
    req,     \* per thread: the arguments of its last call
    cur,     \* per thread: `current`, the offset it loaded
    result,  \* per thread: what its last call returned
    spans    \* the spans handed out, oldest first; not program state

vars == <<next, pc, req, cur, result, spans>>

-----------------------------------------------------------------------------
\* Mutant of AlignUp: the offset is taken as it is.
AlignUpNot(v, a) == v

\* align_up, before its overflow check
AlignUp(v, a) == IF v % a = 0 THEN v ELSE v + (a - (v % a))

\* align_down
AlignDown(v, a) == v - (v % a)

\* len.saturating_sub(aligned)
Remaining(aligned) == IF aligned < ArenaLen THEN ArenaLen - aligned ELSE 0

\* How many blocks a reservation gets: one span as asked for (reserve_span), or as
\* many blocks as are wanted and fit (reserve_block_span).
ReservedBlocks(r, aligned) ==
    IF r.kind = "span" THEN 1
    ELSE IF r.target <= Remaining(aligned) \div r.size
         THEN r.target
         ELSE Remaining(aligned) \div r.size

ReservedSize(r, current) == ReservedBlocks(r, AlignUp(current, Alignment)) * r.size

\* Arithmetic of a machine word: the sum that checked_add refuses to return.
End(r, current) == AlignUp(current, Alignment) + ReservedSize(r, current)

\* Mutant of Fits: the end is not compared with the length of the arena.
FitsUnbounded(r, current) ==
    /\ AlignUp(current, Alignment) <= MaxWord
    /\ ReservedBlocks(r, AlignUp(current, Alignment)) # 0
    /\ End(r, current) <= MaxWord

\* The checks between the load and the compare-and-swap, all of which must pass.
Fits(r, current) ==
    /\ AlignUp(current, Alignment) <= MaxWord
    /\ ReservedBlocks(r, AlignUp(current, Alignment)) # 0
    /\ End(r, current) <= MaxWord
    /\ End(r, current) <= ArenaLen

\* No call yet.
NoRequest == [kind |-> "span", size |-> 0, target |-> 0]

ZeroSize(r) == r.size = 0 \/ r.target = 0

-----------------------------------------------------------------------------
Init ==
    /\ next = 0
    /\ pc = [t \in Threads |-> "idle"]
    /\ req = [t \in Threads |-> NoRequest]
    /\ cur = [t \in Threads |-> 0]
    /\ result = [t \in Threads |-> "none"]
    /\ spans = <<>>

\* A zero-sized reservation is refused before the loop.
Refuse(t, r) ==
    /\ pc[t] = "idle"
    /\ ZeroSize(r)
    /\ req' = [req EXCEPT ![t] = r]
    /\ result' = [result EXCEPT ![t] = "ZeroSize"]
    /\ UNCHANGED <<next, pc, cur, spans>>

Begin(t, r) ==
    /\ pc[t] = "idle"
    /\ ~ZeroSize(r)
    /\ req' = [req EXCEPT ![t] = r]
    /\ result' = [result EXCEPT ![t] = "none"]
    /\ pc' = [pc EXCEPT ![t] = "load"]
    /\ UNCHANGED <<next, cur, spans>>

\* The load; the reservation computed from it fits.
LoadFits(t) ==
    /\ pc[t] = "load"
    /\ Fits(req[t], next)
    /\ cur' = [cur EXCEPT ![t] = next]
    /\ pc' = [pc EXCEPT ![t] = "cas"]
    /\ UNCHANGED <<next, req, result, spans>>

\* Mutant of LoadFull: a span that ends exactly at the end of the arena is refused.
LoadFullStrict(t) ==
    /\ pc[t] = "load"
    /\ ~Fits(req[t], next) \/ End(req[t], next) = ArenaLen
    /\ cur' = [cur EXCEPT ![t] = next]
    /\ result' = [result EXCEPT ![t] = "OutOfMemory"]
    /\ pc' = [pc EXCEPT ![t] = "idle"]
    /\ UNCHANGED <<next, req, spans>>

\* Mutant of LoadFull: a full arena is retried like a lost race.
LoadFullRetries(t) ==
    /\ pc[t] = "load"
    /\ ~Fits(req[t], next)
    /\ cur' = [cur EXCEPT ![t] = next]
    /\ UNCHANGED <<next, pc, req, result, spans>>

\* The load; the call returns OutOfMemory, or None for a block span.
LoadFull(t) ==
    /\ pc[t] = "load"
    /\ ~Fits(req[t], next)
    /\ cur' = [cur EXCEPT ![t] = next]
    /\ result' = [result EXCEPT ![t] = "OutOfMemory"]
    /\ pc' = [pc EXCEPT ![t] = "idle"]
    /\ UNCHANGED <<next, req, spans>>

\* Mutant of CasOk: a plain store, whatever the offset has become.
CasOkBlind(t) ==
    /\ pc[t] = "cas"
    /\ next' = End(req[t], cur[t])
    /\ spans' = Append(spans, [start |-> AlignUp(cur[t], Alignment),
                               size  |-> ReservedSize(req[t], cur[t])])
    /\ result' = [result EXCEPT ![t] = "Ok"]
    /\ pc' = [pc EXCEPT ![t] = "idle"]
    /\ UNCHANGED <<req, cur>>

\* compare_exchange_weak succeeds: the offset is still the one that was loaded.
CasOk(t) ==
    /\ pc[t] = "cas"
    /\ next = cur[t]
    /\ next' = End(req[t], cur[t])
    /\ spans' = Append(spans, [start |-> AlignUp(cur[t], Alignment),
                               size  |-> ReservedSize(req[t], cur[t])])
    /\ result' = [result EXCEPT ![t] = "Ok"]
    /\ pc' = [pc EXCEPT ![t] = "idle"]
    /\ UNCHANGED <<req, cur>>

\* compare_exchange_weak fails: another thread moved `next`, or spuriously.
CasRetry(t) ==
    /\ pc[t] = "cas"
    /\ pc' = [pc EXCEPT ![t] = "load"]
    /\ UNCHANGED <<next, req, cur, result, spans>>

Next ==
    \E t \in Threads :
        \/ \E r \in Requests : Refuse(t, r)
        \/ \E r \in Requests : Begin(t, r)
        \/ LoadFits(t)
        \/ LoadFull(t)
        \/ CasOk(t)
        \/ CasRetry(t)

Spec == Init /\ [][Next]_vars

\* A thread in the loop keeps running, and the weak compare-and-swap does not fail
\* for ever on an offset that nobody moves.
Fairness ==
    \A t \in Threads :
        /\ WF_vars(LoadFits(t) \/ LoadFull(t) \/ CasOk(t) \/ CasRetry(t))
        /\ SF_vars(CasOk(t))

FairSpec == Spec /\ Fairness

-----------------------------------------------------------------------------
\* The type invariant.
TypeOK ==
    /\ next \in 0 .. ArenaLen
    /\ pc \in [Threads -> {"idle", "load", "cas"}]
    /\ req \in [Threads -> Requests \cup {NoRequest}]
    /\ cur \in [Threads -> 0 .. ArenaLen]
    /\ result \in [Threads -> {"none", "Ok", "OutOfMemory", "ZeroSize"}]
    /\ spans \in Seq([start : Nat, size : Nat])

SpanEnd(sp) == sp.start + sp.size

\* Whatever the interleaving of the loops, the spans handed out are non-empty,
\* aligned, inside the arena and below `next`, and no two of them overlap.
SpansDisjoint ==
    /\ \A i \in DOMAIN spans :
          /\ spans[i].size > 0
          /\ spans[i].start % Alignment = 0
          /\ SpanEnd(spans[i]) <= next
    /\ \A i, j \in DOMAIN spans : i < j => SpanEnd(spans[i]) <= spans[j].start

\* A caller that was told there is no room was told the truth, and it stays true:
\* the request still does not fit however long ago it was refused.
RefusalIsFinal ==
    \A t \in Threads : result[t] = "OutOfMemory" => ~Fits(req[t], next)

\* Each reservation is one atomic reservation of the abstract arena: the loads that
\* go stale and the failed compare-and-swaps cannot be seen.
Bump == INSTANCE BumpArena

\* The arena implements the append-only row of spans.
ImplementsBump == Bump!BumpSpec

\* Every reservation returns, though its compare-and-swap may lose to others: each
\* loss is somebody's success, and the arena has room for finitely many.
ReservationReturns == \A t \in Threads : pc[t] # "idle" ~> pc[t] = "idle"

-----------------------------------------------------------------------------
\* page_aligned_inner_range: the whole pages inside a slab, as first and last + 1.
InnerStart(start, page) == AlignUp(start, page)

InnerEnd(start, len, page) == AlignDown(start + len, page)
=============================================================================
