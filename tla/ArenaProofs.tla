----------------------------- MODULE ArenaProofs ----------------------------
(***************************************************************************)
(* Proofs about the arena, for any number of threads, any length and       *)
(* alignment, and any set of requests.                                     *)
(***************************************************************************)
EXTENDS Arena, SequenceTheorems, TLAPS

\* align_up returns a multiple of the alignment, not below its argument and less
\* than one alignment above it.
LEMMA AlignUpLemma ==
    ASSUME NEW v \in Nat, NEW a \in Nat \ {0}
    PROVE  /\ AlignUp(v, a) \in Nat
           /\ AlignUp(v, a) % a = 0
           /\ v <= AlignUp(v, a)
           /\ AlignUp(v, a) < v + a
<1>1. v % a \in 0 .. a - 1
  OBVIOUS
<1>2. v = a * (v \div a) + (v % a) /\ v \div a \in Int
  OBVIOUS
<1>3. CASE v % a = 0
  BY <1>3 DEF AlignUp
<1>4. CASE v % a # 0
  <2> DEFINE k == v \div a
  <2>1. AlignUp(v, a) = a * (k + 1)
    BY <1>2, <1>4 DEF AlignUp
  <2>2. (a * (k + 1)) % a = 0
    <3> HIDE DEF k
    <3> SUFFICES ASSUME NEW m \in Int PROVE (a * m) % a = 0
      BY <1>2 DEF k
    <3> QED
      OBVIOUS
  <2> QED
    BY <1>1, <1>4, <2>1, <2>2 DEF AlignUp
<1> QED
  BY <1>3, <1>4

\* align_down returns a multiple of the alignment that is not above its argument.
LEMMA AlignDownLemma ==
    ASSUME NEW v \in Nat, NEW a \in Nat \ {0}
    PROVE  /\ AlignDown(v, a) \in Nat
           /\ AlignDown(v, a) <= v
           /\ v < AlignDown(v, a) + a
<1>1. v % a \in 0 .. a - 1
  OBVIOUS
<1>2. v = a * (v \div a) + (v % a) /\ v \div a \in Nat
  OBVIOUS
<1>3. a * (v \div a) \in Nat
  BY <1>2
<1> QED
  BY <1>1, <1>2, <1>3 DEF AlignDown

\* page_aligned_inner_range: what a sweep hands to madvise lies inside the slab, so no
\* page of a neighbour is discarded with it, whatever the page size.
THEOREM InnerRangeInside ==
    ASSUME NEW start \in Nat, NEW len \in Nat, NEW page \in Nat \ {0}
    PROVE  InnerStart(start, page) .. InnerEnd(start, len, page) - 1
             \subseteq start .. start + len - 1
<1>1. InnerStart(start, page) \in Nat /\ start <= InnerStart(start, page)
  BY AlignUpLemma DEF InnerStart
<1>2. start + len \in Nat
  OBVIOUS
<1>3. InnerEnd(start, len, page) \in Nat /\ InnerEnd(start, len, page) <= start + len
  BY <1>2, AlignDownLemma DEF InnerEnd
<1> QED
  BY <1>1, <1>3

-----------------------------------------------------------------------------
AllRequests == Requests \cup {NoRequest}

\* What a computed reservation looks like: aligned, not empty, after the loaded offset
\* and inside the arena.
LEMMA ReservationLemma ==
    ASSUME NEW r \in AllRequests, ~ZeroSize(r), NEW current \in 0 .. ArenaLen,
           Fits(r, current)
    PROVE  /\ AlignUp(current, Alignment) \in 0 .. ArenaLen
           /\ AlignUp(current, Alignment) % Alignment = 0
           /\ current <= AlignUp(current, Alignment)
           /\ ReservedSize(r, current) \in 1 .. ArenaLen
           /\ End(r, current) = AlignUp(current, Alignment) + ReservedSize(r, current)
           /\ End(r, current) \in 0 .. ArenaLen
<1> DEFINE aligned == AlignUp(current, Alignment)
           blocks  == ReservedBlocks(r, aligned)
<1>1. r.size \in Nat \ {0} /\ r.target \in Nat \ {0}
  BY ArenaAssumption DEF AllRequests, NoRequest, ZeroSize
<1>2. /\ aligned \in Nat
      /\ aligned % Alignment = 0
      /\ current <= aligned
  BY ArenaAssumption, AlignUpLemma
<1>3. Remaining(aligned) \in Nat
  BY <1>2, ArenaAssumption DEF Remaining
<1>4. Remaining(aligned) \div r.size \in Nat
  BY <1>1, <1>3
<1>5. blocks \in Nat \ {0}
  BY <1>1, <1>4 DEF ReservedBlocks, Fits
<1>6. blocks * r.size \in Nat \ {0}
  BY <1>1, <1>5
<1> QED
  BY <1>2, <1>6, ArenaAssumption DEF ReservedSize, End, Fits

\* TypeOK, what the compare-and-swap may rely on, and the two safety properties: a
\* thread at the compare-and-swap asked for something, and its reservation fits the
\* offset it loaded.
IInv ==
    /\ TypeOK
    /\ SpansDisjoint
    /\ \A t \in Threads : pc[t] # "idle" => ~ZeroSize(req[t])
    /\ \A t \in Threads : pc[t] = "cas" => Fits(req[t], cur[t])

\* A new arena satisfies the inductive invariant.
LEMMA InitIInv == Init => IInv
  BY ArenaAssumption DEF Init, IInv, TypeOK, SpansDisjoint

\* Every load, CAS success, CAS failure and refusal keeps the inductive invariant.
LEMMA NextIInv == IInv /\ [Next]_vars => IInv'
<1> SUFFICES ASSUME IInv, [Next]_vars PROVE IInv'
  OBVIOUS
<1> USE ArenaAssumption
<1>1. CASE UNCHANGED vars
  BY <1>1 DEF IInv, TypeOK, SpansDisjoint, vars, SpanEnd
<1>2. ASSUME NEW t \in Threads, NEW r \in Requests, Refuse(t, r) PROVE IInv'
  BY <1>2 DEF IInv, TypeOK, SpansDisjoint, Refuse, SpanEnd
<1>3. ASSUME NEW t \in Threads, NEW r \in Requests, Begin(t, r) PROVE IInv'
  BY <1>3 DEF IInv, TypeOK, SpansDisjoint, Begin, SpanEnd
<1>4. ASSUME NEW t \in Threads, LoadFits(t) PROVE IInv'
  BY <1>4 DEF IInv, TypeOK, SpansDisjoint, LoadFits, SpanEnd
<1>5. ASSUME NEW t \in Threads, LoadFull(t) PROVE IInv'
  BY <1>5 DEF IInv, TypeOK, SpansDisjoint, LoadFull, SpanEnd
<1>6. ASSUME NEW t \in Threads, CasOk(t) PROVE IInv'
  <2> DEFINE sp == [start |-> AlignUp(cur[t], Alignment), size |-> ReservedSize(req[t], cur[t])]
  <2>1. /\ sp.start \in 0 .. ArenaLen
        /\ sp.start % Alignment = 0
        /\ next <= sp.start
        /\ sp.size \in 1 .. ArenaLen
        /\ End(req[t], cur[t]) = sp.start + sp.size
        /\ End(req[t], cur[t]) \in 0 .. ArenaLen
    <3>1. req[t] \in AllRequests /\ ~ZeroSize(req[t]) /\ cur[t] \in 0 .. ArenaLen
      BY <1>6 DEF IInv, TypeOK, CasOk, AllRequests
    <3>2. Fits(req[t], cur[t])
      BY <1>6 DEF IInv, CasOk
    <3> QED
      BY <1>6, <3>1, <3>2, ReservationLemma DEF CasOk
  <2> HIDE DEF sp
  <2>2. next' = sp.start + sp.size /\ spans' = Append(spans, sp)
    BY <1>6, <2>1 DEF CasOk, sp
  <2>3. sp \in [start : Nat, size : Nat]
    BY <2>1 DEF sp
  <2>4. TypeOK'
    BY <1>6, <2>1, <2>2, <2>3 DEF IInv, TypeOK, CasOk
  <2>5. SpansDisjoint'
    <3>1. spans \in Seq([start : Nat, size : Nat]) /\ next \in Nat
      BY DEF IInv, TypeOK
    <3>2. \A i \in DOMAIN spans' : spans'[i] = IF i \in DOMAIN spans THEN spans[i] ELSE sp
      BY <2>2, <2>3, <3>1
    <3>3. DOMAIN spans' = 1 .. Len(spans) + 1 /\ DOMAIN spans = 1 .. Len(spans)
      BY <2>2, <2>3, <3>1
    <3>4. \A i \in DOMAIN spans : spans[i] \in [start : Nat, size : Nat]
      BY <3>1, <3>3, ElementOfSeq
    <3>5. /\ \A i \in DOMAIN spans : /\ spans[i].size > 0
                                     /\ spans[i].start % Alignment = 0
                                     /\ SpanEnd(spans[i]) <= next
          /\ \A i, j \in DOMAIN spans : i < j => SpanEnd(spans[i]) <= spans[j].start
      BY DEF IInv, SpansDisjoint
    <3>6. ASSUME NEW i \in DOMAIN spans'
          PROVE  /\ spans'[i].size > 0
                 /\ spans'[i].start % Alignment = 0
                 /\ SpanEnd(spans'[i]) <= next'
      <4>1. CASE i \in DOMAIN spans
        <5>1. spans'[i] = spans[i]
          BY <3>2, <4>1
        <5>2. next <= next'
          BY <2>1, <2>2, <3>1
        <5>3. SpanEnd(spans[i]) \in Nat /\ SpanEnd(spans[i]) <= next
          BY <3>4, <3>5, <4>1 DEF SpanEnd
        <5> QED
          BY <2>1, <2>2, <3>1, <3>5, <4>1, <5>1, <5>2, <5>3
      <4>2. CASE i \notin DOMAIN spans
        BY <2>1, <2>2, <3>2, <4>2 DEF SpanEnd
      <4> QED
        BY <4>1, <4>2
    <3>7. ASSUME NEW i \in DOMAIN spans', NEW j \in DOMAIN spans', i < j
          PROVE  SpanEnd(spans'[i]) <= spans'[j].start
      <4>1. i \in DOMAIN spans /\ spans'[i] = spans[i]
        BY <3>2, <3>3, <3>7
      <4>2. SpanEnd(spans[i]) \in Nat /\ SpanEnd(spans[i]) <= next
        BY <3>4, <3>5, <4>1 DEF SpanEnd
      <4>3. CASE j \in DOMAIN spans
        <5>1. spans'[j] = spans[j] /\ SpanEnd(spans[i]) <= spans[j].start
          BY <3>2, <3>5, <3>7, <4>1, <4>3
        <5> QED
          BY <4>1, <5>1
      <4>4. CASE j \notin DOMAIN spans
        <5>1. spans'[j] = sp /\ sp.start \in Nat /\ next <= sp.start
          BY <2>1, <3>2, <4>4
        <5>2. SpanEnd(spans[i]) <= sp.start
          BY <3>1, <4>2, <5>1
        <5> QED
          BY <4>1, <5>1, <5>2
      <4> QED
        BY <4>3, <4>4
    <3> QED
      BY <3>6, <3>7 DEF SpansDisjoint
  <2> QED
    BY <1>6, <2>4, <2>5 DEF IInv, CasOk, TypeOK
<1>7. ASSUME NEW t \in Threads, CasRetry(t) PROVE IInv'
  BY <1>7 DEF IInv, TypeOK, SpansDisjoint, CasRetry, SpanEnd
<1> QED
  BY <1>1, <1>2, <1>3, <1>4, <1>5, <1>6, <1>7 DEF Next

\* The arena's state keeps its type.
THEOREM TypeCorrect == Spec => []TypeOK
<1>1. IInv => TypeOK
  BY DEF IInv
<1> QED
  BY InitIInv, NextIInv, <1>1, PTL DEF Spec

\* No two reservations overlap, all are aligned and inside the arena, for any number
\* of racing threads.
THEOREM SpansAlwaysDisjoint == Spec => []SpansDisjoint
<1>1. IInv => SpansDisjoint
  BY DEF IInv
<1> QED
  BY InitIInv, NextIInv, <1>1, PTL DEF Spec

\* The compare-and-swap loop implements the atomic append-only arena.
THEOREM ArenaImplementsBump == Spec => ImplementsBump
<1>1. Init => Bump!BumpInit
  BY DEF Init, Bump!BumpInit
<1>2. IInv /\ [Next]_vars => [Bump!BumpNext]_<<next, spans>>
  <2> SUFFICES ASSUME IInv, Next, ~UNCHANGED <<next, spans>> PROVE Bump!BumpNext
    BY DEF vars
  <2>1. PICK t \in Threads : CasOk(t)
    BY DEF Next, Refuse, Begin, LoadFits, LoadFull, CasRetry
  <2> DEFINE start == AlignUp(cur[t], Alignment)
             size  == ReservedSize(req[t], cur[t])
  <2>2. req[t] \in AllRequests /\ ~ZeroSize(req[t]) /\ cur[t] \in 0 .. ArenaLen
    BY <2>1 DEF IInv, TypeOK, CasOk, AllRequests
  <2>3. Fits(req[t], cur[t])
    BY <2>1 DEF IInv, CasOk
  <2>4. /\ start \in 0 .. ArenaLen
        /\ start % Alignment = 0
        /\ cur[t] <= start
        /\ size \in 1 .. ArenaLen
        /\ End(req[t], cur[t]) = start + size
        /\ End(req[t], cur[t]) <= ArenaLen
    BY <2>2, <2>3, ReservationLemma
  <2>5. Bump!Reserve(start, size)
    BY <2>1, <2>4 DEF CasOk, Bump!Reserve
  <2> QED
    BY <2>4, <2>5, ArenaAssumption DEF Bump!BumpNext
<1> QED
  BY InitIInv, NextIInv, <1>1, <1>2, PTL DEF Spec, ImplementsBump, Bump!BumpSpec

-----------------------------------------------------------------------------
\* align_up is monotone.
LEMMA AlignUpMonotone ==
    ASSUME NEW v \in Nat, NEW w \in Nat, v <= w, NEW a \in Nat \ {0}
    PROVE  AlignUp(v, a) <= AlignUp(w, a)
<1> DEFINE x == AlignUp(v, a)
           y == AlignUp(w, a)
<1>1. x \in Nat /\ x % a = 0 /\ x < v + a /\ y \in Nat /\ y % a = 0 /\ w <= y
  BY AlignUpLemma
<1> HIDE DEF x, y
<1>2. SUFFICES ASSUME y < x PROVE FALSE
  BY <1>1 DEF x, y
<1>3. x = a * (x \div a) /\ x \div a \in Int
  BY <1>1
<1>4. y = a * (y \div a) /\ y \div a \in Int
  BY <1>1
<1> DEFINE m == x \div a
           k == y \div a
<1> HIDE DEF m, k
<1>5. x = a * m /\ y = a * k /\ m \in Int /\ k \in Int
  BY <1>3, <1>4 DEF m, k
<1>6. k < m
  BY <1>2, <1>5
<1>7. a * k + a <= a * m
  <2>1. k + 1 <= m
    BY <1>5, <1>6
  <2>2. a * (k + 1) <= a * m
    BY <1>5, <2>1
  <2> QED
    BY <1>5, <2>2
<1> QED
  BY <1>1, <1>5, <1>7

\* Integer division rounds down.
LEMMA DivisionLemma ==
    ASSUME NEW x \in Nat, NEW d \in Nat \ {0}
    PROVE  x \div d \in Nat /\ d * (x \div d) <= x /\ x < d * (x \div d) + d
<1>1. x % d \in 0 .. d - 1
  OBVIOUS
<1>2. x \div d \in Nat /\ x = d * (x \div d) + (x % d)
  OBVIOUS
<1>3. d * (x \div d) \in Int
  BY <1>2
<1> QED
  BY <1>1, <1>2, <1>3

\* A reservation fits exactly if one block of the asked size does.
LEMMA FitsCharacterized ==
    ASSUME NEW r \in AllRequests, ~ZeroSize(r), NEW current \in 0 .. ArenaLen
    PROVE  Fits(r, current) <=> AlignUp(current, Alignment) + r.size <= ArenaLen
<1> DEFINE aligned == AlignUp(current, Alignment)
           rem     == Remaining(aligned)
           q       == rem \div r.size
           blocks  == ReservedBlocks(r, aligned)
<1>1. r.size \in Nat \ {0} /\ r.target \in Nat \ {0}
  BY ArenaAssumption DEF AllRequests, NoRequest, ZeroSize
<1>2. aligned \in Nat
  BY ArenaAssumption, AlignUpLemma
<1>3. rem \in Nat /\ (aligned <= ArenaLen => aligned + rem = ArenaLen)
      /\ (aligned > ArenaLen => rem = 0)
  BY <1>2, ArenaAssumption DEF Remaining
<1>4. q \in Nat /\ r.size * q <= rem /\ rem < r.size * q + r.size
  BY <1>1, <1>3, DivisionLemma
<1> DEFINE end == End(r, current)
<1>5. end = aligned + blocks * r.size
  BY DEF End, ReservedSize
<1>6. Fits(r, current) <=> aligned <= MaxWord /\ blocks # 0 /\ end <= MaxWord /\ end <= ArenaLen
  BY DEF Fits
<1>7. CASE r.kind = "span"
  <2>1. blocks = 1
    BY <1>7 DEF ReservedBlocks
  <2> HIDE DEF blocks, aligned, end
  <2>2. end = aligned + r.size
    BY <1>1, <1>2, <1>5, <2>1
  <2> QED
    BY <1>1, <1>2, <1>6, <2>1, <2>2, ArenaAssumption DEF aligned
<1>8. CASE r.kind # "span"
  <2>1. blocks = IF r.target <= q THEN r.target ELSE q
    BY <1>8 DEF ReservedBlocks
  <2> HIDE DEF blocks, aligned, end, rem, q
  <2>2. blocks \in Nat /\ blocks <= q /\ (blocks # 0 <=> q # 0)
    BY <1>1, <1>4, <2>1
  <2>3. blocks * r.size <= r.size * q
    BY <1>1, <1>4, <2>2
  <2>4. blocks * r.size \in Nat /\ blocks * r.size <= rem
    BY <1>1, <1>3, <1>4, <2>2, <2>3
  <2>5. q # 0 <=> r.size <= rem
    <3>1. CASE q = 0
      BY <1>1, <1>3, <1>4, <3>1
    <3>2. CASE q # 0
      <4>1. r.size <= r.size * q
        BY <1>1, <1>4, <3>2
      <4> QED
        BY <1>1, <1>3, <1>4, <3>2, <4>1
    <3> QED
      BY <3>1, <3>2
  <2>6. r.size <= rem <=> aligned + r.size <= ArenaLen
    BY <1>1, <1>2, <1>3, ArenaAssumption
  <2>7. blocks # 0 => aligned <= ArenaLen
    BY <1>1, <1>2, <1>3, <2>2, <2>5, ArenaAssumption
  <2>8. blocks # 0 => end <= ArenaLen
    BY <1>1, <1>2, <1>3, <1>5, <2>4, <2>7, ArenaAssumption
  <2>9. blocks # 0 => end \in Nat
    BY <1>2, <1>5, <2>4
  <2> QED
    BY <1>2, <1>6, <2>2, <2>5, <2>6, <2>7, <2>8, <2>9, ArenaAssumption DEF aligned
<1> QED
  BY <1>7, <1>8

\* What does not fit an offset does not fit a later one.
LEMMA FitsAntitone ==
    ASSUME NEW r \in AllRequests, ~ZeroSize(r),
           NEW m \in 0 .. ArenaLen, NEW n \in 0 .. ArenaLen, m <= n, ~Fits(r, m)
    PROVE  ~Fits(r, n)
<1>1. r.size \in Nat
  BY ArenaAssumption DEF AllRequests, NoRequest
<1>2. /\ AlignUp(m, Alignment) \in Nat
      /\ AlignUp(n, Alignment) \in Nat
      /\ AlignUp(m, Alignment) <= AlignUp(n, Alignment)
  BY ArenaAssumption, AlignUpLemma, AlignUpMonotone
<1> QED
  BY <1>1, <1>2, FitsCharacterized, ArenaAssumption

\* The bump offset never moves back.
LEMMA NextMonotone == IInv /\ [Next]_vars => next <= next'
<1> SUFFICES ASSUME IInv, [Next]_vars PROVE next <= next'
  OBVIOUS
<1>1. next \in Nat
  BY ArenaAssumption DEF IInv, TypeOK
<1>2. ASSUME NEW t \in Threads, CasOk(t) PROVE next <= next'
  <2>1. req[t] \in AllRequests /\ ~ZeroSize(req[t]) /\ cur[t] \in 0 .. ArenaLen
    BY <1>2 DEF IInv, TypeOK, CasOk, AllRequests
  <2>2. Fits(req[t], cur[t])
    BY <1>2 DEF IInv, CasOk
  <2>3. cur[t] <= End(req[t], cur[t])
    BY <2>1, <2>2, ReservationLemma, ArenaAssumption
  <2> QED
    BY <1>2, <2>3 DEF CasOk
<1> QED
  BY <1>1, <1>2 DEF Next, vars, Refuse, Begin, LoadFits, LoadFull, CasRetry

\* A thread that was refused had asked for something, and it still does not fit.
Refused ==
    \A t \in Threads : result[t] = "OutOfMemory" => ~ZeroSize(req[t]) /\ ~Fits(req[t], next)

\* A refused request stays refused, because `next` only grows.
LEMMA NextRefused == IInv /\ IInv' /\ Refused /\ [Next]_vars => Refused'
<1> SUFFICES ASSUME IInv, IInv', Refused, [Next]_vars,
                    NEW t \in Threads, result'[t] = "OutOfMemory"
             PROVE  ~ZeroSize(req'[t]) /\ ~Fits(req'[t], next')
  BY DEF Refused
<1>1. next \in 0 .. ArenaLen /\ next' \in 0 .. ArenaLen /\ next <= next'
  BY NextMonotone DEF IInv, TypeOK
<1>2. req[t] \in AllRequests
  BY DEF IInv, TypeOK, AllRequests
<1>3. CASE result[t] = "OutOfMemory" /\ req'[t] = req[t]
  <2>1. ~ZeroSize(req[t]) /\ ~Fits(req[t], next)
    BY <1>3 DEF Refused
  <2>2. ~Fits(req[t], next')
    BY <1>1, <1>2, <2>1, FitsAntitone
  <2> QED
    BY <1>3, <2>1, <2>2
<1>4. CASE ~(result[t] = "OutOfMemory" /\ req'[t] = req[t])
  <2>1. LoadFull(t)
    <3>1. result \in [Threads -> {"none", "Ok", "OutOfMemory", "ZeroSize"}]
          /\ req \in [Threads -> Requests \cup {NoRequest}]
      BY DEF IInv, TypeOK
    <3>2. ASSUME NEW u \in Threads, NEW r \in Requests, Refuse(u, r) \/ Begin(u, r) PROVE FALSE
      BY <1>4, <3>1, <3>2 DEF Refuse, Begin
    <3>3. ASSUME NEW u \in Threads, LoadFits(u) \/ CasOk(u) \/ CasRetry(u) PROVE FALSE
      BY <1>4, <3>1, <3>3 DEF LoadFits, CasOk, CasRetry
    <3>4. ASSUME NEW u \in Threads, LoadFull(u) PROVE u = t
      BY <1>4, <3>1, <3>4 DEF LoadFull
    <3>5. ~UNCHANGED vars
      BY <1>4 DEF vars
    <3> QED
      BY <3>2, <3>3, <3>4, <3>5 DEF Next
  <2> QED
    BY <2>1 DEF LoadFull, IInv
<1> QED
  BY <1>3, <1>4

\* A reservation that was refused for lack of room could never have succeeded later.
THEOREM RefusalsFinal == Spec => []RefusalIsFinal
<1>1. Init => Refused
  BY DEF Init, Refused
<1>2. Refused => RefusalIsFinal
  BY DEF Refused, RefusalIsFinal
<1> QED
  BY InitIInv, NextIInv, NextRefused, <1>1, <1>2, PTL DEF Spec
=============================================================================
