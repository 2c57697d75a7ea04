-------------------------- MODULE PoolLocksProofs ---------------------------
(***************************************************************************)
(* Proof that the locking of the central pool makes its calls atomic, for  *)
(* every number of threads, classes and blocks: PoolLocks implements       *)
(* AtomicPool under the mapping given in PoolLocks.                        *)
(***************************************************************************)
EXTENDS PoolLocks, FiniteSetTheorems, SequenceTheorems, TLAPS

-----------------------------------------------------------------------------
(* The inductive invariant *)

\* Where a call of each kind can be.
WellPlaced(c) ==
    /\ c.op = "none" => c.at = "idle"
    /\ c.op = "register" => c.at \in {"lists", "body", "unlock", "done"}
    /\ c.op \in {"take", "return"} =>
        c.at \in {"lists", "inbox", "holding", "file", "body", "unlock", "done"}
    /\ c.op = "publish" => c.at \in {"inbox", "holding", "done"}
    /\ c.op = "count" => c.at \in {"lists", "body", "inbox", "holding", "done"}

Ops == {"none", "register", "take", "return", "publish", "count"}

Call == [op : Ops, class : Classes,
         at : {"idle", "lists", "inbox", "holding", "file", "body", "unlock", "done"},
         arg : Seq(Blocks), pending : Seq(Blocks), res : Seq(Blocks) \cup Seq(Nat)]

Typed ==
    /\ lists \in [Classes -> Seq(Blocks)] /\ lists_by \in [Classes -> Threads \cup {NoThread}]
    /\ inbox \in [Classes -> Seq(Blocks)] /\ inbox_by \in [Classes -> Threads \cup {NoThread}]
    /\ fresh \subseteq Blocks /\ out \subseteq Blocks
    /\ call \in [Threads -> Call]
    /\ \A t \in Threads : WellPlaced(call[t])

\* A call holds the class mutex from the moment it has it to the end of its work.
InSection(c) ==
    \/ c.at \in {"file", "body", "unlock"}
    \/ c.op # "publish" /\ c.at \in {"inbox", "holding"}

\* The holder of a class mutex is the one call that is inside its section.
Exclusive ==
    \A k \in Classes, t \in Threads :
        lists_by[k] = t <=> call[t].class = k /\ InSection(call[t])

\* What call c has found out so far, when the pool of its class is p.  The length read
\* from a pool stays true until the count of its class is complete, because the mutex of
\* the pool is held that long.
Found(c, p) ==
    /\ c.op = "none" => c = NoCall
    /\ c.op \in {"return", "publish"} => c.res = <<>>
    /\ c.op # "count" => c.res \in Seq(Blocks)
    /\ c.op = "count" =>
        /\ c.res \in Seq(Nat)
        /\ c.at \in {"lists", "body"} => Len(c.res) = c.class - 1
        /\ c.at \in {"inbox", "holding"} => Len(c.res) = c.class /\ c.res[c.class] = Len(p)

Results == \A t \in Threads : Found(call[t], lists[call[t].class])

LockInv == Typed /\ Exclusive /\ Results

-----------------------------------------------------------------------------
(* Facts about the operators *)

\* The blocks of a batch in some order are a sequence of blocks.
LEMMA LotsAreLists ==
    ASSUME out \subseteq Blocks, NEW k, NEW list \in Lots(k)
    PROVE  list \in Seq(Blocks)
  <1>1. PICK B \in (SUBSET {b \in out : ClassOf(b) = k}) \ {{}} : list \in SetToSeqs(B)
    BY DEF Lots
  <1>2. IsFiniteSet(B)
    <2>1. B \in SUBSET Blocks
      OBVIOUS
    <2> QED BY <2>1, FS_Subset, PoolLocksAssumption
  <1>3. Cardinality(B) \in Nat
    BY <1>2, FS_CardinalityType
  <1>4. list \in [1 .. Cardinality(B) -> B]
    BY <1>1 DEF SetToSeqs
  <1>5. list \in [1 .. Cardinality(B) -> Blocks]
    BY <1>4
  <1> QED BY <1>3, <1>5

\* Filing, taking and leaving blocks make sequences of blocks out of such.
LEMMA ListsTyped ==
    ASSUME NEW p \in Seq(Blocks), NEW q \in Seq(Blocks)
    PROVE  /\ File(p, q) \in Seq(Blocks)
           /\ First(p) \in Seq(Blocks)
           /\ Rest(p) \in Seq(Blocks)
  <1>1. Reverse(q) \in Seq(Blocks)
    <2>1. Len(q) \in Nat /\ \A i \in 1 .. Len(q) : q[(Len(q) - i) + 1] \in Blocks
      OBVIOUS
    <2> QED BY <2>1 DEF Reverse
  <1>2. File(p, q) \in Seq(Blocks)
    BY <1>1 DEF File
  <1>3. First(p) \in Seq(Blocks) /\ Len(First(p)) \in Nat /\ Len(First(p)) =< Len(p)
    BY PoolLocksAssumption DEF First
  <1>4. Rest(p) \in Seq(Blocks)
    <2> DEFINE n == Len(First(p))
    <2>1. n \in Nat /\ n =< Len(p)
      BY <1>3
    <2> HIDE DEF n
    <2>2. SubSeq(p, n + 1, Len(p)) \in Seq(Blocks)
      BY <2>1
    <2> QED BY <2>2 DEF Rest, n
  <1> QED BY <1>2, <1>3, <1>4

\* The count of a class completes the counts of the classes before it.
LEMMA CountsTyped ==
    ASSUME NEW s \in Seq(Nat), NEW n \in Nat
    PROVE  /\ Append(s, n) \in Seq(Nat) /\ Len(Append(s, n)) = Len(s) + 1
           /\ Append(s, n)[Len(s) + 1] = n
           /\ Front(Append(s, n)) = s
           /\ Len(s) > 0 => /\ Front(s) \in Seq(Nat) /\ Len(Front(s)) = Len(s) - 1
                            /\ [s EXCEPT ![Len(s)] = n] = Append(Front(s), n)
                            /\ [s EXCEPT ![Len(s)] = n] \in Seq(Nat)
                            /\ Len([s EXCEPT ![Len(s)] = n]) = Len(s)
  <1>1. /\ Append(s, n) \in Seq(Nat) /\ Len(Append(s, n)) = Len(s) + 1
        /\ Append(s, n)[Len(s) + 1] = n
    OBVIOUS
  <1>2. Front(Append(s, n)) = s
    <2> DEFINE a == Append(s, n)
    <2>1. a \in Seq(Nat) /\ Len(a) = Len(s) + 1 /\ \A i \in 1 .. Len(s) : a[i] = s[i]
      OBVIOUS
    <2> HIDE DEF a
    <2>2. Front(a) \in Seq(Nat) /\ Len(Front(a)) = Len(s)
      BY <2>1 DEF Front
    <2>3. \A i \in 1 .. Len(s) : Front(a)[i] = s[i]
      BY <2>1 DEF Front
    <2>4. Front(a) = s
      BY <2>2, <2>3, SeqEqual
    <2> QED BY <2>4 DEF a
  <1>3. ASSUME Len(s) > 0
        PROVE  /\ Front(s) \in Seq(Nat) /\ Len(Front(s)) = Len(s) - 1
               /\ \A i \in 1 .. Len(s) - 1 : Front(s)[i] = s[i]
    <2> DEFINE m == Len(s) - 1
    <2>1. m \in Nat /\ m =< Len(s) /\ Front(s) = SubSeq(s, 1, m)
      BY <1>3 DEF Front
    <2> HIDE DEF m
    <2>2. /\ SubSeq(s, 1, m) \in Seq(Nat) /\ Len(SubSeq(s, 1, m)) = m
          /\ \A i \in 1 .. m : SubSeq(s, 1, m)[i] = s[i]
      BY <2>1
    <2>3. /\ Front(s) \in Seq(Nat) /\ Len(Front(s)) = m
          /\ \A i \in 1 .. m : Front(s)[i] = s[i]
      BY <2>1, <2>2
    <2> QED BY <2>3 DEF m
  <1>4. ASSUME Len(s) > 0
        PROVE  /\ [s EXCEPT ![Len(s)] = n] \in Seq(Nat)
               /\ Len([s EXCEPT ![Len(s)] = n]) = Len(s)
               /\ \A j \in 1 .. Len(s) :
                      [s EXCEPT ![Len(s)] = n][j] = IF j = Len(s) THEN n ELSE s[j]
    <2>1. Len(s) \in 1 .. Len(s)
      BY <1>4
    <2> QED BY <2>1, ExceptSeq
  <1>5. ASSUME Len(s) > 0
        PROVE  [s EXCEPT ![Len(s)] = n] = Append(Front(s), n)
    <2> DEFINE e == [s EXCEPT ![Len(s)] = n]
               f == Front(s)
               g == Append(f, n)
    <2>1. /\ e \in Seq(Nat) /\ Len(e) = Len(s)
          /\ \A j \in 1 .. Len(s) : e[j] = IF j = Len(s) THEN n ELSE s[j]
      BY <1>4, <1>5
    <2>2. f \in Seq(Nat) /\ Len(f) = Len(s) - 1 /\ \A i \in 1 .. Len(s) - 1 : f[i] = s[i]
      BY <1>3, <1>5
    <2> HIDE DEF e, f
    <2>3. /\ g \in Seq(Nat) /\ Len(g) = Len(s) /\ g[Len(s)] = n
          /\ \A i \in 1 .. Len(s) - 1 : g[i] = f[i]
      BY <2>2
    <2> HIDE DEF g
    <2>4. \A j \in 1 .. Len(e) : e[j] = g[j]
      <3>1. Len(s) \in Nat
        OBVIOUS
      <3>2. \A j \in 1 .. Len(s) : j = Len(s) \/ j \in 1 .. Len(s) - 1
        BY <3>1
      <3> QED BY <2>1, <2>2, <2>3, <3>2
    <2>5. e = g
      BY <2>1, <2>3, <2>4, SeqEqual
    <2> QED BY <2>5 DEF e, f, g
  <1> QED BY <1>1, <1>2, <1>3, <1>4, <1>5

-----------------------------------------------------------------------------
(* The mapping, call by call *)

\* What AtomicPool sees of a call c when the pool of its class is p.
SeenResult(c, p) ==
    IF c.op = "take" /\ c.at \in {"file", "body"}
    THEN First(IF c.at = "file" THEN File(p, c.pending) ELSE p)
    ELSE IF c.op = "count" /\ c.at \in {"inbox", "holding"} THEN Front(c.res)
    ELSE c.res

SeenDone(c) == \/ c.op \in {"take", "return"} /\ c.at \in {"file", "body"}
               \/ c.at \in {"unlock", "done"}

SeenAs(op, class, arg, res, done) ==
    [op |-> op, class |-> class, arg |-> arg, res |-> res, done |-> done]

Seen(c, p) == SeenAs(c.op, IF c.op = "count" THEN 1 ELSE c.class, c.arg,
                     SeenResult(c, p), SeenDone(c))

\* What AtomicPool sees of a pool p whose mutex is held by call c.
SeenPool(p, c) ==
    IF c.op \in {"take", "return"} /\ c.at \in {"file", "body"}
    THEN LET q == IF c.at = "file" THEN File(p, c.pending) ELSE p
         IN  IF c.op = "take" THEN Rest(q) ELSE File(q, c.arg)
    ELSE p

APool == [k \in Classes |-> AbstractList(k)]
ACall == [t \in Threads |-> AbstractCall(t)]

\* The mapping of a call depends on the call and on the pool of its class only.
LEMMA CallIsSeen ==
    ASSUME NEW t \in Threads
    PROVE  /\ AbstractCall(t) = Seen(call[t], lists[call[t].class])
           /\ AbstractCall(t)' = Seen(call'[t], lists'[call'[t].class])
  <1>1. AbstractResult(t) = SeenResult(call[t], lists[call[t].class])
    BY DEF AbstractResult, SeenResult, Determined, WithPending
  <1>2. AbstractResult(t)' = SeenResult(call'[t], lists'[call'[t].class])
    BY DEF AbstractResult, SeenResult, Determined, WithPending
  <1> QED BY <1>1, <1>2 DEF AbstractCall, Seen, SeenAs, SeenDone, Determined

\* The mapping of a pool depends on it and on the call that holds its mutex only.
LEMMA PoolIsSeen ==
    ASSUME NEW k \in Classes
    PROVE  /\ AbstractList(k) = IF lists_by[k] = NoThread THEN lists[k]
                                ELSE SeenPool(lists[k], call[lists_by[k]])
           /\ AbstractList(k)' = IF lists_by'[k] = NoThread THEN lists'[k]
                                 ELSE SeenPool(lists'[k], call'[lists_by'[k]])
  BY DEF AbstractList, SeenPool, Determined, WithPending

-----------------------------------------------------------------------------
(* One step of one thread *)

\* Thread t goes on with class k: its call becomes d, the pool p and its holder h.  A
\* pool that another thread holds is left alone.
Step(t, k, d, p, h) ==
    /\ call' = [call EXCEPT ![t] = d]
    /\ lists' = [lists EXCEPT ![k] = p]
    /\ lists_by' = [lists_by EXCEPT ![k] = h]
    /\ \/ lists_by[k] \in {t, NoThread} /\ h \in {t, NoThread}
       \/ p = lists[k] /\ h = lists_by[k]
    /\ \A j \in Classes : lists_by[j] = t => j = k

\* The step leaves types, the mutex of the pool and the results of the call in order.
Good(t, k, d, p, h) ==
    /\ d \in Call /\ WellPlaced(d) /\ p \in Seq(Blocks) /\ h \in Threads \cup {NoThread}
    /\ h = t <=> d.class = k /\ InSection(d)
    /\ d.class # k => ~InSection(d)
    /\ Found(d, lists'[d.class])
    /\ inbox' \in [Classes -> Seq(Blocks)]
    /\ inbox_by' \in [Classes -> Threads \cup {NoThread}]
    /\ fresh' \subseteq Blocks /\ out' \subseteq Blocks

\* What AtomicPool sees of the pool then, if it saw a before.
After(t, d, p, h, a) == IF h = NoThread THEN p ELSE IF h = t THEN SeenPool(p, d) ELSE a

\* A step that leaves its own call in order keeps the mutexes exclusive and all results
\* right, and AtomicPool sees nothing of it but thread t's call and the pool of class k.
LEMMA StepKeeps ==
    ASSUME LockInv, NEW t \in Threads, NEW k \in Classes, NEW d, NEW p, NEW h,
           Step(t, k, d, p, h), Good(t, k, d, p, h)
    PROVE  /\ LockInv'
           /\ ACall' = [ACall EXCEPT ![t] = Seen(d, lists'[d.class])]
           /\ APool' = [APool EXCEPT ![k] = After(t, d, p, h, APool[k])]
  <1> USE DEF Good
  <1>0. /\ NoThread \notin Threads /\ t # NoThread
        /\ lists \in [Classes -> Seq(Blocks)] /\ lists_by \in [Classes -> Threads \cup {NoThread}]
        /\ call \in [Threads -> Call]
        /\ \A u \in Threads : WellPlaced(call[u])
    BY PoolLocksAssumption DEF LockInv, Typed
  <1>1. /\ lists'[k] = p /\ lists_by'[k] = h /\ call'[t] = d
        /\ \A j \in Classes \ {k} : lists'[j] = lists[j] /\ lists_by'[j] = lists_by[j]
        /\ \A u \in Threads \ {t} : call'[u] = call[u]
    BY <1>0 DEF Step
  <1>2. Typed'
    BY <1>0, <1>1 DEF Step, Typed
  <1>3. ASSUME NEW u \in Threads \ {t}, NEW j \in Classes, lists_by[j] = u
        PROVE  lists'[j] = lists[j] /\ lists_by'[j] = u
    BY <1>0, <1>1, <1>3 DEF Step
  <1>4. ASSUME NEW u \in Threads \ {t}, NEW j \in Classes, lists_by'[j] = u
        PROVE  lists_by[j] = u
    BY <1>0, <1>1, <1>4 DEF Step
  <1>5. Exclusive'
    <2> SUFFICES ASSUME NEW j \in Classes, NEW u \in Threads
                 PROVE  lists_by'[j] = u <=> call'[u].class = j /\ InSection(call'[u])
      BY DEF Exclusive
    <2>1. CASE u # t
      <3>1. lists_by[j] = u <=> call[u].class = j /\ InSection(call[u])
        BY DEF LockInv, Exclusive
      <3> QED BY <2>1, <3>1, <1>1, <1>3, <1>4
    <2>2. CASE u = t /\ j = k
      BY <2>2, <1>1
    <2>3. CASE u = t /\ j # k
      BY <2>3, <1>1 DEF Step
    <2> QED BY <2>1, <2>2, <2>3
  <1>6. ASSUME NEW u \in Threads \ {t}
        PROVE  \/ lists'[call[u].class] = lists[call[u].class]
               \/ ~InSection(call[u])
    <2>1. call[u].class \in Classes
      BY <1>0 DEF Call
    <2>2. InSection(call[u]) => lists_by[call[u].class] = u
      BY <2>1 DEF LockInv, Exclusive
    <2> QED BY <2>1, <2>2, <1>3
  <1>7. Results'
    <2> SUFFICES ASSUME NEW u \in Threads PROVE Found(call'[u], lists'[call'[u].class])
      BY DEF Results
    <2>1. CASE u # t
      <3>1. Found(call[u], lists[call[u].class])
        BY DEF LockInv, Results
      <3>2. Found(call[u], lists'[call[u].class])
        BY <3>1, <1>6, <2>1 DEF Found, InSection
      <3> QED BY <3>2, <2>1, <1>1
    <2>2. CASE u = t
      BY <2>2, <1>1
    <2> QED BY <2>1, <2>2
  <1>8. ACall' = [ACall EXCEPT ![t] = Seen(d, lists'[d.class])]
    <2>1. ASSUME NEW u \in Threads \ {t} PROVE AbstractCall(u)' = AbstractCall(u)
      <3>1. Seen(call[u], lists'[call[u].class]) = Seen(call[u], lists[call[u].class])
        BY <1>6 DEF Seen, SeenResult, InSection
      <3> QED BY <3>1, <1>1, CallIsSeen
    <2>2. AbstractCall(t)' = Seen(d, lists'[d.class])
      BY <1>1, CallIsSeen
    <2> QED BY <2>1, <2>2 DEF ACall
  <1>9. APool' = [APool EXCEPT ![k] = After(t, d, p, h, APool[k])]
    <2>1. ASSUME NEW j \in Classes \ {k} PROVE AbstractList(j)' = AbstractList(j)
      <3>1. lists_by[j] # NoThread => call'[lists_by[j]] = call[lists_by[j]]
        BY <1>0, <1>1 DEF Step
      <3>2. /\ lists'[j] = lists[j] /\ lists_by'[j] = lists_by[j]
            /\ AbstractList(j) = IF lists_by[j] = NoThread THEN lists[j]
                                 ELSE SeenPool(lists[j], call[lists_by[j]])
            /\ AbstractList(j)' = IF lists_by'[j] = NoThread THEN lists'[j]
                                  ELSE SeenPool(lists'[j], call'[lists_by'[j]])
        BY <1>1, PoolIsSeen
      <3> QED BY <3>1, <3>2
    <2>2. AbstractList(k)' = IF h = NoThread THEN p
                             ELSE IF h = t THEN SeenPool(p, d) ELSE AbstractList(k)
      <3>1. CASE h \in {t, NoThread}
        BY <3>1, <1>0, <1>1, PoolIsSeen
      <3>2. CASE h \notin {t, NoThread}
        <4>1. h \in Threads \ {t} /\ p = lists[k] /\ h = lists_by[k]
          BY <3>2 DEF Step
        <4>2. /\ lists'[k] = lists[k] /\ lists_by'[k] = h /\ call'[h] = call[h]
              /\ h # NoThread /\ h # t
          BY <4>1, <1>0, <1>1
        <4>3. /\ AbstractList(k) = IF lists_by[k] = NoThread THEN lists[k]
                                   ELSE SeenPool(lists[k], call[lists_by[k]])
              /\ AbstractList(k)' = IF lists_by'[k] = NoThread THEN lists'[k]
                                    ELSE SeenPool(lists'[k], call'[lists_by'[k]])
          BY PoolIsSeen
        <4> QED BY <4>1, <4>2, <4>3
      <3> QED BY <3>1, <3>2
    <2> QED BY <2>1, <2>2 DEF APool, After
  <1> QED BY <1>2, <1>5, <1>7, <1>8, <1>9 DEF LockInv

\* What the invariant says about the call of one thread.
LEMMA OwnCall ==
    ASSUME LockInv, NEW t \in Threads
    PROVE  /\ call \in [Threads -> Call] /\ call[t] \in Call /\ WellPlaced(call[t])
           /\ call[t].class \in Classes
           /\ Found(call[t], lists[call[t].class])
           /\ lists_by[call[t].class] = t <=> InSection(call[t])
           /\ \A j \in Classes : lists_by[j] = t => j = call[t].class
           /\ ACall[t] = Seen(call[t], lists[call[t].class])
  <1>1. call \in [Threads -> Call] /\ WellPlaced(call[t])
    BY DEF LockInv, Typed
  <1>2. call[t] \in Call /\ call[t].class \in Classes
    BY <1>1 DEF Call
  <1>3. /\ lists_by[call[t].class] = t <=> InSection(call[t])
        /\ \A j \in Classes : lists_by[j] = t => j = call[t].class
    BY <1>2 DEF LockInv, Exclusive
  <1>4. Found(call[t], lists[call[t].class])
    BY DEF LockInv, Results
  <1>5. ACall[t] = Seen(call[t], lists[call[t].class])
    BY CallIsSeen DEF ACall
  <1> QED BY <1>1, <1>2, <1>3, <1>4, <1>5

\* What the invariant says about one pool.
LEMMA OnePool ==
    ASSUME LockInv, NEW k \in Classes
    PROVE  /\ lists \in [Classes -> Seq(Blocks)] /\ lists[k] \in Seq(Blocks)
           /\ lists_by \in [Classes -> Threads \cup {NoThread}]
           /\ lists_by[k] \in Threads \cup {NoThread}
           /\ inbox \in [Classes -> Seq(Blocks)] /\ inbox[k] \in Seq(Blocks)
           /\ inbox_by \in [Classes -> Threads \cup {NoThread}]
           /\ fresh \subseteq Blocks /\ out \subseteq Blocks
           /\ APool[k] = IF lists_by[k] = NoThread THEN lists[k]
                         ELSE SeenPool(lists[k], call[lists_by[k]])
  <1>1. APool[k] = IF lists_by[k] = NoThread THEN lists[k]
                   ELSE SeenPool(lists[k], call[lists_by[k]])
    BY PoolIsSeen DEF APool
  <1> QED BY <1>1 DEF LockInv, Typed

\* Nothing happens, as AtomicPool sees it.
Stutters == /\ ACall' = ACall /\ APool' = APool
            /\ inbox' = inbox /\ fresh' = fresh /\ out' = out

\* A step that changes nothing AtomicPool sees of its call and of its pool.
LEMMA StepStutters ==
    ASSUME LockInv, NEW t \in Threads, NEW d, NEW p, NEW h,
           Step(t, call[t].class, d, p, h), Good(t, call[t].class, d, p, h),
           inbox' = inbox, fresh' = fresh, out' = out,
           Seen(d, lists'[d.class]) = Seen(call[t], lists[call[t].class]),
           h \in {t, NoThread} =>
             (IF h = t THEN SeenPool(p, d) ELSE p)
               = (IF lists_by[call[t].class] = NoThread THEN lists[call[t].class]
                  ELSE SeenPool(lists[call[t].class], call[t]))
    PROVE  LockInv' /\ Stutters
  <1> DEFINE k == call[t].class
  <1>1. k \in Classes
    BY OwnCall
  <1> HIDE DEF k
  <1>2. /\ LockInv'
        /\ ACall' = [ACall EXCEPT ![t] = Seen(d, lists'[d.class])]
        /\ APool' = [APool EXCEPT ![k] = After(t, d, p, h, APool[k])]
    <2>1. Step(t, k, d, p, h) /\ Good(t, k, d, p, h)
      BY DEF k
    <2> QED BY ONLY <1>1, <2>1, StepKeeps, LockInv, t \in Threads
  <1>3. ACall' = ACall
    <2>1. ACall[t] = Seen(call[t], lists[k])
      BY OwnCall DEF k
    <2> QED BY <2>1, <1>2 DEF ACall, k
  <1>4. NoThread # t
    BY PoolLocksAssumption
  <1>5. ASSUME h \in {t, NoThread} PROVE lists_by[k] \in {t, NoThread}
    BY <1>5 DEF Step, k
  <1>6. APool' = APool
    <2>1. APool[k] = IF lists_by[k] = NoThread THEN lists[k]
                     ELSE SeenPool(lists[k], call[lists_by[k]])
      BY <1>1, OnePool
    <2>2. CASE h \in {t, NoThread}
      <3>1. APool[k] = (IF h = NoThread THEN p ELSE SeenPool(p, d))
        BY <2>1, <2>2, <1>4, <1>5 DEF k
      <3> QED BY <3>1, <2>2, <1>2, <1>4 DEF APool, After
    <2>3. CASE h \notin {t, NoThread}
      BY <2>3, <1>2 DEF APool, After
    <2> QED BY <2>2, <2>3
  <1> QED BY <1>2, <1>3, <1>6 DEF Stutters


-----------------------------------------------------------------------------
(* The steps that AtomicPool does not see *)

\* Locking a class mutex that is free.
LEMMA LockListsStep ==
    ASSUME LockInv, NEW t \in Threads, LockLists(t)
    PROVE  LockInv' /\ Stutters
  <1> DEFINE k == call[t].class
             at == IF call[t].op \in {"register", "count"} THEN "body" ELSE "inbox"
             d == [call[t] EXCEPT !.at = at]
             p == lists[k]
  <1>1. /\ call \in [Threads -> Call] /\ call[t] \in Call /\ WellPlaced(call[t]) /\ k \in Classes
        /\ Found(call[t], p) /\ \A j \in Classes : lists_by[j] = t => j = k
    BY OwnCall
  <1>2. /\ lists \in [Classes -> Seq(Blocks)] /\ lists_by \in [Classes -> Threads \cup {NoThread}]
        /\ NoThread \notin Threads
    BY PoolLocksAssumption DEF LockInv, Typed
  <1>3. /\ call[t].at = "lists" /\ lists_by[k] = NoThread
        /\ call[t].op \in {"register", "take", "return", "count"}
        /\ call' = [call EXCEPT ![t] = d] /\ lists' = lists
        /\ lists_by' = [lists_by EXCEPT ![k] = t]
    BY <1>1 DEF LockLists, Goto, WellPlaced, Call, Ops
  <1>4. /\ d \in Call /\ d.at = at /\ d.op = call[t].op /\ d.class = k
        /\ d.res = call[t].res /\ d.arg = call[t].arg /\ d.pending = call[t].pending
    BY <1>1 DEF Call
  <1> HIDE DEF d
  <1>5. Step(t, k, d, p, t)
    BY <1>1, <1>2, <1>3 DEF Step
  <1>6. Good(t, k, d, p, t)
    <2>1. WellPlaced(d) /\ InSection(d)
      BY <1>3, <1>4 DEF WellPlaced, InSection
    <2>2. Found(d, p)
      BY <1>1, <1>3, <1>4 DEF Found
    <2> QED BY <1>1, <1>2, <1>3, <1>4, <2>1, <2>2 DEF Good, LockInv, Typed, LockLists
  <1>7. Seen(d, p) = Seen(call[t], p) /\ SeenPool(p, d) = p
    BY <1>3, <1>4 DEF Seen, SeenResult, SeenDone, SeenPool
  <1>8. inbox' = inbox /\ fresh' = fresh /\ out' = out
    BY DEF LockLists
  <1> QED BY <1>3, <1>4, <1>5, <1>6, <1>7, <1>8, StepStutters

\* Locking an inbox mutex that is free, with or without the class mutex.
LEMMA LockInboxStep ==
    ASSUME LockInv, NEW t \in Threads, LockInbox(t)
    PROVE  LockInv' /\ Stutters
  <1> DEFINE k == call[t].class
             d == [call[t] EXCEPT !.at = "holding"]
             p == lists[k]
             h == lists_by[k]
  <1>1. /\ call \in [Threads -> Call] /\ call[t] \in Call /\ WellPlaced(call[t]) /\ k \in Classes
        /\ Found(call[t], p) /\ \A j \in Classes : lists_by[j] = t => j = k
        /\ h = t <=> InSection(call[t])
    BY OwnCall
  <1>2. /\ lists \in [Classes -> Seq(Blocks)] /\ lists_by \in [Classes -> Threads \cup {NoThread}]
        /\ inbox_by \in [Classes -> Threads \cup {NoThread}]
        /\ NoThread \notin Threads
    BY PoolLocksAssumption DEF LockInv, Typed
  <1>3. /\ call[t].at = "inbox" /\ call[t].op \in {"take", "return", "publish", "count"}
        /\ call' = [call EXCEPT ![t] = d] /\ lists' = lists /\ lists_by' = lists_by
        /\ inbox_by' \in [Classes -> Threads \cup {NoThread}]
    BY <1>1, <1>2 DEF LockInbox, Goto, WellPlaced, Call, Ops
  <1>4. /\ d \in Call /\ d.at = "holding" /\ d.op = call[t].op /\ d.class = k
        /\ d.res = call[t].res /\ d.arg = call[t].arg /\ d.pending = call[t].pending
    BY <1>1 DEF Call
  <1> HIDE DEF d
  <1>5. Step(t, k, d, p, h)
    BY <1>1, <1>2, <1>3 DEF Step
  <1>6. Good(t, k, d, p, h)
    <2>1. WellPlaced(d) /\ (InSection(d) <=> InSection(call[t]))
      BY <1>3, <1>4 DEF WellPlaced, InSection
    <2>2. Found(d, p)
      BY <1>1, <1>3, <1>4 DEF Found
    <2> QED BY <1>1, <1>2, <1>3, <1>4, <2>1, <2>2 DEF Good, LockInv, Typed, LockInbox
  <1>7. Seen(d, p) = Seen(call[t], p) /\ SeenPool(p, d) = p /\ SeenPool(p, call[t]) = p
    BY <1>3, <1>4 DEF Seen, SeenResult, SeenDone, SeenPool
  <1>8. inbox' = inbox /\ fresh' = fresh /\ out' = out
    BY DEF LockInbox
  <1> QED BY <1>3, <1>4, <1>5, <1>6, <1>7, <1>8, StepStutters

\* What was pending is filed under the class mutex: AtomicPool saw it filed already.
LEMMA FilePendingStep ==
    ASSUME LockInv, NEW t \in Threads, FilePending(t)
    PROVE  LockInv' /\ Stutters
  <1> DEFINE k == call[t].class
             d == [call[t] EXCEPT !.pending = <<>>, !.at = "body"]
             p == File(lists[k], call[t].pending)
  <1>1. /\ call \in [Threads -> Call] /\ call[t] \in Call /\ WellPlaced(call[t]) /\ k \in Classes
        /\ Found(call[t], lists[k]) /\ \A j \in Classes : lists_by[j] = t => j = k
        /\ lists_by[k] = t <=> InSection(call[t])
    BY OwnCall
  <1>2. /\ lists \in [Classes -> Seq(Blocks)] /\ lists_by \in [Classes -> Threads \cup {NoThread}]
        /\ NoThread \notin Threads
    BY PoolLocksAssumption DEF LockInv, Typed
  <1>3. /\ call[t].at = "file" /\ call[t].op \in {"take", "return"} /\ lists_by[k] = t
        /\ call' = [call EXCEPT ![t] = d] /\ lists' = [lists EXCEPT ![k] = p]
        /\ lists_by' = lists_by
    BY <1>1 DEF FilePending, WellPlaced, Call, Ops, InSection
  <1>4. /\ d \in Call /\ d.at = "body" /\ d.op = call[t].op /\ d.class = k
        /\ d.res = call[t].res /\ d.arg = call[t].arg
    <2>1. <<>> \in Seq(Blocks)
      OBVIOUS
    <2> DEFINE e == <<>>
    <2>2. e \in Seq(Blocks)
      BY <2>1
    <2> HIDE DEF e
    <2>3. LET f == [call[t] EXCEPT !.pending = e, !.at = "body"]
          IN  /\ f \in Call /\ f.at = "body" /\ f.op = call[t].op /\ f.class = k
              /\ f.res = call[t].res /\ f.arg = call[t].arg
      BY <1>1, <2>2 DEF Call
    <2> QED BY <2>3 DEF e
  <1>5. p \in Seq(Blocks)
    BY <1>1, <1>2, ListsTyped DEF Call
  <1> HIDE DEF d, p
  <1>6. Step(t, k, d, p, t)
    BY <1>1, <1>2, <1>3 DEF Step
  <1>7. Good(t, k, d, p, t)
    <2>1. WellPlaced(d) /\ InSection(d)
      BY <1>3, <1>4 DEF WellPlaced, InSection
    <2>2. Found(d, lists'[d.class])
      BY <1>1, <1>3, <1>4 DEF Found
    <2> QED BY <1>1, <1>2, <1>3, <1>4, <1>5, <2>1, <2>2 DEF Good, LockInv, Typed, FilePending
  <1>8. lists'[k] = p
    BY <1>1, <1>2, <1>3
  <1>9. Seen(d, p) = Seen(call[t], lists[k]) /\ SeenPool(p, d) = SeenPool(lists[k], call[t])
    BY <1>3, <1>4 DEF Seen, SeenResult, SeenDone, SeenPool, p
  <1>10. inbox' = inbox /\ fresh' = fresh /\ out' = out /\ t # NoThread
    BY <1>2 DEF FilePending
  <1> QED BY <1>3, <1>4, <1>6, <1>7, <1>8, <1>9, <1>10, StepStutters

\* Blocks leave the pool: AtomicPool saw them leave when the inbox was emptied.
LEMMA TakeBodyStep ==
    ASSUME LockInv, NEW t \in Threads, TakeBody(t)
    PROVE  LockInv' /\ Stutters
  <1> DEFINE k == call[t].class
             r == First(lists[k])
             d == [call[t] EXCEPT !.res = r, !.at = "unlock"]
             p == Rest(lists[k])
  <1>1. /\ call \in [Threads -> Call] /\ call[t] \in Call /\ WellPlaced(call[t]) /\ k \in Classes
        /\ \A j \in Classes : lists_by[j] = t => j = k
        /\ lists_by[k] = t <=> InSection(call[t])
    BY OwnCall
  <1>2. /\ lists \in [Classes -> Seq(Blocks)] /\ lists_by \in [Classes -> Threads \cup {NoThread}]
        /\ NoThread \notin Threads
    BY PoolLocksAssumption DEF LockInv, Typed
  <1>3. p \in Seq(Blocks) /\ r \in Seq(Blocks)
    BY <1>1, <1>2, ListsTyped
  <1> HIDE DEF p, r
  <1>4. /\ call[t].at = "body" /\ call[t].op = "take" /\ lists_by[k] = t
        /\ call' = [call EXCEPT ![t] = d] /\ lists' = [lists EXCEPT ![k] = p]
        /\ lists_by' = lists_by
    BY <1>1 DEF TakeBody, At, Call, InSection, p, r
  <1>5. /\ d \in Call /\ d.at = "unlock" /\ d.op = "take" /\ d.class = k
        /\ d.res = r /\ d.arg = call[t].arg
    BY <1>1, <1>3, <1>4 DEF Call
  <1> HIDE DEF d
  <1>6. Step(t, k, d, p, t)
    BY <1>1, <1>2, <1>4 DEF Step
  <1>7. Good(t, k, d, p, t)
    <2>1. WellPlaced(d) /\ InSection(d) /\ Found(d, lists'[d.class])
      BY <1>3, <1>5 DEF WellPlaced, InSection, Found
    <2> QED BY <1>1, <1>2, <1>3, <1>4, <1>5, <2>1 DEF Good, LockInv, Typed, TakeBody
  <1>8. lists'[k] = p
    BY <1>1, <1>2, <1>4
  <1>9. Seen(d, p) = Seen(call[t], lists[k]) /\ SeenPool(p, d) = SeenPool(lists[k], call[t])
    BY <1>4, <1>5 DEF Seen, SeenResult, SeenDone, SeenPool, p, r
  <1>10. inbox' = inbox /\ fresh' = fresh /\ out' = out /\ t # NoThread
    BY <1>2 DEF TakeBody
  <1> QED BY <1>4, <1>5, <1>6, <1>7, <1>8, <1>9, <1>10, StepStutters

\* The batch of the caller is filed: AtomicPool saw that when the inbox was emptied.
LEMMA ReturnBodyStep ==
    ASSUME LockInv, NEW t \in Threads, ReturnBody(t)
    PROVE  LockInv' /\ Stutters
  <1> DEFINE k == call[t].class
             d == [call[t] EXCEPT !.at = "unlock"]
             p == File(lists[k], call[t].arg)
  <1>1. /\ call \in [Threads -> Call] /\ call[t] \in Call /\ WellPlaced(call[t]) /\ k \in Classes
        /\ Found(call[t], lists[k]) /\ \A j \in Classes : lists_by[j] = t => j = k
        /\ lists_by[k] = t <=> InSection(call[t])
    BY OwnCall
  <1>2. /\ lists \in [Classes -> Seq(Blocks)] /\ lists_by \in [Classes -> Threads \cup {NoThread}]
        /\ NoThread \notin Threads
    BY PoolLocksAssumption DEF LockInv, Typed
  <1>3. p \in Seq(Blocks)
    BY <1>1, <1>2, ListsTyped DEF Call
  <1> HIDE DEF p
  <1>4. /\ call[t].at = "body" /\ call[t].op = "return" /\ lists_by[k] = t
        /\ call' = [call EXCEPT ![t] = d] /\ lists' = [lists EXCEPT ![k] = p]
        /\ lists_by' = lists_by
    BY <1>1 DEF ReturnBody, At, Goto, Call, InSection, p
  <1>5. /\ d \in Call /\ d.at = "unlock" /\ d.op = "return" /\ d.class = k
        /\ d.res = call[t].res /\ d.arg = call[t].arg
    BY <1>1, <1>4 DEF Call
  <1> HIDE DEF d
  <1>6. Step(t, k, d, p, t)
    BY <1>1, <1>2, <1>4 DEF Step
  <1>7. Good(t, k, d, p, t)
    <2>1. WellPlaced(d) /\ InSection(d) /\ Found(d, lists'[d.class])
      BY <1>1, <1>4, <1>5 DEF WellPlaced, InSection, Found
    <2> QED BY <1>1, <1>2, <1>3, <1>4, <1>5, <2>1 DEF Good, LockInv, Typed, ReturnBody
  <1>8. lists'[k] = p
    BY <1>1, <1>2, <1>4
  <1>9. Seen(d, p) = Seen(call[t], lists[k]) /\ SeenPool(p, d) = SeenPool(lists[k], call[t])
    BY <1>4, <1>5 DEF Seen, SeenResult, SeenDone, SeenPool, p
  <1>10. inbox' = inbox /\ fresh' = fresh /\ out' = out /\ t # NoThread
    BY <1>2 DEF ReturnBody
  <1> QED BY <1>4, <1>5, <1>6, <1>7, <1>8, <1>9, <1>10, StepStutters

\* The pool of a class is counted; the count is not told before the inbox is added.
LEMMA CountListsStep ==
    ASSUME LockInv, NEW t \in Threads, CountLists(t)
    PROVE  LockInv' /\ Stutters
  <1> DEFINE k == call[t].class
             p == lists[k]
             r == Append(call[t].res, Len(p))
             d == [call[t] EXCEPT !.res = r, !.at = "inbox"]
  <1>1. /\ call \in [Threads -> Call] /\ call[t] \in Call /\ WellPlaced(call[t]) /\ k \in Classes
        /\ Found(call[t], p) /\ \A j \in Classes : lists_by[j] = t => j = k
        /\ lists_by[k] = t <=> InSection(call[t])
    BY OwnCall
  <1>2. /\ lists \in [Classes -> Seq(Blocks)] /\ lists_by \in [Classes -> Threads \cup {NoThread}]
        /\ NoThread \notin Threads
    BY PoolLocksAssumption DEF LockInv, Typed
  <1>3. /\ call[t].at = "body" /\ call[t].op = "count" /\ lists_by[k] = t
        /\ call' = [call EXCEPT ![t] = d] /\ lists' = lists /\ lists_by' = lists_by
    BY <1>1 DEF CountLists, At, Call, InSection
  <1>4. call[t].res \in Seq(Nat) /\ Len(call[t].res) = k - 1 /\ k \in Nat /\ Len(p) \in Nat
    BY <1>1, <1>2, <1>3, PoolLocksAssumption DEF Found, Classes
  <1>5. r \in Seq(Nat) /\ Len(r) = k /\ r[k] = Len(p) /\ Front(r) = call[t].res
    <2>1. /\ r \in Seq(Nat) /\ Len(r) = Len(call[t].res) + 1
          /\ r[Len(call[t].res) + 1] = Len(p) /\ Front(r) = call[t].res
      BY <1>4, CountsTyped
    <2>2. Len(call[t].res) + 1 = k
      BY <1>4
    <2> QED BY <2>1, <2>2
  <1> HIDE DEF r
  <1>6. /\ d \in Call /\ d.at = "inbox" /\ d.op = "count" /\ d.class = k
        /\ d.res = r /\ d.arg = call[t].arg
    BY <1>1, <1>3, <1>5 DEF Call
  <1> HIDE DEF d
  <1>7. Step(t, k, d, p, t)
    BY <1>1, <1>2, <1>3 DEF Step
  <1>8. Good(t, k, d, p, t)
    <2>1. WellPlaced(d) /\ InSection(d) /\ Found(d, p)
      BY <1>5, <1>6 DEF WellPlaced, InSection, Found
    <2> QED BY <1>1, <1>2, <1>3, <1>6, <2>1 DEF Good, LockInv, Typed, CountLists
  <1>9. Seen(d, p) = Seen(call[t], p) /\ SeenPool(p, d) = SeenPool(p, call[t])
    BY <1>3, <1>5, <1>6 DEF Seen, SeenResult, SeenDone, SeenPool
  <1>10. inbox' = inbox /\ fresh' = fresh /\ out' = out /\ t # NoThread
    BY <1>2 DEF CountLists
  <1> QED BY <1>3, <1>6, <1>7, <1>8, <1>9, <1>10, StepStutters

\* The class mutex is released after the work.
LEMMA UnlockStep ==
    ASSUME LockInv, NEW t \in Threads, Unlock(t)
    PROVE  LockInv' /\ Stutters
  <1> DEFINE k == call[t].class
             d == [call[t] EXCEPT !.at = "done"]
             p == lists[k]
  <1>1. /\ call \in [Threads -> Call] /\ call[t] \in Call /\ WellPlaced(call[t]) /\ k \in Classes
        /\ Found(call[t], p) /\ \A j \in Classes : lists_by[j] = t => j = k
        /\ lists_by[k] = t <=> InSection(call[t])
    BY OwnCall
  <1>2. /\ lists \in [Classes -> Seq(Blocks)] /\ lists_by \in [Classes -> Threads \cup {NoThread}]
        /\ NoThread \notin Threads
    BY PoolLocksAssumption DEF LockInv, Typed
  <1>3. /\ call[t].at = "unlock" /\ call[t].op \in {"register", "take", "return"}
        /\ lists_by[k] = t /\ call' = [call EXCEPT ![t] = d] /\ lists' = lists
        /\ lists_by' = [lists_by EXCEPT ![k] = NoThread]
    BY <1>1 DEF Unlock, Goto, Call, InSection, WellPlaced, Ops
  <1>4. /\ d \in Call /\ d.at = "done" /\ d.op = call[t].op /\ d.class = k
        /\ d.res = call[t].res /\ d.arg = call[t].arg
    BY <1>1 DEF Call
  <1> HIDE DEF d
  <1>5. Step(t, k, d, p, NoThread)
    BY <1>1, <1>2, <1>3 DEF Step
  <1>6. Good(t, k, d, p, NoThread)
    <2>1. WellPlaced(d) /\ ~InSection(d) /\ Found(d, p)
      BY <1>1, <1>3, <1>4 DEF WellPlaced, InSection, Found
    <2> QED BY <1>1, <1>2, <1>3, <1>4, <2>1 DEF Good, LockInv, Typed, Unlock
  <1>7. Seen(d, p) = Seen(call[t], p) /\ SeenPool(p, call[t]) = p
    BY <1>3, <1>4 DEF Seen, SeenResult, SeenDone, SeenPool
  <1>8. inbox' = inbox /\ fresh' = fresh /\ out' = out /\ t # NoThread
    BY <1>2 DEF Unlock
  <1> QED BY <1>3, <1>4, <1>5, <1>6, <1>7, <1>8, StepStutters

-----------------------------------------------------------------------------
(* The steps at which a call takes effect *)

\* The operators of the two modules agree.
LEMMA SameOperators ==
    ASSUME NEW p, NEW q
    PROVE  /\ Atomic!File(p, q) = File(p, q)
           /\ Atomic!First(p) = First(p)
           /\ Atomic!Rest(p) = Rest(p)
  BY DEF Atomic!File, Atomic!First, Atomic!Rest, Atomic!Reverse, File, First, Rest, Reverse

\* Setting the operation of what AtomicPool sees of a call.
LEMMA SetOp ==
    ASSUME NEW op, NEW class, NEW arg, NEW res, NEW done, NEW x
    PROVE  [SeenAs(op, class, arg, res, done) EXCEPT !.op = x]
             = SeenAs(x, class, arg, res, done)
  BY DEF SeenAs

\* Setting the class of what AtomicPool sees of a call.
LEMMA SetClass ==
    ASSUME NEW op, NEW class, NEW arg, NEW res, NEW done, NEW x
    PROVE  [SeenAs(op, class, arg, res, done) EXCEPT !.class = x]
             = SeenAs(op, x, arg, res, done)
  BY DEF SeenAs

\* Setting the argument of what AtomicPool sees of a call.
LEMMA SetArg ==
    ASSUME NEW op, NEW class, NEW arg, NEW res, NEW done, NEW x
    PROVE  [SeenAs(op, class, arg, res, done) EXCEPT !.arg = x]
             = SeenAs(op, class, x, res, done)
  BY DEF SeenAs

\* Setting the result of what AtomicPool sees of a call.
LEMMA SetRes ==
    ASSUME NEW op, NEW class, NEW arg, NEW res, NEW done, NEW x
    PROVE  [SeenAs(op, class, arg, res, done) EXCEPT !.res = x]
             = SeenAs(op, class, arg, x, done)
  BY DEF SeenAs

\* Setting the done flag of what AtomicPool sees of a call.
LEMMA SetDone ==
    ASSUME NEW op, NEW class, NEW arg, NEW res, NEW done, NEW x
    PROVE  [SeenAs(op, class, arg, res, done) EXCEPT !.done = x]
             = SeenAs(op, class, arg, res, x)
  BY DEF SeenAs

\* Function F of calls after thread t's call became c, and after it got the result x and
\* the done flag f.
With(F, t, c) == [F EXCEPT ![t] = c]
Answered(F, t, x, f) == [F EXCEPT ![t].res = x, ![t].done = f]

\* Setting the result and the done flag of a call is replacing the call as a whole.
LEMMA SetResult ==
    ASSUME NEW t \in Threads, NEW F, F = [u \in Threads |-> F[u]],
           NEW op, NEW class, NEW arg, NEW res, NEW done, NEW x, NEW f,
           F[t] = SeenAs(op, class, arg, res, done)
    PROVE  Answered(F, t, x, f) = [F EXCEPT ![t] = SeenAs(op, class, arg, x, f)]
  <1> DEFINE r == [F[t] EXCEPT !.res = x]
             G == [F EXCEPT ![t] = r]
  <1>1. [F EXCEPT ![t].res = x, ![t].done = f] = [G EXCEPT ![t].done = f]
    OBVIOUS
  <1>2. r = SeenAs(op, class, arg, x, done)
    BY SetRes
  <1> HIDE DEF r
  <1>3. G[t] = r /\ G = [u \in Threads |-> G[u]]
    OBVIOUS
  <1>4. [G EXCEPT ![t].done = f] = [G EXCEPT ![t] = [G[t] EXCEPT !.done = f]]
    OBVIOUS
  <1>5. [G[t] EXCEPT !.done = f] = SeenAs(op, class, arg, x, f)
    BY <1>2, <1>3, SetDone
  <1>6. [G EXCEPT ![t].done = f] = [G EXCEPT ![t] = SeenAs(op, class, arg, x, f)]
    BY <1>4, <1>5
  <1>7. [G EXCEPT ![t] = SeenAs(op, class, arg, x, f)]
          = [F EXCEPT ![t] = SeenAs(op, class, arg, x, f)]
    OBVIOUS
  <1> QED BY <1>1, <1>6, <1>7 DEF r, Answered

\* A call gets the result x, and is done if f.
LEMMA SeenDoneForm ==
    ASSUME NEW t \in Threads, NEW op, NEW class, NEW arg, NEW res, NEW done, NEW x, NEW f,
           ACall[t] = SeenAs(op, class, arg, res, done),
           ACall' = With(ACall, t, SeenAs(op, class, arg, x, f))
    PROVE  ACall' = Answered(ACall, t, x, f)
  <1>1. ACall = [u \in Threads |-> ACall[u]]
    BY DEF ACall
  <1> QED BY <1>1, SetResult DEF With

\* A slab is registered.
LEMMA RegisterBodyStep ==
    ASSUME LockInv, NEW t \in Threads, RegisterBody(t)
    PROVE  LockInv' /\ Atomic!Effect(t)
  <1> DEFINE k == call[t].class
             d == [call[t] EXCEPT !.res = call[t].arg, !.at = "unlock"]
             p == lists[k]
  <1>1. /\ call \in [Threads -> Call] /\ call[t] \in Call /\ k \in Classes
        /\ \A j \in Classes : lists_by[j] = t => j = k
        /\ lists_by[k] = t <=> InSection(call[t])
        /\ ACall[t] = Seen(call[t], p)
    BY OwnCall
  <1>2. /\ lists \in [Classes -> Seq(Blocks)] /\ lists_by \in [Classes -> Threads \cup {NoThread}]
        /\ NoThread \notin Threads
    BY PoolLocksAssumption DEF LockInv, Typed
  <1>3. /\ call[t].at = "body" /\ call[t].op = "register" /\ lists_by[k] = t
        /\ call' = [call EXCEPT ![t] = d] /\ lists' = lists /\ lists_by' = lists_by
    BY <1>1 DEF RegisterBody, At, Call, InSection
  <1>4. /\ d \in Call /\ d.at = "unlock" /\ d.op = "register" /\ d.class = k
        /\ d.res = call[t].arg /\ d.arg = call[t].arg
    BY <1>1, <1>3 DEF Call
  <1> HIDE DEF d
  <1>5. Step(t, k, d, p, t)
    BY <1>1, <1>2, <1>3 DEF Step
  <1>6. Good(t, k, d, p, t)
    <2>1. call[t].arg \in Seq(Blocks)
      BY <1>1 DEF Call
    <2>2. WellPlaced(d) /\ InSection(d) /\ Found(d, p)
      BY <1>4, <2>1 DEF WellPlaced, InSection, Found
    <2> QED BY <1>1, <1>2, <1>3, <1>4, <2>2 DEF Good, LockInv, Typed, RegisterBody
  <1>7. /\ LockInv'
        /\ ACall' = [ACall EXCEPT ![t] = Seen(d, lists'[d.class])]
        /\ APool' = [APool EXCEPT ![k] = After(t, d, p, t, APool[k])]
    BY ONLY <1>1, <1>5, <1>6, StepKeeps, LockInv, t \in Threads
  <1>8. APool' = APool
    <2>1. APool[k] = SeenPool(p, call[t])
      BY <1>1, <1>2, <1>3, OnePool
    <2>2. SeenPool(p, call[t]) = p /\ After(t, d, p, t, APool[k]) = p
      BY <1>2, <1>3, <1>4 DEF SeenPool, After
    <2> QED BY <1>7, <2>1, <2>2 DEF APool
  <1>9. ACall' = Answered(ACall, t, ACall[t].arg, TRUE)
    <2>1. /\ Seen(d, p) = SeenAs("register", k, call[t].arg, call[t].arg, TRUE)
          /\ ACall[t] = SeenAs("register", k, call[t].arg, call[t].res, FALSE)
      BY <1>1, <1>3, <1>4 DEF Seen, SeenResult, SeenDone
    <2>2. ACall[t].arg = call[t].arg
      BY <2>1 DEF SeenAs
    <2>3. ACall' = With(ACall, t, SeenAs("register", k, call[t].arg, call[t].arg, TRUE))
      BY <1>3, <1>4, <1>7, <2>1 DEF With
    <2> QED BY ONLY <2>1, <2>2, <2>3, SeenDoneForm, t \in Threads
  <1>10. ACall[t].op = "register" /\ ACall[t].done = FALSE
    BY <1>1, <1>3 DEF Seen, SeenAs, SeenDone
  <1>11. inbox' = inbox /\ fresh' = fresh /\ out' = out
    BY DEF RegisterBody
  <1>12. Atomic!Effect(t)
    BY <1>8, <1>9, <1>10, <1>11 DEF Atomic!Effect, Answered, ACall, APool
  <1> QED BY <1>7, <1>12

\* Emptying the inbox is the instant of a refill.
LEMMA TakePendingTakes ==
    ASSUME LockInv, NEW t \in Threads, TakePending(t), call[t].op = "take"
    PROVE  LockInv' /\ Atomic!Effect(t)
  <1> DEFINE k == call[t].class
             d == [call[t] EXCEPT !.pending = inbox[k], !.at = "file"]
             p == lists[k]
             q == File(p, inbox[k])
  <1>1. /\ call \in [Threads -> Call] /\ call[t] \in Call /\ k \in Classes
        /\ Found(call[t], p) /\ \A j \in Classes : lists_by[j] = t => j = k
        /\ lists_by[k] = t <=> InSection(call[t])
        /\ ACall[t] = Seen(call[t], p)
    BY OwnCall
  <1>2. /\ lists \in [Classes -> Seq(Blocks)] /\ lists_by \in [Classes -> Threads \cup {NoThread}]
        /\ inbox \in [Classes -> Seq(Blocks)] /\ inbox_by \in [Classes -> Threads \cup {NoThread}]
        /\ NoThread \notin Threads
    BY PoolLocksAssumption DEF LockInv, Typed
  <1>3. /\ call[t].at = "holding" /\ lists_by[k] = t
        /\ call' = [call EXCEPT ![t] = d] /\ lists' = lists /\ lists_by' = lists_by
        /\ inbox' = [inbox EXCEPT ![k] = <<>>]
    BY <1>1 DEF TakePending, Call, InSection
  <1>4. /\ d \in Call /\ d.at = "file" /\ d.op = "take" /\ d.class = k
        /\ d.pending = inbox[k] /\ d.arg = call[t].arg /\ d.res = call[t].res
    BY <1>1, <1>2, <1>3 DEF Call
  <1> HIDE DEF d
  <1>5. Step(t, k, d, p, t)
    BY <1>1, <1>2, <1>3 DEF Step
  <1>6. Good(t, k, d, p, t)
    <2>1. WellPlaced(d) /\ InSection(d) /\ Found(d, p)
      BY <1>1, <1>4 DEF WellPlaced, InSection, Found
    <2>2. inbox' \in [Classes -> Seq(Blocks)]
      BY <1>1, <1>2, <1>3
    <2>3. inbox_by' \in [Classes -> Threads \cup {NoThread}]
      BY <1>2 DEF TakePending
    <2> QED BY <1>1, <1>2, <1>3, <1>4, <2>1, <2>2, <2>3 DEF Good, LockInv, Typed, TakePending
  <1>7. /\ LockInv'
        /\ ACall' = [ACall EXCEPT ![t] = Seen(d, lists'[d.class])]
        /\ APool' = [APool EXCEPT ![k] = After(t, d, p, t, APool[k])]
    BY ONLY <1>1, <1>5, <1>6, StepKeeps, LockInv, t \in Threads
  <1>8. APool[k] = p /\ APool' = [APool EXCEPT ![k] = Rest(q)]
    <2>1. APool[k] = SeenPool(p, call[t])
      BY <1>1, <1>2, <1>3, OnePool
    <2>2. SeenPool(p, call[t]) = p
      BY <1>3 DEF SeenPool
    <2>3. After(t, d, p, t, APool[k]) = Rest(q)
      BY <1>2, <1>4 DEF SeenPool, After
    <2> QED BY <1>7, <2>1, <2>2, <2>3
  <1>9. ACall' = Answered(ACall, t, First(q), TRUE)
    <2>1. /\ Seen(d, p) = SeenAs("take", k, call[t].arg, First(q), TRUE)
          /\ ACall[t] = SeenAs("take", k, call[t].arg, call[t].res, FALSE)
      BY <1>1, <1>3, <1>4 DEF Seen, SeenResult, SeenDone
    <2>2. ACall' = With(ACall, t, SeenAs("take", k, call[t].arg, First(q), TRUE))
      BY <1>3, <1>4, <1>7, <2>1 DEF With
    <2> QED BY ONLY <2>1, <2>2, SeenDoneForm, t \in Threads
  <1>10. ACall[t].op = "take" /\ ACall[t].done = FALSE /\ ACall[t].class = k
    BY <1>1, <1>3 DEF Seen, SeenAs, SeenDone
  <1>11. fresh' = fresh /\ out' = out
    BY DEF TakePending
  <1>12. Atomic!Drained(k) = q
    BY <1>1, <1>8, SameOperators DEF Atomic!Drained, APool
  <1> HIDE DEF q, k
  <1>13. Atomic!First(q) = First(q) /\ Atomic!Rest(q) = Rest(q)
    BY SameOperators
  <1>14. /\ ACall' = Answered(ACall, t, Atomic!First(Atomic!Drained(ACall[t].class)), TRUE)
         /\ APool' = [APool EXCEPT ![ACall[t].class] = Atomic!Rest(Atomic!Drained(ACall[t].class))]
         /\ inbox' = [inbox EXCEPT ![ACall[t].class] = <<>>]
    BY <1>3, <1>8, <1>9, <1>10, <1>12, <1>13
  <1>15. Atomic!Effect(t)
    BY <1>10, <1>11, <1>14 DEF Atomic!Effect, Answered, ACall, APool
  <1> QED BY <1>7, <1>15

\* Emptying the inbox is the instant of a return.
LEMMA TakePendingReturns ==
    ASSUME LockInv, NEW t \in Threads, TakePending(t), call[t].op = "return"
    PROVE  LockInv' /\ Atomic!Effect(t)
  <1> DEFINE k == call[t].class
             d == [call[t] EXCEPT !.pending = inbox[k], !.at = "file"]
             p == lists[k]
             q == File(p, inbox[k])
  <1>1. /\ call \in [Threads -> Call] /\ call[t] \in Call /\ k \in Classes
        /\ Found(call[t], p) /\ \A j \in Classes : lists_by[j] = t => j = k
        /\ lists_by[k] = t <=> InSection(call[t])
        /\ ACall[t] = Seen(call[t], p)
    BY OwnCall
  <1>2. /\ lists \in [Classes -> Seq(Blocks)] /\ lists_by \in [Classes -> Threads \cup {NoThread}]
        /\ inbox \in [Classes -> Seq(Blocks)] /\ inbox_by \in [Classes -> Threads \cup {NoThread}]
        /\ NoThread \notin Threads
    BY PoolLocksAssumption DEF LockInv, Typed
  <1>3. /\ call[t].at = "holding" /\ lists_by[k] = t /\ call[t].res = <<>>
        /\ call' = [call EXCEPT ![t] = d] /\ lists' = lists /\ lists_by' = lists_by
        /\ inbox' = [inbox EXCEPT ![k] = <<>>]
    BY <1>1 DEF TakePending, Call, InSection, Found
  <1>4. /\ d \in Call /\ d.at = "file" /\ d.op = "return" /\ d.class = k
        /\ d.pending = inbox[k] /\ d.arg = call[t].arg /\ d.res = call[t].res
    BY <1>1, <1>2, <1>3 DEF Call
  <1> HIDE DEF d
  <1>5. Step(t, k, d, p, t)
    BY <1>1, <1>2, <1>3 DEF Step
  <1>6. Good(t, k, d, p, t)
    <2>1. WellPlaced(d) /\ InSection(d) /\ Found(d, p)
      BY <1>3, <1>4 DEF WellPlaced, InSection, Found
    <2>2. inbox' \in [Classes -> Seq(Blocks)]
      BY <1>1, <1>2, <1>3
    <2>3. inbox_by' \in [Classes -> Threads \cup {NoThread}]
      BY <1>2 DEF TakePending
    <2> QED BY <1>1, <1>2, <1>3, <1>4, <2>1, <2>2, <2>3 DEF Good, LockInv, Typed, TakePending
  <1>7. /\ LockInv'
        /\ ACall' = [ACall EXCEPT ![t] = Seen(d, lists'[d.class])]
        /\ APool' = [APool EXCEPT ![k] = After(t, d, p, t, APool[k])]
    BY ONLY <1>1, <1>5, <1>6, StepKeeps, LockInv, t \in Threads
  <1>8. APool[k] = p /\ APool' = [APool EXCEPT ![k] = File(q, call[t].arg)]
    <2>1. APool[k] = SeenPool(p, call[t])
      BY <1>1, <1>2, <1>3, OnePool
    <2>2. SeenPool(p, call[t]) = p
      BY <1>3 DEF SeenPool
    <2>3. After(t, d, p, t, APool[k]) = File(q, call[t].arg)
      BY <1>2, <1>4 DEF SeenPool, After
    <2> QED BY <1>7, <2>1, <2>2, <2>3
  <1>9. ACall' = Answered(ACall, t, <<>>, TRUE)
    <2>1. /\ Seen(d, p) = SeenAs("return", k, call[t].arg, <<>>, TRUE)
          /\ ACall[t] = SeenAs("return", k, call[t].arg, <<>>, FALSE)
      BY <1>1, <1>3, <1>4 DEF Seen, SeenResult, SeenDone
    <2>2. ACall' = With(ACall, t, SeenAs("return", k, call[t].arg, <<>>, TRUE))
      BY <1>3, <1>4, <1>7, <2>1 DEF With
    <2> QED BY ONLY <2>1, <2>2, SeenDoneForm, t \in Threads
  <1>10. /\ ACall[t].op = "return" /\ ACall[t].done = FALSE /\ ACall[t].class = k
         /\ ACall[t].arg = call[t].arg
    BY <1>1, <1>3 DEF Seen, SeenAs, SeenDone
  <1>11. fresh' = fresh /\ out' = out
    BY DEF TakePending
  <1>12. Atomic!Drained(k) = q
    BY <1>1, <1>8, SameOperators DEF Atomic!Drained, APool
  <1> HIDE DEF q, k
  <1>13. Atomic!File(q, call[t].arg) = File(q, call[t].arg)
    BY SameOperators
  <1>14. /\ APool' = [APool EXCEPT ![ACall[t].class] =
                          Atomic!File(Atomic!Drained(ACall[t].class), ACall[t].arg)]
         /\ inbox' = [inbox EXCEPT ![ACall[t].class] = <<>>]
    BY <1>3, <1>8, <1>10, <1>12, <1>13
  <1>15. Atomic!Effect(t)
    BY <1>9, <1>10, <1>11, <1>14 DEF Atomic!Effect, Answered, ACall, APool
  <1> QED BY <1>7, <1>15

\* A batch enters the inbox.
LEMMA PublishBodyStep ==
    ASSUME LockInv, NEW t \in Threads, PublishBody(t)
    PROVE  LockInv' /\ Atomic!Effect(t)
  <1> DEFINE k == call[t].class
             d == [call[t] EXCEPT !.at = "done"]
             p == lists[k]
             h == lists_by[k]
  <1>1. /\ call \in [Threads -> Call] /\ call[t] \in Call /\ k \in Classes
        /\ Found(call[t], p) /\ \A j \in Classes : lists_by[j] = t => j = k
        /\ h = t <=> InSection(call[t])
        /\ ACall[t] = Seen(call[t], p)
    BY OwnCall
  <1>2. /\ lists \in [Classes -> Seq(Blocks)] /\ lists_by \in [Classes -> Threads \cup {NoThread}]
        /\ inbox \in [Classes -> Seq(Blocks)] /\ inbox_by \in [Classes -> Threads \cup {NoThread}]
        /\ NoThread \notin Threads
    BY PoolLocksAssumption DEF LockInv, Typed
  <1>3. /\ call[t].at = "holding" /\ call[t].op = "publish" /\ h # t /\ call[t].res = <<>>
        /\ call' = [call EXCEPT ![t] = d] /\ lists' = lists /\ lists_by' = lists_by
        /\ inbox' = [inbox EXCEPT ![k] = call[t].arg \o inbox[k]]
    BY <1>1 DEF PublishBody, At, Goto, Call, InSection, Found
  <1>4. /\ d \in Call /\ d.at = "done" /\ d.op = "publish" /\ d.class = k
        /\ d.arg = call[t].arg /\ d.res = call[t].res
    BY <1>1, <1>3 DEF Call
  <1> HIDE DEF d
  <1>5. Step(t, k, d, p, h)
    BY <1>1, <1>2, <1>3 DEF Step
  <1>6. Good(t, k, d, p, h)
    <2>1. WellPlaced(d) /\ ~InSection(d) /\ Found(d, p)
      BY <1>3, <1>4 DEF WellPlaced, InSection, Found
    <2>2. inbox' \in [Classes -> Seq(Blocks)]
      <3>1. call[t].arg \in Seq(Blocks) /\ inbox[k] \in Seq(Blocks)
        BY <1>1, <1>2 DEF Call
      <3>2. call[t].arg \o inbox[k] \in Seq(Blocks)
        BY <3>1
      <3> QED BY <1>1, <1>2, <1>3, <3>2
    <2>3. inbox_by' \in [Classes -> Threads \cup {NoThread}]
      BY <1>2 DEF PublishBody
    <2> QED BY <1>1, <1>2, <1>3, <1>4, <2>1, <2>2, <2>3 DEF Good, LockInv, Typed, PublishBody
  <1>7. /\ LockInv'
        /\ ACall' = [ACall EXCEPT ![t] = Seen(d, lists'[d.class])]
        /\ APool' = [APool EXCEPT ![k] = After(t, d, p, h, APool[k])]
    BY ONLY <1>1, <1>5, <1>6, StepKeeps, LockInv, t \in Threads
  <1>8. APool' = APool
    <2>1. APool[k] = IF h = NoThread THEN p ELSE SeenPool(p, call[h])
      BY <1>1, OnePool
    <2>2. After(t, d, p, h, APool[k]) = APool[k]
      BY <1>3, <2>1 DEF After
    <2> QED BY <1>7, <2>2 DEF APool
  <1>9. ACall' = Answered(ACall, t, <<>>, TRUE)
    <2>1. /\ Seen(d, p) = SeenAs("publish", k, call[t].arg, <<>>, TRUE)
          /\ ACall[t] = SeenAs("publish", k, call[t].arg, <<>>, FALSE)
      BY <1>1, <1>3, <1>4 DEF Seen, SeenResult, SeenDone
    <2>2. ACall' = With(ACall, t, SeenAs("publish", k, call[t].arg, <<>>, TRUE))
      BY <1>3, <1>4, <1>7, <2>1 DEF With
    <2> QED BY ONLY <2>1, <2>2, SeenDoneForm, t \in Threads
  <1>10. /\ ACall[t].op = "publish" /\ ACall[t].done = FALSE /\ ACall[t].class = k
         /\ ACall[t].arg = call[t].arg
    BY <1>1, <1>3 DEF Seen, SeenAs, SeenDone
  <1>11. fresh' = fresh /\ out' = out
    BY DEF PublishBody
  <1> HIDE DEF k
  <1>12. inbox' = [inbox EXCEPT ![ACall[t].class] = ACall[t].arg \o inbox[ACall[t].class]]
    BY <1>3, <1>10
  <1>13. Atomic!Effect(t)
    BY <1>8, <1>9, <1>10, <1>11, <1>12 DEF Atomic!Effect, Answered, ACall, APool
  <1> QED BY <1>7, <1>13

\* The count of one class, pool and inbox together, is one that is true now.
LEMMA CountInboxStep ==
    ASSUME LockInv, NEW t \in Threads, CountInbox(t)
    PROVE  LockInv' /\ Atomic!Effect(t)
  <1> DEFINE k == call[t].class
             p == lists[k]
             s == call[t].res
             n == Len(p) + Len(inbox[k])
             r == [s EXCEPT ![k] = n]
             class == IF k < NumClasses THEN k + 1 ELSE k
             at == IF k < NumClasses THEN "lists" ELSE "done"
             d == [call[t] EXCEPT !.res = r, !.class = class, !.at = at]
             last == (k = NumClasses)
  <1>1. /\ call \in [Threads -> Call] /\ call[t] \in Call /\ k \in Classes
        /\ Found(call[t], p) /\ \A j \in Classes : lists_by[j] = t => j = k
        /\ lists_by[k] = t <=> InSection(call[t])
        /\ ACall[t] = Seen(call[t], p)
    BY OwnCall
  <1>2. /\ lists \in [Classes -> Seq(Blocks)] /\ lists_by \in [Classes -> Threads \cup {NoThread}]
        /\ inbox \in [Classes -> Seq(Blocks)] /\ inbox_by \in [Classes -> Threads \cup {NoThread}]
        /\ NoThread \notin Threads
    BY PoolLocksAssumption DEF LockInv, Typed
  <1>3. call[t].at = "holding" /\ call[t].op = "count" /\ lists_by[k] = t
    BY <1>1 DEF CountInbox, At, InSection
  <1>4. /\ s \in Seq(Nat) /\ Len(s) = k /\ s[k] = Len(p)
        /\ k \in Nat /\ k > 0 /\ k =< NumClasses /\ NumClasses \in Nat /\ n \in Nat
    <2>1. s \in Seq(Nat) /\ Len(s) = k /\ s[k] = Len(p)
      BY <1>1, <1>3 DEF Found
    <2>2. k \in Nat /\ k > 0 /\ k =< NumClasses /\ NumClasses \in Nat
      BY <1>1, PoolLocksAssumption DEF Classes
    <2>3. Len(p) \in Nat /\ Len(inbox[k]) \in Nat
      BY <1>1, <1>2
    <2>4. n \in Nat
      <3> HIDE DEF p, k
      <3> QED BY <2>3
    <2> QED BY <2>1, <2>2, <2>4
  <1>5. /\ r \in Seq(Nat) /\ Len(r) = k /\ r = Append(Front(s), n)
        /\ Front(s) \in Seq(Nat) /\ Len(Front(s)) = k - 1
    <2>1. /\ Front(s) \in Seq(Nat) /\ Len(Front(s)) = Len(s) - 1
          /\ [s EXCEPT ![Len(s)] = n] = Append(Front(s), n)
          /\ [s EXCEPT ![Len(s)] = n] \in Seq(Nat)
          /\ Len([s EXCEPT ![Len(s)] = n]) = Len(s)
      <3>1. s \in Seq(Nat) /\ n \in Nat /\ Len(s) > 0
        BY <1>4
      <3> HIDE DEF n, s
      <3> QED BY <3>1, CountsTyped
    <2> QED BY <1>4, <2>1
  <1>6. /\ lists' = lists /\ inbox' = inbox /\ fresh' = fresh /\ out' = out
        /\ lists_by' = [lists_by EXCEPT ![k] = NoThread]
        /\ inbox_by' = [inbox_by EXCEPT ![k] = NoThread]
    BY DEF CountInbox
  <1>7. call' = [call EXCEPT ![t] = d]
    <2>1. call' = [call EXCEPT ![t].res[k] = s[k] + Len(inbox[k]), ![t].class = class, ![t].at = at]
      BY DEF CountInbox
    <2>2. s[k] + Len(inbox[k]) = n
      BY <1>4
    <2> HIDE DEF n, class, at, k
    <2> QED BY <1>1, <2>1, <2>2
  <1>8. class \in Classes /\ (k < NumClasses => class = k + 1)
    BY <1>4 DEF Classes
  <1> HIDE DEF r, n, class, last
  <1>9. /\ d \in Call /\ d.at = at /\ d.op = "count" /\ d.class = class
        /\ d.res = r /\ d.arg = call[t].arg
    BY <1>1, <1>3, <1>5, <1>8 DEF Call
  <1> HIDE DEF d
  <1>10. Step(t, k, d, p, NoThread)
    BY <1>1, <1>2, <1>3, <1>6, <1>7 DEF Step
  <1>11. Good(t, k, d, p, NoThread)
    <2>1. WellPlaced(d) /\ ~InSection(d)
      BY <1>9 DEF WellPlaced, InSection
    <2>2. Found(d, lists'[d.class])
      <3>1. k < NumClasses => Len(r) = class - 1
        BY <1>4, <1>5, <1>8
      <3> QED BY <1>5, <1>9, <3>1 DEF Found
    <2> QED BY <1>1, <1>2, <1>6, <1>9, <2>1, <2>2 DEF Good, LockInv, Typed
  <1>12. /\ LockInv'
         /\ ACall' = [ACall EXCEPT ![t] = Seen(d, lists'[d.class])]
         /\ APool' = [APool EXCEPT ![k] = After(t, d, p, NoThread, APool[k])]
    BY ONLY <1>1, <1>10, <1>11, StepKeeps, LockInv, t \in Threads
  <1>13. APool[k] = p /\ APool' = APool
    <2>1. APool[k] = SeenPool(p, call[t])
      BY <1>1, <1>2, <1>3, OnePool
    <2>2. SeenPool(p, call[t]) = p /\ After(t, d, p, NoThread, APool[k]) = p
      BY <1>3 DEF SeenPool, After
    <2> QED BY <1>12, <2>1, <2>2 DEF APool
  <1>14. /\ ACall[t] = SeenAs("count", 1, call[t].arg, Front(s), FALSE)
         /\ ACall' = Answered(ACall, t, r, last)
    <2>1. /\ Seen(d, lists'[d.class]) = SeenAs("count", 1, call[t].arg, r, last)
          /\ ACall[t] = SeenAs("count", 1, call[t].arg, Front(s), FALSE)
      <3>1. SeenDone(d) = last
        <4>1. CASE k < NumClasses
          <5>1. at = "lists" /\ last = FALSE
            BY <1>4, <4>1 DEF last
          <5> QED BY <1>9, <5>1 DEF SeenDone
        <4>2. CASE ~(k < NumClasses)
          <5>1. at = "done" /\ last = TRUE
            BY <1>4, <4>2 DEF last
          <5> QED BY <1>9, <5>1 DEF SeenDone
        <4> QED BY <4>1, <4>2
      <3>2. SeenResult(d, lists'[d.class]) = r
        BY <1>9 DEF SeenResult
      <3>3. SeenDone(call[t]) = FALSE /\ SeenResult(call[t], p) = Front(s)
        BY <1>3 DEF SeenDone, SeenResult
      <3> QED BY <1>1, <1>3, <1>9, <3>1, <3>2, <3>3 DEF Seen
    <2>2. ACall' = With(ACall, t, SeenAs("count", 1, call[t].arg, r, last))
      BY <1>12, <2>1 DEF With
    <2>3. ACall' = Answered(ACall, t, r, last)
      BY ONLY <2>1, <2>2, SeenDoneForm, t \in Threads
    <2> QED BY <2>1, <2>3
  <1>15. ACall[t].op = "count" /\ ACall[t].done = FALSE /\ ACall[t].res = Front(s)
    BY <1>14 DEF SeenAs
  <1> DEFINE m == Len(ACall[t].res) + 1
             counted == Append(ACall[t].res, Len(APool[m]) + Len(inbox[m]))
  <1>16. m = k
    BY <1>4, <1>5, <1>15
  <1>17. counted = r /\ (Len(counted) = NumClasses) = last
    <2>1. counted = Append(Front(s), n)
      BY <1>13, <1>15, <1>16 DEF n
    <2>2. counted = r /\ Len(counted) = k
      BY <1>5, <2>1
    <2> QED BY <2>2 DEF last
  <1>18. ACall' = Answered(ACall, t, counted, Len(counted) = NumClasses)
    BY <1>14, <1>17
  <1>19. Atomic!Effect(t)
    BY <1>6, <1>13, <1>15, <1>18 DEF Atomic!Effect, Answered, ACall, APool
  <1> QED BY <1>12, <1>19

-----------------------------------------------------------------------------
(* The steps at which a call begins and ends *)

\* A thread without a call is a call of AtomicPool's that has not begun either.
LEMMA NoCallSeen ==
    ASSUME NEW p
    PROVE  /\ NoCall \in Call /\ WellPlaced(NoCall) /\ ~InSection(NoCall) /\ Found(NoCall, p)
           /\ NoCall.class = 1 /\ 1 \in Classes
           /\ Seen(NoCall, p) = Atomic!NoCall
  <1>1. 1 \in Classes
    BY PoolLocksAssumption DEF Classes
  <1>2. NoCall \in Call
    <2> DEFINE e == <<>>
    <2>1. e \in Seq(Blocks)
      OBVIOUS
    <2> HIDE DEF e
    <2>2. [op |-> "none", class |-> 1, at |-> "idle", arg |-> e, pending |-> e, res |-> e] \in Call
      BY <1>1, <2>1 DEF Call, Ops
    <2> QED BY <2>2 DEF NoCall, e
  <1>3. WellPlaced(NoCall) /\ ~InSection(NoCall) /\ Found(NoCall, p) /\ NoCall.class = 1
    BY DEF NoCall, WellPlaced, InSection, Found
  <1>4. Seen(NoCall, p) = Atomic!NoCall
    BY DEF NoCall, Seen, SeenAs, SeenResult, SeenDone, Atomic!NoCall
  <1> QED BY <1>1, <1>2, <1>3, <1>4

\* A call returns what it has found out.
LEMMA FinishStep ==
    ASSUME LockInv, NEW t \in Threads, Finish(t)
    PROVE  LockInv' /\ Atomic!Respond(t)
  <1> DEFINE k == call[t].class
             p == lists[k]
             h == lists_by[k]
  <1>1. /\ call \in [Threads -> Call] /\ call[t] \in Call /\ WellPlaced(call[t]) /\ k \in Classes
        /\ Found(call[t], p) /\ \A j \in Classes : lists_by[j] = t => j = k
        /\ h = t <=> InSection(call[t])
        /\ ACall[t] = Seen(call[t], p)
    BY OwnCall
  <1>2. /\ lists \in [Classes -> Seq(Blocks)] /\ lists_by \in [Classes -> Threads \cup {NoThread}]
        /\ out \subseteq Blocks
    BY DEF LockInv, Typed
  <1>3. /\ call[t].at = "done" /\ h # t /\ call' = [call EXCEPT ![t] = NoCall]
        /\ lists' = lists /\ lists_by' = lists_by /\ inbox' = inbox /\ inbox_by' = inbox_by
        /\ fresh' = fresh
        /\ out' = IF call[t].op \in {"take", "register"} THEN out \cup ToSet(call[t].res) ELSE out
    BY <1>1 DEF Finish, InSection
  <1>4. out' \subseteq Blocks
    <2>1. ASSUME call[t].op \in {"take", "register"} PROVE ToSet(call[t].res) \subseteq Blocks
      <3>1. call[t].res \in Seq(Blocks)
        BY <1>1, <2>1 DEF Found
      <3> QED BY <3>1 DEF ToSet
    <2> QED BY <1>2, <1>3, <2>1
  <1>5. Step(t, k, NoCall, p, h)
    BY <1>1, <1>2, <1>3 DEF Step
  <1>6. Good(t, k, NoCall, p, h)
    <2>1. /\ NoCall \in Call /\ WellPlaced(NoCall) /\ ~InSection(NoCall)
          /\ Found(NoCall, lists'[NoCall.class])
      BY NoCallSeen
    <2>2. /\ inbox' \in [Classes -> Seq(Blocks)]
          /\ inbox_by' \in [Classes -> Threads \cup {NoThread}] /\ fresh' \subseteq Blocks
      BY <1>3 DEF LockInv, Typed
    <2> QED BY <1>1, <1>2, <1>3, <1>4, <2>1, <2>2 DEF Good
  <1>7. /\ LockInv'
        /\ ACall' = [ACall EXCEPT ![t] = Seen(NoCall, lists'[NoCall.class])]
        /\ APool' = [APool EXCEPT ![k] = After(t, NoCall, p, h, APool[k])]
    BY ONLY <1>1, <1>5, <1>6, StepKeeps, LockInv, t \in Threads
  <1>8. APool' = APool
    <2>1. APool[k] = IF h = NoThread THEN p ELSE SeenPool(p, call[h])
      BY <1>1, OnePool
    <2>2. After(t, NoCall, p, h, APool[k]) = APool[k]
      BY <1>3, <2>1 DEF After
    <2> QED BY <1>7, <2>2 DEF APool
  <1>9. ACall' = [ACall EXCEPT ![t] = Atomic!NoCall]
    BY <1>7, NoCallSeen
  <1>10. ACall[t].done = TRUE /\ ACall[t].op = call[t].op /\ ACall[t].res = call[t].res
    BY <1>1, <1>3 DEF Seen, SeenAs, SeenDone, SeenResult
  <1>11. out' = IF ACall[t].op \in {"take", "register"} THEN out \cup Atomic!ToSet(ACall[t].res)
                ELSE out
    BY <1>3, <1>10 DEF ToSet, Atomic!ToSet
  <1>12. Atomic!Respond(t)
    BY <1>3, <1>8, <1>9, <1>10, <1>11 DEF Atomic!Respond, ACall, APool
  <1> QED BY <1>7, <1>12

\* A call begins with the blocks its caller gives.
LEMMA BeginStep ==
    ASSUME LockInv, NEW t \in Threads, NEW k \in Classes, NEW arg \in Seq(Blocks),
           NEW op \in {"register", "take", "return", "publish", "count"},
           NEW at, at = (IF op = "publish" THEN "inbox" ELSE "lists"),
           op = "count" => k = 1,
           arg \in Atomic!Args(op, k),
           Begin(t, op, k, arg, at)
    PROVE  LockInv' /\ Atomic!Invoke(t)
  <1> DEFINE d == [NoCall EXCEPT !.op = op, !.class = k, !.arg = arg, !.at = at]
             p == lists[k]
             h == lists_by[k]
  <1>1. /\ call \in [Threads -> Call] /\ call[t] = NoCall
        /\ \A j \in Classes : lists_by[j] # t
        /\ ACall[t] = Atomic!NoCall
    <2>1. call[t] = NoCall
      BY DEF Begin
    <2>2. call \in [Threads -> Call] /\ ACall[t] = Seen(NoCall, lists[call[t].class])
      BY <2>1, OwnCall
    <2>3. \A j \in Classes : lists_by[j] # t
      BY <2>1, NoCallSeen DEF LockInv, Exclusive
    <2> QED BY <2>1, <2>2, <2>3, NoCallSeen
  <1>2. /\ lists \in [Classes -> Seq(Blocks)] /\ lists_by \in [Classes -> Threads \cup {NoThread}]
    BY DEF LockInv, Typed
  <1>3. /\ call' = [call EXCEPT ![t] = d]
        /\ lists' = lists /\ lists_by' = lists_by /\ inbox' = inbox /\ inbox_by' = inbox_by
        /\ fresh' = fresh \ ToSet(arg) /\ out' = out \ ToSet(arg)
    BY DEF Begin
  <1>4. /\ d \in Call /\ d.op = op /\ d.class = k /\ d.arg = arg /\ d.at = at /\ d.res = <<>>
    <2>1. NoCall \in Call /\ NoCall.res = <<>>
      BY NoCallSeen DEF NoCall
    <2>2. at \in {"inbox", "lists"} /\ op \in Ops
      BY DEF Ops
    <2> QED BY <2>1, <2>2 DEF Call
  <1> HIDE DEF d
  <1>5. Step(t, k, d, p, h)
    BY <1>1, <1>2, <1>3 DEF Step
  <1>6. Good(t, k, d, p, h)
    <2>1. WellPlaced(d) /\ ~InSection(d)
      BY <1>4 DEF WellPlaced, InSection
    <2>2. Found(d, lists'[d.class])
      <3>1. <<>> \in Seq(Nat) /\ <<>> \in Seq(Blocks) /\ Len(<<>>) = 0
        OBVIOUS
      <3> QED BY <1>4, <3>1 DEF Found
    <2>3. /\ inbox' \in [Classes -> Seq(Blocks)]
          /\ inbox_by' \in [Classes -> Threads \cup {NoThread}]
          /\ fresh' \subseteq Blocks /\ out' \subseteq Blocks
      BY <1>3 DEF LockInv, Typed
    <2> QED BY <1>1, <1>2, <1>4, <2>1, <2>2, <2>3 DEF Good
  <1>7. /\ LockInv'
        /\ ACall' = [ACall EXCEPT ![t] = Seen(d, lists'[d.class])]
        /\ APool' = [APool EXCEPT ![k] = After(t, d, p, h, APool[k])]
    BY ONLY <1>5, <1>6, StepKeeps, LockInv, t \in Threads, k \in Classes
  <1>8. APool' = APool
    <2>1. APool[k] = IF h = NoThread THEN p ELSE SeenPool(p, call[h])
      BY OnePool
    <2>2. After(t, d, p, h, APool[k]) = APool[k]
      BY <1>1, <2>1 DEF After
    <2> QED BY <1>7, <2>2 DEF APool
  <1>9. ACall' = [ACall EXCEPT ![t] = [Atomic!NoCall EXCEPT !.op = op, !.class = k, !.arg = arg]]
    <2>1. Seen(d, lists'[d.class]) = SeenAs(op, k, arg, <<>>, FALSE)
      BY <1>4 DEF Seen, SeenResult, SeenDone
    <2>2. [Atomic!NoCall EXCEPT !.op = op, !.class = k, !.arg = arg] = SeenAs(op, k, arg, <<>>, FALSE)
      <3> DEFINE none == "none"
                 one == 1
                 e == <<>>
                 no == FALSE
                 c == SeenAs(none, one, e, e, no)
      <3>1. Atomic!NoCall = c
        BY DEF SeenAs, Atomic!NoCall
      <3> HIDE DEF none, one, e, no
      <3>2. [c EXCEPT !.op = op] = SeenAs(op, one, e, e, no)
        BY SetOp
      <3>3. [SeenAs(op, one, e, e, no) EXCEPT !.class = k] = SeenAs(op, k, e, e, no)
        BY SetClass
      <3>4. [SeenAs(op, k, e, e, no) EXCEPT !.arg = arg] = SeenAs(op, k, arg, e, no)
        BY SetArg
      <3> HIDE DEF c
      <3>5. [c EXCEPT !.op = op, !.class = k, !.arg = arg] = SeenAs(op, k, arg, e, no)
        BY <3>2, <3>3, <3>4
      <3> QED BY <3>1, <3>5 DEF e, no
    <2> QED BY <1>7, <2>1, <2>2
  <1>10. out' = out \ Atomic!ToSet(arg) /\ fresh' = fresh \ Atomic!ToSet(arg)
    BY <1>3 DEF ToSet, Atomic!ToSet
  <1>11. k \in 1 .. NumClasses
    BY DEF Classes
  <1>12. Atomic!Invoke(t)
    BY <1>1, <1>3, <1>8, <1>9, <1>10, <1>11 DEF Atomic!Invoke, ACall, APool
  <1> QED BY <1>7, <1>12

\* What callers may give to a call is what AtomicPool lets them give.
LEMMA ArgsAgree ==
    ASSUME NEW k
    PROVE  /\ \A b \in fresh : ClassOf(b) = k => <<b>> \in Atomic!Args("register", k)
           /\ <<>> \in Atomic!Args("take", k)
           /\ k = 1 => <<>> \in Atomic!Args("count", k)
           /\ \A list \in Lots(k) : /\ list \in Atomic!Args("return", k)
                                    /\ list \in Atomic!Args("publish", k)
  <1>1. \A b \in fresh : ClassOf(b) = k => <<b>> \in Atomic!Args("register", k)
    BY DEF Atomic!Args
  <1>2. <<>> \in Atomic!Args("take", k) /\ (k = 1 => <<>> \in Atomic!Args("count", k))
    BY DEF Atomic!Args
  <1>3. ASSUME NEW B PROVE SetToSeqs(B) = Atomic!SetToSeqs(B)
    <2>1. Cardinality(B) = Atomic!Cardinality(B)
      BY DEF Cardinality, Atomic!Cardinality
    <2> QED BY <2>1 DEF SetToSeqs, Atomic!SetToSeqs
  <1>4. Lots(k) = Atomic!Args("return", k) /\ Lots(k) = Atomic!Args("publish", k)
    BY <1>3 DEF Lots, Atomic!Args
  <1> QED BY <1>1, <1>2, <1>4

\* Every call that a user of the pool can begin.
LEMMA BeginCallStep ==
    ASSUME LockInv, NEW t \in Threads, BeginCall(t)
    PROVE  LockInv' /\ Atomic!Invoke(t)
  <1>0. fresh \subseteq Blocks /\ out \subseteq Blocks /\ 1 \in Classes /\ <<>> \in Seq(Blocks)
    BY PoolLocksAssumption DEF LockInv, Typed, Classes
  <1>1. ASSUME NEW b \in fresh, BeginRegister(t, b) PROVE LockInv' /\ Atomic!Invoke(t)
    <2>1. ClassOf(b) \in Classes /\ <<b>> \in Seq(Blocks)
      BY <1>0, PoolLocksAssumption DEF Classes
    <2>2. <<b>> \in Atomic!Args("register", ClassOf(b))
      BY ArgsAgree
    <2>3. Begin(t, "register", ClassOf(b), <<b>>, "lists")
      BY <1>1 DEF BeginRegister
    <2> QED BY <2>1, <2>2, <2>3, BeginStep
  <1>2. ASSUME NEW k \in Classes, BeginTake(t, k) PROVE LockInv' /\ Atomic!Invoke(t)
    <2>1. Begin(t, "take", k, <<>>, "lists") /\ <<>> \in Atomic!Args("take", k)
      BY <1>2, ArgsAgree DEF BeginTake
    <2> QED BY <1>0, <2>1, BeginStep
  <1>3. ASSUME BeginCount(t) PROVE LockInv' /\ Atomic!Invoke(t)
    <2>1. Begin(t, "count", 1, <<>>, "lists") /\ <<>> \in Atomic!Args("count", 1)
      BY <1>3, ArgsAgree DEF BeginCount
    <2> QED BY <1>0, <2>1, BeginStep
  <1>4. ASSUME NEW k \in Classes, NEW list \in Lots(k), BeginReturn(t, k, list)
        PROVE  LockInv' /\ Atomic!Invoke(t)
    <2>1. /\ Begin(t, "return", k, list, "lists") /\ list \in Atomic!Args("return", k)
          /\ list \in Seq(Blocks)
      BY <1>0, <1>4, ArgsAgree, LotsAreLists DEF BeginReturn
    <2> QED BY <2>1, BeginStep
  <1>5. ASSUME NEW k \in Classes, NEW list \in Lots(k), BeginPublish(t, k, list)
        PROVE  LockInv' /\ Atomic!Invoke(t)
    <2>1. /\ Begin(t, "publish", k, list, "inbox") /\ list \in Atomic!Args("publish", k)
          /\ list \in Seq(Blocks)
      BY <1>0, <1>5, ArgsAgree, LotsAreLists DEF BeginPublish
    <2> QED BY <2>1, BeginStep
  <1> QED BY <1>1, <1>2, <1>3, <1>4, <1>5 DEF BeginCall

-----------------------------------------------------------------------------
(* The theorem *)

\* Before any call, AtomicPool is in its initial state too.
LEMMA InitMaps ==
    ASSUME Init
    PROVE  LockInv /\ Atomic!ContractInit
  <1>1. Typed
    <2>1. NoCall \in Call /\ WellPlaced(NoCall) /\ <<>> \in Seq(Blocks)
      BY NoCallSeen
    <2> QED BY <2>1 DEF Init, Typed
  <1>2. Exclusive
    BY NoCallSeen, PoolLocksAssumption DEF Init, Exclusive
  <1>3. Results
    BY NoCallSeen DEF Init, Results
  <1>4. [k \in Classes |-> AbstractList(k)] = [k \in 1 .. NumClasses |-> <<>>]
    BY DEF Init, AbstractList, Classes
  <1>5. [t \in Threads |-> AbstractCall(t)] = [t \in Threads |-> Atomic!NoCall]
    BY CallIsSeen, NoCallSeen DEF Init
  <1>6. Atomic!ContractInit
    BY <1>4, <1>5 DEF Init, Atomic!ContractInit, Classes
  <1> QED BY <1>1, <1>2, <1>3, <1>6 DEF LockInv

\* What AtomicPool sees as one state.
Mapped == <<[k \in Classes |-> AbstractList(k)], inbox, fresh, out,
            [t \in Threads |-> AbstractCall(t)]>>

\* Every step keeps the invariant and is a step of AtomicPool's, or nothing to it.
LEMMA NextMaps ==
    ASSUME LockInv, [Next]_vars
    PROVE  LockInv' /\ [Atomic!ContractNext]_Mapped
  <1>1. ASSUME NEW t \in Threads, LockInv' /\ Stutters
        PROVE  LockInv' /\ [Atomic!ContractNext]_Mapped
    BY <1>1 DEF Stutters, ACall, APool, Mapped
  <1>2. ASSUME NEW t \in Threads,
               LockInv' /\ (Atomic!Invoke(t) \/ Atomic!Effect(t) \/ Atomic!Respond(t))
        PROVE  LockInv' /\ [Atomic!ContractNext]_Mapped
    BY <1>2 DEF Atomic!ContractNext
  <1>3. CASE UNCHANGED vars
    <2>1. LockInv'
      BY <1>3 DEF vars, LockInv, Typed, Exclusive, Results
    <2>2. /\ \A k \in Classes : AbstractList(k)' = AbstractList(k)
          /\ \A t \in Threads : AbstractCall(t)' = AbstractCall(t)
      BY <1>3, PoolIsSeen, CallIsSeen DEF vars
    <2> QED BY <1>3, <2>1, <2>2 DEF vars, Mapped
  <1>4. CASE Next
    <2> SUFFICES ASSUME NEW t \in Threads,
                        BeginCall(t) \/ LockLists(t) \/ LockInbox(t) \/ Proceed(t)
                 PROVE  LockInv' /\ [Atomic!ContractNext]_Mapped
      BY <1>4 DEF Next
    <2>1. CASE BeginCall(t)
      BY <2>1, BeginCallStep, <1>2
    <2>2. CASE LockLists(t)
      BY <2>2, LockListsStep, <1>1
    <2>3. CASE LockInbox(t)
      BY <2>3, LockInboxStep, <1>1
    <2>4. CASE FilePending(t) \/ TakeBody(t) \/ ReturnBody(t) \/ CountLists(t) \/ Unlock(t)
      BY <2>4, FilePendingStep, TakeBodyStep, ReturnBodyStep, CountListsStep, UnlockStep, <1>1
    <2>5. CASE RegisterBody(t) \/ PublishBody(t) \/ CountInbox(t) \/ Finish(t)
      BY <2>5, RegisterBodyStep, PublishBodyStep, CountInboxStep, FinishStep, <1>2
    <2>6. CASE TakePending(t)
      <3>1. call[t].op \in {"take", "return"}
        BY <2>6 DEF TakePending
      <3> QED BY <2>6, <3>1, TakePendingTakes, TakePendingReturns, <1>2
    <2> QED BY <2>1, <2>2, <2>3, <2>4, <2>5, <2>6 DEF Proceed
  <1> QED BY <1>3, <1>4

\* Every call of the central pool appears to happen at one instant, for every number of
\* threads, classes and blocks and every refill size: the class and inbox mutexes of
\* CentralPool make refills, returns, publications, registrations and the count of each
\* class atomic.
THEOREM LocksMakeCallsAtomic == Spec => ImplementsAtomic
  <1>1. Init => LockInv /\ Atomic!ContractInit
    BY InitMaps
  <1>2. LockInv /\ [Next]_vars
          => LockInv' /\ [Atomic!ContractNext]_<<[k \in Classes |-> AbstractList(k)], inbox, fresh,
                             out, [t \in Threads |-> AbstractCall(t)]>>
    BY NextMaps DEF Mapped
  <1> QED BY <1>1, <1>2, PTL DEF Spec, ImplementsAtomic, Atomic!ContractSpec
=============================================================================
