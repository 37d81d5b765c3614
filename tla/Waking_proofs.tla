---------------------------- MODULE Waking_proofs ---------------------------
(* Proofs about the two services whose queues processes sleep in, Locks and  *)
(* Nic, for any processes, whatever of them are killed: the invariants of    *)
(* the mutex, the semaphore, the barrier and the mailbox hold, and the       *)
(* mailbox implements a FIFO of messages, for any initial values, goals and  *)
(* mailbox length; the rings of the card keep their frames, for any lengths. *)
EXTENDS Locks, Nic, SequenceTheorems, WellFoundedInduction, TLAPS

\* No process is in queue q twice.
Distinct(q) == \A i, j \in DOMAIN q : q[i] = q[j] => i = j

-----------------------------------------------------------------------------
(* Queues of processes                                                      *)

\* Unlinking p takes p, and nothing else, out of the queue.
LEMMA DelNode ==
  ASSUME NEW P, NEW q \in Seq(P), Distinct(q), NEW p
  PROVE  LET r == lpcb_del_node(q, p) IN
         /\ r \in Seq(P) /\ Distinct(r)
         /\ ToSet(r) = ToSet(q) \ {p}
         /\ Len(r) = IF p \in ToSet(q) THEN Len(q) - 1 ELSE Len(q)
<1>1. CASE \E i \in DOMAIN q : q[i] = p
  <2> DEFINE i == CHOOSE i \in DOMAIN q : q[i] = p
             r == SubSeq(q, 1, i - 1) \o SubSeq(q, i + 1, Len(q))
  <2>1. i \in 1 .. Len(q) /\ q[i] = p
    BY <1>1
  <2>2. lpcb_del_node(q, p) = r
    BY <1>1 DEF lpcb_del_node, RemoveAt
  <2> HIDE DEF i
  <2>3. /\ r \in Seq(P) /\ Len(r) = Len(q) - 1
        /\ \A k \in 1 .. Len(r) : r[k] = IF k < i THEN q[k] ELSE q[k + 1]
    <3> DEFINE a == SubSeq(q, 1, i - 1)
               b == SubSeq(q, i + 1, Len(q))
    <3>1. /\ a \in Seq(P) /\ Len(a) = i - 1
          /\ \A k \in 1 .. i - 1 : a[k] = q[k]
      BY <2>1, SubSeqProperties
    <3>2. /\ b \in Seq(P) /\ Len(b) = Len(q) - i
          /\ \A k \in 1 .. Len(q) - i : b[k] = q[k + i]
      BY <2>1, SubSeqProperties
    <3> HIDE DEF a, b
    <3>3. /\ a \o b \in Seq(P) /\ Len(a \o b) = Len(a) + Len(b)
          /\ \A k \in 1 .. Len(a) + Len(b) :
               (a \o b)[k] = IF k <= Len(a) THEN a[k] ELSE b[k - Len(a)]
      BY <3>1, <3>2, ConcatProperties
    <3>4. \A k \in i .. Len(q) - 1 : k - Len(a) \in 1 .. Len(q) - i /\ b[k - Len(a)] = q[k + 1]
      BY <3>1, <3>2, <2>1
    <3>5. /\ a \o b \in Seq(P) /\ Len(a \o b) = Len(q) - 1
          /\ \A k \in 1 .. Len(q) - 1 :
               (a \o b)[k] = IF k < i THEN q[k] ELSE q[k + 1]
      <4>1. Len(a) + Len(b) = Len(q) - 1 /\ Len(q) \in Nat
        BY <2>1, <3>1, <3>2
      <4>2. ASSUME NEW k \in 1 .. Len(q) - 1
            PROVE  (a \o b)[k] = IF k < i THEN q[k] ELSE q[k + 1]
        <5>1. CASE k < i
          BY <5>1, <4>1, <2>1, <3>1, <3>3
        <5>2. CASE k >= i
          BY <5>2, <4>1, <2>1, <3>1, <3>3, <3>4
        <5>3. QED
          BY <5>1, <5>2, <2>1, <4>1
      <4>3. QED
        BY <4>1, <4>2, <3>3
    <3>6. QED
      BY <3>5 DEF a, b
  <2> HIDE DEF r
  <2>4. Distinct(r)
    <3>1. SUFFICES ASSUME NEW k \in 1 .. Len(r), NEW l \in 1 .. Len(r), r[k] = r[l]
                   PROVE  k = l
      BY <2>3 DEF Distinct
    <3> DEFINE old(m) == IF m < i THEN m ELSE m + 1
    <3>2. /\ old(k) \in 1 .. Len(q) /\ q[old(k)] = r[k]
          /\ old(l) \in 1 .. Len(q) /\ q[old(l)] = r[l]
      BY <2>1, <2>3
    <3>3. old(k) = old(l)
      BY <3>1, <3>2 DEF Distinct
    <3>4. QED
      BY <3>3, <2>1, <2>3
  <2>5. ToSet(r) = ToSet(q) \ {p}
    <3>1. ASSUME NEW x \in ToSet(r) PROVE x \in ToSet(q) \ {p}
      BY <2>1, <2>3 DEF Distinct, ToSet
    <3>2. ASSUME NEW x \in ToSet(q) \ {p} PROVE x \in ToSet(r)
      <4>1. PICK k \in 1 .. Len(q) : q[k] = x /\ k # i
        BY <2>1 DEF ToSet
      <4>2. CASE k < i
        BY <4>1, <4>2, <2>1, <2>3 DEF ToSet
      <4>3. CASE k > i
        <5>1. k - 1 \in 1 .. Len(r) /\ r[k - 1] = x
          BY <4>1, <4>3, <2>1, <2>3
        <5>2. QED
          BY <5>1, <2>3 DEF ToSet
      <4>4. QED
        BY <4>1, <4>2, <4>3, <2>1
    <3>3. QED
      BY <3>1, <3>2
  <2>6. p \in ToSet(q)
    BY <2>1 DEF ToSet
  <2>7. QED
    BY <2>2, <2>3, <2>4, <2>5, <2>6
<1>2. CASE ~ \E i \in DOMAIN q : q[i] = p
  BY <1>2 DEF lpcb_del_node, ToSet
<1>3. QED
  BY <1>1, <1>2

\* A process that is not in the queue is put at its end.
LEMMA Enqueue ==
  ASSUME NEW P, NEW q \in Seq(P), Distinct(q), NEW p \in P, p \notin ToSet(q)
  PROVE  LET r == Append(q, p) IN
         /\ r \in Seq(P) /\ Distinct(r)
         /\ ToSet(r) = ToSet(q) \cup {p}
         /\ Len(r) = Len(q) + 1 /\ r # <<>>
<1> DEFINE r == Append(q, p)
<1>1. /\ r \in Seq(P) /\ Len(r) = Len(q) + 1
      /\ \A k \in 1 .. Len(r) : r[k] = IF k <= Len(q) THEN q[k] ELSE p
  BY AppendProperties
<1> HIDE DEF r
<1>2. Distinct(r)
  BY <1>1 DEF Distinct, ToSet
<1>3. ToSet(r) = ToSet(q) \cup {p}
  <2>1. ASSUME NEW x \in ToSet(q) PROVE x \in ToSet(r)
    BY <1>1 DEF ToSet
  <2>2. p \in ToSet(r)
    BY <1>1 DEF ToSet
  <2>3. ToSet(r) \subseteq ToSet(q) \cup {p}
    BY <1>1 DEF ToSet
  <2>4. QED
    BY <2>1, <2>2, <2>3
<1>4. r # <<>>
  BY <1>1
<1>5. QED
  BY <1>1, <1>2, <1>3, <1>4 DEF r

\* The first process of the queue leaves it.
LEMMA Dequeue ==
  ASSUME NEW P, NEW q \in Seq(P), Distinct(q), q # <<>>
  PROVE  /\ Head(q) \in P /\ Head(q) \in ToSet(q)
         /\ Tail(q) \in Seq(P) /\ Distinct(Tail(q))
         /\ ToSet(Tail(q)) = ToSet(q) \ {Head(q)}
         /\ Len(Tail(q)) = Len(q) - 1
<1> DEFINE r == Tail(q)
<1>1. /\ Len(q) \in Nat \ {0} /\ q[1] = Head(q) /\ Head(q) \in P
      /\ r \in Seq(P) /\ Len(r) = Len(q) - 1
      /\ \A k \in 1 .. Len(r) : r[k] = q[k + 1]
  OBVIOUS
<1> HIDE DEF r
<1>2. Distinct(r)
  <2>1. SUFFICES ASSUME NEW i \in 1 .. Len(r), NEW j \in 1 .. Len(r), r[i] = r[j]
                 PROVE  i = j
    BY <1>1 DEF Distinct
  <2>2. i + 1 \in 1 .. Len(q) /\ j + 1 \in 1 .. Len(q)
    BY <1>1
  <2>3. q[i + 1] = q[j + 1]
    BY <1>1, <2>1
  <2>4. i + 1 = j + 1
    BY <2>2, <2>3 DEF Distinct
  <2>5. QED
    BY <2>2, <2>4
<1>3. Head(q) \in ToSet(q)
  BY <1>1 DEF ToSet
<1>4. ASSUME NEW x \in ToSet(r) PROVE x \in ToSet(q) \ {Head(q)}
  BY <1>1 DEF Distinct, ToSet
<1>5. ASSUME NEW x \in ToSet(q) \ {Head(q)} PROVE x \in ToSet(r)
  <2>1. PICK k \in 1 .. Len(q) : q[k] = x /\ k # 1
    BY <1>1 DEF ToSet
  <2>2. k - 1 \in 1 .. Len(r) /\ r[k - 1] = x
    BY <2>1, <1>1
  <2>3. QED
    BY <2>2, <1>1 DEF ToSet
<1>6. QED
  BY <1>1, <1>2, <1>3, <1>4, <1>5 DEF r

\* The empty queue.
LEMMA EmptyQueue ==
  ASSUME NEW P
  PROVE  /\ <<>> \in Seq(P) /\ Distinct(<<>>) /\ ToSet(<<>>) = {} /\ Len(<<>>) = 0
         /\ \A q \in Seq(P) : ToSet(q) = {} <=> q = <<>>
<1>1. <<>> \in Seq(P) /\ Distinct(<<>>) /\ ToSet(<<>>) = {} /\ Len(<<>>) = 0
  BY DEF Distinct, ToSet
<1>2. ASSUME NEW q \in Seq(P), q # <<>> PROVE ToSet(q) # {}
  <2>1. Len(q) \in Nat \ {0}
    BY <1>2
  <2>2. q[1] \in ToSet(q)
    BY <2>1 DEF ToSet
  <2>3. QED
    BY <2>2
<1>3. QED
  BY <1>1, <1>2

\* The helpers that each lock's module brings along are the same operators.
LEMMA SameHelpers ==
  /\ \A q : /\ M!ToSet(q) = ToSet(q) /\ S!ToSet(q) = ToSet(q)
            /\ B!ToSet(q) = ToSet(q) /\ X!ToSet(q) = ToSet(q)
  /\ \A q, p : /\ M!lpcb_del_node(q, p) = lpcb_del_node(q, p)
               /\ S!lpcb_del_node(q, p) = lpcb_del_node(q, p)
               /\ B!lpcb_del_node(q, p) = lpcb_del_node(q, p)
               /\ X!lpcb_del_node(q, p) = lpcb_del_node(q, p)
BY DEF ToSet, M!ToSet, S!ToSet, B!ToSet, X!ToSet, lpcb_del_node, M!lpcb_del_node,
       S!lpcb_del_node, B!lpcb_del_node, X!lpcb_del_node,
       RemoveAt, M!RemoveAt, S!RemoveAt, B!RemoveAt, X!RemoveAt

-----------------------------------------------------------------------------
(* The mutex                                                                *)

\* MutexInv of the values of the mutex's variables.
MutexOK(st, op, q, pcs, h) ==
  /\ st \in {"LOCKED", "UNLOCKED"} /\ op \in Proc \cup {NoPid}
  /\ q \in Seq(Proc) /\ Distinct(q)
  /\ pcs \in [Proc -> {"user", "blocked", "woken", "dead"}]
  /\ \A p \in Proc : pcs[p] = "blocked" <=> p \in ToSet(q)
  /\ h \in SUBSET Proc
  /\ \A p \in h : st = "LOCKED" /\ op = p /\ pcs[p] = "user"
  /\ st = "LOCKED" => op \in h \/ (op \in Proc /\ pcs[op] = "woken")

\* MutexOK is MutexInv, before and after a step.
LEMMA MutexParts ==
  /\ M!MutexInv <=> MutexOK(m_status, m_opid, m_queue, m_pc, holding)
  /\ M!MutexInv' <=> MutexOK(m_status', m_opid', m_queue', m_pc', holding')
BY SameHelpers DEF M!MutexInv, M!TypeOK, M!MutualExclusion, M!QueueIsBlocked, M!OwnerAlive,
                   Distinct, MutexOK

\* The mutex after init_locks() satisfies its invariant.
LEMMA MutexInit == M!Init => M!MutexInv
BY MutexParts, EmptyQueue DEF M!Init, MutexOK

\* Every operation on the mutex preserves its invariant.
LEMMA MutexStep ==
  ASSUME M!MutexInv, [M!Next]_mutex
  PROVE  M!MutexInv'
<1> DEFINE Post == MutexOK(m_status', m_opid', m_queue', m_pc', holding')
<1>1. MutexOK(m_status, m_opid, m_queue, m_pc, holding)
  BY MutexParts
<1>2. ASSUME NEW p \in Proc, M!Acquire(p) \/ M!Resume(p) PROVE Post
  <2>1. M!AcquireLoop(p) /\ m_pc[p] \in {"user", "woken"} /\ p \notin ToSet(m_queue)
    BY <1>1, <1>2 DEF M!Acquire, M!Resume, MutexOK
  <2>2. CASE m_status = "LOCKED" /\ m_opid # p
    <3> DEFINE r == Append(m_queue, p)
    <3>1. r \in Seq(Proc) /\ Distinct(r) /\ ToSet(r) = ToSet(m_queue) \cup {p}
      BY <1>1, <2>1, Enqueue DEF MutexOK
    <3>2. /\ m_queue' = r /\ m_pc' = [m_pc EXCEPT ![p] = "blocked"]
          /\ UNCHANGED <<m_status, m_opid, holding>>
      BY <2>1, <2>2 DEF M!AcquireLoop
    <3> HIDE DEF r
    <3>3. QED
      BY <1>1, <2>1, <2>2, <3>1, <3>2 DEF MutexOK
  <2>3. CASE ~(m_status = "LOCKED" /\ m_opid # p)
    <3>1. /\ m_status' = "LOCKED" /\ m_opid' = p /\ m_pc' = [m_pc EXCEPT ![p] = "user"]
          /\ holding' = holding \cup {p} /\ m_queue' = m_queue
      BY <2>1, <2>3 DEF M!AcquireLoop
    <3>2. \A q \in holding : q = p
      BY <1>1, <2>3 DEF MutexOK
    <3>3. \A q \in holding' : m_status' = "LOCKED" /\ m_opid' = q /\ m_pc'[q] = "user"
      BY <1>1, <3>1, <3>2 DEF MutexOK
    <3>4. /\ m_pc' \in [Proc -> {"user", "blocked", "woken", "dead"}]
          /\ \A q \in Proc : m_pc'[q] = "blocked" <=> q \in ToSet(m_queue')
      BY <1>1, <2>1, <3>1 DEF MutexOK
    <3>5. /\ holding' \in SUBSET Proc /\ m_opid' \in holding'
          /\ m_status' \in {"LOCKED", "UNLOCKED"} /\ m_opid' \in Proc \cup {NoPid}
          /\ m_queue' \in Seq(Proc) /\ Distinct(m_queue')
      BY <1>1, <3>1 DEF MutexOK
    <3>6. QED
      BY <3>3, <3>4, <3>5 DEF MutexOK
  <2>4. QED
    BY <2>2, <2>3
<1>3. ASSUME NEW p \in Proc, M!Release(p) PROVE Post
  <2>1. CASE m_queue = <<>>
    BY <1>1, <1>3, <2>1 DEF M!Release, MutexOK
  <2>2. CASE m_queue # <<>>
    <3> DEFINE r == Tail(m_queue)
    <3>1. /\ Head(m_queue) \in Proc /\ Head(m_queue) \in ToSet(m_queue)
          /\ r \in Seq(Proc) /\ Distinct(r) /\ ToSet(r) = ToSet(m_queue) \ {Head(m_queue)}
      BY <1>1, <2>2, Dequeue DEF MutexOK
    <3>2. /\ m_queue' = r /\ m_pc' = [m_pc EXCEPT ![Head(m_queue)] = "woken"]
          /\ m_pc[p] = "user" /\ m_opid = p /\ m_status' = "UNLOCKED"
          /\ m_opid' = m_opid /\ holding' = holding \ {p}
      BY <1>3, <2>2 DEF M!Release
    <3> HIDE DEF r
    <3>3. QED
      BY <1>1, <3>1, <3>2 DEF MutexOK
  <2>3. QED
    BY <2>1, <2>2
<1>4. ASSUME NEW p \in Proc, M!Kill(p) PROVE Post
  <2> DEFINE rest == lpcb_del_node(m_queue, p)
             owned == m_status = "LOCKED" /\ m_opid = p
  <2>1. /\ rest \in Seq(Proc) /\ Distinct(rest) /\ ToSet(rest) = ToSet(m_queue) \ {p}
        /\ m_pc[p] # "dead"
    BY <1>1, <1>4, DelNode DEF M!Kill, MutexOK
  <2>2. CASE owned /\ rest # <<>>
    <3>1. /\ m_pc' = [q \in Proc |-> IF q = p THEN "dead"
                                     ELSE IF q = Head(rest) THEN "woken" ELSE m_pc[q]]
          /\ m_queue' = Tail(rest) /\ m_status' = m_status
          /\ m_opid' = Head(rest) /\ holding' = holding \ {p}
      BY <1>4, <2>2, SameHelpers DEF M!Kill
    <3>2. QED
      BY <1>1, <2>1, <2>2, <3>1, Dequeue DEF MutexOK
  <2>3. CASE ~(owned /\ rest # <<>>)
    <3>1. /\ m_pc' = [q \in Proc |-> IF q = p THEN "dead" ELSE m_pc[q]]
          /\ m_queue' = rest /\ m_status' = (IF owned THEN "UNLOCKED" ELSE m_status)
          /\ m_opid' = m_opid /\ holding' = holding \ {p}
      BY <1>4, <2>3, SameHelpers DEF M!Kill
    <3> HIDE DEF rest
    <3>2. CASE owned
      BY <1>1, <2>1, <3>1, <3>2 DEF MutexOK
    <3>3. CASE ~owned
      BY <1>1, <2>1, <3>1, <3>3 DEF MutexOK
    <3>4. QED
      BY <3>2, <3>3
  <2>4. QED
    BY <2>2, <2>3
<1>5. ASSUME NEW p \in Proc, M!Start(p) PROVE Post
  BY <1>1, <1>5 DEF M!Start, MutexOK
<1>6. ASSUME UNCHANGED mutex PROVE Post
  <2>1. /\ m_status' = m_status /\ m_opid' = m_opid /\ m_queue' = m_queue
        /\ m_pc' = m_pc /\ holding' = holding
    BY <1>6 DEF mutex
  <2>2. QED
    BY <1>1, <2>1
<1>7. QED
  BY <1>2, <1>3, <1>4, <1>5, <1>6, MutexParts DEF M!Next

\* Whatever is done to the mutex, its waiters lose the process that is to wake
\* them only when a woken process is killed.
LEMMA MutexWakeStep ==
  ASSUME M!MutexInv, [M!Next]_mutex, m_queue = <<>> \/ M!SomeoneWillWake
  PROVE  \/ m_queue' = <<>> \/ M!SomeoneWillWake'
         \/ \E p \in Proc : m_pc[p] = "woken" /\ m_pc'[p] = "dead"
<1> DEFINE Awaited == m_queue' = <<>> \/ M!SomeoneWillWake'
           Lost == \E p \in Proc : m_pc[p] = "woken" /\ m_pc'[p] = "dead"
<1>1. MutexOK(m_status, m_opid, m_queue, m_pc, holding)
  BY MutexParts
<1>2. ASSUME NEW p \in Proc, M!Acquire(p) \/ M!Resume(p) PROVE Awaited
  BY <1>1, <1>2 DEF M!Acquire, M!Resume, M!AcquireLoop, M!SomeoneWillWake
<1>3. ASSUME NEW p \in Proc, M!Release(p) PROVE Awaited
  <2>1. CASE m_queue = <<>>
    BY <1>3, <2>1 DEF M!Release
  <2>2. CASE m_queue # <<>>
    <3>1. Head(m_queue) \in Proc
      BY <1>1, <2>2 DEF MutexOK
    <3>2. m_pc'[Head(m_queue)] = "woken"
      BY <1>1, <1>3, <2>2, <3>1 DEF M!Release, MutexOK
    <3>3. QED
      BY <3>1, <3>2 DEF M!SomeoneWillWake
  <2>3. QED
    BY <2>1, <2>2
<1>4. ASSUME NEW p \in Proc, M!Kill(p) PROVE Awaited \/ Lost
  <2>1. /\ m_pc'[p] = "dead"
        /\ \A q \in Proc \ {p} : m_pc[q] = "woken" => m_pc'[q] = "woken"
    BY <1>1, <1>4 DEF M!Kill, MutexOK
  <2>2. CASE m_pc[p] = "woken"
    BY <2>1, <2>2
  <2>3. CASE m_queue = <<>>
    <3>1. lpcb_del_node(m_queue, p) = <<>>
      BY <2>3 DEF lpcb_del_node
    <3>2. QED
      BY <1>4, <3>1, SameHelpers DEF M!Kill
  <2>4. CASE m_status = "LOCKED"
    <3>1. m_status' = "LOCKED" \/ m_queue' = <<>>
      BY <1>4, <2>4 DEF M!Kill
    <3>2. QED
      BY <3>1 DEF M!SomeoneWillWake
  <2>5. CASE \E q \in Proc \ {p} : m_pc[q] = "woken"
    BY <2>1, <2>5 DEF M!SomeoneWillWake
  <2>6. QED
    BY <2>2, <2>3, <2>4, <2>5 DEF M!SomeoneWillWake
<1>5. ASSUME NEW p \in Proc, M!Start(p) PROVE Awaited
  BY <1>1, <1>5 DEF M!Start, MutexOK, M!SomeoneWillWake
<1>6. ASSUME UNCHANGED mutex PROVE Awaited
  BY <1>6 DEF mutex, M!SomeoneWillWake
<1>7. QED
  BY <1>2, <1>3, <1>4, <1>5, <1>6 DEF M!Next

-----------------------------------------------------------------------------
(* The semaphore                                                            *)

\* SemInv of the values of the semaphore's variables.
SemOK(op, v, q, pcs, cr) ==
  /\ op \in Proc \cup {NoPid} /\ v \in Int /\ cr \in Int
  /\ q \in Seq(Proc) /\ Distinct(q)
  /\ pcs \in [Proc -> {"user", "blocked", "woken", "dead"}]
  /\ \A p \in Proc : pcs[p] = "blocked" <=> p \in ToSet(q)
  /\ v >= 0 => q = <<>>
  /\ v < 0 => Len(q) <= -v
  /\ op = NoPid => q = <<>>
  /\ op # NoPid /\ (\A i \in Initial : i >= 0) => cr >= 0 /\ v <= cr

\* SemOK is SemInv, before and after a step.
LEMMA SemParts ==
  /\ S!SemInv <=> SemOK(s_opid, value, s_queue, s_pc, credit)
  /\ S!SemInv' <=> SemOK(s_opid', value', s_queue', s_pc', credit')
BY SameHelpers DEF S!SemInv, S!TypeOK, S!NoPanic, S!QueueBounded, S!NoOrphanWaiters,
                   S!NeverOverGranted, Distinct, SemOK

\* The semaphore after init_semaphores() satisfies its invariant.
LEMMA SemInit == S!Init => S!SemInv
BY SemParts, EmptyQueue DEF S!Init, SemOK

\* Every operation on the semaphore preserves its invariant.
LEMMA SemStep ==
  ASSUME S!SemInv, [S!Next]_semaphore
  PROVE  S!SemInv'
<1> DEFINE Post == SemOK(s_opid', value', s_queue', s_pc', credit')
<1>1. SemOK(s_opid, value, s_queue, s_pc, credit)
  BY SemParts
<1>2. ASSUME NEW p \in Proc, NEW v \in Initial, S!SemaphoreInit(p, v) PROVE Post
  BY <1>1, <1>2, EmptyQueue, LockAssumption DEF S!SemaphoreInit, SemOK
<1>3. ASSUME NEW p \in Proc, S!Up(p) PROVE Post
  <2>1. CASE value < 0 /\ s_queue # <<>>
    <3> DEFINE r == Tail(s_queue)
    <3>1. /\ Head(s_queue) \in Proc /\ Head(s_queue) \in ToSet(s_queue)
          /\ r \in Seq(Proc) /\ Distinct(r) /\ ToSet(r) = ToSet(s_queue) \ {Head(s_queue)}
          /\ Len(r) = Len(s_queue) - 1
      BY <1>1, <2>1, Dequeue DEF SemOK
    <3>2. /\ value' = value + 1 /\ s_queue' = r /\ credit' = credit /\ s_opid' = s_opid
          /\ s_pc' = [q \in Proc |-> IF q = Head(s_queue) THEN "woken" ELSE s_pc[q]]
      BY <1>3, <2>1 DEF S!Up, S!Woken
    <3> HIDE DEF r
    <3>3. Len(r) \in Nat /\ (Len(r) = 0 => r = <<>>)
      BY <3>1
    <3>4. QED
      BY <1>1, <2>1, <3>1, <3>2, <3>3 DEF SemOK
  <2>2. CASE ~(value < 0 /\ s_queue # <<>>)
    BY <1>1, <1>3, <2>2, EmptyQueue DEF S!Up, SemOK
  <2>3. QED
    BY <2>1, <2>2
<1>4. ASSUME NEW p \in Proc, S!Down(p) PROVE Post
  <2>1. /\ s_pc[p] = "user" /\ s_opid # NoPid /\ value' = value - 1 /\ s_opid' = s_opid
        /\ p \notin ToSet(s_queue)
    BY <1>1, <1>4 DEF S!Down, SemOK
  <2>2. CASE value' < 0
    <3> DEFINE r == Append(s_queue, p)
    <3>1. /\ r \in Seq(Proc) /\ Distinct(r) /\ ToSet(r) = ToSet(s_queue) \cup {p}
          /\ Len(r) = Len(s_queue) + 1
      BY <1>1, <2>1, Enqueue DEF SemOK
    <3>2. /\ s_queue' = r /\ s_pc' = [s_pc EXCEPT ![p] = "blocked"] /\ credit' = credit
      BY <1>4, <2>2 DEF S!Down
    <3> HIDE DEF r
    <3>3. Len(s_queue) <= -value
      BY <1>1, <2>1, <2>2, EmptyQueue DEF SemOK
    <3>4. QED
      BY <1>1, <2>1, <2>2, <3>1, <3>2, <3>3 DEF SemOK
  <2>3. CASE ~(value' < 0)
    BY <1>1, <1>4, <2>1, <2>3 DEF S!Down, SemOK
  <2>4. QED
    BY <2>2, <2>3
<1>5. ASSUME NEW p \in Proc, S!Resume(p) PROVE Post
  BY <1>1, <1>5 DEF S!Resume, SemOK
<1>6. ASSUME NEW p \in Proc, S!Destroy(p) PROVE Post
  <2>1. /\ s_opid' = NoPid /\ s_queue' = <<>> /\ credit' = 0 /\ value' = value
        /\ s_pc' = [q \in Proc |-> IF q \in ToSet(s_queue) THEN "woken" ELSE s_pc[q]]
    BY <1>6, SameHelpers DEF S!Destroy, S!Woken
  <2>2. QED
    BY <1>1, <2>1, EmptyQueue DEF SemOK
<1>7. ASSUME NEW p \in Proc, S!Kill(p) PROVE Post
  <2> DEFINE rest == lpcb_del_node(s_queue, p)
  <2>1. /\ rest \in Seq(Proc) /\ Distinct(rest) /\ ToSet(rest) = ToSet(s_queue) \ {p}
        /\ Len(rest) <= Len(s_queue) /\ (s_queue = <<>> => rest = <<>>)
    <3>1. s_queue \in Seq(Proc) /\ Distinct(s_queue) /\ Len(s_queue) \in Nat
      BY <1>1 DEF SemOK
    <3>2. s_queue = <<>> => rest = <<>>
      BY DEF lpcb_del_node
    <3>3. QED
      BY <3>1, <3>2, DelNode
  <2>2. /\ s_opid' = (IF s_opid = p THEN NoPid ELSE s_opid) /\ value' = value
        /\ s_queue' = (IF s_opid = p THEN <<>> ELSE rest)
        /\ s_pc' = [q \in Proc |-> IF q = p THEN "dead"
                                   ELSE IF s_opid = p /\ q \in ToSet(rest) THEN "woken"
                                   ELSE s_pc[q]]
        /\ credit' = (IF s_opid = p THEN 0 ELSE credit)
    BY <1>7, SameHelpers DEF S!Kill, S!Woken
  <2> HIDE DEF rest
  <2>3. CASE s_opid = p
    BY <1>1, <2>1, <2>2, <2>3, EmptyQueue DEF SemOK
  <2>4. CASE s_opid # p
    BY <1>1, <2>1, <2>2, <2>4 DEF SemOK
  <2>5. QED
    BY <2>3, <2>4
<1>8. ASSUME NEW p \in Proc, S!Start(p) PROVE Post
  BY <1>1, <1>8 DEF S!Start, SemOK
<1>9. ASSUME UNCHANGED semaphore PROVE Post
  <2>1. /\ s_opid' = s_opid /\ value' = value /\ s_queue' = s_queue
        /\ s_pc' = s_pc /\ credit' = credit
    BY <1>9 DEF semaphore
  <2>2. QED
    BY <1>1, <2>1
<1>10. QED
  BY <1>2, <1>3, <1>4, <1>5, <1>6, <1>7, <1>8, <1>9, SemParts DEF S!Next

-----------------------------------------------------------------------------
(* The barrier                                                              *)

\* BarrierInv of the values of the barrier's variables.
BarrierOK(op, g, c, q, pcs, l) ==
  /\ op \in Proc \cup {NoPid} /\ g \in Int /\ c \in Nat /\ l \in Nat
  /\ q \in Seq(Proc) /\ Distinct(q)
  /\ pcs \in [Proc -> {"user", "blocked", "woken", "dead"}]
  /\ \A p \in Proc : pcs[p] = "blocked" <=> p \in ToSet(q)
  /\ op # NoPid => c = Len(q) + l
  /\ op # NoPid /\ g > 0 => c < g
  /\ op = NoPid => q = <<>>

\* BarrierOK is BarrierInv, before and after a step.
LEMMA BarrierParts ==
  /\ B!BarrierInv <=> BarrierOK(b_opid, goal, come, b_queue, b_pc, lost)
  /\ B!BarrierInv' <=> BarrierOK(b_opid', goal', come', b_queue', b_pc', lost')
BY SameHelpers DEF B!BarrierInv, B!TypeOK, B!ComeCountsThisRound, B!NeverFull,
                   B!NoOrphanWaiters, Distinct, BarrierOK

\* The barrier after init_barriers() satisfies its invariant.
LEMMA BarrierInitially == B!Init => B!BarrierInv
BY BarrierParts, EmptyQueue DEF B!Init, BarrierOK

\* Every operation on the barrier preserves its invariant.
LEMMA BarrierStep ==
  ASSUME B!BarrierInv, [B!Next]_barrier
  PROVE  B!BarrierInv'
<1> DEFINE Post == BarrierOK(b_opid', goal', come', b_queue', b_pc', lost')
<1>1. BarrierOK(b_opid, goal, come, b_queue, b_pc, lost)
  BY BarrierParts
<1>2. ASSUME NEW p \in Proc, NEW g \in Goals, B!BarrierInit(p, g) PROVE Post
  BY <1>1, <1>2, EmptyQueue, LockAssumption DEF B!BarrierInit, BarrierOK
<1>3. ASSUME NEW p \in Proc, B!Wait(p) PROVE Post
  <2>1. /\ b_pc[p] = "user" /\ b_opid # NoPid /\ b_opid' = b_opid /\ goal' = goal
        /\ p \notin ToSet(b_queue)
    BY <1>1, <1>3 DEF B!Wait, BarrierOK
  <2>2. CASE come + 1 >= goal
    <3>1. /\ come' = 0 /\ lost' = 0 /\ b_queue' = <<>>
          /\ b_pc' = [q \in Proc |-> IF q \in ToSet(b_queue) THEN "woken" ELSE b_pc[q]]
      BY <1>3, <2>2, SameHelpers DEF B!Wait, B!Woken
    <3>2. QED
      BY <1>1, <2>1, <3>1, EmptyQueue DEF BarrierOK
  <2>3. CASE ~(come + 1 >= goal)
    <3> DEFINE r == Append(b_queue, p)
    <3>1. /\ r \in Seq(Proc) /\ Distinct(r) /\ ToSet(r) = ToSet(b_queue) \cup {p}
          /\ Len(r) = Len(b_queue) + 1
      BY <1>1, <2>1, Enqueue DEF BarrierOK
    <3>2. /\ come' = come + 1 /\ lost' = lost /\ b_queue' = r
          /\ b_pc' = [b_pc EXCEPT ![p] = "blocked"]
      BY <1>3, <2>3 DEF B!Wait
    <3> HIDE DEF r
    <3>3. QED
      BY <1>1, <2>1, <2>3, <3>1, <3>2 DEF BarrierOK
  <2>4. QED
    BY <2>2, <2>3
<1>4. ASSUME NEW p \in Proc, B!Resume(p) PROVE Post
  BY <1>1, <1>4 DEF B!Resume, BarrierOK
<1>5. ASSUME NEW p \in Proc, B!Destroy(p) PROVE Post
  <2>1. /\ b_opid' = NoPid /\ b_queue' = <<>> /\ lost' = 0 /\ come' = come /\ goal' = goal
        /\ b_pc' = [q \in Proc |-> IF q \in ToSet(b_queue) THEN "woken" ELSE b_pc[q]]
    BY <1>5, SameHelpers DEF B!Destroy, B!Woken
  <2>2. QED
    BY <1>1, <2>1, EmptyQueue DEF BarrierOK
<1>6. ASSUME NEW p \in Proc, B!Kill(p) PROVE Post
  <2> DEFINE rest == lpcb_del_node(b_queue, p)
  <2>1. /\ rest \in Seq(Proc) /\ Distinct(rest) /\ ToSet(rest) = ToSet(b_queue) \ {p}
        /\ Len(rest) = (IF b_pc[p] = "blocked" THEN Len(b_queue) - 1 ELSE Len(b_queue))
        /\ (b_queue = <<>> => rest = <<>>)
    <3>1. /\ b_queue \in Seq(Proc) /\ Distinct(b_queue)
          /\ b_pc[p] = "blocked" <=> p \in ToSet(b_queue)
      BY <1>1 DEF BarrierOK
    <3>2. b_queue = <<>> => rest = <<>>
      BY DEF lpcb_del_node
    <3>3. QED
      BY <3>1, <3>2, DelNode
  <2>2. /\ b_opid' = (IF b_opid = p THEN NoPid ELSE b_opid)
        /\ goal' = goal /\ come' = come
        /\ b_queue' = (IF b_opid = p THEN <<>> ELSE rest)
        /\ b_pc' = [q \in Proc |-> IF q = p THEN "dead"
                                   ELSE IF b_opid = p /\ q \in ToSet(rest) THEN "woken"
                                   ELSE b_pc[q]]
        /\ lost' = IF b_opid = p THEN 0 ELSE IF b_pc[p] = "blocked" THEN lost + 1 ELSE lost
    BY <1>6, SameHelpers DEF B!Kill, B!Woken
  <2> HIDE DEF rest
  <2>3. CASE b_opid = p
    BY <1>1, <2>1, <2>2, <2>3, EmptyQueue, LockAssumption DEF BarrierOK
  <2>4. CASE b_opid # p
    BY <1>1, <2>1, <2>2, <2>4 DEF BarrierOK
  <2>5. QED
    BY <2>3, <2>4
<1>7. ASSUME NEW p \in Proc, B!Start(p) PROVE Post
  BY <1>1, <1>7 DEF B!Start, BarrierOK
<1>8. ASSUME UNCHANGED barrier PROVE Post
  <2>1. /\ b_opid' = b_opid /\ goal' = goal /\ come' = come /\ b_queue' = b_queue
        /\ b_pc' = b_pc /\ lost' = lost
    BY <1>8 DEF barrier
  <2>2. QED
    BY <1>1, <2>1
<1>9. QED
  BY <1>2, <1>3, <1>4, <1>5, <1>6, <1>7, <1>8, BarrierParts DEF B!Next

-----------------------------------------------------------------------------
(* All of them together                                                     *)

\* A step of Locks is, for each lock, a step of its module or none at all.
LEMMA StepOfEach ==
  ASSUME [Next]_vars
  PROVE  /\ [M!Next]_mutex /\ [S!Next]_semaphore /\ [B!Next]_barrier
         /\ [X!Next]_mailbox
<1>1. ASSUME NEW p \in Proc, Acquire(p) \/ Release(p) \/ ResumeAcquire(p)
      PROVE  M!Next /\ UNCHANGED <<semaphore, barrier, mailbox>>
  BY <1>1 DEF Acquire, Release, ResumeAcquire, OnMutex, M!Next
<1>2. ASSUME NEW p \in Proc,
             \/ Up(p) \/ Down(p) \/ SemaphoreDestroy(p) \/ ResumeDown(p)
             \/ \E v \in Initial : SemaphoreInit(p, v)
      PROVE  S!Next /\ UNCHANGED <<mutex, barrier, mailbox>>
  BY <1>2 DEF Up, Down, SemaphoreDestroy, ResumeDown, SemaphoreInit, OnSemaphore, S!Next
<1>3. ASSUME NEW p \in Proc,
             \/ Wait(p) \/ BarrierDestroy(p) \/ ResumeWait(p)
             \/ \E g \in Goals : BarrierInit(p, g)
      PROVE  B!Next /\ UNCHANGED <<mutex, semaphore, mailbox>>
  BY <1>3 DEF Wait, BarrierDestroy, ResumeWait, BarrierInit, OnBarrier, B!Next
<1>4. ASSUME NEW p \in Proc,
             \/ Open(p) \/ Close(p) \/ ResumeSend(p) \/ ResumeRecv(p)
             \/ \E n \in Lengths : Send(p, n) \/ Recv(p, n)
      PROVE  X!Next /\ UNCHANGED <<mutex, semaphore, barrier>>
  BY <1>4 DEF Open, Close, ResumeSend, ResumeRecv, Send, Recv, OnMailbox, X!Next
<1>5. ASSUME NEW p \in Proc, Kill(p) \/ Start(p)
      PROVE  M!Next /\ S!Next /\ B!Next /\ X!Next
  BY <1>5 DEF Kill, Start, M!Next, S!Next, B!Next, X!Next
<1>6. ASSUME UNCHANGED vars PROVE UNCHANGED <<mutex, semaphore, barrier, mailbox>>
  BY <1>6 DEF vars
<1>7. QED
  BY <1>1, <1>2, <1>3, <1>4, <1>5, <1>6 DEF Next

\* Two processes never hold the mutex together, and ress_release_killed()
\* leaves no mutex to a dead owner, nor a dead or a running process in its
\* queue, for any number of processes that acquire, release and are killed.
THEOREM MutexCorrect == Spec => []MutexInv
<1>1. Init => MutexInv
  BY MutexInit DEF Init, MutexInv
<1>2. MutexInv /\ [Next]_vars => MutexInv'
  BY MutexStep, StepOfEach DEF MutexInv
<1>3. QED
  BY <1>1, <1>2, PTL DEF Spec

\* The waiters of a free mutex are stranded only by a kill of the process that
\* do_mutex_lock_release() woke for them, for any number of processes.
THEOREM MutexWakesKept == Spec => StrandedOnlyByKill
<1>1. MutexInv /\ [Next]_vars =>
        [m_queue = <<>> \/ M!SomeoneWillWake =>
           \/ (m_queue = <<>> \/ M!SomeoneWillWake)'
           \/ \E p \in Proc : m_pc[p] = "woken" /\ m_pc'[p] = "dead"]_M!vars
  BY MutexWakeStep, StepOfEach DEF MutexInv
<1>2. QED
  BY <1>1, MutexCorrect, PTL DEF Spec, StrandedOnlyByKill, M!StrandedOnlyByKill

\* The panic_g() of do_semaphore_up() is not reached, nobody waits on a
\* destroyed semaphore, and no down passes without an up, for any number of
\* processes and any initial values, although killed waiters leave debts.
THEOREM SemaphoreCorrect == Spec => []SemInv
<1>1. Init => SemInv
  BY SemInit DEF Init, SemInv
<1>2. SemInv /\ [Next]_vars => SemInv'
  BY SemStep, StepOfEach DEF SemInv
<1>3. QED
  BY <1>1, <1>2, PTL DEF Spec

\* do_barrier_wait() counts the waiters of this round and the killed ones, never
\* reaches the goal with waiters left in the queue, and strands nobody when the
\* barrier is destroyed, for any number of processes and any goals.
THEOREM BarrierCorrect == Spec => []BarrierInv
<1>1. Init => BarrierInv
  BY BarrierInitially DEF Init, BarrierInv
<1>2. BarrierInv /\ [Next]_vars => BarrierInv'
  BY BarrierStep, StepOfEach DEF BarrierInv
<1>3. QED
  BY <1>1, <1>2, PTL DEF Spec
-----------------------------------------------------------------------------
(* The mailbox.                                                             *)

\* Induction on the natural numbers, over a set.
LEMMA NatSetInduction ==
  ASSUME NEW T, 0 \in T, \A k \in Nat : k \in T => k + 1 \in T
  PROVE  Nat \subseteq T
<1> SUFFICES ASSUME Nat \ T # {} PROVE FALSE
  OBVIOUS
<1>1. PICK x \in Nat \ T : \A y \in Nat \ T : <<y, x>> \notin OpToRel(<, Nat)
  BY NatLessThanWellFounded, WFMin
<1>2. x # 0 /\ x - 1 \in Nat
  OBVIOUS
<1>3. x - 1 \in Nat \ T
  BY <1>2
<1>4. <<x - 1, x>> \in OpToRel(<, Nat)
  BY <1>2 DEF OpToRel
<1>5. QED
  BY <1>1, <1>3, <1>4

\* The largest of the first k + 1 positive numbers is the last one.
LEMMA LastIsMax ==
  ASSUME NEW k \in Nat, NEW s \in SUBSET (1 .. k + 1), k + 1 \in s
  PROVE  X!Max(s) = k + 1 /\ s \ {k + 1} \in SUBSET (1 .. k)
<1>1. \A x \in s : x \in Int /\ k + 1 >= x
  OBVIOUS
<1>2. X!Max(s) \in s /\ \A y \in s : X!Max(s) >= y
  BY <1>1 DEF X!Max
<1>3. X!Max(s) \in Int /\ X!Max(s) >= k + 1 /\ k + 1 >= X!Max(s)
  BY <1>1, <1>2
<1>4. X!Max(s) = k + 1
  BY <1>3
<1>5. s \ {k + 1} \in SUBSET (1 .. k)
  OBVIOUS
<1>6. QED
  BY <1>4, <1>5

\* What the loops of do_mbox_send() and do_mbox_recv() make of a buffer.
Entered(b, m) == X!FoldLeft(X!queue_enter, b, m)
Departed(r, n) == X!FoldLeft(LAMBDA a, i : X!queue_depart(a), r, [i \in 1 .. n |-> i])
Taken(b, n) == Departed([b |-> b, got |-> <<>>], n)

\* The loop over queue_enter(): t[k] is the buffer after k bytes of m.
LEMMA EnterFold ==
  ASSUME NEW b, NEW m \in Seq(X!Byte)
  PROVE  \E t : /\ t[0] = b
                /\ \A k \in 1 .. Len(m) : t[k] = X!queue_enter(t[k - 1], m[k])
                /\ Entered(b, m) = t[Len(m)]
<1> DEFINE n == Len(m)
<1>n. n \in Nat /\ DOMAIN m = 1 .. n
  OBVIOUS
<1> HIDE DEF n
<1> DEFINE IsFold(g, k) ==
             g = [s \in SUBSET (1 .. k) |->
                    IF s = {} THEN b
                    ELSE X!queue_enter(g[s \ {X!Max(s)}], m[X!Max(s)])]
           T == {k \in Nat : \E g : IsFold(g, k)}
<1>1. 0 \in T
  <2> DEFINE g == [s \in SUBSET (1 .. 0) |-> b]
  <2>1. SUBSET (1 .. 0) = {{}}
    OBVIOUS
  <2>2. IsFold(g, 0)
    BY <2>1
  <2>3. QED
    BY <2>2
<1>2. ASSUME NEW k \in Nat, k \in T PROVE k + 1 \in T
  <2>1. PICK g : IsFold(g, k)
    BY <1>2
  <2> DEFINE h == [s \in SUBSET (1 .. k + 1) |->
                     IF k + 1 \in s THEN X!queue_enter(g[s \ {k + 1}], m[k + 1]) ELSE g[s]]
  <2>2. \A s \in SUBSET (1 .. k) : s \in SUBSET (1 .. k + 1) /\ h[s] = g[s]
    OBVIOUS
  <2>3. ASSUME NEW s \in SUBSET (1 .. k + 1)
        PROVE  h[s] = IF s = {} THEN b
                      ELSE X!queue_enter(h[s \ {X!Max(s)}], m[X!Max(s)])
    <3>1. CASE k + 1 \in s
      BY <3>1, <2>2, LastIsMax
    <3>2. CASE k + 1 \notin s
      <4>1. s \in SUBSET (1 .. k) /\ s \ {X!Max(s)} \in SUBSET (1 .. k)
        <5>1. \A x \in s : x \in 1 .. k + 1 /\ x # k + 1
          BY <3>2
        <5>2. \A x \in s : x \in 1 .. k
          BY <5>1
        <5>3. QED
          BY <5>2
      <4>2. g[s] = IF s = {} THEN b
                   ELSE X!queue_enter(g[s \ {X!Max(s)}], m[X!Max(s)])
        BY <4>1, <2>1
      <4>3. QED
        BY <4>1, <4>2, <2>2
    <3>3. QED
      BY <3>1, <3>2
  <2>4. IsFold(h, k + 1)
    BY <2>3
  <2> HIDE DEF IsFold, h
  <2>5. QED
    BY <2>4
<1>3. PICK g : IsFold(g, n)
  BY <1>1, <1>2, <1>n, NatSetInduction
<1>4. PICK f : IsFold(f, n) /\ Entered(b, m) = f[1 .. n]
  BY <1>3, <1>n DEF Entered, X!FoldLeft, X!MapThenFoldSet
<1> DEFINE t == [k \in 0 .. n |-> f[1 .. k]]
<1>5. t[0] = b
  <2>1. 1 .. 0 = {} /\ t[0] = f[1 .. 0]
    BY <1>n
  <2>2. f[{}] = b
    BY <1>4
  <2>3. QED
    BY <2>1, <2>2
<1>6. ASSUME NEW k \in 1 .. n PROVE t[k] = X!queue_enter(t[k - 1], m[k])
  <2>1. k - 1 \in Nat /\ 1 .. k \in SUBSET (1 .. (k - 1) + 1) /\ (k - 1) + 1 \in 1 .. k
    OBVIOUS
  <2>2. X!Max(1 .. k) = (k - 1) + 1
    BY <2>1, LastIsMax
  <2>3. (k - 1) + 1 = k /\ (1 .. k) \ {k} = 1 .. k - 1
    OBVIOUS
  <2>4. 1 .. k # {} /\ 1 .. k \in SUBSET (1 .. n)
    <3>1. k \in 1 .. k
      OBVIOUS
    <3>2. \A i \in 1 .. k : i \in 1 .. n
      BY <1>n
    <3>3. QED
      BY <3>1, <3>2
  <2>5. f[1 .. k] = X!queue_enter(f[(1 .. k) \ {X!Max(1 .. k)}], m[X!Max(1 .. k)])
    BY <1>4, <2>4
  <2>6. t[k] = f[1 .. k] /\ t[k - 1] = f[1 .. k - 1]
    BY <1>n
  <2>7. QED
    BY <2>2, <2>3, <2>5, <2>6
<1>7. t[n] = f[1 .. n]
  BY <1>n
<1> HIDE DEF t
<1>8. QED
  BY <1>4, <1>5, <1>6, <1>7 DEF n
\* The loop over queue_depart(): t[k] is the buffer, and what was taken from it,
\* after k bytes.
LEMMA DepartFold ==
  ASSUME NEW b, NEW n \in Nat
  PROVE  \E t : /\ t[0] = b
                /\ \A k \in 1 .. n : t[k] = X!queue_depart(t[k - 1])
                /\ Departed(b, n) = t[n]
<1> DEFINE IsFold(g, k) ==
             g = [s \in SUBSET (1 .. k) |->
                    IF s = {} THEN b
                    ELSE X!queue_depart(g[s \ {X!Max(s)}])]
           T == {k \in Nat : \E g : IsFold(g, k)}
<1>1. 0 \in T
  <2> DEFINE g == [s \in SUBSET (1 .. 0) |-> b]
  <2>1. SUBSET (1 .. 0) = {{}}
    OBVIOUS
  <2>2. IsFold(g, 0)
    BY <2>1
  <2>3. QED
    BY <2>2
<1>2. ASSUME NEW k \in Nat, k \in T PROVE k + 1 \in T
  <2>1. PICK g : IsFold(g, k)
    BY <1>2
  <2> DEFINE h == [s \in SUBSET (1 .. k + 1) |->
                     IF k + 1 \in s THEN X!queue_depart(g[s \ {k + 1}]) ELSE g[s]]
  <2>2. \A s \in SUBSET (1 .. k) : s \in SUBSET (1 .. k + 1) /\ h[s] = g[s]
    OBVIOUS
  <2>3. ASSUME NEW s \in SUBSET (1 .. k + 1)
        PROVE  h[s] = IF s = {} THEN b
                      ELSE X!queue_depart(h[s \ {X!Max(s)}])
    <3>1. CASE k + 1 \in s
      BY <3>1, <2>2, LastIsMax
    <3>2. CASE k + 1 \notin s
      <4>1. s \in SUBSET (1 .. k) /\ s \ {X!Max(s)} \in SUBSET (1 .. k)
        <5>1. \A x \in s : x \in 1 .. k + 1 /\ x # k + 1
          BY <3>2
        <5>2. \A x \in s : x \in 1 .. k
          BY <5>1
        <5>3. QED
          BY <5>2
      <4>2. g[s] = IF s = {} THEN b
                   ELSE X!queue_depart(g[s \ {X!Max(s)}])
        BY <4>1, <2>1
      <4>3. QED
        BY <4>1, <4>2, <2>2
    <3>3. QED
      BY <3>1, <3>2
  <2>4. IsFold(h, k + 1)
    BY <2>3
  <2> HIDE DEF IsFold, h
  <2>5. QED
    BY <2>4
<1>3. PICK g : IsFold(g, n)
  BY <1>1, <1>2, NatSetInduction
<1>4. PICK f : IsFold(f, n) /\ Departed(b, n) = f[1 .. n]
  BY <1>3 DEF Departed, X!FoldLeft, X!MapThenFoldSet
<1> DEFINE t == [k \in 0 .. n |-> f[1 .. k]]
<1>5. t[0] = b
  <2>1. 1 .. 0 = {} /\ t[0] = f[1 .. 0]
    OBVIOUS
  <2>2. f[{}] = b
    BY <1>4
  <2>3. QED
    BY <2>1, <2>2
<1>6. ASSUME NEW k \in 1 .. n PROVE t[k] = X!queue_depart(t[k - 1])
  <2>1. k - 1 \in Nat /\ 1 .. k \in SUBSET (1 .. (k - 1) + 1) /\ (k - 1) + 1 \in 1 .. k
    OBVIOUS
  <2>2. X!Max(1 .. k) = (k - 1) + 1
    BY <2>1, LastIsMax
  <2>3. (k - 1) + 1 = k /\ (1 .. k) \ {k} = 1 .. k - 1
    OBVIOUS
  <2>4. 1 .. k # {} /\ 1 .. k \in SUBSET (1 .. n)
    <3>1. k \in 1 .. k
      OBVIOUS
    <3>2. \A i \in 1 .. k : i \in 1 .. n
      OBVIOUS
    <3>3. QED
      BY <3>1, <3>2
  <2>5. f[1 .. k] = X!queue_depart(f[(1 .. k) \ {X!Max(1 .. k)}])
    BY <1>4, <2>4
  <2>6. t[k] = f[1 .. k] /\ t[k - 1] = f[1 .. k - 1]
    OBVIOUS
  <2>7. QED
    BY <2>2, <2>3, <2>5, <2>6
<1>7. t[n] = f[1 .. n]
  OBVIOUS
<1> HIDE DEF t
<1>8. QED
  BY <1>4, <1>5, <1>6, <1>7

-----------------------------------------------------------------------------
(* The ring buffer                                                          *)

\* A ring buffer in which no byte was refused.
Ring(b) == b \in [buf : [0 .. MaxLen -> X!Byte], buf_head : 0 .. MaxLen,
                  buf_tail : 0 .. MaxLen, panic : {FALSE}]

\* The i-th slot from slot h on, around the ring.
Slot(h, i) == IF h + i <= MaxLen THEN h + i ELSE h + i - MaxLen - 1

\* The bytes in buffer b, the oldest first.
Held(b) == X!len_of_queue(b)
Chan(b) == [i \in 1 .. Held(b) |-> b.buf[(b.buf_head + i - 1) % (MaxLen + 1)]]

\* The remainder that ImplementsFifo counts slots with.
LEMMA SlotIsRemainder ==
  ASSUME NEW h \in 0 .. MaxLen, NEW i \in 1 .. MaxLen + 1
  PROVE  (h + i - 1) % (MaxLen + 1) = Slot(h, i - 1)
<1>1. MaxLen \in Nat
  BY MailboxAssumption DEF X!MailboxAssumption
<1>2. QED
  BY <1>1 DEF Slot

\* What Chan and Held are in terms of slots.
LEMMA RingFacts ==
  ASSUME NEW b, Ring(b)
  PROVE  /\ MaxLen \in Nat \ {0}
         /\ Held(b) \in 0 .. MaxLen /\ b.buf_tail = Slot(b.buf_head, Held(b))
         /\ Chan(b) \in Seq(X!Byte) /\ Len(Chan(b)) = Held(b)
         /\ \A i \in 1 .. Held(b) : Chan(b)[i] = b.buf[Slot(b.buf_head, i - 1)]
<1>1. MaxLen \in Nat \ {0}
  BY MailboxAssumption DEF X!MailboxAssumption
<1>2. Held(b) \in 0 .. MaxLen /\ b.buf_tail = Slot(b.buf_head, Held(b))
  <2>1. PICK h, t : h = b.buf_head /\ t = b.buf_tail
    OBVIOUS
  <2>2. h \in 0 .. MaxLen /\ t \in 0 .. MaxLen
    BY <2>1 DEF Ring
  <2>3. Held(b) = IF h <= t THEN t - h ELSE MaxLen + 1 - (h - t)
    BY <1>1, <2>1, <2>2 DEF Held, X!len_of_queue
  <2>4. Held(b) \in 0 .. MaxLen /\ t = Slot(h, Held(b))
    BY <1>1, <2>2, <2>3 DEF Slot
  <2> QED BY <2>1, <2>4
<1>3. \A i \in 1 .. Held(b) :
        Slot(b.buf_head, i - 1) \in 0 .. MaxLen
        /\ (b.buf_head + i - 1) % (MaxLen + 1) = Slot(b.buf_head, i - 1)
  <2>1. b.buf_head \in 0 .. MaxLen
    BY DEF Ring
  <2>2. ASSUME NEW i \in 1 .. Held(b)
        PROVE  Slot(b.buf_head, i - 1) \in 0 .. MaxLen /\ i \in 1 .. MaxLen + 1
    BY <1>1, <1>2, <2>1 DEF Slot
  <2>3. QED
    BY <2>1, <2>2, SlotIsRemainder
<1>4. \A i \in 1 .. Held(b) : /\ Chan(b)[i] = b.buf[Slot(b.buf_head, i - 1)]
                             /\ Chan(b)[i] \in X!Byte
  BY <1>3 DEF Chan, Ring
<1>5. Chan(b) \in Seq(X!Byte) /\ Len(Chan(b)) = Held(b)
  BY <1>2, <1>4 DEF Chan
<1>6. QED
  BY <1>1, <1>2, <1>4, <1>5

\* queue_enter() puts one byte behind the others.
LEMMA EnterOne ==
  ASSUME NEW b, Ring(b), NEW d \in X!Byte, Held(b) < MaxLen
  PROVE  LET r == X!queue_enter(b, d) IN
         Ring(r) /\ Held(r) = Held(b) + 1 /\ Chan(r) = Append(Chan(b), d)
<1> DEFINE r == X!queue_enter(b, d)
<1>1. MaxLen \in Nat /\ Held(b) \in 0 .. MaxLen /\ b.buf_tail = Slot(b.buf_head, Held(b))
  BY RingFacts
<1>2. /\ r.buf = [b.buf EXCEPT ![b.buf_tail] = d] /\ r.buf_head = b.buf_head
      /\ r.buf_tail = X!Succ(b.buf_tail) /\ r.panic = FALSE
      /\ r = [buf |-> r.buf, buf_head |-> r.buf_head,
              buf_tail |-> r.buf_tail, panic |-> r.panic]
  BY DEF Ring, Held, X!queue_enter
<1>3. b.buf_head \in 0 .. MaxLen /\ b.buf_tail \in 0 .. MaxLen
  BY DEF Ring
<1>4. X!Succ(b.buf_tail) \in 0 .. MaxLen
  BY <1>1, <1>3 DEF X!Succ
<1>5. Ring(r)
  BY <1>2, <1>4 DEF Ring
<1>6. Held(r) = Held(b) + 1
  BY <1>1, <1>2, <1>3 DEF Held, X!len_of_queue, X!Succ
<1> HIDE DEF r
<1>7. ASSUME NEW i \in 1 .. Held(b) PROVE Chan(r)[i] = Chan(b)[i]
  <2>1. Slot(b.buf_head, i - 1) \in 0 .. MaxLen /\ Slot(b.buf_head, i - 1) # b.buf_tail
    BY <1>1, <1>3 DEF Slot
  <2>2. r.buf[Slot(b.buf_head, i - 1)] = b.buf[Slot(b.buf_head, i - 1)]
    BY <1>2, <2>1 DEF Ring
  <2>3. i \in 1 .. Held(r)
    BY <1>1, <1>6
  <2>4. /\ Chan(r)[i] = r.buf[Slot(r.buf_head, i - 1)]
        /\ Chan(b)[i] = b.buf[Slot(b.buf_head, i - 1)]
    BY <1>5, <2>3, RingFacts
  <2>5. QED
    BY <1>2, <2>2, <2>4
<1>8. Chan(r)[Held(b) + 1] = d
  <2>1. r.buf[b.buf_tail] = d
    BY <1>2, <1>3 DEF Ring
  <2>2. Held(b) + 1 \in 1 .. Held(r) /\ (Held(b) + 1) - 1 = Held(b)
    BY <1>1, <1>6
  <2>3. Chan(r)[Held(b) + 1] = r.buf[Slot(r.buf_head, (Held(b) + 1) - 1)]
    BY <1>5, <2>2, RingFacts
  <2>4. QED
    BY <1>1, <1>2, <2>1, <2>2, <2>3
<1>9. Chan(r) = Append(Chan(b), d)
  <2>1. /\ Chan(b) \in Seq(X!Byte) /\ Len(Chan(b)) = Held(b)
        /\ Chan(r) \in Seq(X!Byte) /\ Len(Chan(r)) = Held(b) + 1
    BY <1>5, <1>6, RingFacts
  <2>2. /\ Append(Chan(b), d) \in Seq(X!Byte) /\ Len(Append(Chan(b), d)) = Held(b) + 1
        /\ \A i \in 1 .. Held(b) : Append(Chan(b), d)[i] = Chan(b)[i]
        /\ Append(Chan(b), d)[Held(b) + 1] = d
    BY <2>1, AppendProperties
  <2>3. \A i \in 1 .. Held(b) + 1 : Chan(r)[i] = Append(Chan(b), d)[i]
    BY <1>1, <1>7, <1>8, <2>2
  <2>4. QED
    BY <2>1, <2>2, <2>3, SeqEqual
<1>10. QED
  BY <1>5, <1>6, <1>9 DEF r

\* queue_depart() takes the oldest byte.
LEMMA DepartOne ==
  ASSUME NEW r, Ring(r.b), Held(r.b) > 0, r = [b |-> r.b, got |-> r.got]
  PROVE  LET n == X!queue_depart(r) IN
         /\ Ring(n.b) /\ Held(n.b) = Held(r.b) - 1 /\ Chan(n.b) = Tail(Chan(r.b))
         /\ n = [b |-> n.b, got |-> Append(r.got, Head(Chan(r.b)))]
<1> DEFINE b == r.b
           n == X!queue_depart(r)
           c == n.b
<1>1. MaxLen \in Nat /\ Held(b) \in 1 .. MaxLen /\ b.buf_tail = Slot(b.buf_head, Held(b))
  BY RingFacts
<1>2. /\ n = [b |-> [b EXCEPT !.buf_head = X!Succ(b.buf_head)],
              got |-> Append(r.got, b.buf[b.buf_head])]
      /\ n.b = [b EXCEPT !.buf_head = X!Succ(b.buf_head)]
  BY DEF Held, X!queue_depart
<1>3. /\ b.buf_head \in 0 .. MaxLen /\ b.buf_tail \in 0 .. MaxLen
      /\ X!Succ(b.buf_head) \in 0 .. MaxLen
  BY <1>1 DEF Ring, X!Succ
<1> HIDE DEF n
<1>4. /\ c.buf = b.buf /\ c.buf_head = X!Succ(b.buf_head) /\ c.buf_tail = b.buf_tail
      /\ Ring(c)
  BY <1>2, <1>3 DEF Ring
<1>5. Held(c) = Held(b) - 1
  BY <1>1, <1>3, <1>4 DEF Held, X!len_of_queue, X!Succ
<1>6. ASSUME NEW i \in 1 .. Held(b) - 1 PROVE Chan(c)[i] = Chan(b)[i + 1]
  <2>1. Slot(c.buf_head, i - 1) = Slot(b.buf_head, (i + 1) - 1)
    BY <1>1, <1>3, <1>4 DEF Slot, X!Succ
  <2>2. i \in 1 .. Held(c) /\ i + 1 \in 1 .. Held(b)
    BY <1>1, <1>5
  <2>3. Chan(c)[i] = c.buf[Slot(c.buf_head, i - 1)]
    BY <1>4, <2>2, RingFacts
  <2>4. Chan(b)[i + 1] = b.buf[Slot(b.buf_head, (i + 1) - 1)]
    BY <2>2, RingFacts
  <2>5. QED
    BY <1>4, <2>1, <2>3, <2>4
<1>7. b.buf[b.buf_head] = Chan(b)[1]
  <2>1. 1 \in 1 .. Held(b) /\ Slot(b.buf_head, 1 - 1) = b.buf_head
    BY <1>1, <1>3 DEF Slot
  <2>2. Chan(b)[1] = b.buf[Slot(b.buf_head, 1 - 1)]
    BY <2>1, RingFacts
  <2>3. QED
    BY <2>1, <2>2
<1>8. /\ Chan(b) \in Seq(X!Byte) /\ Len(Chan(b)) = Held(b)
      /\ Chan(c) \in Seq(X!Byte) /\ Len(Chan(c)) = Held(b) - 1
  BY <1>4, <1>5, RingFacts
<1>9. Chan(c) = Tail(Chan(b)) /\ Head(Chan(b)) = Chan(b)[1]
  <2>1. /\ Tail(Chan(b)) \in Seq(X!Byte) /\ Len(Tail(Chan(b))) = Held(b) - 1
        /\ \A i \in 1 .. Held(b) - 1 : Tail(Chan(b))[i] = Chan(b)[i + 1]
        /\ Head(Chan(b)) = Chan(b)[1]
    BY <1>1, <1>8
  <2>2. \A i \in 1 .. Held(b) - 1 : Chan(c)[i] = Tail(Chan(b))[i]
    BY <1>6, <2>1
  <2>3. QED
    BY <1>8, <2>1, <2>2, SeqEqual
<1>10. QED
  BY <1>2, <1>4, <1>5, <1>7, <1>9 DEF n

\* The loop of do_mbox_send() puts the whole message behind the others.
LEMMA EnterAll ==
  ASSUME NEW b, Ring(b), NEW m \in Seq(X!Byte), Held(b) + Len(m) <= MaxLen
  PROVE  LET r == Entered(b, m) IN
         Ring(r) /\ Held(r) = Held(b) + Len(m) /\ Chan(r) = Chan(b) \o m
<1>1. MaxLen \in Nat /\ Len(m) \in Nat /\ DOMAIN m = 1 .. Len(m) /\ Held(b) \in Nat
  BY RingFacts
<1>2. PICK t : /\ t[0] = b
               /\ \A k \in 1 .. Len(m) : t[k] = X!queue_enter(t[k - 1], m[k])
               /\ Entered(b, m) = t[Len(m)]
  BY EnterFold
<1> DEFINE Good(k) == /\ Ring(t[k]) /\ Held(t[k]) = Held(b) + k
                      /\ Chan(t[k]) = Chan(b) \o SubSeq(m, 1, k)
           T == {k \in Nat : k <= Len(m) => Good(k)}
<1>3. 0 \in T
  <2>1. SubSeq(m, 1, 0) = <<>>
    BY <1>1, SubSeqEmpty
  <2>2. Chan(b) \o <<>> = Chan(b)
    BY RingFacts, ConcatEmptySeq
  <2>3. Chan(b) = Chan(b) \o SubSeq(m, 1, 0)
    BY <2>1, <2>2, Zenon
  <2>4. Good(0)
    BY <1>1, <1>2, <2>3
  <2> HIDE DEF Good
  <2>5. QED
    BY <2>4
<1>4. ASSUME NEW k \in Nat, k \in T PROVE k + 1 \in T
  <2>1. SUFFICES ASSUME k + 1 <= Len(m) PROVE Good(k + 1)
    <3> HIDE DEF Good
    <3>1. QED
      OBVIOUS
  <2>2. Good(k) /\ k + 1 \in 1 .. Len(m) /\ m[k + 1] \in X!Byte
    BY <1>1, <1>4, <2>1
  <2>3. t[k + 1] = X!queue_enter(t[k], m[k + 1])
    BY <1>2, <2>2
  <2>4. Held(t[k]) < MaxLen
    BY <1>1, <2>1, <2>2
  <2>5. /\ Ring(t[k + 1]) /\ Held(t[k + 1]) = Held(t[k]) + 1
        /\ Chan(t[k + 1]) = Append(Chan(t[k]), m[k + 1])
    BY <2>2, <2>3, <2>4, EnterOne
  <2>6. Append(Chan(b) \o SubSeq(m, 1, k), m[k + 1]) = Chan(b) \o SubSeq(m, 1, k + 1)
    <3>1. Chan(b) \in Seq(X!Byte)
      BY RingFacts
    <3> DEFINE s == SubSeq(m, 1, k)
               d == m[k + 1]
    <3>2. s \in Seq(X!Byte) /\ SubSeq(m, 1, k + 1) = Append(s, d)
      BY <1>1, <2>2
    <3>3. d \in X!Byte
      BY <2>2
    <3> HIDE DEF s, d
    <3>4. /\ Append(s, d) = s \o <<d>> /\ <<d>> \in Seq(X!Byte)
          /\ Append(Chan(b) \o s, d) = (Chan(b) \o s) \o <<d>>
      BY <3>1, <3>2, <3>3, AppendIsConcat, ConcatProperties
    <3>5. (Chan(b) \o s) \o <<d>> = Chan(b) \o (s \o <<d>>)
      <4> DEFINE u == Chan(b)
                 e == <<d>>
                 Elems == X!Byte
      <4> HIDE DEF u, e, Elems
      <4>1. u \in Seq(Elems) /\ s \in Seq(Elems) /\ e \in Seq(Elems)
        BY <3>1, <3>2, <3>4 DEF u, e, Elems
      <4>2. (u \o s) \o e = u \o (s \o e)
        BY <4>1, ConcatAssociative
      <4>3. QED
        BY <4>2 DEF u, e
    <3>6. QED
      BY <3>2, <3>4, <3>5 DEF s, d
  <2>7. Held(t[k]) + 1 = Held(b) + (k + 1)
    BY <1>1, <2>2
  <2>8. QED
    BY <2>2, <2>5, <2>6, <2>7
<1>5. Good(Len(m))
  <2> HIDE DEF Good
  <2>1. Nat \subseteq T
    BY <1>3, <1>4, NatSetInduction
  <2>2. QED
    BY <1>1, <2>1
<1>6. SubSeq(m, 1, Len(m)) = m
  BY SubSeqFull
<1>7. QED
  BY <1>2, <1>5, <1>6

\* The loop of do_mbox_recv() takes the n oldest bytes.
LEMMA DepartAll ==
  ASSUME NEW b, Ring(b), NEW n \in Nat, n <= Held(b)
  PROVE  LET r == Taken(b, n)
         IN  /\ Ring(r.b) /\ Held(r.b) = Held(b) - n
             /\ r.got = SubSeq(Chan(b), 1, n)
             /\ Chan(r.b) = SubSeq(Chan(b), n + 1, Len(Chan(b)))
<1> DEFINE c == Chan(b)
           start == [b |-> b, got |-> <<>>]
<1>1. MaxLen \in Nat /\ Held(b) \in Nat /\ c \in Seq(X!Byte) /\ Len(c) = Held(b)
  BY RingFacts
<1>2. PICK t : /\ t[0] = start
               /\ \A k \in 1 .. n : t[k] = X!queue_depart(t[k - 1])
               /\ Departed(start, n) = t[n]
  BY DepartFold
<1> DEFINE Good(k) == /\ Ring(t[k].b) /\ Held(t[k].b) = Held(b) - k
                      /\ t[k] = [b |-> t[k].b, got |-> SubSeq(c, 1, k)]
                      /\ Chan(t[k].b) = SubSeq(c, k + 1, Len(c))
           T == {k \in Nat : k <= n => Good(k)}
<1> HIDE DEF c
<1>3. 0 \in T
  <2>1. SubSeq(c, 1, 0) = <<>> /\ SubSeq(c, 1, Len(c)) = c
    BY <1>1, SubSeqEmpty, SubSeqFull
  <2>2. t[0].b = b /\ t[0] = [b |-> t[0].b, got |-> <<>>]
    BY <1>2
  <2>3. Held(b) = Held(b) - 0 /\ SubSeq(c, 0 + 1, Len(c)) = c
    BY <1>1, <2>1
  <2>4. Good(0)
    BY <2>1, <2>2, <2>3 DEF c
  <2> HIDE DEF Good
  <2>5. QED
    BY <2>4
<1>4. ASSUME NEW k \in Nat, k \in T PROVE k + 1 \in T
  <2>1. SUFFICES ASSUME k + 1 <= n PROVE Good(k + 1)
    <3> HIDE DEF Good
    <3>1. QED
      OBVIOUS
  <2>2. Good(k) /\ k + 1 \in 1 .. n /\ k + 1 \in 1 .. Len(c) /\ c[k + 1] \in X!Byte
    <3>1. k <= n /\ k + 1 \in 1 .. n
      BY <2>1
    <3>2. Good(k)
      <4> HIDE DEF Good
      <4>1. QED
        BY <1>4, <3>1
    <3>3. k + 1 \in 1 .. Len(c)
      BY <1>1, <3>1
    <3>4. c[k + 1] \in X!Byte
      BY <1>1, <3>3
    <3> HIDE DEF Good
    <3>5. QED
      BY <3>1, <3>2, <3>3, <3>4
  <2>3. t[k + 1] = X!queue_depart(t[k])
    <3>1. (k + 1) - 1 = k
      OBVIOUS
    <3>2. t[k + 1] = X!queue_depart(t[(k + 1) - 1])
      BY <1>2, <2>2
    <3>3. QED
      BY <3>1, <3>2
  <2>4. t[k] = [b |-> t[k].b, got |-> t[k].got] /\ Held(t[k].b) > 0
    BY <1>1, <2>1, <2>2
  <2>5. /\ Ring(t[k + 1].b) /\ Held(t[k + 1].b) = Held(t[k].b) - 1
        /\ Chan(t[k + 1].b) = Tail(Chan(t[k].b))
        /\ t[k + 1] = [b |-> t[k + 1].b, got |-> Append(t[k].got, Head(Chan(t[k].b)))]
    BY <2>2, <2>3, <2>4, DepartOne
  <2>6. /\ Head(SubSeq(c, k + 1, Len(c))) = c[k + 1]
        /\ Tail(SubSeq(c, k + 1, Len(c))) = SubSeq(c, (k + 1) + 1, Len(c))
    BY <1>1, <2>2, HeadTailOfSubSeq
  <2>7. Append(SubSeq(c, 1, k), c[k + 1]) = SubSeq(c, 1, k + 1)
    BY <1>1, <2>2
  <2>8. t[k].got = SubSeq(c, 1, k)
    BY <2>2
  <2>9. Held(t[k].b) - 1 = Held(b) - (k + 1) /\ Chan(t[k].b) = SubSeq(c, k + 1, Len(c))
    BY <1>1, <2>2
  <2>10. QED
    BY <2>5, <2>6, <2>7, <2>8, <2>9
<1>5. Good(n)
  <2> HIDE DEF Good
  <2>1. Nat \subseteq T
    BY <1>3, <1>4, NatSetInduction
  <2>2. QED
    BY <1>1, <2>1
<1>6. t[n].got = SubSeq(c, 1, n)
  BY <1>5
<1>7. QED
  BY <1>2, <1>5, <1>6 DEF c, Taken

-----------------------------------------------------------------------------
(* The mailbox                                                              *)

\* MailboxInv of the values of the mailbox's variables.
MailboxOK(op, qs, qr, b, pcs, rl) ==
  /\ op \in Proc \cup {NoPid}
  /\ qs \in Seq(Proc) /\ Distinct(qs)
  /\ qr \in Seq(Proc) /\ Distinct(qr)
  /\ Ring(b)
  /\ pcs \in [Proc -> {"user", "send_blocked", "recv_blocked",
                       "send_woken", "recv_woken", "dead"}]
  /\ rl \in [Proc -> Nat]
  /\ \A p \in Proc : /\ pcs[p] = "send_blocked" <=> p \in ToSet(qs)
                     /\ pcs[p] = "recv_blocked" <=> p \in ToSet(qr)
                     /\ pcs[p] \notin {"user", "dead"} => rl[p] \in Lengths
  /\ op = NoPid => qs = <<>> /\ qr = <<>>
  /\ \A p \in ToSet(qs) : MaxLen - Held(b) < rl[p]

\* MailboxOK is MailboxInv, before and after a step.
LEMMA MailboxParts ==
  /\ X!MailboxInv <=> MailboxOK(x_opid, s_waiting, r_waiting, box, x_pc, x_len)
  /\ X!MailboxInv' <=> MailboxOK(x_opid', s_waiting', r_waiting', box', x_pc', x_len')
<1>1. \A b : Ring(b) <=> /\ b \in [buf : [0 .. MaxLen -> X!Byte], buf_head : 0 .. MaxLen,
                                   buf_tail : 0 .. MaxLen, panic : BOOLEAN]
                         /\ ~b.panic
  BY DEF Ring
<1>2. QED
  BY <1>1, SameHelpers
     DEF X!MailboxInv, X!TypeOK, X!NoPanic, X!QueuesMatch, X!InCallForSome,
         X!NoStrandedSender, Distinct, Held, MailboxOK

\* The mailbox after init_mbox() satisfies its invariant, and is an empty FIFO.
LEMMA MailboxInitially ==
  ASSUME X!Init
  PROVE  X!MailboxInv /\ Chan(box) = <<>> /\ out = <<>>
<1>1. MaxLen \in Nat
  BY MailboxAssumption DEF X!MailboxAssumption
<1>2. Ring(box) /\ Held(box) = 0
  BY <1>1 DEF X!Init, Ring, Held, X!len_of_queue, X!Byte
<1>3. X!MailboxInv
  BY <1>1, <1>2, MailboxParts, EmptyQueue DEF X!Init, MailboxOK
<1>4. Chan(box) = <<>>
  BY <1>2 DEF Chan
<1>5. QED
  BY <1>3, <1>4 DEF X!Init

\* The first k processes of a queue leave it.
LEMMA SplitQueue ==
  ASSUME NEW P, NEW q \in Seq(P), Distinct(q), NEW k \in 0 .. Len(q)
  PROVE  LET first == SubSeq(q, 1, k)
             rest  == SubSeq(q, k + 1, Len(q))
         IN  /\ rest \in Seq(P) /\ Distinct(rest)
             /\ ToSet(first) \subseteq ToSet(q)
             /\ ToSet(rest) = ToSet(q) \ ToSet(first)
             /\ rest # <<>> => k + 1 \in 1 .. Len(q) /\ Head(rest) = q[k + 1]
<1> DEFINE first == SubSeq(q, 1, k)
           rest == SubSeq(q, k + 1, Len(q))
<1>1. /\ first \in Seq(P) /\ Len(first) = k
      /\ \A i \in 1 .. k : first[i] = q[i]
  BY SubSeqProperties
<1>2. /\ rest \in Seq(P) /\ Len(rest) = Len(q) - k
      /\ \A i \in 1 .. Len(q) - k : rest[i] = q[k + i]
  BY SubSeqProperties
<1> HIDE DEF first, rest
<1>3. ToSet(first) = {q[i] : i \in 1 .. k}
  BY <1>1 DEF ToSet
<1>4. ToSet(rest) = {q[k + i] : i \in 1 .. Len(q) - k}
  <2>1. DOMAIN rest = 1 .. Len(q) - k
    BY <1>2
  <2>2. ToSet(rest) = {rest[i] : i \in 1 .. Len(q) - k}
    BY <2>1 DEF ToSet
  <2>3. QED
    BY <1>2, <2>2
<1>5. Distinct(rest)
  <2>1. SUFFICES ASSUME NEW i \in 1 .. Len(q) - k, NEW l \in 1 .. Len(q) - k, rest[i] = rest[l]
                 PROVE  i = l
    BY <1>2 DEF Distinct
  <2>2. k + i \in DOMAIN q /\ k + l \in DOMAIN q /\ q[k + i] = q[k + l]
    BY <1>2, <2>1
  <2>3. k + i = k + l
    BY <2>2 DEF Distinct
  <2>4. QED
    BY <2>3
<1>6. ToSet(first) \subseteq ToSet(q)
  BY <1>3 DEF ToSet
<1>7. ASSUME NEW x \in ToSet(rest) PROVE x \in ToSet(q) \ ToSet(first)
  <2>1. PICK i \in 1 .. Len(q) - k : x = q[k + i]
    BY <1>4
  <2>2. k + i \in DOMAIN q /\ x = q[k + i]
    BY <2>1
  <2>3. \A l \in 1 .. k : l \in DOMAIN q /\ l # k + i
    BY <2>1
  <2>4. \A l \in 1 .. k : q[l] # x
    BY <2>2, <2>3 DEF Distinct
  <2>5. QED
    BY <1>3, <2>2, <2>4 DEF ToSet
<1>8. ASSUME NEW x \in ToSet(q) \ ToSet(first) PROVE x \in ToSet(rest)
  <2>1. PICK i \in 1 .. Len(q) : x = q[i]
    BY DEF ToSet
  <2>2. i \notin 1 .. k
    BY <1>3, <2>1
  <2>3. i - k \in 1 .. Len(q) - k /\ k + (i - k) = i
    BY <2>1, <2>2
  <2>4. QED
    BY <1>4, <2>1, <2>3
<1>9. rest # <<>> => k + 1 \in 1 .. Len(q) /\ Head(rest) = q[k + 1]
  <2>1. SUFFICES ASSUME rest # <<>> PROVE k + 1 \in 1 .. Len(q) /\ Head(rest) = q[k + 1]
    OBVIOUS
  <2>2. Len(rest) \in Nat \ {0} /\ Head(rest) = rest[1]
    BY <1>2, <2>1
  <2>3. 1 \in 1 .. Len(q) - k
    BY <1>2, <2>2
  <2>4. QED
    BY <1>2, <2>2, <2>3
<1>10. QED
  BY <1>2, <1>5, <1>6, <1>7, <1>8, <1>9 DEF first, rest

\* do_mbox_send() wakes receivers up to the first one that asks for too much.
LEMMA ServedPrefix ==
  ASSUME r_waiting \in Seq(Proc), x_len \in [Proc -> Nat], NEW n \in Nat
  PROVE  /\ X!Served(n) \in 0 .. Len(r_waiting)
         /\ X!Served(n) < Len(r_waiting) => x_len[r_waiting[X!Served(n) + 1]] > n
<1> DEFINE L == Len(r_waiting)
           T == {k \in 0 .. L : k < L => x_len[r_waiting[k + 1]] > n}
<1>1. L \in Nat /\ L \in T /\ T \subseteq Nat /\ T # {}
  OBVIOUS
<1>2. PICK k \in T : \A l \in T : <<l, k>> \notin OpToRel(<, Nat)
  <2> HIDE DEF T
  <2>1. QED
    BY <1>1, NatLessThanWellFounded, WFMin
<1>3. k \in 0 .. L /\ \A l \in T : ~(l < k)
  BY <1>1, <1>2 DEF OpToRel
<1>4. ASSUME NEW i \in 1 .. k PROVE x_len[r_waiting[i]] <= n
  <2>1. i - 1 \in 0 .. L /\ i - 1 < L /\ (i - 1) + 1 = i
    BY <1>1, <1>3
  <2>2. i - 1 \notin T
    BY <1>3, <2>1
  <2>3. ~(x_len[r_waiting[(i - 1) + 1]] > n)
    BY <2>1, <2>2
  <2>4. i \in 1 .. L
    BY <2>1
  <2>5. x_len[r_waiting[i]] \in Nat
    BY <2>4
  <2>6. QED
    BY <2>1, <2>3, <2>5
<1>5. /\ k \in 0 .. L
      /\ \A i \in 1 .. k : x_len[r_waiting[i]] <= n
      /\ k < L => x_len[r_waiting[k + 1]] > n
  BY <1>2, <1>4
<1>6. QED
  BY <1>5 DEF X!Served

\* The invariant before and after a step; the first receiver asks for more than
\* there is, or the step does not change that; what the FIFO may do in a step.
Pre == MailboxOK(x_opid, s_waiting, r_waiting, box, x_pc, x_len)
Post == MailboxOK(x_opid', s_waiting', r_waiting', box', x_pc', x_len')
HeadOK(qr, b, rl) == qr # <<>> => Held(b) < rl[Head(qr)]
HeadKept == HeadOK(r_waiting, box, x_len) => HeadOK(r_waiting', box', x_len')
PutStep(p, n) ==
  /\ Held(box) + n <= MaxLen
  /\ Chan(box') = Chan(box) \o X!Bytes(p, n) /\ out' = <<>>
GetStep(n) ==
  /\ n <= Held(box)
  /\ out' = SubSeq(Chan(box), 1, n)
  /\ Chan(box') = SubSeq(Chan(box), n + 1, Len(Chan(box)))
FifoStep ==
  \/ \E p \in Proc, n \in Lengths : PutStep(p, n)
  \/ \E n \in Lengths : GetStep(n)
  \/ Chan(box') = <<>> /\ out' = <<>>
  \/ Chan(box') = Chan(box) /\ out' = <<>>

\* Every process in a queue is blocked.
LEMMA QueuedBlocked ==
  ASSUME Pre, NEW p \in Proc
  PROVE  /\ x_pc[p] # "send_blocked" <=> p \notin ToSet(s_waiting)
         /\ x_pc[p] # "recv_blocked" <=> p \notin ToSet(r_waiting)
         /\ ToSet(s_waiting) \subseteq Proc /\ ToSet(r_waiting) \subseteq Proc
         /\ r_waiting # <<>> => /\ Head(r_waiting) \in ToSet(r_waiting)
                                /\ Head(r_waiting) \in Proc
<1>1. /\ s_waiting \in Seq(Proc) /\ r_waiting \in Seq(Proc) /\ Distinct(r_waiting)
      /\ x_pc[p] = "send_blocked" <=> p \in ToSet(s_waiting)
      /\ x_pc[p] = "recv_blocked" <=> p \in ToSet(r_waiting)
  BY DEF Pre, MailboxOK
<1>2. ToSet(s_waiting) \subseteq Proc /\ ToSet(r_waiting) \subseteq Proc
  BY <1>1 DEF ToSet
<1>3. r_waiting # <<>> => Head(r_waiting) \in ToSet(r_waiting)
  BY <1>1, Dequeue
<1>4. QED
  BY <1>1, <1>2, <1>3

\* A message is a sequence of bytes of its length.
LEMMA BytesAreBytes ==
  ASSUME NEW p \in Proc, NEW n \in Lengths
  PROVE  /\ n \in 1 .. MaxLen /\ MaxLen \in Nat
         /\ X!Bytes(p, n) \in Seq(X!Byte) /\ Len(X!Bytes(p, n)) = n
<1>1. n \in 1 .. MaxLen /\ MaxLen \in Nat
  BY MailboxAssumption DEF X!MailboxAssumption
<1>2. QED
  BY <1>1 DEF X!Bytes, X!Byte

\* do_mbox_send(), up to its do_block() or its return
LEMMA SendLoopStep ==
  ASSUME Pre, NEW p \in Proc, NEW n \in Lengths, x_opid # NoPid,
         x_pc[p] \in {"user", "send_woken"}, X!SendLoop(p, n)
  PROVE  Post /\ HeadKept /\ FifoStep
<1>1. /\ p \notin ToSet(s_waiting) /\ p \notin ToSet(r_waiting)
      /\ r_waiting # <<>> => Head(r_waiting) # p /\ Head(r_waiting) \in Proc
      /\ ToSet(s_waiting) \subseteq Proc /\ ToSet(r_waiting) \subseteq Proc
  BY QueuedBlocked
<1>2. /\ n \in 1 .. MaxLen /\ MaxLen \in Nat /\ Ring(box) /\ Held(box) \in 0 .. MaxLen
      /\ X!Bytes(p, n) \in Seq(X!Byte) /\ Len(X!Bytes(p, n)) = n
  BY BytesAreBytes, RingFacts DEF Pre, MailboxOK
<1>3. CASE MaxLen - Held(box) < n
  <2> DEFINE r == Append(s_waiting, p)
  <2>1. r \in Seq(Proc) /\ Distinct(r) /\ ToSet(r) = ToSet(s_waiting) \cup {p}
    BY <1>1, Enqueue DEF Pre, MailboxOK
  <2>2. /\ s_waiting' = r /\ x_pc' = [x_pc EXCEPT ![p] = "send_blocked"]
        /\ x_len' = [x_len EXCEPT ![p] = n] /\ out' = <<>>
        /\ x_opid' = x_opid /\ r_waiting' = r_waiting /\ box' = box
    BY <1>3 DEF X!SendLoop, X!Wait, Held
  <2> HIDE DEF r
  <2>3. Post
    BY <1>1, <1>2, <1>3, <2>1, <2>2 DEF Pre, Post, MailboxOK
  <2>4. HeadKept
    BY <1>1, <2>2 DEF HeadKept, HeadOK, Pre, MailboxOK
  <2>5. FifoStep
    BY <2>2 DEF FifoStep
  <2>6. QED
    BY <2>3, <2>4, <2>5
<1>4. CASE ~(MaxLen - Held(box) < n)
  <2> DEFINE k == X!Served(Held(box'))
             first == SubSeq(r_waiting, 1, k)
             rest == SubSeq(r_waiting, k + 1, Len(r_waiting))
  <2>1. /\ box' = Entered(box, X!Bytes(p, n))
        /\ r_waiting' = rest /\ out' = <<>> /\ x_opid' = x_opid /\ s_waiting' = s_waiting
        /\ x_pc' = [q \in Proc |-> IF q = p THEN "user"
                                   ELSE IF q \in ToSet(first) THEN "recv_woken" ELSE x_pc[q]]
        /\ x_len' = [x_len EXCEPT ![p] = 0]
    BY <1>4, SameHelpers DEF X!SendLoop, X!Return, Held, Entered
  <2>2. /\ Ring(box') /\ Held(box') = Held(box) + n
        /\ Chan(box') = Chan(box) \o X!Bytes(p, n)
    <3>1. PICK m : m = X!Bytes(p, n)
      OBVIOUS
    <3>2. m \in Seq(X!Byte) /\ Len(m) = n /\ Ring(box)
      BY <1>2, <3>1
    <3>3. Held(box) + Len(m) <= MaxLen
      BY <1>2, <1>4, <3>2
    <3>4. Ring(Entered(box, m)) /\ Held(Entered(box, m)) = Held(box) + Len(m)
          /\ Chan(Entered(box, m)) = Chan(box) \o m
      BY <3>2, <3>3, EnterAll
    <3>5. QED
      BY <2>1, <3>1, <3>2, <3>4
  <2>3. FifoStep
    <3>1. Held(box) + n <= MaxLen
      BY <1>2, <1>4
    <3>2. PutStep(p, n)
      BY <2>1, <2>2, <3>1 DEF PutStep
    <3>3. QED
      BY <3>2 DEF FifoStep
  <2>4. Held(box') \in Nat /\ Held(box') >= Held(box)
    BY <1>2, <2>2
  <2>5. /\ k \in 0 .. Len(r_waiting)
        /\ k < Len(r_waiting) => x_len[r_waiting[k + 1]] > Held(box')
    BY <2>4, ServedPrefix DEF Pre, MailboxOK
  <2> HIDE DEF k
  <2>6. /\ rest \in Seq(Proc) /\ Distinct(rest)
        /\ ToSet(rest) = ToSet(r_waiting) \ ToSet(first)
        /\ ToSet(first) \subseteq ToSet(r_waiting)
        /\ rest # <<>> => k + 1 \in 1 .. Len(r_waiting) /\ Head(rest) = r_waiting[k + 1]
    BY <2>5, SplitQueue DEF Pre, MailboxOK
  <2> HIDE DEF first, rest
  <2>7. Post
    <3>1. /\ x_pc' \in [Proc -> {"user", "send_blocked", "recv_blocked",
                                 "send_woken", "recv_woken", "dead"}]
          /\ x_len' \in [Proc -> Nat]
      BY <2>1 DEF Pre, MailboxOK
    <3>2. ASSUME NEW q \in Proc
          PROVE  /\ x_pc'[q] = "send_blocked" <=> q \in ToSet(s_waiting')
                 /\ x_pc'[q] = "recv_blocked" <=> q \in ToSet(r_waiting')
                 /\ x_pc'[q] \notin {"user", "dead"} => x_len'[q] \in Lengths
      BY <1>1, <2>1, <2>6 DEF Pre, MailboxOK
    <3>3. \A q \in ToSet(s_waiting') : MaxLen - Held(box') < x_len'[q]
      <4>1. SUFFICES ASSUME NEW q \in ToSet(s_waiting) PROVE MaxLen - Held(box') < x_len'[q]
        BY <2>1
      <4>2. /\ q \in Proc /\ q # p /\ x_len'[q] = x_len[q] /\ x_len[q] \in Nat
            /\ MaxLen - Held(box) < x_len[q]
        BY <1>1, <2>1 DEF Pre, MailboxOK
      <4>3. QED
        BY <1>2, <2>2, <4>2
    <3>4. QED
      BY <2>1, <2>2, <2>6, <3>1, <3>2, <3>3 DEF Pre, Post, MailboxOK
  <2>8. HeadKept
    <3>1. SUFFICES ASSUME rest # <<>> PROVE Held(box') < x_len'[Head(rest)]
      BY <2>1 DEF HeadKept, HeadOK
    <3>2. k < Len(r_waiting) /\ Head(rest) = r_waiting[k + 1] /\ k + 1 \in DOMAIN r_waiting
      BY <2>5, <2>6, <3>1 DEF Pre, MailboxOK
    <3>3. Head(rest) \in ToSet(r_waiting)
      BY <3>2 DEF ToSet
    <3>4. x_len'[Head(rest)] = x_len[r_waiting[k + 1]] /\ x_len[r_waiting[k + 1]] \in Nat
      BY <1>1, <2>1, <3>2, <3>3 DEF Pre, MailboxOK
    <3>5. QED
      BY <2>4, <2>5, <3>2, <3>4
  <2>9. QED
    BY <2>3, <2>7, <2>8
<1>5. QED
  BY <1>3, <1>4

\* do_mbox_recv(), up to its do_block() or its return
LEMMA RecvLoopStep ==
  ASSUME Pre, NEW p \in Proc, NEW n \in Lengths, x_opid # NoPid,
         x_pc[p] \in {"user", "recv_woken"}, X!RecvLoop(p, n)
  PROVE  Post /\ HeadKept /\ FifoStep
<1>1. /\ p \notin ToSet(s_waiting) /\ p \notin ToSet(r_waiting)
      /\ r_waiting # <<>> => Head(r_waiting) # p /\ Head(r_waiting) \in Proc
      /\ ToSet(s_waiting) \subseteq Proc /\ ToSet(r_waiting) \subseteq Proc
  BY QueuedBlocked
<1>2. /\ n \in 1 .. MaxLen /\ MaxLen \in Nat /\ Ring(box) /\ Held(box) \in 0 .. MaxLen
  BY BytesAreBytes, RingFacts DEF Pre, MailboxOK
<1>3. CASE Held(box) < n
  <2> DEFINE r == Append(r_waiting, p)
  <2>1. r \in Seq(Proc) /\ Distinct(r) /\ ToSet(r) = ToSet(r_waiting) \cup {p}
    BY <1>1, Enqueue DEF Pre, MailboxOK
  <2>2. /\ r_waiting' = r /\ x_pc' = [x_pc EXCEPT ![p] = "recv_blocked"]
        /\ x_len' = [x_len EXCEPT ![p] = n] /\ out' = <<>>
        /\ x_opid' = x_opid /\ s_waiting' = s_waiting /\ box' = box
    BY <1>3 DEF X!RecvLoop, X!Wait, Held
  <2>3. Head(r) = IF r_waiting = <<>> THEN p ELSE Head(r_waiting)
    BY HeadTailAppend DEF Pre, MailboxOK
  <2> HIDE DEF r
  <2>4. Post
    BY <1>1, <1>2, <1>3, <2>1, <2>2 DEF Pre, Post, MailboxOK
  <2>5. HeadKept
    BY <1>1, <1>3, <2>2, <2>3 DEF HeadKept, HeadOK, Pre, MailboxOK
  <2>6. FifoStep
    BY <2>2 DEF FifoStep
  <2>7. QED
    BY <2>4, <2>5, <2>6
<1>4. CASE ~(Held(box) < n)
  <2> DEFINE r == Taken(box, n)
  <2>1. /\ box' = r.b /\ out' = r.got
        /\ s_waiting' = <<>> /\ x_opid' = x_opid /\ r_waiting' = r_waiting
        /\ x_pc' = [q \in Proc |-> IF q = p THEN "user"
                                   ELSE IF q \in ToSet(s_waiting) THEN "send_woken" ELSE x_pc[q]]
        /\ x_len' = [x_len EXCEPT ![p] = 0]
    BY <1>4, SameHelpers DEF X!RecvLoop, X!Return, Held, Departed, Taken
  <2>2. /\ Ring(box') /\ Held(box') = Held(box) - n
        /\ out' = SubSeq(Chan(box), 1, n)
        /\ Chan(box') = SubSeq(Chan(box), n + 1, Len(Chan(box)))
    BY <1>2, <1>4, <2>1, DepartAll
  <2>3. FifoStep
    <3>1. GetStep(n)
      BY <1>2, <1>4, <2>2 DEF GetStep
    <3>2. QED
      BY <3>1 DEF FifoStep
  <2> HIDE DEF r
  <2>4. Post
    BY <1>1, <2>1, <2>2, EmptyQueue DEF Pre, Post, MailboxOK
  <2>5. HeadKept
    <3>1. SUFFICES ASSUME r_waiting # <<>>, Held(box) < x_len[Head(r_waiting)]
                   PROVE  Held(box') < x_len'[Head(r_waiting)]
      BY <2>1 DEF HeadKept, HeadOK
    <3>2. x_len'[Head(r_waiting)] = x_len[Head(r_waiting)] /\ x_len[Head(r_waiting)] \in Nat
      BY <1>1, <2>1, <3>1 DEF Pre, MailboxOK
    <3>3. QED
      BY <1>2, <2>2, <3>1, <3>2
  <2>6. QED
    BY <2>3, <2>4, <2>5
<1>5. QED
  BY <1>3, <1>4

\* A system call on a closed mailbox
LEMMA FailStep ==
  ASSUME Pre, NEW p \in Proc, X!Fail(p), x_pc[p] \notin {"send_blocked", "recv_blocked"}
  PROVE  Post /\ HeadKept /\ FifoStep
<1>1. /\ p \notin ToSet(s_waiting) /\ p \notin ToSet(r_waiting)
      /\ r_waiting # <<>> => Head(r_waiting) # p /\ Head(r_waiting) \in Proc
      /\ ToSet(s_waiting) \subseteq Proc /\ ToSet(r_waiting) \subseteq Proc
  BY QueuedBlocked
<1>2. /\ x_pc' = [q \in Proc |-> IF q = p THEN "user" ELSE x_pc[q]]
      /\ x_len' = [x_len EXCEPT ![p] = 0] /\ out' = <<>>
      /\ x_opid' = x_opid /\ s_waiting' = s_waiting /\ r_waiting' = r_waiting /\ box' = box
  BY DEF X!Fail, X!Return, X!mailbox
<1>3. Post
  BY <1>1, <1>2 DEF Pre, Post, MailboxOK
<1>4. HeadKept
  BY <1>1, <1>2 DEF HeadKept, HeadOK, Pre, MailboxOK
<1>5. QED
  BY <1>2, <1>3, <1>4 DEF FifoStep

\* do_mbox_open()
LEMMA OpenStep ==
  ASSUME Pre, NEW p \in Proc, X!Open(p)
  PROVE  Post /\ HeadKept /\ FifoStep
<1>1. /\ x_opid' = p /\ s_waiting' = <<>> /\ r_waiting' = <<>> /\ out' = <<>>
      /\ s_waiting = <<>> /\ r_waiting = <<>>
      /\ box' = [box EXCEPT !.buf_head = 0, !.buf_tail = 0]
      /\ x_pc' = x_pc /\ x_len' = x_len
  BY DEF X!Open, Pre, MailboxOK
<1>2. MaxLen \in Nat
  BY MailboxAssumption DEF X!MailboxAssumption
<1>3. Ring(box') /\ Held(box') = 0
  <2>1. Ring(box')
    <3>1. Ring(box) /\ 0 \in 0 .. MaxLen
      BY <1>2 DEF Pre, MailboxOK
    <3>2. QED
      BY <1>1, <3>1 DEF Ring
  <2>2. box'.buf_head = 0 /\ box'.buf_tail = 0
    BY <1>1 DEF Pre, MailboxOK, Ring
  <2>3. QED
    BY <1>2, <2>1, <2>2 DEF Held, X!len_of_queue
<1>4. Chan(box') = <<>>
  BY <1>3 DEF Chan
<1>5. Post
  BY <1>1, <1>3, EmptyQueue DEF Pre, Post, MailboxOK
<1>6. QED
  BY <1>1, <1>4, <1>5 DEF HeadKept, HeadOK, FifoStep

\* Closing the mailbox wakes everybody.
LEMMA WakeAllStep ==
  ASSUME Pre, NEW D \in SUBSET Proc, X!WakeAll(D), box' = box, out' = <<>>,
         x_len' \in [Proc -> Nat], \A q \in Proc \ D : x_len'[q] = x_len[q]
  PROVE  Post /\ HeadKept /\ FifoStep
<1>1. /\ x_opid' = NoPid /\ s_waiting' = <<>> /\ r_waiting' = <<>>
      /\ x_pc' = [q \in Proc |-> IF q \in D THEN "dead"
                                 ELSE IF x_pc[q] = "send_blocked" THEN "send_woken"
                                 ELSE IF x_pc[q] = "recv_blocked" THEN "recv_woken"
                                 ELSE x_pc[q]]
  BY DEF X!WakeAll
<1>2. /\ x_pc' \in [Proc -> {"user", "send_blocked", "recv_blocked",
                             "send_woken", "recv_woken", "dead"}]
      /\ \A q \in Proc : /\ x_pc'[q] \notin {"send_blocked", "recv_blocked"}
                         /\ x_pc'[q] \notin {"user", "dead"} => x_len'[q] \in Lengths
  BY <1>1 DEF Pre, MailboxOK
<1>3. Post
  BY <1>1, <1>2, EmptyQueue DEF Pre, Post, MailboxOK
<1>4. QED
  BY <1>1, <1>3 DEF HeadKept, HeadOK, FifoStep

\* do_kill() or exit: a receiver in the queue may leave the next one stranded.
LEMMA MailboxKillStep ==
  ASSUME Pre, NEW p \in Proc, X!Kill(p)
  PROVE  /\ Post /\ FifoStep
         /\ HeadKept \/ (x_pc[p] = "recv_blocked" /\ x_pc'[p] = "dead")
<1>1. x_len' = [x_len EXCEPT ![p] = 0] /\ out' = <<>> /\ box' = box
  BY DEF X!Kill
<1>2. CASE x_opid = p
  <2>1. X!WakeAll({p}) /\ {p} \in SUBSET Proc
    BY <1>2 DEF X!Kill
  <2>2. x_len \in [Proc -> Nat]
    BY DEF Pre, MailboxOK
  <2>3. x_len' \in [Proc -> Nat] /\ \A q \in Proc \ {p} : x_len'[q] = x_len[q]
    BY <1>1, <2>2
  <2>4. Post /\ HeadKept /\ FifoStep
    BY <1>1, <2>1, <2>3, WakeAllStep
  <2>5. QED
    BY <2>4
<1>3. CASE x_opid # p
  <2> DEFINE s == lpcb_del_node(s_waiting, p)
             r == lpcb_del_node(r_waiting, p)
  <2>1. /\ s \in Seq(Proc) /\ Distinct(s) /\ ToSet(s) = ToSet(s_waiting) \ {p}
        /\ r \in Seq(Proc) /\ Distinct(r) /\ ToSet(r) = ToSet(r_waiting) \ {p}
    BY DelNode DEF Pre, MailboxOK
  <2>2. /\ s_waiting' = s /\ r_waiting' = r /\ x_opid' = x_opid
        /\ x_pc' = [x_pc EXCEPT ![p] = "dead"]
    BY <1>3, SameHelpers DEF X!Kill
  <2>3. /\ s_waiting = <<>> => s = <<>>
        /\ r_waiting = <<>> => r = <<>>
        /\ p \notin ToSet(r_waiting) => r = r_waiting
    BY DEF lpcb_del_node, ToSet
  <2> HIDE DEF s, r
  <2>4. Post
    <3>1. /\ x_pc' \in [Proc -> {"user", "send_blocked", "recv_blocked",
                                 "send_woken", "recv_woken", "dead"}]
          /\ x_len' \in [Proc -> Nat]
      BY <1>1, <2>2 DEF Pre, MailboxOK
    <3>2. \A q \in Proc : /\ x_pc'[q] = "send_blocked" <=> q \in ToSet(s)
                          /\ x_pc'[q] = "recv_blocked" <=> q \in ToSet(r)
                          /\ x_pc'[q] \notin {"user", "dead"} => x_len'[q] \in Lengths
      BY <1>1, <2>1, <2>2 DEF Pre, MailboxOK
    <3>3. \A q \in ToSet(s) : MaxLen - Held(box') < x_len'[q]
      <4>1. \A q \in ToSet(s) : q \in Proc /\ q # p /\ MaxLen - Held(box) < x_len[q]
        BY <2>1, QueuedBlocked DEF Pre, MailboxOK
      <4>2. QED
        BY <1>1, <4>1 DEF Pre, MailboxOK
    <3>4. QED
      BY <1>1, <2>1, <2>2, <2>3, <3>1, <3>2, <3>3 DEF Pre, Post, MailboxOK
  <2>5. HeadKept \/ (x_pc[p] = "recv_blocked" /\ x_pc'[p] = "dead")
    <3>1. CASE p \in ToSet(r_waiting)
      BY <2>2, <3>1, QueuedBlocked DEF Pre, MailboxOK
    <3>2. CASE p \notin ToSet(r_waiting)
      <4>1. r_waiting # <<>> => Head(r_waiting) # p /\ Head(r_waiting) \in Proc
        BY <3>2, QueuedBlocked
      <4>2. QED
        BY <1>1, <2>2, <2>3, <3>2, <4>1 DEF HeadKept, HeadOK, Pre, MailboxOK
    <3>3. QED
      BY <3>1, <3>2
  <2>6. QED
    BY <1>1, <2>4, <2>5 DEF FifoStep
<1>4. QED
  BY <1>2, <1>3

\* Every step preserves the mailbox's invariant, is a step of the FIFO, and
\* strands the first receiver only by killing the one ahead of it.
LEMMA MailboxStep ==
  ASSUME Pre, X!Next
  PROVE  /\ Post /\ FifoStep
         /\ HeadKept \/ \E p \in Proc : x_pc[p] = "recv_blocked" /\ x_pc'[p] = "dead"
<1> DEFINE Goal == /\ Post /\ FifoStep
                   /\ \/ HeadKept
                      \/ \E p \in Proc : x_pc[p] = "recv_blocked" /\ x_pc'[p] = "dead"
<1>1. ASSUME NEW p \in Proc, X!Open(p) PROVE Goal
  BY <1>1, OpenStep
<1>2. ASSUME NEW p \in Proc, X!Close(p) PROVE Goal
  BY <1>2, WakeAllStep DEF X!Close, Pre, MailboxOK
<1>3. ASSUME NEW p \in Proc, X!Kill(p) PROVE Goal
  BY <1>3, MailboxKillStep
<1>4. ASSUME NEW p \in Proc, X!Start(p) PROVE Goal
  <2>1. /\ x_pc[p] = "dead" /\ x_pc' = [x_pc EXCEPT ![p] = "user"] /\ out' = <<>>
        /\ x_opid' = x_opid /\ s_waiting' = s_waiting /\ r_waiting' = r_waiting
        /\ box' = box /\ x_len' = x_len
    BY <1>4 DEF X!Start, X!mailbox
  <2>2. Post
    BY <2>1 DEF Pre, Post, MailboxOK
  <2>3. HeadKept /\ FifoStep
    BY <2>1 DEF HeadKept, HeadOK, FifoStep
  <2>4. QED
    BY <2>2, <2>3
<1>5. ASSUME NEW p \in Proc, X!ResumeSend(p) PROVE Goal
  <2>1. x_pc[p] = "send_woken" /\ x_len[p] \in Lengths
    BY <1>5 DEF X!ResumeSend, Pre, MailboxOK
  <2>2. CASE x_opid = NoPid
    BY <1>5, <2>1, <2>2, FailStep DEF X!ResumeSend
  <2>3. CASE x_opid # NoPid
    BY <1>5, <2>1, <2>3, SendLoopStep DEF X!ResumeSend
  <2>4. QED
    BY <2>2, <2>3
<1>6. ASSUME NEW p \in Proc, X!ResumeRecv(p) PROVE Goal
  <2>1. x_pc[p] = "recv_woken" /\ x_len[p] \in Lengths
    BY <1>6 DEF X!ResumeRecv, Pre, MailboxOK
  <2>2. CASE x_opid = NoPid
    BY <1>6, <2>1, <2>2, FailStep DEF X!ResumeRecv
  <2>3. CASE x_opid # NoPid
    BY <1>6, <2>1, <2>3, RecvLoopStep DEF X!ResumeRecv
  <2>4. QED
    BY <2>2, <2>3
<1>7. ASSUME NEW p \in Proc, NEW n \in Lengths, X!Send(p, n) PROVE Goal
  <2>1. CASE x_opid = NoPid
    BY <1>7, <2>1, FailStep DEF X!Send
  <2>2. CASE x_opid # NoPid
    BY <1>7, <2>2, SendLoopStep DEF X!Send
  <2>3. QED
    BY <2>1, <2>2
<1>8. ASSUME NEW p \in Proc, NEW n \in Lengths, X!Recv(p, n) PROVE Goal
  <2>1. CASE x_opid = NoPid
    BY <1>8, <2>1, FailStep DEF X!Recv
  <2>2. CASE x_opid # NoPid
    BY <1>8, <2>2, RecvLoopStep DEF X!Recv
  <2>3. QED
    BY <2>1, <2>2
<1> HIDE DEF Goal
<1>9. Goal
  BY <1>1, <1>2, <1>3, <1>4, <1>5, <1>6, <1>7, <1>8 DEF X!Next
<1>10. QED
  BY <1>9 DEF Goal

-----------------------------------------------------------------------------
(* What a mailbox promises                                                  *)

\* No panic_g() of mbox.c is reached, the mailbox's queues hold exactly the
\* blocked processes, and no sender stays blocked while there is room for its
\* message, for any number of processes, message lengths and buffer length.
THEOREM MailboxCorrect == Spec => []MailboxInv
<1>1. Init => MailboxInv
  BY MailboxInitially DEF Init, MailboxInv
<1>2. MailboxInv /\ [Next]_vars => MailboxInv'
  <2>1. SUFFICES ASSUME MailboxInv, [Next]_vars PROVE MailboxInv'
    OBVIOUS
  <2>2. Pre /\ [X!Next]_mailbox
    BY <2>1, MailboxParts, StepOfEach DEF MailboxInv, Pre
  <2>3. CASE X!Next
    BY <2>2, <2>3, MailboxStep, MailboxParts DEF MailboxInv, Post
  <2>4. CASE UNCHANGED mailbox
    <3>1. Post
      BY <2>2, <2>4 DEF Pre, Post, mailbox
    <3>2. QED
      BY <3>1, MailboxParts DEF MailboxInv, Post
  <2>5. QED
    BY <2>2, <2>3, <2>4
<1>3. QED
  BY <1>1, <1>2, PTL DEF Spec

\* A step of Locks with the invariant is a step of the mailbox, which is what
\* MailboxStep says it is, or leaves the mailbox alone.
LEMMA MailboxStepOfLocks ==
  ASSUME MailboxInv, [Next]_vars
  PROVE  \/ UNCHANGED mailbox
         \/ /\ FifoStep
            /\ HeadKept \/ \E p \in Proc : x_pc[p] = "recv_blocked" /\ x_pc'[p] = "dead"
<1>1. Pre /\ [X!Next]_mailbox
  BY MailboxParts, StepOfEach DEF MailboxInv, Pre
<1>2. QED
  BY <1>1, MailboxStep

\* do_mbox_send() serves the receivers it has bytes for: the first receiver of
\* the queue stays blocked although its bytes are there only if the one ahead
\* of it was killed.
THEOREM ReceiversServed == Spec => ReceiverStrandedOnlyByKill
<1>1. MailboxInv /\ [Next]_vars =>
        [X!HeadServed =>
           X!HeadServed' \/ \E p \in Proc : x_pc[p] = "recv_blocked" /\ x_pc'[p] = "dead"]_X!vars
  BY MailboxStepOfLocks DEF HeadKept, HeadOK, Held, X!HeadServed, X!vars, mailbox
<1>2. QED
  BY <1>1, MailboxCorrect, PTL
     DEF Spec, ReceiverStrandedOnlyByKill, X!ReceiverStrandedOnlyByKill

\* The ring buffer with its wrapping indices, the waiting loops and the wake-ups
\* implement a bounded FIFO of whole messages: nothing is lost, duplicated,
\* reordered or torn, for any buffer length and any message lengths.
THEOREM MailboxIsFifo == Spec => ImplementsFifo
<1>1. Init => X!Fifo!Init
  BY MailboxInitially DEF Init, X!Fifo!Init, Chan, Held
<1>2. MailboxInv /\ [Next]_vars => [X!Fifo!Next]_X!Fifo!vars
  <2>1. SUFFICES ASSUME MailboxInv, [Next]_vars PROVE [X!Fifo!Next]_X!Fifo!vars
    OBVIOUS
  <2> DEFINE chan == Chan(box)
  <2>2. /\ chan \in Seq(X!Byte) /\ Len(chan) = Held(box) /\ Ring(box)
    BY <2>1, MailboxParts, RingFacts DEF MailboxInv, MailboxOK
  <2>3. ASSUME NEW p \in Proc, NEW n \in Lengths, PutStep(p, n) PROVE X!Fifo!Next
    <3>1. X!Bytes(p, n) \in X!Messages /\ Len(X!Bytes(p, n)) = n
      BY BytesAreBytes DEF X!Messages
    <3>2. X!Fifo!Put(X!Bytes(p, n))
      BY <2>2, <2>3, <3>1 DEF PutStep, X!Fifo!Put, Chan, Held
    <3>3. QED
      BY <3>1, <3>2 DEF X!Fifo!Next
  <2>4. ASSUME NEW n \in Lengths, GetStep(n) PROVE X!Fifo!Next
    <3>1. n \in 1 .. MaxLen
      BY MailboxAssumption DEF X!MailboxAssumption
    <3>2. X!Fifo!Get(n)
      BY <2>2, <2>4 DEF GetStep, X!Fifo!Get, Chan, Held
    <3>3. QED
      BY <3>1, <3>2 DEF X!Fifo!Next
  <2>5. ASSUME Chan(box') = <<>>, out' = <<>> PROVE X!Fifo!Next
    BY <2>5 DEF X!Fifo!Next, X!Fifo!Clear, Chan, Held
  <2>6. ASSUME Chan(box') = Chan(box), out' = <<>> PROVE X!Fifo!Next
    BY <2>6 DEF X!Fifo!Next, X!Fifo!Else, Chan, Held
  <2>7. ASSUME UNCHANGED mailbox PROVE UNCHANGED X!Fifo!vars
    BY <2>7 DEF mailbox, X!Fifo!vars, X!len_of_queue
  <2>8. QED
    BY <2>1, <2>3, <2>4, <2>5, <2>6, <2>7, MailboxStepOfLocks DEF FifoStep
<1>3. QED
  BY <1>1, <1>2, MailboxCorrect, PTL DEF Spec, ImplementsFifo, X!ImplementsFifo, X!Fifo!Spec
-----------------------------------------------------------------------------
(* The rings of the network card                                             *)


\* The position k after a in a ring of length n, and how far b is from a.
Forward(a, k, n) == (a + k) % n
Dist(a, b, n) == (b + n - a) % n

\* A ring from h to t holds the frames that are numbered from x to y.
RingOK(buf, n, h, t, x, y) ==
  /\ buf \in [0 .. n - 1 -> Int]
  /\ h \in 0 .. n - 1 /\ t \in 0 .. n - 1 /\ x \in 0 .. 2 * n - 1 /\ y \in 0 .. 2 * n - 1
  /\ Dist(h, t, n) = Dist(x, y, 2 * n)
  /\ \A k \in 0 .. Dist(h, t, n) - 1 : buf[Forward(h, k, n)] = Forward(x, k, 2 * n)

\* There is no frame outside.
RestEmpty(buf, n, h, t) ==
  \A i \in 0 .. n - 1 : Dist(h, i, n) >= Dist(h, t, n) => buf[i] = NoFrame

SendRing(buf, h, t, num) == RingOK(buf, TXDESCS, h, t, num["leave"], num["queue"])
ReceiveRing(buf, tail, h, num) ==
  LET from == Forward(tail, 1, RXDESCS) IN
  /\ tail \in 0 .. RXDESCS - 1
  /\ RingOK(buf, RXDESCS, from, h, num["receive"], num["arrive"])
  /\ RestEmpty(buf, RXDESCS, from, h)

\* A process that sends, or waits to, asks for a number of frames; one that polls
\* does nothing else.
States == {"user", "kernel", "send_blocked", "send_woken", "recv_blocked", "recv_woken"}
AsksOK(k, do, req) ==
  /\ do \in [NicProc -> States] /\ req \in [NicProc -> Int]
  /\ k[1] = "wait_tx" => k[2] \in NicProc /\ req[k[2]] \in Nat
  /\ k[1] = "poll" => k[2] \in NicProc /\ do[k[2]] = "kernel"
  /\ \A p \in NicProc : do[p] \in {"send_blocked", "send_woken"} => req[p] \in Nat

\* The inductive invariant.
NicInv ==
  /\ number \in [{"queue", "leave", "arrive", "receive"} -> Int]
  /\ SendRing(tx_frm_buffer, tdh, tcq_tail, number)
  /\ ReceiveRing(rx_frm_buffer, rcq_tail, rdh, number)
  /\ AsksOK(kernel, doing, req_len)
-----------------------------------------------------------------------------
(* Positions in a ring.                                                     *)

\* The remainders that occur.
LEMMA Remainder ==
  ASSUME NEW n \in Nat \ {0}, NEW k \in 0 .. n + n - 1
  PROVE  k % n = IF k < n THEN k ELSE k - n
PROOF OBVIOUS

\* A position after another one.
LEMMA ForwardIs ==
  ASSUME NEW n \in Nat \ {0}, NEW a \in 0 .. n - 1, NEW k \in 0 .. n
  PROVE  /\ Forward(a, k, n) \in 0 .. n - 1
         /\ a + k < n => Forward(a, k, n) = a + k
         /\ a + k >= n => Forward(a, k, n) = a + k - n
<1> DEFINE z == a + k
<1>1. z \in 0 .. n + n - 1
  OBVIOUS
<1>2. Forward(a, k, n) = z % n
  BY DEF Forward
<1>3. z % n = IF z < n THEN z ELSE z - n
  <2> HIDE DEF z
  <2> QED BY <1>1, Remainder
<1> QED BY <1>2, <1>3

\* The distance of two positions.
LEMMA DistIs ==
  ASSUME NEW n \in Nat \ {0}, NEW a \in 0 .. n - 1, NEW b \in 0 .. n - 1
  PROVE  /\ Dist(a, b, n) \in 0 .. n - 1
         /\ a <= b => Dist(a, b, n) = b - a
         /\ b < a => Dist(a, b, n) = b + n - a
<1> DEFINE z == b + n - a
<1>1. z \in 0 .. n + n - 1
  OBVIOUS
<1>2. Dist(a, b, n) = z % n
  BY DEF Dist
<1>3. z % n = IF z < n THEN z ELSE z - n
  <2> HIDE DEF z
  <2> QED BY <1>1, Remainder
<1> QED BY <1>2, <1>3

\* Going as far as the distance leads to the position, and nothing else does.
LEMMA ForwardDist ==
  ASSUME NEW n \in Nat \ {0}, NEW a \in 0 .. n - 1, NEW b \in 0 .. n - 1, NEW k \in 0 .. n - 1
  PROVE  /\ Forward(a, Dist(a, b, n), n) = b
         /\ Dist(a, Forward(a, k, n), n) = k
<1>1. Dist(a, b, n) \in 0 .. n /\ k \in 0 .. n
  BY DistIs
<1>2. /\ a <= b => Dist(a, b, n) = b - a
      /\ b < a => Dist(a, b, n) = b + n - a
  BY DistIs
<1>3. Forward(a, Dist(a, b, n), n) = b
  <2>1. /\ a + Dist(a, b, n) < n => Forward(a, Dist(a, b, n), n) = a + Dist(a, b, n)
        /\ a + Dist(a, b, n) >= n => Forward(a, Dist(a, b, n), n) = a + Dist(a, b, n) - n
    BY <1>1, ForwardIs
  <2> QED BY <1>1, <1>2, <2>1
<1> DEFINE f == Forward(a, k, n)
<1>4. /\ f \in 0 .. n - 1
      /\ a + k < n => f = a + k
      /\ a + k >= n => f = a + k - n
  BY <1>1, ForwardIs
<1> HIDE DEF f
<1>5. Dist(a, f, n) = k
  <2>1. /\ a <= f => Dist(a, f, n) = f - a
        /\ f < a => Dist(a, f, n) = f + n - a
    BY <1>4, DistIs
  <2> QED BY <1>4, <2>1
<1> QED BY <1>3, <1>5 DEF f

\* A position moved on is farther away, as long as it does not come round.
LEMMA DistGrows ==
  ASSUME NEW n \in Nat \ {0}, NEW a \in 0 .. n - 1, NEW b \in 0 .. n - 1, NEW k \in Nat,
         Dist(a, b, n) + k <= n - 1
  PROVE  /\ Forward(b, k, n) \in 0 .. n - 1
         /\ Dist(a, Forward(b, k, n), n) = Dist(a, b, n) + k
         /\ Forward(b, k, n) = Forward(a, Dist(a, b, n) + k, n)
<1> DEFINE d == Dist(a, b, n)
           f == Forward(b, k, n)
<1>1. d \in 0 .. n - 1 /\ (a <= b => d = b - a) /\ (b < a => d = b + n - a)
  BY DistIs
<1>2. k \in 0 .. n
  BY <1>1
<1>3. f \in 0 .. n - 1 /\ (b + k < n => f = b + k) /\ (b + k >= n => f = b + k - n)
  BY <1>2, ForwardIs
<1>4. d + k <= n - 1
  OBVIOUS
<1> HIDE DEF d, f
<1>5. Dist(a, f, n) = d + k
  <2>1. (a <= f => Dist(a, f, n) = f - a) /\ (f < a => Dist(a, f, n) = f + n - a)
    BY <1>3, DistIs
  <2> QED BY <1>1, <1>3, <1>4, <2>1
<1>6. f = Forward(a, d + k, n)
  BY <1>3, <1>5, ForwardDist
<1> QED BY <1>3, <1>5, <1>6 DEF d, f

\* A start moved on is nearer.
LEMMA DistShrinks ==
  ASSUME NEW n \in Nat \ {0}, NEW a \in 0 .. n - 1, NEW b \in 0 .. n - 1, Dist(a, b, n) >= 1
  PROVE  /\ Forward(a, 1, n) \in 0 .. n - 1
         /\ Dist(Forward(a, 1, n), b, n) = Dist(a, b, n) - 1
<1> DEFINE d == Dist(a, b, n)
           f == Forward(a, 1, n)
<1>1. d \in 0 .. n - 1 /\ (a <= b => d = b - a) /\ (b < a => d = b + n - a)
  BY DistIs
<1>2. f \in 0 .. n - 1 /\ (a + 1 < n => f = a + 1) /\ (a + 1 >= n => f = a + 1 - n)
  BY ForwardIs
<1>3. d >= 1
  OBVIOUS
<1> HIDE DEF d, f
<1>4. Dist(f, b, n) = d - 1
  <2>1. (f <= b => Dist(f, b, n) = b - f) /\ (b < f => Dist(f, b, n) = b + n - f)
    BY <1>2, DistIs
  <2> QED BY <1>1, <1>2, <1>3, <2>1
<1> QED BY <1>2, <1>4 DEF d, f

\* One step and k more.
LEMMA ForwardForward ==
  ASSUME NEW n \in Nat \ {0}, NEW a \in 0 .. n - 1, NEW k \in 0 .. n - 1
  PROVE  Forward(Forward(a, 1, n), k, n) = Forward(a, k + 1, n)
<1> DEFINE f == Forward(a, 1, n)
<1>1. f \in 0 .. n - 1 /\ (a + 1 < n => f = a + 1) /\ (a + 1 >= n => f = a + 1 - n)
  BY ForwardIs
<1> HIDE DEF f
<1>2. /\ f + k < n => Forward(f, k, n) = f + k
      /\ f + k >= n => Forward(f, k, n) = f + k - n
  BY <1>1, ForwardIs
<1>3. k + 1 \in 0 .. n
  OBVIOUS
<1>4. /\ a + (k + 1) < n => Forward(a, k + 1, n) = a + (k + 1)
      /\ a + (k + 1) >= n => Forward(a, k + 1, n) = a + (k + 1) - n
  BY <1>3, ForwardIs
<1>5. Forward(f, k, n) = Forward(a, k + 1, n)
  BY <1>1, <1>2, <1>4
<1> QED BY <1>5 DEF f

\* Seen from t, a position between h and t is far away.
LEMMA DistBehind ==
  ASSUME NEW n \in Nat \ {0}, NEW h \in 0 .. n - 1, NEW t \in 0 .. n - 1, NEW i \in 0 .. n - 1
  PROVE  /\ Dist(h, i, n) < Dist(h, t, n) => Dist(t, i, n) = n - Dist(h, t, n) + Dist(h, i, n)
         /\ Dist(h, i, n) >= Dist(h, t, n) => Dist(t, i, n) = Dist(h, i, n) - Dist(h, t, n)
<1>1. (h <= i => Dist(h, i, n) = i - h) /\ (i < h => Dist(h, i, n) = i + n - h)
  BY DistIs
<1>2. (h <= t => Dist(h, t, n) = t - h) /\ (t < h => Dist(h, t, n) = t + n - h)
  BY DistIs
<1>3. (t <= i => Dist(t, i, n) = i - t) /\ (i < t => Dist(t, i, n) = i + n - t)
  BY DistIs
<1> QED BY <1>1, <1>2, <1>3
-----------------------------------------------------------------------------
(* The rings.                                                               *)

\* As many frames are queued as there is room for: e1000_transmit_array().
LEMMA RingPut ==
  ASSUME NEW n \in Nat \ {0}, NEW buf, NEW h, NEW t, NEW x, NEW y, RingOK(buf, n, h, t, x, y),
         NEW m \in Nat, Dist(h, t, n) + m <= n - 1,
         NEW c, c = [i \in 0 .. n - 1 |-> IF Dist(t, i, n) < m
                                          THEN Forward(y, Dist(t, i, n), 2 * n) ELSE buf[i]]
  PROVE  RingOK(c, n, h, Forward(t, m, n), x, Forward(y, m, 2 * n))
<1>1. /\ buf \in [0 .. n - 1 -> Int]
      /\ h \in 0 .. n - 1 /\ t \in 0 .. n - 1 /\ x \in 0 .. 2 * n - 1 /\ y \in 0 .. 2 * n - 1
      /\ Dist(h, t, n) = Dist(x, y, 2 * n)
      /\ \A k \in 0 .. Dist(h, t, n) - 1 : buf[Forward(h, k, n)] = Forward(x, k, 2 * n)
      /\ 2 * n \in Nat \ {0}
  BY DEF RingOK
<1> DEFINE d == Dist(h, t, n)
<1>2. d \in 0 .. n - 1 /\ d + m <= n - 1 /\ d = Dist(x, y, 2 * n)
  BY <1>1, DistIs
<1>3. /\ Forward(t, m, n) \in 0 .. n - 1
      /\ Dist(h, Forward(t, m, n), n) = d + m
  BY <1>1, DistGrows
<1> HIDE DEF d
<1>4. /\ Forward(y, m, 2 * n) \in 0 .. 2 * n - 1
      /\ Dist(x, Forward(y, m, 2 * n), 2 * n) = d + m
  <2>1. Dist(x, y, 2 * n) + m <= 2 * n - 1
    BY <1>2
  <2> QED BY <1>1, <1>2, <2>1, DistGrows
<1>5. c \in [0 .. n - 1 -> Int]
  <2>1. ASSUME NEW i \in 0 .. n - 1, Dist(t, i, n) < m
        PROVE  Forward(y, Dist(t, i, n), 2 * n) \in Int
    <3>1. Dist(t, i, n) \in 0 .. n - 1
      BY <1>1, DistIs
    <3>2. Dist(t, i, n) \in 0 .. 2 * n
      BY <3>1
    <3> QED BY <1>1, <3>2, ForwardIs
  <2>2. \A i \in 0 .. n - 1 :
          (IF Dist(t, i, n) < m THEN Forward(y, Dist(t, i, n), 2 * n) ELSE buf[i]) \in Int
    BY <1>1, <2>1
  <2> QED BY <2>2
<1> DEFINE e == d + m
<1>6. \A k \in 0 .. e - 1 : c[Forward(h, k, n)] = Forward(x, k, 2 * n)
  <2> TAKE k \in 0 .. e - 1
  <2> DEFINE i == Forward(h, k, n)
  <2>1. k \in 0 .. n - 1 /\ k \in 0 .. n
    BY <1>2
  <2>2. i \in 0 .. n - 1 /\ Dist(h, i, n) = k
    BY <1>1, <2>1, ForwardIs, ForwardDist
  <2> HIDE DEF i
  <2>3. /\ k < d => Dist(t, i, n) = n - d + k
        /\ k >= d => Dist(t, i, n) = k - d
    BY <1>1, <2>2, DistBehind DEF d
  <2>4. c[i] = IF Dist(t, i, n) < m THEN Forward(y, Dist(t, i, n), 2 * n) ELSE buf[i]
    BY <2>2
  <2>5. CASE k < d
    <3>1. ~(Dist(t, i, n) < m)
      BY <1>2, <2>1, <2>3, <2>5
    <3>2. k \in 0 .. d - 1
      BY <1>2, <2>5
    <3>3. buf[i] = Forward(x, k, 2 * n)
      BY <1>1, <3>2 DEF i, d
    <3> QED BY <2>4, <3>1, <3>3 DEF i
  <2>6. CASE k >= d
    <3>1. Dist(t, i, n) = k - d /\ k - d < m /\ k - d \in Nat /\ d + (k - d) = k
      BY <1>2, <2>1, <2>3, <2>6
    <3>2. Dist(x, y, 2 * n) + (k - d) <= 2 * n - 1
      BY <1>2, <2>1, <3>1
    <3>3. Forward(y, k - d, 2 * n) = Forward(x, d + (k - d), 2 * n)
      <4> DEFINE j == k - d
      <4>1. j \in Nat /\ Dist(x, y, 2 * n) + j <= 2 * n - 1
        BY <3>1, <3>2
      <4> HIDE DEF j
      <4>2. Forward(y, j, 2 * n) = Forward(x, Dist(x, y, 2 * n) + j, 2 * n)
        BY <1>1, <4>1, DistGrows
      <4> QED BY <1>2, <4>2 DEF j
    <3>4. c[i] = Forward(y, k - d, 2 * n)
      BY <2>4, <3>1
    <3> QED BY <3>1, <3>3, <3>4 DEF i
  <2>7. k < d \/ k >= d
    BY <1>2
  <2> QED BY <2>5, <2>6, <2>7
<1> DEFINE u == Forward(t, m, n)
           v == Forward(y, m, 2 * n)
<1>7. /\ Dist(h, u, n) = Dist(x, v, 2 * n)
      /\ \A k \in 0 .. Dist(h, u, n) - 1 : c[Forward(h, k, n)] = Forward(x, k, 2 * n)
  <2>1. Dist(h, u, n) = e /\ Dist(x, v, 2 * n) = e
    BY <1>3, <1>4
  <2> HIDE DEF u, v
  <2> HIDE DEF e
  <2> QED BY <1>6, <2>1
<1>8. u \in 0 .. n - 1 /\ v \in 0 .. 2 * n - 1
  BY <1>3, <1>4
<1> HIDE DEF u, v
<1>9. RingOK(c, n, h, u, x, v)
  BY <1>1, <1>5, <1>7, <1>8 DEF RingOK
<1> QED BY <1>9 DEF u, v

\* One frame is queued: the card receives it.
LEMMA RingPutOne ==
  ASSUME NEW n \in Nat \ {0}, NEW buf, NEW h, NEW t, NEW x, NEW y, RingOK(buf, n, h, t, x, y),
         Dist(h, t, n) + 1 <= n - 1
  PROVE  RingOK([buf EXCEPT ![t] = y], n, h, Forward(t, 1, n), x, Forward(y, 1, 2 * n))
<1>1. /\ buf \in [0 .. n - 1 -> Int] /\ t \in 0 .. n - 1 /\ y \in 0 .. 2 * n - 1
      /\ 2 * n \in Nat \ {0}
  BY DEF RingOK
<1> DEFINE c == [i \in 0 .. n - 1 |-> IF Dist(t, i, n) < 1
                                      THEN Forward(y, Dist(t, i, n), 2 * n) ELSE buf[i]]
<1>2. RingOK(c, n, h, Forward(t, 1, n), x, Forward(y, 1, 2 * n))
  <2>1. 1 \in Nat
    OBVIOUS
  <2> QED BY <2>1, RingPut
<1>3. ASSUME NEW i \in 0 .. n - 1
      PROVE  c[i] = [buf EXCEPT ![t] = y][i]
  <2>1. Dist(t, i, n) \in 0 .. n - 1 /\ (t <= i => Dist(t, i, n) = i - t)
        /\ (i < t => Dist(t, i, n) = i + n - t)
    BY <1>1, DistIs
  <2>2. CASE i = t
    <3>1. Dist(t, i, n) = 0
      BY <1>1, <2>1, <2>2
    <3>2. Forward(y, 0, 2 * n) = y
      <4>1. 0 \in 0 .. 2 * n /\ y + 0 < 2 * n /\ y + 0 = y
        BY <1>1
      <4> QED BY <1>1, <4>1, ForwardIs
    <3>3. c[i] = y
      BY <3>1, <3>2
    <3> HIDE DEF c
    <3> QED BY <1>1, <2>2, <3>3
  <2>3. CASE i # t
    <3>1. ~(Dist(t, i, n) < 1)
      BY <1>1, <2>1, <2>3
    <3>2. c[i] = buf[i]
      BY <3>1
    <3> HIDE DEF c
    <3> QED BY <1>1, <2>3, <3>2
  <2> QED BY <2>2, <2>3
<1>4. c = [buf EXCEPT ![t] = y]
  <2>1. [buf EXCEPT ![t] = y] = [i \in 0 .. n - 1 |-> [buf EXCEPT ![t] = y][i]]
    BY <1>1
  <2>2. c = [i \in 0 .. n - 1 |-> c[i]]
    OBVIOUS
  <2> HIDE DEF c
  <2> QED BY <1>3, <2>1, <2>2
<1> HIDE DEF c
<1> QED BY <1>2, <1>4

\* The first frame leaves: the card sends it, or e1000_poll() takes it.
LEMMA RingGet ==
  ASSUME NEW n \in Nat \ {0}, NEW buf, NEW h, NEW t, NEW x, NEW y, RingOK(buf, n, h, t, x, y),
         Dist(h, t, n) >= 1
  PROVE  RingOK([buf EXCEPT ![h] = NoFrame], n, Forward(h, 1, n), t, Forward(x, 1, 2 * n), y)
<1>1. /\ buf \in [0 .. n - 1 -> Int]
      /\ h \in 0 .. n - 1 /\ t \in 0 .. n - 1 /\ x \in 0 .. 2 * n - 1 /\ y \in 0 .. 2 * n - 1
      /\ Dist(h, t, n) = Dist(x, y, 2 * n)
      /\ \A k \in 0 .. Dist(h, t, n) - 1 : buf[Forward(h, k, n)] = Forward(x, k, 2 * n)
      /\ 2 * n \in Nat \ {0}
  BY DEF RingOK
<1> DEFINE d == Dist(h, t, n)
           c == [buf EXCEPT ![h] = NoFrame]
           g == Forward(h, 1, n)
<1>2. d \in 0 .. n - 1 /\ d >= 1
  BY <1>1, DistIs
<1>3. g \in 0 .. n - 1 /\ Dist(g, t, n) = d - 1
  BY <1>1, DistShrinks
<1>4. Forward(x, 1, 2 * n) \in 0 .. 2 * n - 1 /\ Dist(Forward(x, 1, 2 * n), y, 2 * n) = d - 1
  BY <1>1, DistShrinks
<1>5. c \in [0 .. n - 1 -> Int] /\ \A i \in 0 .. n - 1 : i # h => c[i] = buf[i]
  BY <1>1 DEF NoFrame
<1> HIDE DEF d, c, g
<1>6. ASSUME NEW k \in 0 .. (d - 1) - 1
      PROVE  c[Forward(g, k, n)] = Forward(Forward(x, 1, 2 * n), k, 2 * n)
  <2>1. k \in 0 .. n - 1 /\ k \in 0 .. 2 * n - 1 /\ k + 1 \in 0 .. d - 1 /\ k + 1 \in 0 .. n - 1
        /\ k + 1 \in 0 .. n /\ k + 1 # 0
    BY <1>2
  <2>2. Forward(g, k, n) = Forward(h, k + 1, n)
    BY <1>1, <2>1, ForwardForward DEF g
  <2>3. Forward(Forward(x, 1, 2 * n), k, 2 * n) = Forward(x, k + 1, 2 * n)
    BY <1>1, <2>1, ForwardForward
  <2>4. buf[Forward(h, k + 1, n)] = Forward(x, k + 1, 2 * n)
    BY <1>1, <2>1 DEF d
  <2>5. Forward(h, k + 1, n) \in 0 .. n - 1 /\ Forward(h, k + 1, n) # h
    <3> DEFINE j == k + 1
    <3>1. j \in 1 .. n - 1 /\ j \in 0 .. n
      BY <2>1
    <3> HIDE DEF j
    <3>2. /\ Forward(h, j, n) \in 0 .. n - 1
          /\ h + j < n => Forward(h, j, n) = h + j
          /\ h + j >= n => Forward(h, j, n) = h + j - n
      BY <1>1, <3>1, ForwardIs
    <3>3. Forward(h, j, n) # h
      <4>1. ASSUME h + j < n PROVE Forward(h, j, n) # h
        BY <1>1, <3>1, <3>2, <4>1
      <4>2. ASSUME h + j >= n PROVE Forward(h, j, n) # h
        BY <1>1, <3>1, <3>2, <4>2
      <4>3. h + j < n \/ h + j >= n
        BY <1>1, <3>1
      <4> QED BY <4>1, <4>2, <4>3
    <3> QED BY <3>2, <3>3 DEF j
  <2> QED BY <1>5, <2>2, <2>3, <2>4, <2>5
<1>7. /\ Dist(g, t, n) = Dist(Forward(x, 1, 2 * n), y, 2 * n)
      /\ \A k \in 0 .. Dist(g, t, n) - 1 :
           c[Forward(g, k, n)] = Forward(Forward(x, 1, 2 * n), k, 2 * n)
  BY <1>3, <1>4, <1>6
<1>8. RingOK(c, n, g, t, Forward(x, 1, 2 * n), y)
  BY <1>1, <1>3, <1>4, <1>5, <1>7 DEF RingOK
<1> QED BY <1>8 DEF c, g

\* No frame is outside after one was received ...
LEMMA RestAfterPut ==
  ASSUME NEW n \in Nat \ {0}, NEW buf \in [0 .. n - 1 -> Int], NEW h \in 0 .. n - 1,
         NEW t \in 0 .. n - 1, NEW z, RestEmpty(buf, n, h, t), Dist(h, t, n) + 1 <= n - 1
  PROVE  RestEmpty([buf EXCEPT ![t] = z], n, h, Forward(t, 1, n))
<1>1. Dist(h, Forward(t, 1, n), n) = Dist(h, t, n) + 1
  BY DistGrows
<1>2. ASSUME NEW i \in 0 .. n - 1, Dist(h, i, n) >= Dist(h, t, n) + 1
      PROVE  [buf EXCEPT ![t] = z][i] = NoFrame
  <2>1. Dist(h, i, n) \in Int /\ Dist(h, t, n) \in Int
    BY DistIs
  <2>2. i # t /\ Dist(h, i, n) >= Dist(h, t, n)
    BY <1>2, <2>1
  <2>3. buf[i] = NoFrame
    BY <2>2 DEF RestEmpty
  <2> QED BY <2>2, <2>3
<1> QED BY <1>1, <1>2 DEF RestEmpty

\* ... or taken out.
LEMMA RestAfterGet ==
  ASSUME NEW n \in Nat \ {0}, NEW buf \in [0 .. n - 1 -> Int], NEW h \in 0 .. n - 1,
         NEW t \in 0 .. n - 1, RestEmpty(buf, n, h, t), Dist(h, t, n) >= 1
  PROVE  RestEmpty([buf EXCEPT ![h] = NoFrame], n, Forward(h, 1, n), t)
<1> DEFINE g == Forward(h, 1, n)
<1>1. g \in 0 .. n - 1 /\ Dist(g, t, n) = Dist(h, t, n) - 1
  BY DistShrinks
<1> HIDE DEF g
<1>2. ASSUME NEW i \in 0 .. n - 1, Dist(g, i, n) >= Dist(g, t, n)
      PROVE  [buf EXCEPT ![h] = NoFrame][i] = NoFrame
  <2>1. CASE i = h
    BY <2>1
  <2>2. CASE i # h
    <3>1. Dist(h, i, n) \in 0 .. n - 1 /\ Dist(h, i, n) >= 1 /\ Dist(h, t, n) \in 0 .. n - 1
      <4>1. Dist(h, i, n) # 0
        <5>1. (h <= i => Dist(h, i, n) = i - h) /\ (i < h => Dist(h, i, n) = i + n - h)
          BY DistIs
        <5> QED BY <2>2, <5>1
      <4>2. Dist(h, i, n) \in 0 .. n - 1 /\ Dist(h, t, n) \in 0 .. n - 1
        BY DistIs
      <4> QED BY <4>1, <4>2
    <3>2. Dist(g, i, n) = Dist(h, i, n) - 1
      BY <3>1, DistShrinks DEF g
    <3>3. Dist(h, i, n) >= Dist(h, t, n)
      BY <1>1, <1>2, <3>1, <3>2
    <3>4. buf[i] = NoFrame
      BY <3>3 DEF RestEmpty
    <3> QED BY <2>2, <3>4
  <2> QED BY <2>1, <2>2
<1> QED BY <1>2 DEF RestEmpty, g
-----------------------------------------------------------------------------
(* The steps.                                                               *)

\* What the rings are, in the words of Nic.
LEMMA Numbers ==
  ASSUME NEW k
  PROVE  /\ Laps["queue"] = 2 * TXDESCS /\ Laps["leave"] = 2 * TXDESCS
         /\ Laps["arrive"] = 2 * RXDESCS /\ Laps["receive"] = 2 * RXDESCS
         /\ Numbered("queue", k) = Forward(number["queue"], k, 2 * TXDESCS)
         /\ Numbered("leave", k) = Forward(number["leave"], k, 2 * TXDESCS)
         /\ Numbered("arrive", k) = Forward(number["arrive"], k, 2 * RXDESCS)
         /\ Numbered("receive", k) = Forward(number["receive"], k, 2 * RXDESCS)
  BY DEF Laps, Numbered, Forward

\* The counter of one step moves on, the others stay.
LEMMA CountedIs ==
  ASSUME NEW f \in {"queue", "leave", "arrive", "receive"}, NEW k, NEW num,
         number \in [{"queue", "leave", "arrive", "receive"} -> Int],
         Numbered(f, k) \in Int, num = Counted(f, k)
  PROVE  /\ num \in [{"queue", "leave", "arrive", "receive"} -> Int]
         /\ num[f] = Numbered(f, k)
         /\ \A g \in {"queue", "leave", "arrive", "receive"} \ {f} : num[g] = number[g]
  BY DEF Counted

\* The initial state: e1000_init().
LEMMA InitSound ==
  ASSUME NicInit
  PROVE  NicInv
<1>1. TXDESCS \in Nat \ {0} /\ RXDESCS \in Nat \ {0} /\ RXDESCS # 1
  BY NicAssumption
<1>2. /\ tdh = 0 /\ tcq_tail = 0 /\ tx_frm_buffer = [i \in 0 .. TXDESCS - 1 |-> NoFrame]
      /\ rdh = 0 /\ rcq_tail = RXDESCS - 1
      /\ rx_frm_buffer = [i \in 0 .. RXDESCS - 1 |-> NoFrame]
      /\ doing = [p \in NicProc |-> "user"] /\ req_len = [p \in NicProc |-> 0] /\ kernel = Idle
      /\ number = [f \in {"queue", "leave", "arrive", "receive"} |-> 0]
  BY DEF NicInit
<1>3. NoFrame \in Int
  BY DEF NoFrame
<1>4. ASSUME NEW n \in Nat \ {0}
      PROVE  RingOK([i \in 0 .. n - 1 |-> NoFrame], n, 0, 0, 0, 0)
  <2>1. 0 \in 0 .. n - 1 /\ 0 \in 0 .. 2 * n - 1 /\ 2 * n \in Nat \ {0}
    OBVIOUS
  <2>2. Dist(0, 0, n) = 0 /\ Dist(0, 0, 2 * n) = 0
    <3>1. ASSUME NEW j \in Nat \ {0} PROVE Dist(0, 0, j) = 0
      <4>1. 0 \in 0 .. j - 1 /\ 0 <= 0 /\ 0 - 0 = 0
        OBVIOUS
      <4> QED BY <4>1, DistIs
    <3> QED BY <2>1, <3>1
  <2>3. 0 .. Dist(0, 0, n) - 1 = {}
    BY <2>2
  <2> QED BY <1>3, <2>1, <2>2, <2>3 DEF RingOK
<1>5. SendRing(tx_frm_buffer, tdh, tcq_tail, number)
  BY <1>1, <1>2, <1>4 DEF SendRing
<1>6. Forward(rcq_tail, 1, RXDESCS) = 0 /\ rcq_tail \in 0 .. RXDESCS - 1
  <2>1. RXDESCS - 1 \in 0 .. RXDESCS - 1 /\ 1 \in 0 .. RXDESCS
        /\ (RXDESCS - 1) + 1 >= RXDESCS /\ (RXDESCS - 1) + 1 - RXDESCS = 0
    BY <1>1
  <2> QED BY <1>1, <1>2, <2>1, ForwardIs
<1>7. ReceiveRing(rx_frm_buffer, rcq_tail, rdh, number)
  <2>1. RestEmpty(rx_frm_buffer, RXDESCS, 0, 0)
    BY <1>2 DEF RestEmpty
  <2> QED BY <1>1, <1>2, <1>4, <1>6, <2>1 DEF ReceiveRing
<1>8. AsksOK(kernel, doing, req_len)
  <2>1. kernel[1] = "idle"
    BY <1>2 DEF Idle
  <2> QED BY <1>2, <2>1 DEF AsksOK, States
<1> QED BY <1>2, <1>5, <1>7, <1>8 DEF NicInv

\* e1000_transmit_array() fills descriptors that the card is done with.
LEMMA TrySendKeeps ==
  ASSUME NicInv, NEW p \in NicProc, NEW n \in Nat, TrySend(p, n), kernel = Idle,
         UNCHANGED rxring
  PROVE  NicInv'
<1>1. TXDESCS \in Nat \ {0}
  BY NicAssumption
<1>2. rdh' = rdh /\ rcq_tail' = rcq_tail /\ rx_frm_buffer' = rx_frm_buffer
  BY DEF rxring
<1>3. /\ number \in [{"queue", "leave", "arrive", "receive"} -> Int]
      /\ RingOK(tx_frm_buffer, TXDESCS, tdh, tcq_tail, number["leave"], number["queue"])
      /\ doing \in [NicProc -> States] /\ req_len \in [NicProc -> Int]
      /\ \A q \in NicProc : doing[q] \in {"send_blocked", "send_woken"} => req_len[q] \in Nat
      /\ kernel[1] = "idle"
  BY DEF NicInv, SendRing, AsksOK, Idle
<1>4. /\ tdh \in 0 .. TXDESCS - 1 /\ tcq_tail \in 0 .. TXDESCS - 1
      /\ number["queue"] \in 0 .. 2 * TXDESCS - 1
      /\ Dist(tdh, tcq_tail, TXDESCS) = Dist(number["leave"], number["queue"], 2 * TXDESCS)
      /\ number["leave"] \in 0 .. 2 * TXDESCS - 1
  BY <1>3 DEF RingOK
<1>5. CASE Full(n)
  <2>1. /\ kernel' = <<"wait_tx", p>> /\ doing' = [doing EXCEPT ![p] = "kernel"]
        /\ req_len' = [req_len EXCEPT ![p] = n]
        /\ UNCHANGED <<txring, number>>
    BY <1>5 DEF TrySend
  <2>2. tdh' = tdh /\ tcq_tail' = tcq_tail /\ tx_frm_buffer' = tx_frm_buffer /\ number' = number
    BY <2>1 DEF txring
  <2>3. kernel'[1] = "wait_tx" /\ kernel'[2] = p
    BY <2>1
  <2>4. AsksOK(kernel', doing', req_len')
    BY <1>3, <2>1, <2>3 DEF AsksOK, States
  <2> QED BY <1>2, <2>2, <2>4 DEF NicInv
<1>6. CASE ~Full(n)
  <2>1. /\ tx_frm_buffer' = [i \in 0 .. TXDESCS - 1 |->
             IF (i + TXDESCS - tcq_tail) % TXDESCS < n
             THEN Numbered("queue", (i + TXDESCS - tcq_tail) % TXDESCS) ELSE tx_frm_buffer[i]]
        /\ tcq_tail' = (tcq_tail + n) % TXDESCS
        /\ number' = Counted("queue", n)
        /\ doing' = [doing EXCEPT ![p] = "user"]
        /\ req_len' = [req_len EXCEPT ![p] = 0]
        /\ tdh' = tdh /\ kernel' = kernel
    BY <1>6 DEF TrySend
  <2>2. Dist(tdh, tcq_tail, TXDESCS) + n <= TXDESCS - 1
    <3>1. tcq_len = Dist(tdh, tcq_tail, TXDESCS)
      BY DEF tcq_len, Dist
    <3>2. Dist(tdh, tcq_tail, TXDESCS) \in Nat
      BY <1>1, <1>4, DistIs
    <3> QED BY <1>1, <1>6, <3>1, <3>2 DEF Full
  <2>3. tx_frm_buffer' = [i \in 0 .. TXDESCS - 1 |->
             IF Dist(tcq_tail, i, TXDESCS) < n
             THEN Forward(number["queue"], Dist(tcq_tail, i, TXDESCS), 2 * TXDESCS)
             ELSE tx_frm_buffer[i]]
    BY <2>1, Numbers DEF Dist
  <2>4. tcq_tail' = Forward(tcq_tail, n, TXDESCS)
    BY <2>1 DEF Forward
  <2>5. RingOK(tx_frm_buffer', TXDESCS, tdh, Forward(tcq_tail, n, TXDESCS),
               number["leave"], Forward(number["queue"], n, 2 * TXDESCS))
    BY <1>1, <1>3, <2>2, <2>3, RingPut
  <2>6. /\ number' \in [{"queue", "leave", "arrive", "receive"} -> Int]
        /\ number'["queue"] = Forward(number["queue"], n, 2 * TXDESCS)
        /\ number'["leave"] = number["leave"] /\ number'["arrive"] = number["arrive"]
        /\ number'["receive"] = number["receive"]
    <3>1. Numbered("queue", n) = Forward(number["queue"], n, 2 * TXDESCS)
      BY Numbers
    <3>2. Numbered("queue", n) \in Int
      BY <2>5, <3>1 DEF RingOK
    <3> QED BY <1>3, <2>1, <3>1, <3>2, CountedIs
  <2>7. SendRing(tx_frm_buffer', tdh', tcq_tail', number')
    BY <2>1, <2>4, <2>5, <2>6 DEF SendRing
  <2>8. ReceiveRing(rx_frm_buffer', rcq_tail', rdh', number')
    BY <1>2, <2>6 DEF NicInv, ReceiveRing
  <2>9. AsksOK(kernel', doing', req_len')
    BY <1>3, <2>1 DEF AsksOK, States
  <2> QED BY <2>6, <2>7, <2>8, <2>9 DEF NicInv
<1> QED BY <1>5, <1>6

\* The rings stay as they are.
LEMMA RingsStay ==
  ASSUME NicInv, UNCHANGED <<txring, rxring, number>>, AsksOK(kernel', doing', req_len')
  PROVE  NicInv'
<1>1. /\ tdh' = tdh /\ tcq_tail' = tcq_tail /\ tx_frm_buffer' = tx_frm_buffer
      /\ rdh' = rdh /\ rcq_tail' = rcq_tail /\ rx_frm_buffer' = rx_frm_buffer /\ number' = number
  BY DEF txring, rxring
<1> QED BY <1>1 DEF NicInv

\* e1000_poll() takes the first frame that was received and not taken.
LEMMA PollKeeps ==
  ASSUME NicInv, NEW p \in NicProc, Poll(p)
  PROVE  NicInv'
<1>1. RXDESCS \in Nat \ {0}
  BY NicAssumption
<1> DEFINE next == Next1(rcq_tail, RXDESCS)
<1>2. next = Forward(rcq_tail, 1, RXDESCS)
  BY DEF Next1, Forward
<1>3. /\ number \in [{"queue", "leave", "arrive", "receive"} -> Int]
      /\ rcq_tail \in 0 .. RXDESCS - 1
      /\ RingOK(rx_frm_buffer, RXDESCS, next, rdh, number["receive"], number["arrive"])
      /\ RestEmpty(rx_frm_buffer, RXDESCS, next, rdh)
      /\ doing \in [NicProc -> States] /\ req_len \in [NicProc -> Int]
      /\ \A q \in NicProc : doing[q] \in {"send_blocked", "send_woken"} => req_len[q] \in Nat
  BY <1>2 DEF NicInv, ReceiveRing, AsksOK
<1>4. kernel = <<"poll", p>> /\ kernel[1] = "poll" /\ kernel[2] = p
  BY DEF Poll
<1>5. doing[p] = "kernel"
  BY <1>4 DEF NicInv, AsksOK
<1>6. tdh' = tdh /\ tcq_tail' = tcq_tail /\ tx_frm_buffer' = tx_frm_buffer /\ rdh' = rdh
  BY DEF Poll, txring
<1>7. CASE rx_frm_buffer[next] = NoFrame
  <2>1. /\ doing' = [doing EXCEPT ![p] = "recv_blocked"] /\ kernel' = Idle
        /\ rx_frm_buffer' = rx_frm_buffer /\ rcq_tail' = rcq_tail /\ number' = number
        /\ req_len' = req_len
    BY <1>7 DEF Poll
  <2>2. kernel'[1] = "idle"
    BY <2>1 DEF Idle
  <2>3. AsksOK(kernel', doing', req_len')
    BY <1>3, <2>1, <2>2 DEF AsksOK, States
  <2>4. UNCHANGED <<txring, rxring, number>>
    BY <1>6, <2>1 DEF txring, rxring
  <2> QED BY <2>3, <2>4, RingsStay
<1>8. CASE rx_frm_buffer[next] # NoFrame
  <2>1. /\ rx_frm_buffer' = [rx_frm_buffer EXCEPT ![next] = NoFrame]
        /\ rcq_tail' = next
        /\ number' = Counted("receive", 1)
        /\ req_len' = [req_len EXCEPT ![p] = @ - 1]
        /\ \/ kernel' = Idle /\ doing' = [doing EXCEPT ![p] = "user"]
           \/ kernel' = kernel /\ doing' = doing
    BY <1>8 DEF Poll
  <2> HIDE DEF next
  <2>2. next \in 0 .. RXDESCS - 1 /\ rdh \in 0 .. RXDESCS - 1
        /\ rx_frm_buffer \in [0 .. RXDESCS - 1 -> Int]
    BY <1>3 DEF RingOK
  <2>3. Dist(next, rdh, RXDESCS) >= 1
    <3>1. Dist(next, next, RXDESCS) = 0
      BY <1>1, <2>2, DistIs
    <3>2. Dist(next, rdh, RXDESCS) \in Nat
      BY <1>1, <2>2, DistIs
    <3>3. ~(0 >= Dist(next, rdh, RXDESCS))
      BY <1>3, <1>8, <2>2, <3>1 DEF RestEmpty
    <3> QED BY <3>2, <3>3
  <2>4. RingOK(rx_frm_buffer', RXDESCS, Forward(next, 1, RXDESCS), rdh,
               Forward(number["receive"], 1, 2 * RXDESCS), number["arrive"])
    BY <1>1, <1>3, <2>1, <2>3, RingGet
  <2>5. RestEmpty(rx_frm_buffer', RXDESCS, Forward(next, 1, RXDESCS), rdh)
    BY <1>1, <1>3, <2>1, <2>2, <2>3, RestAfterGet
  <2>6. /\ number' \in [{"queue", "leave", "arrive", "receive"} -> Int]
        /\ number'["receive"] = Forward(number["receive"], 1, 2 * RXDESCS)
        /\ number'["leave"] = number["leave"] /\ number'["arrive"] = number["arrive"]
        /\ number'["queue"] = number["queue"]
    <3>1. Numbered("receive", 1) = Forward(number["receive"], 1, 2 * RXDESCS)
      BY Numbers
    <3>2. Numbered("receive", 1) \in Int
      BY <2>4, <3>1 DEF RingOK
    <3> QED BY <1>3, <2>1, <3>1, <3>2, CountedIs
  <2>7. ReceiveRing(rx_frm_buffer', rcq_tail', rdh', number')
    BY <1>6, <2>1, <2>2, <2>4, <2>5, <2>6 DEF ReceiveRing
  <2>8. SendRing(tx_frm_buffer', tdh', tcq_tail', number')
    BY <1>6, <2>6 DEF NicInv, SendRing
  <2>9. AsksOK(kernel', doing', req_len')
    <3>1. /\ doing' \in [NicProc -> States] /\ req_len' \in [NicProc -> Int]
          /\ \A q \in NicProc : doing'[q] \in {"send_blocked", "send_woken"} =>
               q # p /\ doing'[q] = doing[q]
          /\ \A q \in NicProc : q # p => req_len'[q] = req_len[q]
      BY <1>3, <1>5, <2>1 DEF States
    <3>2. \/ kernel'[1] = "idle"
          \/ kernel'[1] = "poll" /\ kernel'[2] = p /\ doing'[p] = "kernel"
      BY <1>4, <1>5, <2>1 DEF Idle
    <3> QED BY <1>3, <3>1, <3>2 DEF AsksOK, States
  <2> QED BY <2>6, <2>7, <2>8, <2>9 DEF NicInv
<1> QED BY <1>7, <1>8

\* The card sends the frame at TDH.
LEMMA TransmitKeeps ==
  ASSUME NicInv, Transmit
  PROVE  NicInv'
<1>1. TXDESCS \in Nat \ {0}
  BY NicAssumption
<1>2. /\ number \in [{"queue", "leave", "arrive", "receive"} -> Int]
      /\ RingOK(tx_frm_buffer, TXDESCS, tdh, tcq_tail, number["leave"], number["queue"])
  BY DEF NicInv, SendRing
<1>3. /\ tdh # tcq_tail /\ tdh' = Forward(tdh, 1, TXDESCS)
      /\ tx_frm_buffer' = [tx_frm_buffer EXCEPT ![tdh] = NoFrame]
      /\ number' = Counted("leave", 1) /\ tcq_tail' = tcq_tail
      /\ rdh' = rdh /\ rcq_tail' = rcq_tail /\ rx_frm_buffer' = rx_frm_buffer
      /\ kernel' = kernel /\ doing' = doing /\ req_len' = req_len
  BY DEF Transmit, Next1, Forward, rxring
<1>4. Dist(tdh, tcq_tail, TXDESCS) >= 1
  <2>1. tdh \in 0 .. TXDESCS - 1 /\ tcq_tail \in 0 .. TXDESCS - 1
    BY <1>2 DEF RingOK
  <2>2. /\ tdh <= tcq_tail => Dist(tdh, tcq_tail, TXDESCS) = tcq_tail - tdh
        /\ tcq_tail < tdh => Dist(tdh, tcq_tail, TXDESCS) = tcq_tail + TXDESCS - tdh
    BY <1>1, <2>1, DistIs
  <2> QED BY <1>1, <1>3, <2>1, <2>2
<1>5. RingOK(tx_frm_buffer', TXDESCS, Forward(tdh, 1, TXDESCS), tcq_tail,
             Forward(number["leave"], 1, 2 * TXDESCS), number["queue"])
  BY <1>1, <1>2, <1>3, <1>4, RingGet
<1>6. /\ number' \in [{"queue", "leave", "arrive", "receive"} -> Int]
      /\ number'["leave"] = Forward(number["leave"], 1, 2 * TXDESCS)
      /\ number'["receive"] = number["receive"] /\ number'["arrive"] = number["arrive"]
      /\ number'["queue"] = number["queue"]
  <2>1. Numbered("leave", 1) = Forward(number["leave"], 1, 2 * TXDESCS)
    BY Numbers
  <2>2. Numbered("leave", 1) \in Int
    BY <1>5, <2>1 DEF RingOK
  <2> QED BY <1>2, <1>3, <2>1, <2>2, CountedIs
<1>7. SendRing(tx_frm_buffer', tdh', tcq_tail', number')
  BY <1>3, <1>5, <1>6 DEF SendRing
<1>8. ReceiveRing(rx_frm_buffer', rcq_tail', rdh', number')
  BY <1>3, <1>6 DEF NicInv, ReceiveRing
<1> QED BY <1>3, <1>6, <1>7, <1>8 DEF NicInv

\* The card writes a frame at RDH, never to the descriptor at RDT.
LEMMA ReceiveKeeps ==
  ASSUME NicInv, Receive
  PROVE  NicInv'
<1>1. RXDESCS \in Nat \ {0}
  BY NicAssumption
<1> DEFINE from == Forward(rcq_tail, 1, RXDESCS)
<1>2. /\ number \in [{"queue", "leave", "arrive", "receive"} -> Int]
      /\ rcq_tail \in 0 .. RXDESCS - 1
      /\ RingOK(rx_frm_buffer, RXDESCS, from, rdh, number["receive"], number["arrive"])
      /\ RestEmpty(rx_frm_buffer, RXDESCS, from, rdh)
  BY DEF NicInv, ReceiveRing
<1>3. /\ rdh # rcq_tail /\ rdh' = Forward(rdh, 1, RXDESCS)
      /\ rx_frm_buffer' = [rx_frm_buffer EXCEPT ![rdh] = number["arrive"]]
      /\ number' = Counted("arrive", 1) /\ rcq_tail' = rcq_tail
      /\ tdh' = tdh /\ tcq_tail' = tcq_tail /\ tx_frm_buffer' = tx_frm_buffer
      /\ kernel' = kernel /\ doing' = doing /\ req_len' = req_len
  BY DEF Receive, Next1, Forward, txring
<1>4. from \in 0 .. RXDESCS - 1 /\ rdh \in 0 .. RXDESCS - 1
      /\ rx_frm_buffer \in [0 .. RXDESCS - 1 -> Int]
  BY <1>2 DEF RingOK
<1>5. Dist(from, rdh, RXDESCS) + 1 <= RXDESCS - 1
  <2>1. 1 \in 0 .. RXDESCS
    BY <1>1
  <2>2. /\ rcq_tail + 1 < RXDESCS => from = rcq_tail + 1
        /\ rcq_tail + 1 >= RXDESCS => from = rcq_tail + 1 - RXDESCS
    BY <1>1, <1>2, <2>1, ForwardIs
  <2> HIDE DEF from
  <2>3. /\ from <= rdh => Dist(from, rdh, RXDESCS) = rdh - from
        /\ rdh < from => Dist(from, rdh, RXDESCS) = rdh + RXDESCS - from
    BY <1>1, <1>4, DistIs
  <2> DEFINE e == Dist(from, rdh, RXDESCS)
  <2>4. /\ RXDESCS \in Nat /\ rcq_tail \in 0 .. RXDESCS - 1 /\ rdh \in 0 .. RXDESCS - 1
        /\ rdh # rcq_tail /\ from \in 0 .. RXDESCS - 1
    BY <1>1, <1>2, <1>3, <1>4
  <2> HIDE DEF e
  <2>5. CASE rcq_tail + 1 < RXDESCS
    <3>1. from = rcq_tail + 1
      BY <2>2, <2>5
    <3>2. CASE from <= rdh
      <4>1. e = rdh - from
        BY <2>3, <3>2 DEF e
      <4>2. e + 1 <= RXDESCS - 1
        BY <2>4, <3>1, <4>1
      <4> QED BY <4>2 DEF e
    <3>3. CASE rdh < from
      <4>1. e = rdh + RXDESCS - from
        BY <2>3, <3>3 DEF e
      <4>2. e + 1 <= RXDESCS - 1
        BY <2>4, <3>1, <3>3, <4>1
      <4> QED BY <4>2 DEF e
    <3> QED BY <2>4, <3>2, <3>3
  <2>6. CASE rcq_tail + 1 >= RXDESCS
    <3>1. from = 0 /\ rdh < RXDESCS - 1
      BY <2>2, <2>4, <2>6
    <3>2. e = rdh
      BY <2>3, <2>4, <3>1 DEF e
    <3>3. e + 1 <= RXDESCS - 1
      BY <2>4, <3>1, <3>2
    <3> QED BY <3>3 DEF e
  <2> QED BY <2>4, <2>5, <2>6
<1> HIDE DEF from
<1>6. RingOK(rx_frm_buffer', RXDESCS, from, Forward(rdh, 1, RXDESCS), number["receive"],
             Forward(number["arrive"], 1, 2 * RXDESCS))
  BY <1>1, <1>2, <1>3, <1>5, RingPutOne
<1>7. RestEmpty(rx_frm_buffer', RXDESCS, from, Forward(rdh, 1, RXDESCS))
  BY <1>1, <1>2, <1>3, <1>4, <1>5, RestAfterPut
<1>8. /\ number' \in [{"queue", "leave", "arrive", "receive"} -> Int]
      /\ number'["arrive"] = Forward(number["arrive"], 1, 2 * RXDESCS)
      /\ number'["receive"] = number["receive"] /\ number'["leave"] = number["leave"]
      /\ number'["queue"] = number["queue"]
  <2>1. Numbered("arrive", 1) = Forward(number["arrive"], 1, 2 * RXDESCS)
    BY Numbers
  <2>2. Numbered("arrive", 1) \in Int
    BY <1>6, <2>1 DEF RingOK
  <2> QED BY <1>2, <1>3, <2>1, <2>2, CountedIs
<1>9. ReceiveRing(rx_frm_buffer', rcq_tail', rdh', number')
  BY <1>2, <1>3, <1>6, <1>7, <1>8 DEF ReceiveRing, from
<1>10. SendRing(tx_frm_buffer', tdh', tcq_tail', number')
  BY <1>3, <1>8 DEF NicInv, SendRing
<1> QED BY <1>3, <1>8, <1>9, <1>10 DEF NicInv

\* The other steps of processes and interrupts leave the rings alone.
LEMMA OthersKeep ==
  ASSUME NicInv,
         \/ \E p \in NicProc : \/ WaitTx(p) \/ ResumeNetRecv(p) \/ KillWaiting(p)
                            \/ \E n \in RecvCounts : do_net_recv(p, n)
         \/ handle_irq_ext \/ EndIrq \/ check_sleeping_on_nic
  PROVE  NicInv'
<1>1. /\ doing \in [NicProc -> States] /\ req_len \in [NicProc -> Int]
      /\ kernel[1] = "wait_tx" => kernel[2] \in NicProc /\ req_len[kernel[2]] \in Nat
      /\ kernel[1] = "poll" => kernel[2] \in NicProc /\ doing[kernel[2]] = "kernel"
      /\ \A p \in NicProc : doing[p] \in {"send_blocked", "send_woken"} => req_len[p] \in Nat
      /\ RecvCounts \subseteq Nat
  BY NicAssumption DEF NicInv, AsksOK
<1>2. ASSUME NEW p \in NicProc, WaitTx(p)
      PROVE  AsksOK(kernel', doing', req_len') /\ UNCHANGED <<txring, rxring, number>>
  <2>1. /\ kernel = <<"wait_tx", p>> /\ doing' = [doing EXCEPT ![p] = "send_blocked"]
        /\ kernel' = Idle /\ req_len' = req_len /\ UNCHANGED <<txring, rxring, number>>
    BY <1>2 DEF WaitTx
  <2>2. kernel'[1] = "idle" /\ kernel[1] = "wait_tx" /\ kernel[2] = p
    BY <2>1 DEF Idle
  <2> QED BY <1>1, <2>1, <2>2 DEF AsksOK, States
<1>3. ASSUME NEW p \in NicProc, ResumeNetRecv(p) \/ \E n \in RecvCounts : do_net_recv(p, n)
      PROVE  AsksOK(kernel', doing', req_len') /\ UNCHANGED <<txring, rxring, number>>
  <2>1. /\ doing' = [doing EXCEPT ![p] = "kernel"] /\ kernel' = <<"poll", p>>
        /\ req_len' \in [NicProc -> Int] /\ (\A q \in NicProc : q # p => req_len'[q] = req_len[q])
        /\ UNCHANGED <<txring, rxring, number>>
    BY <1>1, <1>3 DEF ResumeNetRecv, do_net_recv
  <2>2. kernel'[1] = "poll" /\ kernel'[2] = p
    BY <2>1
  <2> QED BY <1>1, <2>1, <2>2 DEF AsksOK, States
<1>4. ASSUME NEW p \in NicProc, KillWaiting(p)
      PROVE  AsksOK(kernel', doing', req_len') /\ UNCHANGED <<txring, rxring, number>>
  <2>1. /\ doing' = [doing EXCEPT ![p] = "user"] /\ kernel' = kernel /\ kernel = Idle
        /\ req_len' = [req_len EXCEPT ![p] = 0] /\ UNCHANGED <<txring, rxring, number>>
    BY <1>4 DEF KillWaiting
  <2>2. kernel'[1] = "idle"
    BY <2>1 DEF Idle
  <2> QED BY <1>1, <2>1, <2>2 DEF AsksOK, States
<1>5. ASSUME handle_irq_ext \/ check_sleeping_on_nic
      PROVE  AsksOK(kernel', doing', req_len') /\ UNCHANGED <<txring, rxring, number>>
  <2>1. /\ kernel' = <<"irq", icr>> \/ kernel' = Idle
        /\ doing' \in [NicProc -> States]
        /\ \A p \in NicProc : doing'[p] \in {"send_blocked", "send_woken"} =>
             doing[p] \in {"send_blocked", "send_woken"}
        /\ req_len' = req_len /\ UNCHANGED <<txring, rxring, number>>
    <3>1. CASE handle_irq_ext
      BY <1>1, <3>1 DEF handle_irq_ext, States
    <3>2. CASE check_sleeping_on_nic
      BY <1>1, <3>2 DEF check_sleeping_on_nic, Woken, States
    <3> QED BY <1>5, <3>1, <3>2
  <2>2. kernel'[1] \in {"irq", "idle"}
    BY <2>1 DEF Idle
  <2> QED BY <1>1, <2>1, <2>2 DEF AsksOK, States
<1>6. ASSUME EndIrq
      PROVE  AsksOK(kernel', doing', req_len') /\ UNCHANGED <<txring, rxring, number>>
  <2>1. /\ kernel' = Idle /\ doing' = doing /\ req_len' = req_len
        /\ UNCHANGED <<txring, rxring, number>>
    BY <1>6 DEF EndIrq
  <2>2. kernel'[1] = "idle"
    BY <2>1 DEF Idle
  <2> QED BY <1>1, <2>1, <2>2 DEF AsksOK, States
<1>7. AsksOK(kernel', doing', req_len') /\ UNCHANGED <<txring, rxring, number>>
  BY <1>2, <1>3, <1>4, <1>5, <1>6
<1> QED BY <1>7, RingsStay

\* Every step of a process, of an interrupt or of the card keeps the invariant.
LEMMA NicStep ==
  ASSUME NicInv, [NicNext]_nicvars
  PROVE  NicInv'
<1>1. ASSUME NEW p \in NicProc, NEW n \in SendCounts, do_net_send(p, n)
      PROVE  NicInv'
  <2>1. n \in Nat /\ TrySend(p, n) /\ kernel = Idle /\ UNCHANGED rxring
    BY <1>1, NicAssumption DEF do_net_send
  <2> QED BY <2>1, TrySendKeeps
<1>2. ASSUME NEW p \in NicProc, ResumeNetSend(p)
      PROVE  NicInv'
  <2>1. TrySend(p, req_len[p]) /\ kernel = Idle /\ UNCHANGED rxring /\ doing[p] = "send_woken"
    BY <1>2 DEF ResumeNetSend
  <2>2. req_len[p] \in Nat
    BY <2>1 DEF NicInv, AsksOK
  <2> QED BY <2>1, <2>2, TrySendKeeps
<1>3. ASSUME NEW p \in NicProc, Poll(p)
      PROVE  NicInv'
  BY <1>3, PollKeeps
<1>4. CASE Transmit \/ Receive
  BY <1>4, TransmitKeeps, ReceiveKeeps
<1>5. CASE UNCHANGED nicvars
  <2>1. /\ UNCHANGED <<txring, rxring, number>> /\ kernel' = kernel /\ doing' = doing
        /\ req_len' = req_len
    BY <1>5 DEF nicvars
  <2>2. AsksOK(kernel', doing', req_len')
    BY <2>1 DEF NicInv
  <2> QED BY <2>1, <2>2, RingsStay
<1> QED BY <1>1, <1>2, <1>3, <1>4, <1>5, OthersKeep DEF NicNext

\* The invariant of the runs follows.
LEMMA NicInvIsSound ==
  ASSUME NicInv
  PROVE  RingsSound
<1>1. /\ RingOK(tx_frm_buffer, TXDESCS, tdh, tcq_tail, number["leave"], number["queue"])
      /\ RingOK(rx_frm_buffer, RXDESCS, Forward(rcq_tail, 1, RXDESCS), rdh,
                number["receive"], number["arrive"])
  BY DEF NicInv, SendRing, ReceiveRing
<1>2. /\ Next1(rcq_tail, RXDESCS) = Forward(rcq_tail, 1, RXDESCS)
      /\ tcq_len = Dist(tdh, tcq_tail, TXDESCS)
      /\ (number["queue"] + Laps["queue"] - number["leave"]) % Laps["queue"]
           = Dist(number["leave"], number["queue"], 2 * TXDESCS)
      /\ (number["arrive"] + Laps["arrive"] - number["receive"]) % Laps["arrive"]
           = Dist(number["receive"], number["arrive"], 2 * RXDESCS)
  BY Numbers DEF Next1, Forward, Dist, tcq_len
<1> DEFINE from == Next1(rcq_tail, RXDESCS)
<1>3. (rdh + RXDESCS - from) % RXDESCS = Dist(from, rdh, RXDESCS)
  BY DEF Dist
<1>4. InOrder(tx_frm_buffer, TXDESCS, tdh, Dist(tdh, tcq_tail, TXDESCS), "leave")
  <2>1. \A k \in 0 .. Dist(tdh, tcq_tail, TXDESCS) - 1 :
          tx_frm_buffer[Forward(tdh, k, TXDESCS)] = Forward(number["leave"], k, 2 * TXDESCS)
    BY <1>1 DEF RingOK
  <2> QED BY <2>1, Numbers DEF InOrder, Forward
<1>5. InOrder(rx_frm_buffer, RXDESCS, from, Dist(from, rdh, RXDESCS), "receive")
  <2>1. \A k \in 0 .. Dist(from, rdh, RXDESCS) - 1 :
          rx_frm_buffer[Forward(from, k, RXDESCS)] = Forward(number["receive"], k, 2 * RXDESCS)
    BY <1>1, <1>2 DEF RingOK
  <2> QED BY <2>1, Numbers DEF InOrder, Forward
<1>6. /\ Dist(tdh, tcq_tail, TXDESCS) = Dist(number["leave"], number["queue"], 2 * TXDESCS)
      /\ Dist(from, rdh, RXDESCS) = Dist(number["receive"], number["arrive"], 2 * RXDESCS)
  BY <1>1, <1>2 DEF RingOK
<1> QED BY <1>2, <1>3, <1>4, <1>5, <1>6 DEF RingsSound

\* However the card moves between two steps of a system call, and whoever is woken or
\* killed, the transmit ring of e1000.c holds the frames that were queued and not sent
\* and the receive ring those that arrived and were not received, in order, with none
\* lost, doubled or overwritten.
THEOREM RingsKeepFrames == NicSpec => []RingsSound
<1>1. NicInit => NicInv
  BY InitSound
<1>2. NicInv /\ [NicNext]_nicvars => NicInv'
  BY NicStep
<1>3. NicInv => RingsSound
  BY NicInvIsSound
<1> QED BY <1>1, <1>2, <1>3, PTL DEF NicSpec
=============================================================================
