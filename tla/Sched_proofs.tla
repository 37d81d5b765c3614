---------------------------- MODULE Sched_proofs ----------------------------
(* Proofs about Sched: for any numbers of CPUs, processes, threads and        *)
(* resources no handler panics and no PCB is lost or linked twice, sleepers   *)
(* that are due are woken, cpu_mask is respected, and Sched implements Proc.  *)
(*                                                                            *)
(* The rings come first, then walks along them: x is "ahead" of a walk when   *)
(* the walk meets it before it is back at cur, which unlinking others, linking *)
(* woken PCBs behind cur and a new shell at the tail do not change.  Then the *)
(* loops, and what they make of a linked state; then Proc's table of it, and  *)
(* each handler as a step of Proc.                                            *)
EXTENDS Sched, FiniteSetTheorems, SequenceTheorems, WellFoundedInduction, TLAPS

Inj(r) == \A i, j \in 1 .. Len(r) : r[i] = r[j] => i = j
Ring == {r \in Seq(Thread) : Inj(r)}

\* Steps from x to cur along ring r.
Left(r, cur, x) ==
  LET i == IndexOf(r, x)  k == IndexOf(r, cur)
  IN  IF i <= k THEN k - i ELSE (Len(r) - i) + k
\* Proc, with what is proved of it.
PP == INSTANCE Proc_proofs WITH
        pcb <- [t \in Thread |-> [status |-> status[t], phead |-> PheadOf(t),
                                  mask |-> mask[t]]]

\* The states that handlers pass on.
SchedState ==
  [st : [Thread -> Status], mk : [Thread -> SUBSET CPU], q : [Rings -> Ring],
   cur : [CPU -> Thread], gl : (NCPU .. PidMax) \cup {NoPid}, panic : BOOLEAN]

\* The queue t is in, and the table that Proc has for state s.
Home(s, t) == IF s.st[t] = "FREE" THEN NoQ ELSE CHOOSE q \in Rings : t \in ToSet(s.q[q])
Tab(s) ==
  [t \in Thread |-> [status |-> s.st[t], phead |-> Home(s, t), mask |-> s.mk[t]]]

\* Every PCB is in one ring, one that fits its status, and CPU c runs one that is in
\* ready_queue.  This holds also in the middle of a handler of c.
Linked(s, c) ==
  /\ s \in SchedState /\ ~s.panic /\ c \in CPU
  /\ \A t \in Thread : /\ Home(s, t) \in Queue
                       /\ \A q \in Rings : t \in ToSet(s.q[q]) <=> Home(s, t) = q
                       /\ s.st[t] = "FREE" <=> Home(s, t) = NoQ
                       /\ s.st[t] = "SLEEPING" <=> Home(s, t) \notin {NoQ, ReadyQ}
  /\ s.st[s.cur[c]] \notin {"FREE", "SLEEPING"}

\* The threads that are woken when those in R are, and those that wait for one in F.
Up(s, R, F) == {t \in Thread : t \in R \/ \E k \in F : Home(s, t) = WaitQ(k)}

\* What a handler has made of s: the threads R were woken, F were freed (and those that
\* waited for them were woken), E were told to exit, A were created.
Did(s, n, R, F, E, A) ==
  /\ n.cur = s.cur
  /\ R \subseteq {t \in Thread : s.st[t] = "SLEEPING"} /\ F \subseteq Thread
  /\ E \subseteq {t \in Thread : s.st[t] \in OnCpu} /\ A \subseteq Thread
  /\ \A t \in Thread :
       /\ n.st[t] = IF t \in A THEN "READY" ELSE IF t \in F THEN "FREE"
                    ELSE IF t \in E THEN "EXITING" ELSE IF t \in Up(s, R, F) THEN "READY"
                    ELSE s.st[t]
       /\ Home(n, t) = IF t \in A THEN ReadyQ ELSE IF t \in F THEN NoQ
                       ELSE IF t \in Up(s, R, F) THEN ReadyQ ELSE Home(s, t)
       /\ n.mk[t] = IF t \in A THEN CPU ELSE IF t \in F THEN {} ELSE s.mk[t]
-----------------------------------------------------------------------------
(* The rings.                                                                *)

\* The two parts of a sequence, and what follows from joining two.
LEMMA PartsAre ==
  ASSUME NEW S, NEW r \in Seq(S), NEW k \in 0 .. Len(r)
  PROVE  /\ SubSeq(r, 1, k) \in Seq(S) /\ Len(SubSeq(r, 1, k)) = k
         /\ \A i \in 1 .. k : SubSeq(r, 1, k)[i] = r[i]
         /\ SubSeq(r, k + 1, Len(r)) \in Seq(S) /\ Len(SubSeq(r, k + 1, Len(r))) = Len(r) - k
         /\ \A i \in 1 .. Len(r) - k : SubSeq(r, k + 1, Len(r))[i] = r[k + i]
<1> DEFINE n == Len(r)
<1>1. n \in Nat /\ k \in 0 .. n
  OBVIOUS
<1>2. \A i \in 1 .. k : r[i] \in S
  OBVIOUS
<1>3. \A i \in k + 1 .. n : r[i] \in S
  OBVIOUS
<1>4. /\ SubSeq(r, 1, k) \in Seq(S) /\ Len(SubSeq(r, 1, k)) = k
      /\ \A i \in 1 .. k : SubSeq(r, 1, k)[i] = r[i]
  <2>1. Len(SubSeq(r, 1, k)) = IF 1 <= k THEN k - 1 + 1 ELSE 0
    BY <1>1, <1>2, SubSeqProperties
  <2>2. \A i \in 1 .. k - 1 + 1 : SubSeq(r, 1, k)[i] = r[1 + i - 1]
    BY <1>1, <1>2, SubSeqProperties
  <2> QED BY <1>1, <1>2, <2>1, <2>2, SubSeqProperties
<1>5. /\ SubSeq(r, k + 1, n) \in Seq(S) /\ Len(SubSeq(r, k + 1, n)) = n - k
      /\ \A i \in 1 .. n - k : SubSeq(r, k + 1, n)[i] = r[k + i]
  <2>1. k + 1 \in 1 .. n + 1 /\ \A i \in k + 1 .. n : i \in 1 .. n
    BY <1>1
  <2>2. SubSeq(r, k + 1, n) \in Seq(S)
    BY <1>1, <1>3, <2>1, SubSeqProperties
  <2>3. Len(SubSeq(r, k + 1, n)) = IF k + 1 <= n THEN n - (k + 1) + 1 ELSE 0
    BY <1>1, <1>3, <2>1, SubSeqProperties
  <2>4. \A i \in 1 .. n - (k + 1) + 1 : SubSeq(r, k + 1, n)[i] = r[(k + 1) + i - 1]
    BY <1>1, <1>3, <2>1, SubSeqProperties
  <2>5. \A i \in 1 .. n - k : i \in 1 .. n - (k + 1) + 1 /\ (k + 1) + i - 1 = k + i
    BY <1>1
  <2> QED BY <1>1, <2>2, <2>3, <2>4, <2>5
<1> QED BY <1>4, <1>5

\* ... and when the two are joined
LEMMA JoinIs ==
  ASSUME NEW S, NEW a \in Seq(S), NEW b \in Seq(S)
  PROVE  /\ a \o b \in Seq(S) /\ Len(a \o b) = Len(a) + Len(b)
         /\ \A i \in 1 .. Len(a) + Len(b) : (a \o b)[i] = IF i <= Len(a) THEN a[i] ELSE b[i - Len(a)]
BY ConcatProperties

\* What a ring is as a sequence,
LEMMA RingIs ==
  ASSUME NEW r \in Ring
  PROVE  r \in Seq(Thread) /\ Len(r) \in Nat /\ DOMAIN r = 1 .. Len(r) /\ Inj(r)
         /\ \A i \in 1 .. Len(r) : r[i] \in Thread
BY DEF Ring

\* ... and as a set
LEMMA MembersAre ==
  ASSUME NEW r \in Ring
  PROVE  /\ ToSet(r) \subseteq Thread
         /\ \A i \in 1 .. Len(r) : r[i] \in ToSet(r)
         /\ \A t \in ToSet(r) : \E i \in 1 .. Len(r) : r[i] = t
<1>1. /\ r \in Seq(Thread) /\ DOMAIN r = 1 .. Len(r) /\ \A i \in 1 .. Len(r) : r[i] \in Thread
  BY RingIs
<1> QED BY <1>1 DEF ToSet

\* IndexOf() finds the place of a PCB
LEMMA IndexIs ==
  ASSUME NEW r \in Ring, NEW i \in 1 .. Len(r)
  PROVE  IndexOf(r, r[i]) = i
<1>1. /\ DOMAIN r = 1 .. Len(r) /\ \A k, j \in 1 .. Len(r) : r[k] = r[j] => k = j
  BY RingIs DEF Inj
<1> QED BY <1>1 DEF IndexOf

\* ... if it is in the ring.
LEMMA IndexIn ==
  ASSUME NEW r \in Ring, NEW t \in ToSet(r)
  PROVE  IndexOf(r, t) \in 1 .. Len(r) /\ r[IndexOf(r, t)] = t
<1>1. PICK i \in 1 .. Len(r) : r[i] = t
  BY MembersAre
<1> QED BY <1>1, IndexIs

\* A ring from what it is at each place.
LEMMA RingFrom ==
  ASSUME NEW d, NEW n \in Nat, d \in Seq(Thread), Len(d) = n,
         \A i, j \in 1 .. n : d[i] = d[j] => i = j
  PROVE  d \in Ring
BY DEF Ring, Inj

\* lpcb_del_node() of a PCB that is in the ring
LEMMA DelIs ==
  ASSUME NEW r \in Ring, NEW t \in ToSet(r)
  PROVE  LET d == lpcb_del_node(r, t)  k == IndexOf(r, t) IN
         /\ d \in Ring /\ Len(d) = Len(r) - 1
         /\ \A i \in 1 .. Len(d) : d[i] = IF i < k THEN r[i] ELSE r[i + 1]
         /\ ToSet(d) = ToSet(r) \ {t}
<1> DEFINE d == lpcb_del_node(r, t)
           k == IndexOf(r, t)
           n == Len(r)
<1>1. k \in 1 .. n /\ r[k] = t /\ n \in Nat /\ r \in Seq(Thread) /\ DOMAIN r = 1 .. n
  BY IndexIn, RingIs
<1> DEFINE a == SubSeq(r, 1, k - 1)
           b == SubSeq(r, k + 1, n)
<1>2. d = a \o b
  BY <1>1 DEF lpcb_del_node, RemoveAt, IndexOf
<1> HIDE DEF d, k
<1>3. /\ d \in Seq(Thread) /\ Len(d) = n - 1
      /\ \A i \in 1 .. n - 1 : d[i] = IF i < k THEN r[i] ELSE r[i + 1]
  <2>0. k - 1 \in 0 .. Len(r) /\ k \in 0 .. Len(r)
    BY <1>1
  <2>1. a \in Seq(Thread) /\ Len(a) = k - 1 /\ \A i \in 1 .. k - 1 : a[i] = r[i]
    BY <1>1, <2>0, PartsAre
  <2>2. b \in Seq(Thread) /\ Len(b) = n - k /\ \A i \in 1 .. n - k : b[i] = r[k + i]
    BY <1>1, <2>0, PartsAre
  <2> HIDE DEF a, b, n
  <2>3. /\ d \in Seq(Thread) /\ Len(d) = n - 1
        /\ \A i \in 1 .. n - 1 : d[i] = IF i <= k - 1 THEN a[i] ELSE b[i - (k - 1)]
    BY <1>1, <1>2, <2>1, <2>2, JoinIs
  <2>4. ASSUME NEW i \in 1 .. n - 1 PROVE d[i] = IF i < k THEN r[i] ELSE r[i + 1]
    <3>1. CASE i < k
      BY <1>1, <2>1, <2>3, <3>1
    <3>2. CASE i >= k
      <4>1. i - (k - 1) \in 1 .. n - k /\ k + (i - (k - 1)) = i + 1
        BY <1>1, <3>2
      <4> QED BY <1>1, <2>2, <2>3, <3>2, <4>1
    <3> QED BY <1>1, <3>1, <3>2
  <2> QED BY <2>3, <2>4
<1> HIDE DEF n
<1>4. \A i, j \in 1 .. n : r[i] = r[j] => i = j
  BY RingIs DEF Inj, n
<1>5. \A i, j \in 1 .. n - 1 : d[i] = d[j] => i = j
  <2> DEFINE o(i) == IF i < k THEN i ELSE i + 1
  <2>1. \A i \in 1 .. n - 1 : o(i) \in 1 .. n /\ d[i] = r[o(i)]
    BY <1>1, <1>3
  <2>2. \A i, j \in 1 .. n - 1 : o(i) = o(j) => i = j
    BY <1>1
  <2> HIDE DEF o
  <2> QED BY <1>4, <2>1, <2>2
<1>6. d \in Ring
  BY <1>1, <1>3, <1>5, RingFrom
<1>7. ToSet(d) = ToSet(r) \ {t}
  <2>1. ASSUME NEW u \in ToSet(d) PROVE u \in ToSet(r) /\ u # t
    <3>1. PICK i \in 1 .. n - 1 : d[i] = u
      BY <1>3, <1>6, <2>1, MembersAre
    <3>2. \A j \in 1 .. n : r[j] \in ToSet(r)
      BY MembersAre DEF n
    <3> QED BY <1>1, <1>3, <1>4, <3>1, <3>2
  <2>2. ASSUME NEW u \in ToSet(r), u # t PROVE u \in ToSet(d)
    <3>1. PICK i \in 1 .. n : r[i] = u
      BY MembersAre DEF n
    <3>2. \A j \in 1 .. n - 1 : d[j] \in ToSet(d)
      BY <1>3, <1>6, MembersAre
    <3>3. CASE i < k
      BY <1>1, <1>3, <3>1, <3>2, <3>3
    <3>4. CASE i > k
      <4>1. i - 1 \in 1 .. n - 1 /\ d[i - 1] = r[i]
        BY <1>1, <1>3, <3>4
      <4> QED BY <3>1, <3>2, <4>1
    <3> QED BY <1>1, <2>2, <3>1, <3>3, <3>4
  <2> QED BY <2>1, <2>2
<1> QED BY <1>3, <1>6, <1>7 DEF n, d, k

\* ... and of one that is not
LEMMA DelNot ==
  ASSUME NEW r \in Ring, NEW t, t \notin ToSet(r)
  PROVE  lpcb_del_node(r, t) = r
<1>1. ~ \E i \in DOMAIN r : r[i] = t
  BY MembersAre, RingIs
<1> QED BY <1>1 DEF lpcb_del_node

\* lpcb_del_node(), as a set
LEMMA DelSet ==
  ASSUME NEW r \in Ring, NEW t
  PROVE  lpcb_del_node(r, t) \in Ring /\ ToSet(lpcb_del_node(r, t)) = ToSet(r) \ {t}
BY DelIs, DelNot

\* lpcb_insert_node() of a PCB after one in the ring
LEMMA InsIs ==
  ASSUME NEW r \in Ring, NEW t \in Thread, t \notin ToSet(r), NEW u \in ToSet(r)
  PROVE  LET d == InsertAfter(r, t, u)  k == IndexOf(r, u) IN
         /\ d \in Ring /\ Len(d) = Len(r) + 1
         /\ \A i \in 1 .. Len(d) : d[i] = IF i <= k THEN r[i] ELSE IF i = k + 1 THEN t ELSE r[i - 1]
         /\ ToSet(d) = ToSet(r) \cup {t}
<1> DEFINE d == InsertAfter(r, t, u)
           k == IndexOf(r, u)
           n == Len(r)
<1>1. k \in 1 .. n /\ n \in Nat /\ r \in Seq(Thread) /\ DOMAIN r = 1 .. n
  BY IndexIn, RingIs
<1> DEFINE a == SubSeq(r, 1, k)
           b == SubSeq(r, k + 1, n)
<1>2. d = (a \o <<t>>) \o b
  <2>1. (k + 1) - 1 = k
    BY <1>1
  <2> HIDE DEF k
  <2> QED BY <2>1 DEF InsertAfter, InsertAt, k
<1> HIDE DEF d, k
<1>3. /\ d \in Seq(Thread) /\ Len(d) = n + 1
      /\ \A i \in 1 .. n + 1 : d[i] = IF i <= k THEN r[i] ELSE IF i = k + 1 THEN t ELSE r[i - 1]
  <2>0. k \in 0 .. Len(r)
    BY <1>1
  <2>1. /\ a \in Seq(Thread) /\ Len(a) = k /\ \A i \in 1 .. k : a[i] = r[i]
        /\ b \in Seq(Thread) /\ Len(b) = n - k /\ \A i \in 1 .. n - k : b[i] = r[k + i]
    BY <1>1, <2>0, PartsAre
  <2> HIDE DEF a, b, n
  <2> DEFINE e == a \o <<t>>
  <2>2. /\ e \in Seq(Thread) /\ Len(e) = k + 1
        /\ \A i \in 1 .. k + 1 : e[i] = IF i <= k THEN r[i] ELSE t
    <3>1. <<t>> \in Seq(Thread) /\ Len(<<t>>) = 1 /\ <<t>>[1] = t
      OBVIOUS
    <3>2. /\ e \in Seq(Thread) /\ Len(e) = k + 1
          /\ \A i \in 1 .. k + 1 : e[i] = IF i <= k THEN a[i] ELSE <<t>>[i - k]
      BY <2>1, <3>1, JoinIs
    <3>3. \A i \in 1 .. k + 1 : i <= k \/ i - k = 1
      BY <1>1
    <3> HIDE DEF e
    <3> QED BY <1>1, <2>1, <3>1, <3>2, <3>3
  <2> HIDE DEF e
  <2>3. /\ d \in Seq(Thread) /\ Len(d) = n + 1
        /\ \A i \in 1 .. n + 1 : d[i] = IF i <= k + 1 THEN e[i] ELSE b[i - (k + 1)]
    <3>1. d = e \o b
      BY <1>2 DEF e
    <3>2. (k + 1) + (n - k) = n + 1
      BY <1>1
    <3> QED BY <1>1, <2>1, <2>2, <3>1, <3>2, JoinIs
  <2>4. ASSUME NEW i \in 1 .. n + 1
        PROVE  d[i] = IF i <= k THEN r[i] ELSE IF i = k + 1 THEN t ELSE r[i - 1]
    <3>1. CASE i <= k + 1
      BY <1>1, <2>2, <2>3, <3>1
    <3>2. CASE i > k + 1
      <4>1. i - (k + 1) \in 1 .. n - k /\ k + (i - (k + 1)) = i - 1
        BY <1>1, <3>2
      <4> QED BY <1>1, <2>1, <2>3, <3>2, <4>1
    <3> QED BY <1>1, <3>1, <3>2
  <2> QED BY <2>3, <2>4
<1> HIDE DEF n
<1>4. \A i, j \in 1 .. n : r[i] = r[j] => i = j
  BY RingIs DEF Inj, n
<1>8. \A i \in 1 .. n : r[i] \in ToSet(r) /\ r[i] # t
  BY MembersAre DEF n
<1>5. \A i, j \in 1 .. n + 1 : d[i] = d[j] => i = j
  BY <1>1, <1>3, <1>4, <1>8
<1>6. d \in Ring
  BY <1>1, <1>3, <1>5, RingFrom
<1>7. ToSet(d) = ToSet(r) \cup {t}
  <2>1. ASSUME NEW x \in ToSet(d) PROVE x \in ToSet(r) \cup {t}
    <3>1. PICK i \in 1 .. n + 1 : d[i] = x
      BY <1>3, <1>6, <2>1, MembersAre
    <3> QED BY <1>1, <1>3, <1>8, <3>1
  <2>2. ASSUME NEW x \in ToSet(r) \cup {t} PROVE x \in ToSet(d)
    <3>2. \A j \in 1 .. n + 1 : d[j] \in ToSet(d)
      BY <1>3, <1>6, MembersAre
    <3>3. CASE x = t
      <4>1. k + 1 \in 1 .. n + 1 /\ d[k + 1] = t
        BY <1>1, <1>3
      <4> QED BY <3>2, <3>3, <4>1
    <3>4. CASE x \in ToSet(r)
      <4>1. PICK i \in 1 .. n : r[i] = x
        BY <3>4, MembersAre DEF n
      <4>2. CASE i <= k
        BY <1>1, <1>3, <3>2, <4>1, <4>2
      <4>3. CASE i > k
        <5>1. i + 1 \in 1 .. n + 1 /\ d[i + 1] = r[(i + 1) - 1] /\ (i + 1) - 1 = i
          BY <1>1, <1>3, <4>3
        <5> QED BY <3>2, <4>1, <5>1
      <4> QED BY <1>1, <4>2, <4>3
    <3> QED BY <2>2, <3>3, <3>4
  <2> QED BY <2>1, <2>2
<1> QED BY <1>3, <1>6, <1>7 DEF n, d, k

\* A PCB that is linked at the tail
LEMMA AppIs ==
  ASSUME NEW r \in Ring, NEW t \in Thread, t \notin ToSet(r)
  PROVE  LET d == Append(r, t) IN
         /\ d \in Ring /\ Len(d) = Len(r) + 1
         /\ \A i \in 1 .. Len(r) : d[i] = r[i]
         /\ d[Len(r) + 1] = t
         /\ ToSet(d) = ToSet(r) \cup {t}
<1> DEFINE d == Append(r, t)
           n == Len(r)
<1>1. n \in Nat /\ r \in Seq(Thread)
  BY RingIs
<1>2. d \in Seq(Thread) /\ Len(d) = n + 1 /\ (\A i \in 1 .. n : d[i] = r[i]) /\ d[n + 1] = t
  BY <1>1
<1> HIDE DEF d, n
<1>4. \A i, j \in 1 .. n : r[i] = r[j] => i = j
  BY RingIs DEF Inj, n
<1>8. \A i \in 1 .. n : r[i] \in ToSet(r) /\ r[i] # t
  BY MembersAre DEF n
<1>3. \A i \in 1 .. n + 1 : i \in 1 .. n \/ i = n + 1
  BY <1>1
<1>5. \A i, j \in 1 .. n + 1 : d[i] = d[j] => i = j
  BY <1>1, <1>2, <1>3, <1>4, <1>8
<1>6. d \in Ring
  BY <1>1, <1>2, <1>5, RingFrom
<1>7. ToSet(d) = ToSet(r) \cup {t}
  <2>1. \A x \in ToSet(d) : \E i \in 1 .. n + 1 : d[i] = x
    BY <1>2, <1>6, MembersAre
  <2>2. \A i \in 1 .. n + 1 : d[i] \in ToSet(d)
    BY <1>2, <1>6, MembersAre
  <2>3. \A x \in ToSet(r) : \E i \in 1 .. n : r[i] = x
    BY MembersAre DEF n
  <2>4. n + 1 \in 1 .. n + 1 /\ \A i \in 1 .. n : i \in 1 .. n + 1
    BY <1>1
  <2> QED BY <1>2, <1>3, <1>8, <2>1, <2>2, <2>3, <2>4
<1> QED BY <1>2, <1>6, <1>7 DEF n, d

-----------------------------------------------------------------------------
(* Walking along a ring.                                                     *)

\* Left is a distance: no two PCBs have the same.
LEMMA LeftIs ==
  ASSUME NEW r \in Ring, NEW cur \in ToSet(r), NEW x \in ToSet(r)
  PROVE  /\ Left(r, cur, x) \in 0 .. Len(r) - 1
         /\ Left(r, cur, x) = 0 <=> x = cur
         /\ \A y \in ToSet(r) : Left(r, cur, y) = Left(r, cur, x) => y = x
<1> DEFINE n == Len(r)
           i == IndexOf(r, x)
           k == IndexOf(r, cur)
<1>1. n \in Nat /\ i \in 1 .. n /\ k \in 1 .. n /\ r[i] = x /\ r[k] = cur
  BY IndexIn, RingIs
<1>2. Left(r, cur, x) = IF i <= k THEN k - i ELSE (n - i) + k
  BY DEF Left
<1>3. ASSUME NEW y \in ToSet(r), Left(r, cur, y) = Left(r, cur, x) PROVE y = x
  <2> DEFINE j == IndexOf(r, y)
  <2>1. j \in 1 .. n /\ r[j] = y
    BY IndexIn
  <2>2. Left(r, cur, y) = IF j <= k THEN k - j ELSE (n - j) + k
    BY DEF Left
  <2> HIDE DEF n, i, j, k
  <2>3. i = j
    BY <1>1, <1>2, <1>3, <2>1, <2>2
  <2> QED BY <1>1, <2>1, <2>3
<1> HIDE DEF n, i, k
<1>4. Left(r, cur, x) \in 0 .. n - 1
  BY <1>1, <1>2
<1>5. Left(r, cur, x) = 0 <=> i = k
  BY <1>1, <1>2
<1>6. i = k <=> x = cur
  BY <1>1 DEF i, k
<1> QED BY <1>3, <1>4, <1>5, <1>6 DEF n

\* t->next is one step nearer; from cur itself, the whole ring is ahead.
LEMMA NextIs ==
  ASSUME NEW r \in Ring, NEW cur \in ToSet(r), NEW p \in ToSet(r)
  PROVE  /\ NextOf(r, p) \in ToSet(r)
         /\ p # cur => Left(r, cur, NextOf(r, p)) = Left(r, cur, p) - 1
         /\ p = cur => Left(r, cur, NextOf(r, p)) = Len(r) - 1
<1> DEFINE n == Len(r)
           i == IndexOf(r, p)
           k == IndexOf(r, cur)
           j == IF i = n THEN 1 ELSE i + 1
<1>1. n \in Nat /\ i \in 1 .. n /\ k \in 1 .. n /\ r[i] = p /\ r[k] = cur /\ j \in 1 .. n
  BY IndexIn, RingIs
<1>2. Left(r, cur, p) = IF i <= k THEN k - i ELSE (n - i) + k
  BY DEF Left
<1>3. NextOf(r, p) = r[j]
  BY DEF NextOf
<1>4. NextOf(r, p) \in ToSet(r) /\ IndexOf(r, NextOf(r, p)) = j
  BY <1>1, <1>3, IndexIs, MembersAre
<1>5. Left(r, cur, NextOf(r, p)) = IF j <= k THEN k - j ELSE (n - j) + k
  BY <1>4 DEF Left
<1>6. j = IF i = n THEN 1 ELSE i + 1
  OBVIOUS
<1>7. p = cur <=> i = k
  BY <1>1
<1> HIDE DEF n, i, j, k
<1>8. i # k => Left(r, cur, NextOf(r, p)) = Left(r, cur, p) - 1
  BY <1>1, <1>2, <1>5, <1>6
<1>9. i = k => Left(r, cur, NextOf(r, p)) = n - 1
  BY <1>1, <1>2, <1>5, <1>6
<1> QED BY <1>4, <1>7, <1>8, <1>9 DEF n

\* From p on the walk to cur passes x, and takes m steps at most.
Ahead(r, cur, x, p, m) ==
  /\ cur \in ToSet(r) /\ x \in ToSet(r) /\ p \in ToSet(r)
  /\ Left(r, cur, x) <= Left(r, cur, p) /\ Left(r, cur, p) <= m

\* All of the ring is ahead of a walk that begins at cur->next,
LEMMA AheadFirst ==
  ASSUME NEW r \in Ring, NEW cur \in ToSet(r), NEW x \in ToSet(r)
  PROVE  Ahead(r, cur, x, NextOf(r, cur), Len(r) - 1)
<1>1. NextOf(r, cur) \in ToSet(r) /\ Left(r, cur, NextOf(r, cur)) = Len(r) - 1
  BY NextIs
<1>2. Left(r, cur, x) \in 0 .. Len(r) - 1 /\ Len(r) \in Nat
  BY LeftIs, RingIs
<1> QED BY <1>1, <1>2 DEF Ahead

\* ... and a turn passes none but the PCB it is at.
LEMMA AheadNext ==
  ASSUME NEW r \in Ring, NEW cur, NEW x, NEW p, NEW m \in Nat, Ahead(r, cur, x, p, m),
         p # x, p # cur
  PROVE  m # 0 /\ Ahead(r, cur, x, NextOf(r, p), m - 1)
<1> DEFINE a == Left(r, cur, x)
           b == Left(r, cur, p)
           n == Len(r)
<1>1. cur \in ToSet(r) /\ x \in ToSet(r) /\ p \in ToSet(r) /\ a <= b /\ b <= m
  BY DEF Ahead
<1>2. n \in Nat /\ a \in 0 .. n - 1 /\ b \in 0 .. n - 1 /\ a # b /\ b # 0
  BY <1>1, LeftIs, RingIs
<1>3. NextOf(r, p) \in ToSet(r) /\ Left(r, cur, NextOf(r, p)) = b - 1
  BY <1>1, NextIs
<1> HIDE DEF a, b, n
<1>4. a <= b - 1 /\ b - 1 <= m - 1 /\ m # 0
  BY <1>1, <1>2
<1> QED BY <1>1, <1>3, <1>4 DEF Ahead, a

\* Where a PCB is after a removal.
LEMMA DelIndex ==
  ASSUME NEW r \in Ring, NEW t \in ToSet(r), NEW x \in ToSet(r), x # t
  PROVE  IndexOf(lpcb_del_node(r, t), x) =
           IF IndexOf(r, x) < IndexOf(r, t) THEN IndexOf(r, x) ELSE IndexOf(r, x) - 1
<1> DEFINE d == lpcb_del_node(r, t)
           n == Len(r)
           i == IndexOf(r, x)
           k == IndexOf(r, t)
           j == IF i < k THEN i ELSE i - 1
<1>1. /\ n \in Nat /\ i \in 1 .. n /\ k \in 1 .. n /\ r[i] = x /\ r[k] = t /\ i # k
  BY IndexIn, RingIs
<1>2. /\ d \in Ring /\ Len(d) = n - 1
      /\ \A l \in 1 .. Len(d) : d[l] = IF l < k THEN r[l] ELSE r[l + 1]
  BY DelIs
<1>3. j = IF i < k THEN i ELSE i - 1
  OBVIOUS
<1> HIDE DEF d, n, i, j, k
<1>4. j \in 1 .. n - 1 /\ IF j < k THEN j = i ELSE j + 1 = i
  BY <1>1, <1>3
<1>5. j \in 1 .. Len(d) /\ d[j] = x
  BY <1>1, <1>2, <1>4
<1>6. IndexOf(d, x) = j
  BY <1>2, <1>5, IndexIs
<1> QED BY <1>3, <1>6 DEF d, i, k

\* ... after an insertion,
LEMMA InsIndex ==
  ASSUME NEW r \in Ring, NEW t \in Thread, t \notin ToSet(r), NEW u \in ToSet(r), NEW x \in ToSet(r)
  PROVE  IndexOf(InsertAfter(r, t, u), x) =
           IF IndexOf(r, x) <= IndexOf(r, u) THEN IndexOf(r, x) ELSE IndexOf(r, x) + 1
<1> DEFINE d == InsertAfter(r, t, u)
           n == Len(r)
           i == IndexOf(r, x)
           k == IndexOf(r, u)
           j == IF i <= k THEN i ELSE i + 1
<1>1. /\ n \in Nat /\ i \in 1 .. n /\ k \in 1 .. n /\ r[i] = x
  BY IndexIn, RingIs
<1>2. /\ d \in Ring /\ Len(d) = n + 1
      /\ \A l \in 1 .. Len(d) : d[l] = IF l <= k THEN r[l] ELSE IF l = k + 1 THEN t ELSE r[l - 1]
  BY InsIs
<1>3. j = IF i <= k THEN i ELSE i + 1
  OBVIOUS
<1> HIDE DEF d, n, i, j, k
<1>4. j \in 1 .. n + 1 /\ IF j <= k THEN j = i ELSE j # k + 1 /\ j - 1 = i
  BY <1>1, <1>3
<1>5. j \in 1 .. Len(d) /\ d[j] = x
  BY <1>1, <1>2, <1>4
<1>6. IndexOf(d, x) = j
  BY <1>2, <1>5, IndexIs
<1> QED BY <1>3, <1>6 DEF d, i, k

\* ... and after a PCB was linked at the tail.
LEMMA AppIndex ==
  ASSUME NEW r \in Ring, NEW t \in Thread, t \notin ToSet(r), NEW x \in ToSet(r)
  PROVE  IndexOf(Append(r, t), x) = IndexOf(r, x)
<1> DEFINE d == Append(r, t)
           i == IndexOf(r, x)
<1>1. /\ Len(r) \in Nat /\ i \in 1 .. Len(r) /\ r[i] = x
  BY IndexIn, RingIs
<1>2. /\ d \in Ring /\ Len(d) = Len(r) + 1 /\ \A l \in 1 .. Len(r) : d[l] = r[l]
  BY AppIs
<1> HIDE DEF d, i
<1>3. i \in 1 .. Len(d) /\ d[i] = x
  BY <1>1, <1>2
<1>4. IndexOf(d, x) = i
  BY <1>2, <1>3, IndexIs
<1> QED BY <1>4 DEF d, i

\* PCBs that leave the ring, come in behind cur, or at the tail, while one walks.
LEMMA AheadDel ==
  ASSUME NEW r \in Ring, NEW cur, NEW x, NEW p, NEW m \in Nat, Ahead(r, cur, x, p, m),
         NEW t, t # cur, t # x, t # p
  PROVE  Ahead(lpcb_del_node(r, t), cur, x, p, m)
<1>1. CASE t \notin ToSet(r)
  BY <1>1, DelNot
<1>2. CASE t \in ToSet(r)
  <2> DEFINE d == lpcb_del_node(r, t)
             n == Len(r)
             it == IndexOf(r, t)
             ic == IndexOf(r, cur)
             ix == IndexOf(r, x)
             ip == IndexOf(r, p)
             jc == IndexOf(d, cur)
             jx == IndexOf(d, x)
             jp == IndexOf(d, p)
  <2>1. cur \in ToSet(r) /\ x \in ToSet(r) /\ p \in ToSet(r)
    BY DEF Ahead
  <2>2. cur \in ToSet(d) /\ x \in ToSet(d) /\ p \in ToSet(d) /\ Len(d) = n - 1
    BY <1>2, <2>1, DelIs
  <2>3. /\ n \in Nat /\ it \in 1 .. n /\ ic \in 1 .. n /\ ix \in 1 .. n /\ ip \in 1 .. n
        /\ r[it] = t /\ r[ic] = cur /\ r[ix] = x /\ r[ip] = p
    BY <1>2, <2>1, IndexIn, RingIs
  <2>4. it # ic /\ it # ix /\ it # ip
    BY <2>3
  <2>5. /\ jc = IF ic < it THEN ic ELSE ic - 1
        /\ jx = IF ix < it THEN ix ELSE ix - 1
        /\ jp = IF ip < it THEN ip ELSE ip - 1
    BY <1>2, <2>1, DelIndex
  <2>6. /\ Left(r, cur, x) = IF ix <= ic THEN ic - ix ELSE (n - ix) + ic
        /\ Left(r, cur, p) = IF ip <= ic THEN ic - ip ELSE (n - ip) + ic
        /\ Left(d, cur, x) = IF jx <= jc THEN jc - jx ELSE (Len(d) - jx) + jc
        /\ Left(d, cur, p) = IF jp <= jc THEN jc - jp ELSE (Len(d) - jp) + jc
    BY DEF Left
  <2>7. Left(r, cur, x) <= Left(r, cur, p) /\ Left(r, cur, p) <= m
    BY DEF Ahead
  <2> HIDE DEF d, n, it, ic, ix, ip, jc, jx, jp
  <2>8. Left(d, cur, x) <= Left(d, cur, p)
    BY <2>2, <2>3, <2>4, <2>5, <2>6, <2>7
  <2>9. Left(d, cur, p) <= m
    BY <2>2, <2>3, <2>4, <2>5, <2>6, <2>7
  <2> QED BY <2>2, <2>8, <2>9 DEF Ahead, d
<1> QED BY <1>1, <1>2

\* A PCB is linked behind cur: it is not ahead.
LEMMA AheadIns ==
  ASSUME NEW r \in Ring, NEW cur, NEW x, NEW p, NEW m \in Nat, Ahead(r, cur, x, p, m),
         NEW t \in Thread, t \notin ToSet(r)
  PROVE  Ahead(InsertAfter(r, t, cur), cur, x, p, m)
<1> DEFINE d == InsertAfter(r, t, cur)
           n == Len(r)
           ic == IndexOf(r, cur)
           ix == IndexOf(r, x)
           ip == IndexOf(r, p)
           jc == IndexOf(d, cur)
           jx == IndexOf(d, x)
           jp == IndexOf(d, p)
<1>1. cur \in ToSet(r) /\ x \in ToSet(r) /\ p \in ToSet(r)
  BY DEF Ahead
<1>2. cur \in ToSet(d) /\ x \in ToSet(d) /\ p \in ToSet(d) /\ Len(d) = n + 1
  BY <1>1, InsIs
<1>3. n \in Nat /\ ic \in 1 .. n /\ ix \in 1 .. n /\ ip \in 1 .. n
  BY <1>1, IndexIn, RingIs
<1>4. /\ jc = IF ic <= ic THEN ic ELSE ic + 1
      /\ jx = IF ix <= ic THEN ix ELSE ix + 1
      /\ jp = IF ip <= ic THEN ip ELSE ip + 1
  BY <1>1, InsIndex
<1>5. /\ Left(r, cur, x) = IF ix <= ic THEN ic - ix ELSE (n - ix) + ic
      /\ Left(r, cur, p) = IF ip <= ic THEN ic - ip ELSE (n - ip) + ic
      /\ Left(d, cur, x) = IF jx <= jc THEN jc - jx ELSE (Len(d) - jx) + jc
      /\ Left(d, cur, p) = IF jp <= jc THEN jc - jp ELSE (Len(d) - jp) + jc
  BY DEF Left
<1> HIDE DEF d, n, ic, ix, ip, jc, jx, jp
<1>6. Left(d, cur, x) = Left(r, cur, x) /\ Left(d, cur, p) = Left(r, cur, p)
  BY <1>2, <1>3, <1>4, <1>5
<1> QED BY <1>2, <1>6 DEF Ahead, d

\* A PCB at the tail is at most one step more.
LEMMA AheadApp ==
  ASSUME NEW r \in Ring, NEW cur, NEW x, NEW p, NEW m \in Nat, Ahead(r, cur, x, p, m),
         NEW t \in Thread, t \notin ToSet(r)
  PROVE  Ahead(Append(r, t), cur, x, p, m + 1)
<1> DEFINE d == Append(r, t)
           n == Len(r)
           ic == IndexOf(r, cur)
           ix == IndexOf(r, x)
           ip == IndexOf(r, p)
<1>1. cur \in ToSet(r) /\ x \in ToSet(r) /\ p \in ToSet(r)
  BY DEF Ahead
<1>2. cur \in ToSet(d) /\ x \in ToSet(d) /\ p \in ToSet(d) /\ Len(d) = n + 1
  BY <1>1, AppIs
<1>3. n \in Nat /\ ic \in 1 .. n /\ ix \in 1 .. n /\ ip \in 1 .. n
  BY <1>1, IndexIn, RingIs
<1>4. ic = IndexOf(d, cur) /\ ix = IndexOf(d, x) /\ ip = IndexOf(d, p)
  BY <1>1, AppIndex
<1>5. /\ Left(r, cur, x) = IF ix <= ic THEN ic - ix ELSE (n - ix) + ic
      /\ Left(r, cur, p) = IF ip <= ic THEN ic - ip ELSE (n - ip) + ic
  BY DEF Left
<1>6. /\ Left(d, cur, x) = IF ix <= ic THEN ic - ix ELSE (Len(d) - ix) + ic
      /\ Left(d, cur, p) = IF ip <= ic THEN ic - ip ELSE (Len(d) - ip) + ic
  BY <1>4 DEF Left
<1>7. Left(r, cur, x) <= Left(r, cur, p) /\ Left(r, cur, p) <= m
  BY DEF Ahead
<1> HIDE DEF d, n, ic, ix, ip
<1>8. Left(d, cur, x) <= Left(d, cur, p) /\ Left(d, cur, p) <= m + 1
  BY <1>2, <1>3, <1>5, <1>6, <1>7
<1> QED BY <1>2, <1>8 DEF Ahead, d

-----------------------------------------------------------------------------
(* The loops.                                                                *)

\* Induction on the natural numbers, over a set.
LEMMA NatSetInduction ==
  ASSUME NEW T, 0 \in T, \A k \in Nat : k \in T => k + 1 \in T
  PROVE  Nat \subseteq T
<1> SUFFICES ASSUME Nat \ T # {} PROVE FALSE
  OBVIOUS
<1>1. PICK x \in Nat \ T : \A y \in Nat \ T : <<y, x>> \notin OpToRel(<, Nat)
  BY NatLessThanWellFounded, WFMin
<1>2. x # 0 /\ x - 1 \in Nat
  OBVIOUS
<1>3. x - 1 \in Nat \ T
  BY <1>2
<1>4. <<x - 1, x>> \in OpToRel(<, Nat)
  BY <1>2 DEF OpToRel
<1> QED BY <1>1, <1>3, <1>4
\* ... and up to a bound.
LEMMA TurnInduction ==
  ASSUME NEW n \in Nat, NEW T, 0 \in T, \A k \in 1 .. n : k - 1 \in T => k \in T
  PROVE  \A k \in 0 .. n : k \in T
<1> DEFINE U == {k \in Nat : k <= n => k \in T}
<1>1. 0 \in U
  OBVIOUS
<1>2. ASSUME NEW k \in Nat, k \in U PROVE k + 1 \in U
  <2>1. k + 1 <= n => k + 1 \in 1 .. n /\ (k + 1) - 1 = k /\ k <= n
    OBVIOUS
  <2>2. k <= n => k \in T
    BY <1>2
  <2> QED BY <2>1, <2>2
<1>3. Nat \subseteq U
  <2> HIDE DEF U
  <2> QED BY <1>1, <1>2, NatSetInduction
<1> QED BY <1>3

\* The number that the folds take last from a set of numbers up to k + 1.
LEMMA GreatestTurn ==
  ASSUME NEW k \in Nat, NEW s \in SUBSET (1 .. k + 1), k + 1 \in s
  PROVE  Max(s) = k + 1 /\ s \ {k + 1} \in SUBSET (1 .. k)
<1>1. \A x \in s : x \in Int /\ k + 1 >= x
  OBVIOUS
<1>2. Max(s) \in s /\ \A y \in s : Max(s) >= y
  BY <1>1 DEF Max
<1>3. Max(s) \in Int /\ Max(s) >= k + 1 /\ k + 1 >= Max(s)
  BY <1>1, <1>2
<1>4. Max(s) = k + 1
  BY <1>3
<1>5. s \ {k + 1} \in SUBSET (1 .. k)
  OBVIOUS
<1> QED BY <1>4, <1>5

\* It is one of them.
LEMMA GreatestIn ==
  ASSUME NEW n \in Nat, NEW s \in SUBSET (1 .. n), s # {}
  PROVE  Max(s) \in s
<1> DEFINE T == {k \in Nat : \A r \in SUBSET (1 .. k) : r # {} => Max(r) \in r}
<1>1. 0 \in T
  <2>1. \A r \in SUBSET (1 .. 0) : r = {}
    OBVIOUS
  <2> QED BY <2>1
<1>2. ASSUME NEW k \in Nat, k \in T PROVE k + 1 \in T
  <2>1. ASSUME NEW r \in SUBSET (1 .. k + 1), r # {} PROVE Max(r) \in r
    <3>1. CASE k + 1 \in r
      BY <3>1, GreatestTurn
    <3>2. CASE k + 1 \notin r
      <4>1. \A x \in r : x \in 1 .. k + 1 /\ x # k + 1
        BY <3>2
      <4>2. \A x \in r : x \in 1 .. k
        BY <4>1
      <4> QED BY <1>2, <2>1, <4>2
    <3> QED BY <3>1, <3>2
  <2> QED BY <2>1
<1>3. n \in T
  BY <1>1, <1>2, NatSetInduction
<1> QED BY <1>3

\* One turn of each loop, of which e is what does not change.
OneTurn(loop, e, x, k) ==
  IF loop = "unblock" THEN MakeReady(x, e.c, e.q, e.f[k])
  ELSE IF loop = "kill" THEN KillOne(x, e.c, e.f[k])
  ELSE IF loop = "release" THEN DoUnblock(x, e.c, ResQ(e.f[k]), e.n[e.f[k]])
  ELSE IF loop = "check" THEN CheckTurn(x, e.c)
  ELSE ScanTurn(x, e.c, e.o)

\* g says what any part of the loop makes of b.
IsLoop(loop, e, b, n, g) ==
  g = [s \in SUBSET (1 .. n) |-> IF s = {} THEN b ELSE OneTurn(loop, e, g[s \ {Max(s)}], Max(s))]
\* t[k] is what k turns of the loop make of b.
Runs(loop, e, b, n, t) == t[0] = b /\ \A k \in 1 .. n : t[k] = OneTurn(loop, e, t[k - 1], k)

\* There is such a function: by induction on the turns.
LEMMA LoopExists ==
  ASSUME NEW loop, NEW e, NEW b, NEW n \in Nat
  PROVE  \E g : IsLoop(loop, e, b, n, g)
<1> DEFINE T == {k \in Nat : \E g : IsLoop(loop, e, b, k, g)}
<1>1. 0 \in T
  <2> DEFINE g == [s \in SUBSET (1 .. 0) |-> b]
  <2>1. SUBSET (1 .. 0) = {{}}
    OBVIOUS
  <2>2. IsLoop(loop, e, b, 0, g)
    BY <2>1 DEF IsLoop
  <2> QED BY <2>2
<1>2. ASSUME NEW k \in Nat, k \in T PROVE k + 1 \in T
  <2>1. PICK g : IsLoop(loop, e, b, k, g)
    BY <1>2
  <2> DEFINE h == [s \in SUBSET (1 .. k + 1) |->
                     IF k + 1 \in s THEN OneTurn(loop, e, g[s \ {k + 1}], k + 1) ELSE g[s]]
  <2>2. \A s \in SUBSET (1 .. k) : s \in SUBSET (1 .. k + 1) /\ h[s] = g[s]
    OBVIOUS
  <2>3. ASSUME NEW s \in SUBSET (1 .. k + 1)
        PROVE  h[s] = IF s = {} THEN b ELSE OneTurn(loop, e, h[s \ {Max(s)}], Max(s))
    <3>1. CASE k + 1 \in s
      BY <3>1, <2>2, GreatestTurn
    <3>2. CASE k + 1 \notin s
      <4>1. s \in SUBSET (1 .. k) /\ s \ {Max(s)} \in SUBSET (1 .. k)
        <5>1. \A x \in s : x \in 1 .. k + 1 /\ x # k + 1
          BY <3>2
        <5>2. \A x \in s : x \in 1 .. k
          BY <5>1
        <5> QED BY <5>2
      <4>2. g[s] = IF s = {} THEN b ELSE OneTurn(loop, e, g[s \ {Max(s)}], Max(s))
        BY <4>1, <2>1 DEF IsLoop
      <4> QED BY <4>1, <4>2, <2>2
    <3> QED BY <3>1, <3>2
  <2>4. IsLoop(loop, e, b, k + 1, h)
    BY <2>3 DEF IsLoop
  <2> HIDE DEF h
  <2> QED BY <2>4
<1> QED BY <1>1, <1>2, NatSetInduction

\* It counts the turns of the loop.
LEMMA LoopTurns ==
  ASSUME NEW loop, NEW e, NEW b, NEW n \in Nat, NEW g, IsLoop(loop, e, b, n, g)
  PROVE  \E t : Runs(loop, e, b, n, t) /\ g[1 .. n] = t[n]
<1> DEFINE t == [k \in 0 .. n |-> g[1 .. k]]
<1>1. t[0] = b
  <2>1. 1 .. 0 = {} /\ t[0] = g[1 .. 0]
    OBVIOUS
  <2>2. g[{}] = b
    BY DEF IsLoop
  <2> QED BY <2>1, <2>2
<1>2. ASSUME NEW k \in 1 .. n PROVE t[k] = OneTurn(loop, e, t[k - 1], k)
  <2>1. k - 1 \in Nat /\ 1 .. k \in SUBSET (1 .. (k - 1) + 1) /\ (k - 1) + 1 \in 1 .. k
    OBVIOUS
  <2>2. Max(1 .. k) = (k - 1) + 1
    BY <2>1, GreatestTurn
  <2>3. (k - 1) + 1 = k /\ (1 .. k) \ {k} = 1 .. k - 1
    OBVIOUS
  <2>4. 1 .. k # {} /\ 1 .. k \in SUBSET (1 .. n)
    <3>1. k \in 1 .. k
      OBVIOUS
    <3>2. \A i \in 1 .. k : i \in 1 .. n
      OBVIOUS
    <3> QED BY <3>1, <3>2
  <2>5. g[1 .. k] = OneTurn(loop, e, g[(1 .. k) \ {Max(1 .. k)}], Max(1 .. k))
    BY <2>4 DEF IsLoop
  <2>6. t[k] = g[1 .. k] /\ t[k - 1] = g[1 .. k - 1]
    OBVIOUS
  <2> QED BY <2>2, <2>3, <2>5, <2>6
<1>3. t[n] = g[1 .. n]
  OBVIOUS
<1> HIDE DEF t
<1>4. Runs(loop, e, b, n, t)
  BY <1>1, <1>2 DEF Runs
<1> QED BY <1>3, <1>4

\* f has n elements.
Counts(f, n) == n \in Nat /\ DOMAIN f = 1 .. n

\* The loop of do_unblock(): t[k] is the state after k turns.
Unblocks(b, c, q, f) == FoldLeft(LAMBDA x, y : MakeReady(x, c, q, y), b, f)

UnblockRun(b, c, q, f, n, t) ==
  t[0] = b /\ Unblocks(b, c, q, f) = t[n] /\ \A k \in 1 .. n : t[k] = MakeReady(t[k - 1], c, q, f[k])

\* The fold is the run of its turns,
LEMMA UnblockTurns ==
  ASSUME NEW b, NEW c, NEW q, NEW f, NEW n, Counts(f, n)
  PROVE  \E t : UnblockRun(b, c, q, f, n, t)
<1>0. n \in Nat /\ DOMAIN f = 1 .. n
  BY DEF Counts
<1> DEFINE D == 1 .. n
           e == [c |-> c, q |-> q, f |-> f]
           IsFold(g) == g = [s \in SUBSET D |->
                               IF s = {} THEN b ELSE MakeReady(g[s \ {Max(s)}], c, q, f[Max(s)])]
<1>1. ASSUME NEW g PROVE IsFold(g) <=> IsLoop("unblock", e, b, n, g)
  <2>1. \A s \in SUBSET D : OneTurn("unblock", e, g[s \ {Max(s)}], Max(s))
                              = MakeReady(g[s \ {Max(s)}], c, q, f[Max(s)])
    BY DEF OneTurn
  <2>2. [s \in SUBSET D |-> IF s = {} THEN b ELSE OneTurn("unblock", e, g[s \ {Max(s)}], Max(s))]
        = [s \in SUBSET D |-> IF s = {} THEN b
             ELSE MakeReady(g[s \ {Max(s)}], c, q, f[Max(s)])]
    BY <2>1
  <2> QED BY <2>2 DEF IsLoop
<1>2. PICK g : IsFold(g) /\ Unblocks(b, c, q, f) = g[D]
  <2>1. \E g : IsFold(g)
    <3>1. PICK g : IsLoop("unblock", e, b, n, g)
      BY <1>0, LoopExists
    <3>2. IsFold(g)
      BY <1>1, <3>1
    <3> QED BY <3>2
  <2> QED BY <1>0, <2>1 DEF Unblocks, FoldLeft, MapThenFoldSet
<1>3. IsLoop("unblock", e, b, n, g)
  BY <1>1, <1>2
<1> HIDE DEF IsFold, e
<1>4. PICK t : Runs("unblock", e, b, n, t) /\ g[1 .. n] = t[n]
  BY <1>0, <1>3, LoopTurns
<1>5. t[0] = b /\ \A k \in 1 .. n : t[k] = MakeReady(t[k - 1], c, q, f[k])
  BY <1>4 DEF Runs, OneTurn, e
<1> QED BY <1>2, <1>4, <1>5 DEF UnblockRun

\* The loop of do_kill()
KillLoops(b, c, f) == FoldLeft(LAMBDA x, y : KillOne(x, c, y), b, f)

KillRun(b, c, f, n, t) ==
  t[0] = b /\ KillLoops(b, c, f) = t[n] /\ \A k \in 1 .. n : t[k] = KillOne(t[k - 1], c, f[k])

\* ... here too,
LEMMA KillLoopTurns ==
  ASSUME NEW b, NEW c, NEW f, NEW n, Counts(f, n)
  PROVE  \E t : KillRun(b, c, f, n, t)
<1>0. n \in Nat /\ DOMAIN f = 1 .. n
  BY DEF Counts
<1> DEFINE D == 1 .. n
           e == [c |-> c, f |-> f]
           IsFold(g) == g = [s \in SUBSET D |->
                               IF s = {} THEN b ELSE KillOne(g[s \ {Max(s)}], c, f[Max(s)])]
<1>1. ASSUME NEW g PROVE IsFold(g) <=> IsLoop("kill", e, b, n, g)
  <2>1. \A s \in SUBSET D : OneTurn("kill", e, g[s \ {Max(s)}], Max(s))
                              = KillOne(g[s \ {Max(s)}], c, f[Max(s)])
    BY DEF OneTurn
  <2>2. [s \in SUBSET D |-> IF s = {} THEN b ELSE OneTurn("kill", e, g[s \ {Max(s)}], Max(s))]
        = [s \in SUBSET D |-> IF s = {} THEN b
             ELSE KillOne(g[s \ {Max(s)}], c, f[Max(s)])]
    BY <2>1
  <2> QED BY <2>2 DEF IsLoop
<1>2. PICK g : IsFold(g) /\ KillLoops(b, c, f) = g[D]
  <2>1. \E g : IsFold(g)
    <3>1. PICK g : IsLoop("kill", e, b, n, g)
      BY <1>0, LoopExists
    <3>2. IsFold(g)
      BY <1>1, <3>1
    <3> QED BY <3>2
  <2> QED BY <1>0, <2>1 DEF KillLoops, FoldLeft, MapThenFoldSet
<1>3. IsLoop("kill", e, b, n, g)
  BY <1>1, <1>2
<1> HIDE DEF IsFold, e
<1>4. PICK t : Runs("kill", e, b, n, t) /\ g[1 .. n] = t[n]
  BY <1>0, <1>3, LoopTurns
<1>5. t[0] = b /\ \A k \in 1 .. n : t[k] = KillOne(t[k - 1], c, f[k])
  BY <1>4 DEF Runs, OneTurn, e
<1> QED BY <1>2, <1>4, <1>5 DEF KillRun

\* The loop over the resources
Releases(b, c, w, f) == FoldLeft(LAMBDA x, y : DoUnblock(x, c, ResQ(y), w[y]), b, f)

ReleaseRun(b, c, w, f, n, t) ==
  t[0] = b /\ Releases(b, c, w, f) = t[n] /\ \A k \in 1 .. n : t[k] = DoUnblock(t[k - 1], c, ResQ(f[k]), w[f[k]])

\* ... for the resources,
LEMMA ReleaseTurns ==
  ASSUME NEW b, NEW c, NEW w, NEW f, NEW n, Counts(f, n)
  PROVE  \E t : ReleaseRun(b, c, w, f, n, t)
<1>0. n \in Nat /\ DOMAIN f = 1 .. n
  BY DEF Counts
<1> DEFINE D == 1 .. n
           e == [c |-> c, n |-> w, f |-> f]
           IsFold(g) == g = [s \in SUBSET D |->
                               IF s = {} THEN b ELSE DoUnblock(g[s \ {Max(s)}], c, ResQ(f[Max(s)]), w[f[Max(s)]])]
<1>1. ASSUME NEW g PROVE IsFold(g) <=> IsLoop("release", e, b, n, g)
  <2>1. \A s \in SUBSET D : OneTurn("release", e, g[s \ {Max(s)}], Max(s))
                              = DoUnblock(g[s \ {Max(s)}], c, ResQ(f[Max(s)]), w[f[Max(s)]])
    BY DEF OneTurn
  <2>2. [s \in SUBSET D |-> IF s = {} THEN b ELSE OneTurn("release", e, g[s \ {Max(s)}], Max(s))]
        = [s \in SUBSET D |-> IF s = {} THEN b
             ELSE DoUnblock(g[s \ {Max(s)}], c, ResQ(f[Max(s)]), w[f[Max(s)]])]
    BY <2>1
  <2> QED BY <2>2 DEF IsLoop
<1>2. PICK g : IsFold(g) /\ Releases(b, c, w, f) = g[D]
  <2>1. \E g : IsFold(g)
    <3>1. PICK g : IsLoop("release", e, b, n, g)
      BY <1>0, LoopExists
    <3>2. IsFold(g)
      BY <1>1, <3>1
    <3> QED BY <3>2
  <2> QED BY <1>0, <2>1 DEF Releases, FoldLeft, MapThenFoldSet
<1>3. IsLoop("release", e, b, n, g)
  BY <1>1, <1>2
<1> HIDE DEF IsFold, e
<1>4. PICK t : Runs("release", e, b, n, t) /\ g[1 .. n] = t[n]
  BY <1>0, <1>3, LoopTurns
<1>5. t[0] = b /\ \A k \in 1 .. n : t[k] = DoUnblock(t[k - 1], c, ResQ(f[k]), w[f[k]])
  BY <1>4 DEF Runs, OneTurn, e
<1> QED BY <1>2, <1>4, <1>5 DEF ReleaseRun

\* The loop of check_sleeping()
CheckLoops(b, c, f) == FoldLeft(LAMBDA x, y : CheckTurn(x, c), b, f)

CheckRun(b, c, f, n, t) ==
  t[0] = b /\ CheckLoops(b, c, f) = t[n] /\ \A k \in 1 .. n : t[k] = CheckTurn(t[k - 1], c)

\* ... for the sleepers,
LEMMA CheckLoopTurns ==
  ASSUME NEW b, NEW c, NEW f, NEW n, Counts(f, n)
  PROVE  \E t : CheckRun(b, c, f, n, t)
<1>0. n \in Nat /\ DOMAIN f = 1 .. n
  BY DEF Counts
<1> DEFINE D == 1 .. n
           e == [c |-> c, f |-> f]
           IsFold(g) == g = [s \in SUBSET D |->
                               IF s = {} THEN b ELSE CheckTurn(g[s \ {Max(s)}], c)]
<1>1. ASSUME NEW g PROVE IsFold(g) <=> IsLoop("check", e, b, n, g)
  <2>1. \A s \in SUBSET D : OneTurn("check", e, g[s \ {Max(s)}], Max(s))
                              = CheckTurn(g[s \ {Max(s)}], c)
    BY DEF OneTurn
  <2>2. [s \in SUBSET D |-> IF s = {} THEN b ELSE OneTurn("check", e, g[s \ {Max(s)}], Max(s))]
        = [s \in SUBSET D |-> IF s = {} THEN b
             ELSE CheckTurn(g[s \ {Max(s)}], c)]
    BY <2>1
  <2> QED BY <2>2 DEF IsLoop
<1>2. PICK g : IsFold(g) /\ CheckLoops(b, c, f) = g[D]
  <2>1. \E g : IsFold(g)
    <3>1. PICK g : IsLoop("check", e, b, n, g)
      BY <1>0, LoopExists
    <3>2. IsFold(g)
      BY <1>1, <3>1
    <3> QED BY <3>2
  <2> QED BY <1>0, <2>1 DEF CheckLoops, FoldLeft, MapThenFoldSet
<1>3. IsLoop("check", e, b, n, g)
  BY <1>1, <1>2
<1> HIDE DEF IsFold, e
<1>4. PICK t : Runs("check", e, b, n, t) /\ g[1 .. n] = t[n]
  BY <1>0, <1>3, LoopTurns
<1>5. t[0] = b /\ \A k \in 1 .. n : t[k] = CheckTurn(t[k - 1], c)
  BY <1>4 DEF Runs, OneTurn, e
<1> QED BY <1>2, <1>4, <1>5 DEF CheckRun

\* The loop of do_scheduler()
ScanLoops(b, c, o, f) == FoldLeft(LAMBDA x, y : ScanTurn(x, c, o), b, f)

ScanRun(b, c, o, f, n, t) ==
  t[0] = b /\ ScanLoops(b, c, o, f) = t[n] /\ \A k \in 1 .. n : t[k] = ScanTurn(t[k - 1], c, o)

\* ... and for the scan of ready_queue.
LEMMA ScanLoopTurns ==
  ASSUME NEW b, NEW c, NEW o, NEW f, NEW n, Counts(f, n)
  PROVE  \E t : ScanRun(b, c, o, f, n, t)
<1>0. n \in Nat /\ DOMAIN f = 1 .. n
  BY DEF Counts
<1> DEFINE D == 1 .. n
           e == [c |-> c, o |-> o, f |-> f]
           IsFold(g) == g = [s \in SUBSET D |->
                               IF s = {} THEN b ELSE ScanTurn(g[s \ {Max(s)}], c, o)]
<1>1. ASSUME NEW g PROVE IsFold(g) <=> IsLoop("scan", e, b, n, g)
  <2>1. \A s \in SUBSET D : OneTurn("scan", e, g[s \ {Max(s)}], Max(s))
                              = ScanTurn(g[s \ {Max(s)}], c, o)
    BY DEF OneTurn
  <2>2. [s \in SUBSET D |-> IF s = {} THEN b ELSE OneTurn("scan", e, g[s \ {Max(s)}], Max(s))]
        = [s \in SUBSET D |-> IF s = {} THEN b
             ELSE ScanTurn(g[s \ {Max(s)}], c, o)]
    BY <2>1
  <2> QED BY <2>2 DEF IsLoop
<1>2. PICK g : IsFold(g) /\ ScanLoops(b, c, o, f) = g[D]
  <2>1. \E g : IsFold(g)
    <3>1. PICK g : IsLoop("scan", e, b, n, g)
      BY <1>0, LoopExists
    <3>2. IsFold(g)
      BY <1>1, <3>1
    <3> QED BY <3>2
  <2> QED BY <1>0, <2>1 DEF ScanLoops, FoldLeft, MapThenFoldSet
<1>3. IsLoop("scan", e, b, n, g)
  BY <1>1, <1>2
<1> HIDE DEF IsFold, e
<1>4. PICK t : Runs("scan", e, b, n, t) /\ g[1 .. n] = t[n]
  BY <1>0, <1>3, LoopTurns
<1>5. t[0] = b /\ \A k \in 1 .. n : t[k] = ScanTurn(t[k - 1], c, o)
  BY <1>4 DEF Runs, OneTurn, e
<1> QED BY <1>2, <1>4, <1>5 DEF ScanRun
-----------------------------------------------------------------------------
(* One PCB moves.                                                            *)

\* What a walk of c from p finds is not changed, but for the threads K that go.
Carries(s, n, c, K) ==
  \A x, p \in Thread \ K : \A m \in Nat :
    Ahead(s.q[ReadyQ], s.cur[c], x, p, m) => Ahead(n.q[ReadyQ], n.cur[c], x, p, m)

\* The queues are told apart.
LEMMA QueuesAre ==
  /\ ReadyQ \in Rings /\ SleepQ \in Rings /\ ReadyQ # SleepQ
  /\ NoQ \in Queue /\ NoQ \notin Rings /\ Rings \subseteq Queue
  /\ \A q \in Queue : q \in Rings \/ q = NoQ
  /\ \A t \in Thread : WaitQ(t) \in Rings /\ WaitQ(t) \notin {ReadyQ, SleepQ, NoQ}
  /\ \A r \in Resource : ResQ(r) \in Rings /\ ResQ(r) \notin {ReadyQ, SleepQ, NoQ}
  /\ \A t, u \in Thread : WaitQ(t) = WaitQ(u) => t = u
  /\ \A r \in Resource, t \in Thread : ResQ(r) # WaitQ(t)
<1>1. ReadyQ # SleepQ /\ ReadyQ # NoQ /\ SleepQ # NoQ
  <2>1. ReadyQ[1] = "ready" /\ SleepQ[1] = "sleep" /\ NoQ[1] = "none"
    BY DEF ReadyQ, SleepQ, NoQ
  <2> QED BY <2>1
<1>2. ASSUME NEW t \in Thread PROVE WaitQ(t) \notin {ReadyQ, SleepQ, NoQ}
  <2>1. WaitQ(t)[1] = "wait" /\ ReadyQ[1] = "ready" /\ SleepQ[1] = "sleep" /\ NoQ[1] = "none"
    BY DEF ReadyQ, SleepQ, NoQ, WaitQ
  <2> QED BY <2>1
<1>3. ASSUME NEW r \in Resource PROVE ResQ(r) \notin {ReadyQ, SleepQ, NoQ}
  <2>1. ResQ(r)[1] = "res" /\ ReadyQ[1] = "ready" /\ SleepQ[1] = "sleep" /\ NoQ[1] = "none"
    BY DEF ReadyQ, SleepQ, NoQ, ResQ
  <2> QED BY <2>1
<1>4. ASSUME NEW t \in Thread, NEW u \in Thread, WaitQ(t) = WaitQ(u) PROVE t = u
  <2>1. WaitQ(t)[2] = t[1] /\ WaitQ(t)[3] = t[2] /\ WaitQ(u)[2] = u[1] /\ WaitQ(u)[3] = u[2]
    BY DEF WaitQ
  <2>2. t = <<t[1], t[2]>> /\ u = <<u[1], u[2]>>
    BY DEF Thread
  <2> QED BY <1>4, <2>1, <2>2
<1>5. ASSUME NEW r \in Resource, NEW t \in Thread PROVE ResQ(r) # WaitQ(t)
  <2>1. ResQ(r)[1] = "res" /\ WaitQ(t)[1] = "wait"
    BY DEF ResQ, WaitQ
  <2> QED BY <2>1
<1>6. \A t \in Thread : WaitQ(t) \in Queue
  BY DEF Queue, WaitQs
<1>7. \A r \in Resource : ResQ(r) \in Queue
  BY DEF Queue, ResQs
<1>8. Rings = Queue \ {NoQ} /\ ReadyQ \in Queue /\ SleepQ \in Queue /\ NoQ \in Queue
  BY DEF Rings, Queue
<1> QED BY <1>1, <1>2, <1>3, <1>4, <1>5, <1>6, <1>7, <1>8

\* The parts of a state.
LEMMA StateIs ==
  ASSUME NEW s \in SchedState
  PROVE  /\ s.st \in [Thread -> Status] /\ s.mk \in [Thread -> SUBSET CPU]
         /\ s.q \in [Rings -> Ring] /\ s.cur \in [CPU -> Thread]
         /\ s.gl \in (NCPU .. PidMax) \cup {NoPid} /\ s.panic \in BOOLEAN
BY DEF SchedState

\* A state is linked when some assignment of PCBs to queues fits it, which is Home then.
LEMMA LinkedFrom ==
  ASSUME NEW s \in SchedState, ~s.panic, NEW c \in CPU, NEW h \in [Thread -> Queue],
         \A t \in Thread : /\ \A q \in Rings : t \in ToSet(s.q[q]) <=> h[t] = q
                           /\ s.st[t] = "FREE" <=> h[t] = NoQ
                           /\ s.st[t] = "SLEEPING" <=> h[t] \notin {NoQ, ReadyQ},
         s.st[s.cur[c]] \notin {"FREE", "SLEEPING"}
  PROVE  Linked(s, c) /\ \A t \in Thread : Home(s, t) = h[t]
<1>1. ASSUME NEW t \in Thread PROVE Home(s, t) = h[t]
  <2>1. CASE s.st[t] = "FREE"
    BY <2>1 DEF Home
  <2>2. CASE s.st[t] # "FREE"
    <3>1. h[t] \in Rings
      BY <2>2, QueuesAre
    <3>2. h[t] \in Rings /\ t \in ToSet(s.q[h[t]]) /\ \A q \in Rings : t \in ToSet(s.q[q]) => q = h[t]
      BY <3>1
    <3>3. (CHOOSE q \in Rings : t \in ToSet(s.q[q])) = h[t]
      BY <3>2
    <3> QED BY <2>2, <3>3 DEF Home
  <2> QED BY <2>1, <2>2
<1> QED BY <1>1 DEF Linked

\* What is known of a linked state
LEMMA LinkedIs ==
  ASSUME NEW s, NEW c, Linked(s, c)
  PROVE  /\ s \in SchedState /\ s.panic = FALSE /\ c \in CPU /\ s.cur[c] \in Thread
         /\ \A t \in Thread : /\ Home(s, t) \in Queue
                              /\ \A q \in Rings : t \in ToSet(s.q[q]) <=> Home(s, t) = q
                              /\ s.st[t] = "FREE" <=> Home(s, t) = NoQ
                              /\ s.st[t] = "SLEEPING" <=> Home(s, t) \notin {NoQ, ReadyQ}
         /\ \A q \in Rings : s.q[q] \in Ring /\ ToSet(s.q[q]) \subseteq Thread
         /\ s.st[s.cur[c]] \notin {"FREE", "SLEEPING"} /\ Home(s, s.cur[c]) = ReadyQ
<1>1. s \in SchedState /\ c \in CPU /\ s.q \in [Rings -> Ring] /\ s.cur \in [CPU -> Thread]
      /\ s.panic = FALSE
  BY StateIs DEF Linked
<1>2. \A q \in Rings : s.q[q] \in Ring /\ ToSet(s.q[q]) \subseteq Thread
  BY <1>1, MembersAre
<1>3. s.st[s.cur[c]] \notin {"FREE", "SLEEPING"}
  BY DEF Linked
<1>4. s.cur[c] \in Thread
  BY <1>1
<1>5. /\ s.st[s.cur[c]] = "FREE" <=> Home(s, s.cur[c]) = NoQ
      /\ s.st[s.cur[c]] = "SLEEPING" <=> Home(s, s.cur[c]) \notin {NoQ, ReadyQ}
  BY <1>4 DEF Linked
<1>6. Home(s, s.cur[c]) = ReadyQ
  BY <1>3, <1>5
<1> QED BY <1>1, <1>2, <1>3, <1>4, <1>6 DEF Linked

\* wake_up() of a sleeper
LEMMA MakeReadyIs ==
  ASSUME NEW s, NEW c, Linked(s, c), NEW q \in Rings, q # ReadyQ, NEW t \in Thread, Home(s, t) = q
  PROVE  LET n == MakeReady(s, c, q, t) IN
         /\ Linked(n, c) /\ Did(s, n, {t}, {}, {}, {}) /\ n.gl = s.gl /\ Carries(s, n, c, {})
         /\ n.q[q] = lpcb_del_node(s.q[q], t)
         /\ \A r \in Rings \ {q, ReadyQ} : n.q[r] = s.q[r]
<1> DEFINE n == MakeReady(s, c, q, t)
           cur == s.cur[c]
           h == [u \in Thread |-> IF u = t THEN ReadyQ ELSE Home(s, u)]
<1>1. /\ s \in SchedState /\ s.panic = FALSE /\ c \in CPU /\ cur \in Thread /\ Home(s, cur) = ReadyQ
      /\ s.st[cur] \notin {"FREE", "SLEEPING"} /\ \A r \in Rings : s.q[r] \in Ring
  BY LinkedIs
<1>2. /\ \A u \in Thread : Home(s, u) \in Queue
      /\ \A u \in Thread, r \in Rings : u \in ToSet(s.q[r]) <=> Home(s, u) = r
      /\ \A u \in Thread : s.st[u] = "FREE" <=> Home(s, u) = NoQ
      /\ \A u \in Thread : s.st[u] = "SLEEPING" <=> Home(s, u) \notin {NoQ, ReadyQ}
  BY LinkedIs
<1>3. ReadyQ \in Rings /\ q # NoQ /\ ReadyQ \in Queue /\ ReadyQ # NoQ
  BY QueuesAre
<1>4. s.st[t] = "SLEEPING" /\ cur \in ToSet(s.q[ReadyQ]) /\ t \notin ToSet(s.q[ReadyQ]) /\ t # cur
  BY <1>1, <1>2, <1>3
<1> DEFINE d == lpcb_del_node(s.q[q], t)
           a == InsertAfter(s.q[ReadyQ], t, cur)
<1>5. n = [s EXCEPT !.st[t] = "READY", !.q[q] = d, !.q[ReadyQ] = a]
  BY <1>4 DEF MakeReady
<1>6. d \in Ring /\ ToSet(d) = ToSet(s.q[q]) \ {t}
  BY <1>1, DelSet
<1>7. a \in Ring /\ ToSet(a) = ToSet(s.q[ReadyQ]) \cup {t}
  BY <1>1, <1>3, <1>4, InsIs
<1>8. /\ s.st \in [Thread -> Status] /\ s.q \in [Rings -> Ring]
  BY <1>1, StateIs
<1> HIDE DEF n, d, a
<1>9. /\ n.st = [s.st EXCEPT ![t] = "READY"] /\ n.mk = s.mk /\ n.cur = s.cur /\ n.gl = s.gl
      /\ n.q = [[s.q EXCEPT ![q] = d] EXCEPT ![ReadyQ] = a] /\ n.panic = s.panic
      /\ n = [st |-> n.st, mk |-> n.mk, q |-> n.q, cur |-> n.cur, gl |-> n.gl, panic |-> n.panic]
  BY <1>1, <1>5 DEF SchedState
<1>10. n.st \in [Thread -> Status] /\ n.q \in [Rings -> Ring]
  BY <1>6, <1>7, <1>8, <1>9 DEF Status
<1>11. n \in SchedState
  BY <1>1, <1>9, <1>10 DEF SchedState
<1>12. /\ n.q[q] = d /\ n.q[ReadyQ] = a /\ \A r \in Rings \ {q, ReadyQ} : n.q[r] = s.q[r]
       /\ n.st[t] = "READY" /\ \A u \in Thread \ {t} : n.st[u] = s.st[u]
  BY <1>3, <1>8, <1>9
<1>13. h \in [Thread -> Queue] /\ h[t] = ReadyQ /\ \A u \in Thread \ {t} : h[u] = Home(s, u)
  BY <1>2, <1>3
<1> HIDE DEF h
<1>14. ASSUME NEW u \in Thread
       PROVE  /\ \A r \in Rings : u \in ToSet(n.q[r]) <=> h[u] = r
              /\ n.st[u] = "FREE" <=> h[u] = NoQ
              /\ n.st[u] = "SLEEPING" <=> h[u] \notin {NoQ, ReadyQ}
  <2>1. ASSUME NEW r \in Rings PROVE u \in ToSet(n.q[r]) <=> h[u] = r
    <3>1. CASE r = ReadyQ
      BY <1>2, <1>3, <1>7, <1>12, <1>13, <3>1
    <3>2. CASE r = q
      BY <1>2, <1>6, <1>12, <1>13, <3>2
    <3>3. CASE r # ReadyQ /\ r # q
      BY <1>2, <1>12, <1>13, <3>3
    <3> QED BY <3>1, <3>2, <3>3
  <2>2. n.st[u] = "FREE" <=> h[u] = NoQ
    BY <1>2, <1>3, <1>12, <1>13
  <2>3. n.st[u] = "SLEEPING" <=> h[u] \notin {NoQ, ReadyQ}
    BY <1>2, <1>3, <1>12, <1>13
  <2> QED BY <2>1, <2>2, <2>3
<1>15. n.st[n.cur[c]] \notin {"FREE", "SLEEPING"}
  BY <1>1, <1>4, <1>9, <1>12
<1>16. Linked(n, c) /\ \A u \in Thread : Home(n, u) = h[u]
  <2>1. ~n.panic /\ c \in CPU
    BY <1>1, <1>9
  <2>2. h \in [Thread -> Queue]
    BY <1>13
  <2> QED BY <1>11, <1>14, <1>15, <2>1, <2>2, LinkedFrom
<1>17. Did(s, n, {t}, {}, {}, {})
  <2>1. /\ t \in Up(s, {t}, {}) /\ \A u \in Thread \ {t} : u \notin Up(s, {t}, {})
    BY DEF Up
  <2>2. \A u \in Thread : /\ n.st[u] = IF u \in Up(s, {t}, {}) THEN "READY" ELSE s.st[u]
                          /\ Home(n, u) = IF u \in Up(s, {t}, {}) THEN ReadyQ ELSE Home(s, u)
                          /\ n.mk[u] = s.mk[u]
    BY <1>9, <1>12, <1>13, <1>16, <2>1
  <2> QED BY <1>4, <1>9, <2>2 DEF Did
<1>18. Carries(s, n, c, {})
  BY <1>1, <1>3, <1>4, <1>9, <1>12, AheadIns DEF Carries, a
<1> QED BY <1>9, <1>12, <1>16, <1>17, <1>18 DEF n, d

\* A walk is carried through two changes
LEMMA CarriesThen ==
  ASSUME NEW s, NEW n, NEW r, NEW c, NEW K, NEW J, NEW L, Carries(s, n, c, K), Carries(n, r, c, J),
         K \subseteq L, J \subseteq L
  PROVE  Carries(s, r, c, L)
<1> SUFFICES ASSUME NEW x \in Thread \ L, NEW p \in Thread \ L, NEW m \in Nat,
                    Ahead(s.q[ReadyQ], s.cur[c], x, p, m)
             PROVE  Ahead(r.q[ReadyQ], r.cur[c], x, p, m)
  BY DEF Carries
<1>1. x \in Thread \ K /\ p \in Thread \ K /\ x \in Thread \ J /\ p \in Thread \ J
  OBVIOUS
<1>2. Ahead(n.q[ReadyQ], n.cur[c], x, p, m)
  BY <1>1 DEF Carries
<1> QED BY <1>1, <1>2 DEF Carries

\* ... and through none.
LEMMA CarriesSelf ==
  ASSUME NEW s, NEW c, NEW K
  PROVE  Carries(s, s, c, K)
BY DEF Carries

\* Nothing done, and one thing done after another.
LEMMA DidNothing ==
  ASSUME NEW s
  PROVE  Did(s, s, {}, {}, {}, {})
<1>1. Up(s, {}, {}) = {}
  BY DEF Up
<1> QED BY <1>1 DEF Did

\* What two parts of a handler have done, F2 being nobody the first has created
LEMMA DidThen ==
  ASSUME NEW s, NEW n, NEW r, NEW c, Linked(s, c), Linked(n, c),
         NEW R, NEW F, NEW E, NEW A, NEW R2, NEW F2, NEW E2, NEW A2,
         Did(s, n, R, F, E, A), Did(n, r, R2, F2, E2, A2), F2 \cap A = {}
  PROVE  Did(s, r, R \cup R2, F \cup F2, E \cup E2, A \cup A2)
<1>1. /\ r.cur = s.cur /\ F \cup F2 \subseteq Thread /\ A \cup A2 \subseteq Thread
      /\ R \subseteq Thread /\ R2 \subseteq Thread /\ E \subseteq Thread /\ E2 \subseteq Thread
      /\ \A t \in R : s.st[t] = "SLEEPING"
      /\ \A t \in R2 : n.st[t] = "SLEEPING"
      /\ \A t \in E : s.st[t] \in OnCpu
      /\ \A t \in E2 : n.st[t] \in OnCpu
  BY DEF Did
<1>2. \A t \in Thread : /\ s.st[t] = "SLEEPING" <=> Home(s, t) \notin {NoQ, ReadyQ}
                        /\ n.st[t] = "SLEEPING" <=> Home(n, t) \notin {NoQ, ReadyQ}
                        /\ s.st[t] = "FREE" <=> Home(s, t) = NoQ
                        /\ n.st[t] = "FREE" <=> Home(n, t) = NoQ
  BY LinkedIs
<1>3. \A t \in Thread : WaitQ(t) \notin {ReadyQ, NoQ}
  BY QueuesAre
<1>4. ASSUME NEW t \in Thread
      PROVE  /\ n.st[t] = IF t \in A THEN "READY" ELSE IF t \in F THEN "FREE"
                          ELSE IF t \in E THEN "EXITING" ELSE IF t \in Up(s, R, F) THEN "READY"
                          ELSE s.st[t]
             /\ Home(n, t) = IF t \in A THEN ReadyQ ELSE IF t \in F THEN NoQ
                             ELSE IF t \in Up(s, R, F) THEN ReadyQ ELSE Home(s, t)
             /\ n.mk[t] = IF t \in A THEN CPU ELSE IF t \in F THEN {} ELSE s.mk[t]
             /\ r.st[t] = IF t \in A2 THEN "READY" ELSE IF t \in F2 THEN "FREE"
                          ELSE IF t \in E2 THEN "EXITING" ELSE IF t \in Up(n, R2, F2) THEN "READY"
                          ELSE n.st[t]
             /\ Home(r, t) = IF t \in A2 THEN ReadyQ ELSE IF t \in F2 THEN NoQ
                             ELSE IF t \in Up(n, R2, F2) THEN ReadyQ ELSE Home(n, t)
             /\ r.mk[t] = IF t \in A2 THEN CPU ELSE IF t \in F2 THEN {} ELSE n.mk[t]
  BY DEF Did
<1>5. ASSUME NEW t \in Thread
      PROVE  /\ t \in Up(s, R, F) => s.st[t] = "SLEEPING"
             /\ t \in Up(n, R2, F2) => n.st[t] = "SLEEPING"
  BY <1>1, <1>2, <1>3 DEF Up
<1>6. ASSUME NEW t \in Thread, t \notin A, t \notin F
      PROVE  t \in Up(s, R \cup R2, F \cup F2) <=> t \in Up(s, R, F) \/ t \in Up(n, R2, F2)
  <2>1. t \in Up(s, R \cup R2, F \cup F2) <=>
          t \in Up(s, R, F) \/ t \in R2 \/ \E k \in F2 : Home(s, t) = WaitQ(k)
    BY DEF Up
  <2>2. t \in Up(n, R2, F2) <=> t \in R2 \/ \E k \in F2 : Home(n, t) = WaitQ(k)
    BY DEF Up
  <2>3. CASE t \in Up(s, R, F)
    BY <2>1, <2>3
  <2>4. CASE t \notin Up(s, R, F)
    <3>1. Home(n, t) = Home(s, t)
      BY <1>4, <1>6, <2>4
    <3>2. \A k \in F2 : Home(s, t) = WaitQ(k) <=> Home(n, t) = WaitQ(k)
      BY <3>1
    <3> QED BY <2>1, <2>2, <2>4, <3>2
  <2> QED BY <2>3, <2>4
<1>7. ASSUME NEW t \in Thread
      PROVE  r.st[t] = IF t \in A \cup A2 THEN "READY" ELSE IF t \in F \cup F2 THEN "FREE"
                       ELSE IF t \in E \cup E2 THEN "EXITING"
                       ELSE IF t \in Up(s, R \cup R2, F \cup F2) THEN "READY" ELSE s.st[t]
  <2>1. CASE t \in A2
    BY <1>4, <2>1
  <2>2. CASE t \notin A2 /\ t \in A
    BY <1>1, <1>4, <1>5, <2>2 DEF OnCpu
  <2>3. CASE t \notin A2 /\ t \notin A /\ t \in F
    BY <1>1, <1>4, <1>5, <2>3 DEF OnCpu
  <2>4. CASE t \notin A2 /\ t \notin A /\ t \notin F
    <3> DEFINE u1 == t \in Up(s, R, F)
               u2 == t \in Up(n, R2, F2)
               u == t \in Up(s, R \cup R2, F \cup F2)
    <3>1. u <=> u1 \/ u2
      BY <1>6, <2>4
    <3>2. (u1 => s.st[t] = "SLEEPING") /\ (u2 => n.st[t] = "SLEEPING")
      BY <1>5
    <3>3. (t \in E => s.st[t] \in OnCpu) /\ (t \in E2 => n.st[t] \in OnCpu)
      BY <1>1
    <3>4. /\ n.st[t] = IF t \in E THEN "EXITING" ELSE IF u1 THEN "READY" ELSE s.st[t]
          /\ r.st[t] = IF t \in F2 THEN "FREE" ELSE IF t \in E2 THEN "EXITING"
                       ELSE IF u2 THEN "READY" ELSE n.st[t]
      BY <1>4, <2>4
    <3> HIDE DEF u, u1, u2
    <3>5. r.st[t] = IF t \in F2 THEN "FREE" ELSE IF t \in E \/ t \in E2 THEN "EXITING"
                    ELSE IF u THEN "READY" ELSE s.st[t]
      BY <3>1, <3>2, <3>3, <3>4 DEF OnCpu
    <3> QED BY <2>4, <3>5 DEF u
  <2> QED BY <2>1, <2>2, <2>3, <2>4
<1>8. ASSUME NEW t \in Thread
      PROVE  /\ Home(r, t) = IF t \in A \cup A2 THEN ReadyQ ELSE IF t \in F \cup F2 THEN NoQ
                             ELSE IF t \in Up(s, R \cup R2, F \cup F2) THEN ReadyQ ELSE Home(s, t)
             /\ r.mk[t] = IF t \in A \cup A2 THEN CPU ELSE IF t \in F \cup F2 THEN {} ELSE s.mk[t]
  <2>1. CASE t \in A2
    BY <1>4, <2>1
  <2>2. CASE t \notin A2 /\ t \in A
    BY <1>1, <1>4, <1>5, <2>2 DEF OnCpu
  <2>3. CASE t \notin A2 /\ t \notin A /\ t \in F
    BY <1>1, <1>4, <1>5, <2>3 DEF OnCpu
  <2>4. CASE t \notin A2 /\ t \notin A /\ t \notin F
    <3> DEFINE u1 == t \in Up(s, R, F)
               u2 == t \in Up(n, R2, F2)
               u == t \in Up(s, R \cup R2, F \cup F2)
    <3>1. u <=> u1 \/ u2
      BY <1>6, <2>4
    <3>2. /\ Home(n, t) = IF u1 THEN ReadyQ ELSE Home(s, t)
          /\ Home(r, t) = IF t \in F2 THEN NoQ ELSE IF u2 THEN ReadyQ ELSE Home(n, t)
          /\ n.mk[t] = s.mk[t]
          /\ r.mk[t] = IF t \in F2 THEN {} ELSE n.mk[t]
      BY <1>4, <2>4
    <3> HIDE DEF u, u1, u2
    <3>3. Home(r, t) = IF t \in F2 THEN NoQ ELSE IF u THEN ReadyQ ELSE Home(s, t)
      BY <3>1, <3>2
    <3> QED BY <2>4, <3>2, <3>3 DEF u
  <2> QED BY <2>1, <2>2, <2>3, <2>4
<1>9. /\ R \cup R2 \subseteq {t \in Thread : s.st[t] = "SLEEPING"}
      /\ E \cup E2 \subseteq {t \in Thread : s.st[t] \in OnCpu}
  <2>1. ASSUME NEW t \in R2 PROVE s.st[t] = "SLEEPING"
    BY <1>1, <1>4 DEF OnCpu
  <2>2. ASSUME NEW t \in E2 PROVE s.st[t] \in OnCpu
    <3>1. n.st[t] \in OnCpu /\ t \in Thread
      BY <1>1
    <3>2. "READY" \notin OnCpu /\ "FREE" \notin OnCpu
      BY DEF OnCpu
    <3>3. t \notin A /\ t \notin F
      BY <1>4, <3>1, <3>2
    <3>4. t \in E \/ n.st[t] = s.st[t]
      BY <1>4, <3>1, <3>2, <3>3
    <3> QED BY <1>1, <3>1, <3>4
  <2> QED BY <1>1, <2>1, <2>2
<1> QED BY <1>1, <1>7, <1>8, <1>9 DEF Did

\* do_unblock() of the first n PCBs of ring q, or of all when there are fewer
LEMMA DoUnblockIs ==
  ASSUME NEW s, NEW c, Linked(s, c), NEW q \in Rings, q # ReadyQ, NEW n \in Nat
  PROVE  \E W \in SUBSET ToSet(s.q[q]) :
           /\ Linked(DoUnblock(s, c, q, n), c) /\ Did(s, DoUnblock(s, c, q, n), W, {}, {}, {})
           /\ DoUnblock(s, c, q, n).gl = s.gl
           /\ Carries(s, DoUnblock(s, c, q, n), c, {})
           /\ n >= Len(s.q[q]) => W = ToSet(s.q[q])
           /\ n > 0 /\ s.q[q] # <<>> => W # {}
<1> DEFINE ring == s.q[q]
           m == IF n <= Len(ring) THEN n ELSE Len(ring)
           f == SubSeq(ring, 1, m)
<1>1. ring \in Ring /\ ToSet(ring) \subseteq Thread
  BY LinkedIs
<1>2. Len(ring) \in Nat /\ ring \in Seq(Thread)
      /\ (\A i \in 1 .. Len(ring) : ring[i] \in ToSet(ring))
      /\ (\A i, j \in 1 .. Len(ring) : ring[i] = ring[j] => i = j)
      /\ (\A t \in ToSet(ring) : \E i \in 1 .. Len(ring) : ring[i] = t)
  BY <1>1, RingIs, MembersAre DEF Inj
<1>3. m \in 0 .. Len(ring) /\ (n >= Len(ring) => m = Len(ring)) /\ (n > 0 /\ Len(ring) > 0 => m > 0)
  BY <1>2
<1>4. f \in Seq(Thread) /\ Len(f) = m /\ \A i \in 1 .. m : f[i] = ring[i]
  <2>1. PICK r, l : r = ring /\ l = m
    OBVIOUS
  <2>2. r \in Seq(Thread) /\ l \in 0 .. Len(r)
    BY <1>2, <1>3, <2>1
  <2>3. /\ SubSeq(r, 1, l) \in Seq(Thread) /\ Len(SubSeq(r, 1, l)) = l
        /\ \A i \in 1 .. l : SubSeq(r, 1, l)[i] = r[i]
    BY <2>2, PartsAre
  <2> QED BY <2>1, <2>3
<1>5. DOMAIN f = 1 .. m /\ m \in Nat
  BY <1>3, <1>4
<1>6. DoUnblock(s, c, q, n) = Unblocks(s, c, q, f)
  BY DEF DoUnblock, Unblocks
<1> HIDE DEF ring, m, f
<1>15. Counts(f, m)
  BY <1>5 DEF Counts
<1>14. PICK t : UnblockRun(s, c, q, f, m, t)
  BY <1>15, UnblockTurns
<1>7. /\ t[0] = s /\ Unblocks(s, c, q, f) = t[m]
      /\ \A k \in 1 .. m : t[k] = MakeReady(t[k - 1], c, q, f[k])
  BY <1>14 DEF UnblockRun
<1> DEFINE W(k) == {ring[i] : i \in 1 .. k}
           Good(k) == /\ Linked(t[k], c) /\ Did(s, t[k], W(k), {}, {}, {}) /\ t[k].gl = s.gl
                      /\ Carries(s, t[k], c, {})
           T == {k \in 0 .. m : Good(k)}
<1>8. 0 \in T
  <2>1. W(0) = {}
    OBVIOUS
  <2>2. Did(s, t[0], W(0), {}, {}, {})
    BY <1>7, <2>1, DidNothing
  <2>3. Linked(t[0], c) /\ t[0].gl = s.gl /\ Carries(s, t[0], c, {})
    BY <1>7, CarriesSelf
  <2>4. 0 \in 0 .. m
    BY <1>5
  <2> HIDE DEF W
  <2> QED BY <2>2, <2>3, <2>4
<1>9. ASSUME NEW k \in 1 .. m, k - 1 \in T PROVE k \in T
  <2> DEFINE x == ring[k]
  <2>1. x \in ToSet(ring) /\ x \in Thread /\ k \in 1 .. Len(ring)
    BY <1>1, <1>2, <1>3
  <2>2. Home(s, x) = q
    BY <2>1, LinkedIs DEF ring
  <2>3. x \notin W(k - 1)
    BY <1>2, <1>3, <2>1
  <2>4. Linked(t[k - 1], c) /\ Did(s, t[k - 1], W(k - 1), {}, {}, {}) /\ t[k - 1].gl = s.gl
        /\ Carries(s, t[k - 1], c, {})
    BY <1>9
  <2>5. Home(t[k - 1], x) = q
    <3>1. x \notin Up(s, W(k - 1), {})
      BY <2>3 DEF Up
    <3> HIDE DEF W
    <3> QED BY <2>1, <2>2, <2>4, <3>1 DEF Did
  <2>6. t[k] = MakeReady(t[k - 1], c, q, x)
    BY <1>4, <1>7
  <2> HIDE DEF W, x
  <2>7. Linked(t[k], c) /\ Did(t[k - 1], t[k], {x}, {}, {}, {}) /\ t[k].gl = t[k - 1].gl
        /\ Carries(t[k - 1], t[k], c, {})
    BY <2>1, <2>4, <2>5, <2>6, MakeReadyIs
  <2>8. W(k) = W(k - 1) \cup {x}
    <3>1. \A i : i \in 1 .. k <=> i \in 1 .. k - 1 \/ i = k
      BY <1>3
    <3> QED BY <3>1 DEF W, x
  <2>9. Did(s, t[k], W(k), {}, {}, {})
    <3>1. Did(s, t[k], W(k - 1) \cup {x}, {} \cup {}, {} \cup {}, {} \cup {})
      BY <2>4, <2>7, DidThen
    <3>2. {} \cup {} = {}
      OBVIOUS
    <3> QED BY <2>8, <3>1, <3>2
  <2>10. Carries(s, t[k], c, {})
    BY <2>4, <2>7, CarriesThen
  <2>11. k \in 0 .. m
    BY <1>3
  <2> QED BY <2>4, <2>7, <2>9, <2>10, <2>11
<1>10. m \in T
  <2> HIDE DEF T
  <2>1. \A k \in 0 .. m : k \in T
    BY <1>5, <1>8, <1>9, TurnInduction
  <2> QED BY <1>5, <2>1
<1>11. Good(m)
  BY <1>10
<1>12. W(m) \subseteq ToSet(ring) /\ (n >= Len(ring) => W(m) = ToSet(ring))
  BY <1>2, <1>3
<1>13. n > 0 /\ ring # <<>> => W(m) # {}
  <2> SUFFICES ASSUME n > 0, ring # <<>> PROVE W(m) # {}
    OBVIOUS
  <2>1. Len(ring) > 0
    BY <1>2
  <2>2. 1 \in 1 .. m
    BY <1>3, <2>1
  <2>3. ring[1] \in W(m)
    BY <2>2
  <2> QED BY <2>3
<1> HIDE DEF W
<1> QED BY <1>6, <1>7, <1>11, <1>12, <1>13 DEF ring

\* thread_kill() of a thread that no CPU runs
LEMMA ThreadKillIs ==
  ASSUME NEW s, NEW c, Linked(s, c), NEW k \in Thread, k # s.cur[c], s.st[k] # "RUNNING"
  PROVE  LET n == ThreadKill(s, c, k) IN
         /\ Linked(n, c) /\ Did(s, n, {}, {k}, {}, {}) /\ n.gl = s.gl /\ Carries(s, n, c, {k})
<1> DEFINE ring == s.q[WaitQ(k)]
           s1 == DoUnblock(s, c, WaitQ(k), Len(ring))
           del == [r \in Rings |-> lpcb_del_node(s1.q[r], k)]
           n == ThreadKill(s, c, k)
           h == [t \in Thread |-> IF t = k THEN NoQ ELSE Home(s1, t)]
<1>1. WaitQ(k) \in Rings /\ WaitQ(k) # ReadyQ /\ ReadyQ \in Rings /\ NoQ \in Queue /\ NoQ \notin Rings
  BY QueuesAre
<1>2. ring \in Ring /\ Len(ring) \in Nat
  BY <1>1, LinkedIs, RingIs
<1>3. PICK W \in SUBSET ToSet(ring) :
        /\ Linked(s1, c) /\ Did(s, s1, W, {}, {}, {}) /\ s1.gl = s.gl /\ Carries(s, s1, c, {})
        /\ Len(ring) >= Len(ring) => W = ToSet(ring)
  BY <1>1, <1>2, DoUnblockIs
<1>4. W = ToSet(ring)
  BY <1>2, <1>3
<1>5. n = [s1 EXCEPT !.st[k] = "FREE", !.mk[k] = {}, !.q = del]
  BY DEF ThreadKill
<1> HIDE DEF s1, n, ring
<1>6. \A t \in Thread : t \in W <=> Home(s, t) = WaitQ(k)
  BY <1>1, <1>4, LinkedIs DEF ring
<1>7. /\ s1 \in SchedState /\ s1.panic = FALSE /\ c \in CPU /\ s1.cur[c] \in Thread
      /\ s1.st[s1.cur[c]] \notin {"FREE", "SLEEPING"}
      /\ \A t \in Thread : Home(s1, t) \in Queue
      /\ \A t \in Thread, q \in Rings : t \in ToSet(s1.q[q]) <=> Home(s1, t) = q
      /\ \A t \in Thread : s1.st[t] = "FREE" <=> Home(s1, t) = NoQ
      /\ \A t \in Thread : s1.st[t] = "SLEEPING" <=> Home(s1, t) \notin {NoQ, ReadyQ}
      /\ \A q \in Rings : s1.q[q] \in Ring
  BY <1>3, LinkedIs
<1>8. /\ s1.st \in [Thread -> Status] /\ s1.mk \in [Thread -> SUBSET CPU]
      /\ s1.q \in [Rings -> Ring] /\ s1.cur = s.cur
  BY <1>3, <1>7, StateIs DEF Did
<1>9. \A q \in Rings : del[q] \in Ring /\ ToSet(del[q]) = ToSet(s1.q[q]) \ {k}
  BY <1>7, DelSet
<1>10. /\ n.st = [s1.st EXCEPT ![k] = "FREE"] /\ n.mk = [s1.mk EXCEPT ![k] = {}]
       /\ n.q = del /\ n.cur = s1.cur /\ n.gl = s1.gl /\ n.panic = s1.panic
       /\ n = [st |-> n.st, mk |-> n.mk, q |-> n.q, cur |-> n.cur, gl |-> n.gl, panic |-> n.panic]
  BY <1>5, <1>7 DEF SchedState
<1>11. del \in [Rings -> Ring] /\ del[ReadyQ] = lpcb_del_node(s1.q[ReadyQ], k)
  BY <1>1, <1>9
<1> HIDE DEF del
<1>12. n.st \in [Thread -> Status] /\ n.mk \in [Thread -> SUBSET CPU]
  BY <1>8, <1>10 DEF Status
<1>13. n \in SchedState
  BY <1>7, <1>10, <1>11, <1>12 DEF SchedState
<1>14. /\ n.st[k] = "FREE" /\ n.mk[k] = {} /\ \A t \in Thread \ {k} : n.st[t] = s1.st[t] /\ n.mk[t] = s1.mk[t]
  BY <1>8, <1>10
<1>15. h \in [Thread -> Queue] /\ h[k] = NoQ /\ \A t \in Thread \ {k} : h[t] = Home(s1, t)
  BY <1>1, <1>7
<1> HIDE DEF h
<1>16. ASSUME NEW t \in Thread
       PROVE  /\ \A q \in Rings : t \in ToSet(n.q[q]) <=> h[t] = q
              /\ n.st[t] = "FREE" <=> h[t] = NoQ
              /\ n.st[t] = "SLEEPING" <=> h[t] \notin {NoQ, ReadyQ}
  <2>1. \A q \in Rings : t \in ToSet(n.q[q]) <=> t \in ToSet(s1.q[q]) /\ t # k
    BY <1>9, <1>10
  <2>2. CASE t = k
    BY <1>1, <1>14, <1>15, <2>1, <2>2
  <2>3. CASE t # k
    BY <1>7, <1>14, <1>15, <2>1, <2>3
  <2> QED BY <2>2, <2>3
<1>17. n.st[n.cur[c]] \notin {"FREE", "SLEEPING"}
  BY <1>7, <1>8, <1>10, <1>14
<1>18. Linked(n, c) /\ \A t \in Thread : Home(n, t) = h[t]
  <2>1. ~n.panic
    BY <1>7, <1>10
  <2> QED BY <1>7, <1>13, <1>15, <1>16, <1>17, <2>1, LinkedFrom
<1>19. Did(s, n, {}, {k}, {}, {})
  <2>1. ASSUME NEW t \in Thread
        PROVE  t \in Up(s, W, {}) <=> t \in Up(s, {}, {k})
    BY <1>6 DEF Up
  <2>2. ASSUME NEW t \in Thread
        PROVE  /\ s1.st[t] = IF t \in Up(s, {}, {k}) THEN "READY" ELSE s.st[t]
               /\ Home(s1, t) = IF t \in Up(s, {}, {k}) THEN ReadyQ ELSE Home(s, t)
               /\ s1.mk[t] = s.mk[t]
    BY <1>3, <2>1 DEF Did
  <2>3. ASSUME NEW t \in Thread
        PROVE  /\ n.st[t] = IF t = k THEN "FREE" ELSE IF t \in Up(s, {}, {k}) THEN "READY" ELSE s.st[t]
               /\ Home(n, t) = IF t = k THEN NoQ ELSE IF t \in Up(s, {}, {k}) THEN ReadyQ ELSE Home(s, t)
               /\ n.mk[t] = IF t = k THEN {} ELSE s.mk[t]
    BY <1>14, <1>15, <1>18, <2>2
  <2> QED BY <1>8, <1>10, <2>3 DEF Did
<1>20. Carries(s1, n, c, {k})
  <2> SUFFICES ASSUME NEW x \in Thread \ {k}, NEW p \in Thread \ {k}, NEW m \in Nat,
                      Ahead(s1.q[ReadyQ], s1.cur[c], x, p, m)
               PROVE  Ahead(n.q[ReadyQ], n.cur[c], x, p, m)
    BY DEF Carries
  <2>1. k # s1.cur[c] /\ s1.q[ReadyQ] \in Ring
    BY <1>1, <1>7, <1>8
  <2>2. Ahead(lpcb_del_node(s1.q[ReadyQ], k), s1.cur[c], x, p, m)
    BY <2>1, AheadDel
  <2> QED BY <1>10, <1>11, <2>2
<1>21. Carries(s, n, c, {k})
  BY <1>3, <1>20, CarriesThen
<1> QED BY <1>3, <1>10, <1>18, <1>19, <1>21 DEF n

\* A new status for a PCB that stays in ready_queue
LEMMA SetIs ==
  ASSUME NEW s, NEW c, Linked(s, c), NEW t \in Thread, NEW x \in Status \ {"FREE", "SLEEPING"},
         s.st[t] \notin {"FREE", "SLEEPING"}
  PROVE  LET n == [s EXCEPT !.st[t] = x] IN
         /\ Linked(n, c) /\ Carries(s, n, c, {})
         /\ n.cur = s.cur /\ n.gl = s.gl /\ n.mk = s.mk /\ n.q = s.q
         /\ n.st[t] = x /\ (\A u \in Thread \ {t} : n.st[u] = s.st[u])
         /\ \A u \in Thread : Home(n, u) = Home(s, u)
<1> DEFINE n == [s EXCEPT !.st[t] = x]
           h == [u \in Thread |-> Home(s, u)]
<1>1. /\ s \in SchedState /\ s.panic = FALSE /\ c \in CPU /\ s.cur[c] \in Thread
      /\ s.st[s.cur[c]] \notin {"FREE", "SLEEPING"}
      /\ \A u \in Thread : Home(s, u) \in Queue
      /\ \A u \in Thread, q \in Rings : u \in ToSet(s.q[q]) <=> Home(s, u) = q
      /\ \A u \in Thread : s.st[u] = "FREE" <=> Home(s, u) = NoQ
      /\ \A u \in Thread : s.st[u] = "SLEEPING" <=> Home(s, u) \notin {NoQ, ReadyQ}
  BY LinkedIs
<1>2. s.st \in [Thread -> Status]
  BY <1>1, StateIs
<1>3. /\ n.st = [s.st EXCEPT ![t] = x] /\ n.mk = s.mk
      /\ n.q = s.q /\ n.cur = s.cur /\ n.gl = s.gl /\ n.panic = s.panic
      /\ n = [st |-> n.st, mk |-> n.mk, q |-> n.q, cur |-> n.cur, gl |-> n.gl, panic |-> n.panic]
  BY <1>1 DEF SchedState
<1> HIDE DEF n
<1>4. n.st \in [Thread -> Status]
  BY <1>2, <1>3
<1>5. n \in SchedState
  BY <1>1, <1>3, <1>4 DEF SchedState
<1>6. n.st[t] = x /\ \A u \in Thread \ {t} : n.st[u] = s.st[u]
  BY <1>2, <1>3
<1>7. h \in [Thread -> Queue] /\ \A u \in Thread : h[u] = Home(s, u)
  BY <1>1
<1> HIDE DEF h
<1>8. ASSUME NEW u \in Thread
      PROVE  /\ \A q \in Rings : u \in ToSet(n.q[q]) <=> h[u] = q
             /\ n.st[u] = "FREE" <=> h[u] = NoQ
             /\ n.st[u] = "SLEEPING" <=> h[u] \notin {NoQ, ReadyQ}
  <2>1. /\ n.st[u] = "FREE" <=> s.st[u] = "FREE"
        /\ n.st[u] = "SLEEPING" <=> s.st[u] = "SLEEPING"
    BY <1>6
  <2> QED BY <1>1, <1>3, <1>7, <2>1
<1>9. n.st[n.cur[c]] \notin {"FREE", "SLEEPING"}
  BY <1>1, <1>3, <1>6
<1>10. Linked(n, c) /\ \A u \in Thread : Home(n, u) = h[u]
  <2>1. ~n.panic
    BY <1>1, <1>3
  <2> QED BY <1>1, <1>5, <1>7, <1>8, <1>9, <2>1, LinkedFrom
<1>11. Carries(s, n, c, {})
  BY <1>3 DEF Carries
<1> QED BY <1>3, <1>6, <1>7, <1>10, <1>11 DEF n

\* A new PCB at the tail of ready_queue
LEMMA AddThreadIs ==
  ASSUME NEW s, NEW c, Linked(s, c), NEW t \in Thread, s.st[t] = "FREE", NEW m \in SUBSET CPU
  PROVE  LET n == AddThread(s, t, m) IN
         /\ Linked(n, c) /\ n.cur = s.cur /\ n.gl = s.gl /\ n.q[ReadyQ] = Append(s.q[ReadyQ], t)
         /\ t \notin ToSet(s.q[ReadyQ])
         /\ n.st[t] = "READY" /\ Home(n, t) = ReadyQ /\ n.mk[t] = m
         /\ \A u \in Thread \ {t} :
              n.st[u] = s.st[u] /\ Home(n, u) = Home(s, u) /\ n.mk[u] = s.mk[u]
<1> DEFINE n == AddThread(s, t, m)
           a == Append(s.q[ReadyQ], t)
           h == [u \in Thread |-> IF u = t THEN ReadyQ ELSE Home(s, u)]
<1>1. /\ s \in SchedState /\ s.panic = FALSE /\ c \in CPU /\ s.cur[c] \in Thread
      /\ s.st[s.cur[c]] \notin {"FREE", "SLEEPING"}
      /\ \A u \in Thread : Home(s, u) \in Queue
      /\ \A u \in Thread, q \in Rings : u \in ToSet(s.q[q]) <=> Home(s, u) = q
      /\ \A u \in Thread : s.st[u] = "FREE" <=> Home(s, u) = NoQ
      /\ \A u \in Thread : s.st[u] = "SLEEPING" <=> Home(s, u) \notin {NoQ, ReadyQ}
      /\ \A q \in Rings : s.q[q] \in Ring
  BY LinkedIs
<1>2. /\ s.st \in [Thread -> Status] /\ s.mk \in [Thread -> SUBSET CPU] /\ s.q \in [Rings -> Ring]
  BY <1>1, StateIs
<1>3. ReadyQ \in Rings /\ ReadyQ \in Queue /\ ReadyQ # NoQ
  BY QueuesAre
<1>4. n = [s EXCEPT !.st[t] = "READY", !.mk[t] = m, !.q[ReadyQ] = a]
  BY DEF AddThread
<1>5. t \notin ToSet(s.q[ReadyQ])
  BY <1>1, <1>3
<1>6. a \in Ring /\ ToSet(a) = ToSet(s.q[ReadyQ]) \cup {t}
  BY <1>1, <1>3, <1>5, AppIs
<1> HIDE DEF n, a
<1>7. /\ n.st = [s.st EXCEPT ![t] = "READY"] /\ n.mk = [s.mk EXCEPT ![t] = m]
      /\ n.q = [s.q EXCEPT ![ReadyQ] = a] /\ n.cur = s.cur /\ n.gl = s.gl /\ n.panic = s.panic
      /\ n = [st |-> n.st, mk |-> n.mk, q |-> n.q, cur |-> n.cur, gl |-> n.gl, panic |-> n.panic]
  BY <1>1, <1>4 DEF SchedState
<1>8. n.st \in [Thread -> Status] /\ n.mk \in [Thread -> SUBSET CPU] /\ n.q \in [Rings -> Ring]
  BY <1>2, <1>6, <1>7 DEF Status
<1>9. n \in SchedState
  BY <1>1, <1>7, <1>8 DEF SchedState
<1>10. /\ n.st[t] = "READY" /\ n.mk[t] = m
       /\ \A u \in Thread \ {t} : n.st[u] = s.st[u] /\ n.mk[u] = s.mk[u]
       /\ n.q[ReadyQ] = a /\ \A q \in Rings \ {ReadyQ} : n.q[q] = s.q[q]
  BY <1>2, <1>3, <1>7
<1>11. h \in [Thread -> Queue] /\ h[t] = ReadyQ /\ \A u \in Thread \ {t} : h[u] = Home(s, u)
  BY <1>1, <1>3
<1> HIDE DEF h
<1>12. ASSUME NEW u \in Thread
       PROVE  /\ \A q \in Rings : u \in ToSet(n.q[q]) <=> h[u] = q
              /\ n.st[u] = "FREE" <=> h[u] = NoQ
              /\ n.st[u] = "SLEEPING" <=> h[u] \notin {NoQ, ReadyQ}
  <2>1. ASSUME NEW q \in Rings PROVE u \in ToSet(n.q[q]) <=> h[u] = q
    <3>1. CASE u = t
      <4>1. Home(s, t) = NoQ /\ NoQ \notin Rings
        BY <1>1, QueuesAre
      <4> QED BY <1>1, <1>6, <1>10, <1>11, <3>1, <4>1
    <3>2. CASE u # t
      BY <1>1, <1>6, <1>10, <1>11, <3>2
    <3> QED BY <3>1, <3>2
  <2>2. CASE u = t
    BY <1>3, <1>10, <1>11, <2>1, <2>2
  <2>3. CASE u # t
    BY <1>1, <1>10, <1>11, <2>1, <2>3
  <2> QED BY <2>2, <2>3
<1>13. n.st[n.cur[c]] \notin {"FREE", "SLEEPING"}
  BY <1>1, <1>7, <1>10
<1>14. Linked(n, c) /\ \A u \in Thread : Home(n, u) = h[u]
  <2>1. ~n.panic
    BY <1>1, <1>7
  <2> QED BY <1>1, <1>9, <1>11, <1>12, <1>13, <2>1, LinkedFrom
<1> QED BY <1>5, <1>7, <1>10, <1>11, <1>14 DEF n, a

-----------------------------------------------------------------------------
(* The loops of do_kill().                                                   *)

\* The threads of process p that do_kill() frees, and those it tells to exit
Frees(s, p) == {t \in Thread : t[1] = p /\ s.st[t] \notin OnCpu \cup {"FREE"}}
Tells(s, p) == {t \in Thread : t[1] = p /\ s.st[t] \in OnCpu}

\* A turn of the loop of do_kill(): t is told to exit, or freed
LEMMA KillOneIs ==
  ASSUME NEW s, NEW c, Linked(s, c), NEW t \in Thread, t = s.cur[c] => s.st[t] \in OnCpu
  PROVE  LET n == KillOne(s, c, t)
             F == IF s.st[t] \in OnCpu \cup {"FREE"} THEN {} ELSE {t}
             E == IF s.st[t] \in OnCpu THEN {t} ELSE {}
         IN  Linked(n, c) /\ Did(s, n, {}, F, E, {}) /\ n.gl = s.gl /\ Carries(s, n, c, F)
<1>1. CASE s.st[t] \in OnCpu
  <2>0. PICK x : x = "EXITING"
    OBVIOUS
  <2> DEFINE n == [s EXCEPT !.st[t] = x]
  <2>1. KillOne(s, c, t) = n
    BY <1>1, <2>0 DEF KillOne
  <2>2. x \in Status \ {"FREE", "SLEEPING"} /\ s.st[t] \notin {"FREE", "SLEEPING"}
    BY <1>1, <2>0 DEF Status, OnCpu
  <2>3. /\ Linked(n, c) /\ Carries(s, n, c, {})
        /\ n.cur = s.cur /\ n.gl = s.gl /\ n.mk = s.mk
        /\ n.st[t] = x /\ (\A u \in Thread \ {t} : n.st[u] = s.st[u])
        /\ \A u \in Thread : Home(n, u) = Home(s, u)
    BY <2>2, SetIs
  <2> HIDE DEF n
  <2>4. Up(s, {}, {}) = {}
    BY DEF Up
  <2>5. Did(s, n, {}, {}, {t}, {})
    BY <1>1, <2>0, <2>3, <2>4 DEF Did
  <2> QED BY <1>1, <2>1, <2>3, <2>5
<1>2. CASE s.st[t] = "FREE"
  <2>1. KillOne(s, c, t) = s /\ s.st[t] \notin OnCpu
    BY <1>2 DEF KillOne, OnCpu
  <2> QED BY <1>2, <2>1, DidNothing, CarriesSelf
<1>3. CASE s.st[t] \notin OnCpu \cup {"FREE"}
  <2>1. KillOne(s, c, t) = ThreadKill(s, c, t) /\ t # s.cur[c] /\ s.st[t] # "RUNNING" /\ s.st[t] \notin OnCpu
    BY <1>3 DEF KillOne, OnCpu
  <2> QED BY <1>3, <2>1, ThreadKillIs
<1> QED BY <1>1, <1>2, <1>3

\* The loop of do_kill() over the threads of p, of which c does not run a dead one
LEMMA KillThreadsIs ==
  ASSUME NEW s, NEW c, Linked(s, c), NEW p \in Pid, s.cur[c] \notin Frees(s, p)
  PROVE  LET n == KillThreads(s, c, p) IN
         /\ Linked(n, c) /\ Did(s, n, {}, Frees(s, p), Tells(s, p), {})
         /\ n.gl = s.gl /\ Carries(s, n, c, Frees(s, p))
<1> DEFINE m == TidMax + 1
           f == Family(p)
<1>1. m \in Nat /\ DOMAIN f = 1 .. m /\ (\A i \in 1 .. m : f[i] = <<p, i - 1>>)
      /\ (\A i \in 1 .. m : i - 1 \in 0 .. TidMax) /\ (\A i \in 0 .. TidMax : i + 1 \in 1 .. m)
  BY ConstantsAssumption DEF Family
<1>2. /\ \A i \in 1 .. m : f[i] \in Thread /\ f[i][1] = p /\ f[i][2] = i - 1
      /\ \A t \in Thread : t[1] = p => t[2] + 1 \in 1 .. m /\ t = f[t[2] + 1]
  <2>1. ASSUME NEW i \in 1 .. m PROVE f[i] \in Thread /\ f[i][1] = p /\ f[i][2] = i - 1
    <3>1. PICK j : j = i - 1
      OBVIOUS
    <3>2. j \in 0 .. TidMax /\ f[i] = <<p, j>>
      BY <1>1, <3>1
    <3> HIDE DEF f
    <3>3. <<p, j>> \in Thread
      BY <3>2 DEF Thread
    <3> QED BY <3>1, <3>2, <3>3
  <2>2. ASSUME NEW t \in Thread, t[1] = p PROVE t[2] + 1 \in 1 .. m /\ t = f[t[2] + 1]
    <3>1. t = <<t[1], t[2]>> /\ t[2] \in 0 .. TidMax
      BY DEF Thread
    <3>2. t[2] + 1 \in 1 .. m /\ (t[2] + 1) - 1 = t[2]
      BY <1>1, <3>1
    <3> QED BY <1>1, <2>2, <3>1, <3>2
  <2> QED BY <2>1, <2>2
<1>3. KillThreads(s, c, p) = KillLoops(s, c, f)
  BY DEF KillThreads, KillLoops
<1>4. Counts(f, m)
  BY <1>1 DEF Counts
<1> HIDE DEF m, f
<1>5. PICK t : KillRun(s, c, f, m, t)
  BY <1>4, KillLoopTurns
<1>6. t[0] = s /\ KillLoops(s, c, f) = t[m] /\ \A k \in 1 .. m : t[k] = KillOne(t[k - 1], c, f[k])
  BY <1>5 DEF KillRun
<1> DEFINE F(k) == {x \in Frees(s, p) : \E i \in 1 .. k : x = f[i]}
           E(k) == {x \in Tells(s, p) : \E i \in 1 .. k : x = f[i]}
           Good(k) == /\ Linked(t[k], c) /\ Did(s, t[k], {}, F(k), E(k), {}) /\ t[k].gl = s.gl
                      /\ Carries(s, t[k], c, Frees(s, p))
           T == {k \in 0 .. m : Good(k)}
<1>7. 0 \in T
  <2>1. F(0) = {} /\ E(0) = {}
    OBVIOUS
  <2> HIDE DEF F, E
  <2>2. Did(s, t[0], {}, F(0), E(0), {})
    BY <1>6, <2>1, DidNothing
  <2>3. Linked(t[0], c) /\ t[0].gl = s.gl /\ Carries(s, t[0], c, Frees(s, p))
    BY <1>6, CarriesSelf
  <2>4. 0 \in 0 .. m
    BY <1>1
  <2> QED BY <2>2, <2>3, <2>4
<1>8. ASSUME NEW k \in 1 .. m, k - 1 \in T PROVE k \in T
  <2> DEFINE x == f[k]
             a == t[k - 1]
  <2>1. x \in Thread /\ x[1] = p
    BY <1>2
  <2>2. \A i \in 1 .. k - 1 : x # f[i]
    <3>1. ASSUME NEW i \in 1 .. k - 1 PROVE x # f[i]
      <4>1. i \in 1 .. m /\ i - 1 # k - 1
        BY <1>1
      <4>2. f[i][2] = i - 1 /\ x[2] = k - 1
        BY <1>2, <4>1
      <4> QED BY <4>1, <4>2
    <3> QED BY <3>1
  <2>3. x \notin F(k - 1) /\ x \notin E(k - 1)
    BY <2>2
  <2>4. /\ Linked(a, c) /\ Did(s, a, {}, F(k - 1), E(k - 1), {}) /\ a.gl = s.gl
        /\ Carries(s, a, c, Frees(s, p))
    BY <1>8
  <2>5. /\ F(k) = F(k - 1) \cup {y \in {x} : s.st[x] \notin OnCpu \cup {"FREE"}}
        /\ E(k) = E(k - 1) \cup {y \in {x} : s.st[x] \in OnCpu}
    <3>1. \A i : i \in 1 .. k <=> i \in 1 .. k - 1 \/ i = k
      BY <1>1
    <3> HIDE DEF x
    <3>2. \A y : (\E i \in 1 .. k : y = f[i]) <=> (\E i \in 1 .. k - 1 : y = f[i]) \/ y = x
      BY <3>1 DEF x
    <3> QED BY <2>1, <3>2 DEF Frees, Tells
  <2> HIDE DEF F, E, x, a
  <2>6. t[k] = KillOne(a, c, x) /\ t[k - 1] = a
    BY <1>6 DEF a, x
  <2> DEFINE Fx == IF a.st[x] \in OnCpu \cup {"FREE"} THEN {} ELSE {x}
             Ex == IF a.st[x] \in OnCpu THEN {x} ELSE {}
  <2>7. /\ a.st[x] \in OnCpu <=> s.st[x] \in OnCpu
        /\ a.st[x] = "FREE" <=> s.st[x] = "FREE"
    <3>1. a.st[x] = IF x \in Up(s, {}, F(k - 1)) THEN "READY" ELSE s.st[x]
      BY <2>1, <2>3, <2>4 DEF Did
    <3>2. x \in Up(s, {}, F(k - 1)) => s.st[x] = "SLEEPING"
      <4>1. F(k - 1) \subseteq Thread
        BY DEF F, Frees
      <4>2. x \in Up(s, {}, F(k - 1)) => Home(s, x) \notin {NoQ, ReadyQ}
        BY <4>1, QueuesAre DEF Up
      <4> QED BY <2>1, <4>2, LinkedIs
    <3> QED BY <3>1, <3>2 DEF OnCpu
  <2>8. F(k) = F(k - 1) \cup Fx /\ E(k) = E(k - 1) \cup Ex /\ Fx \subseteq Frees(s, p)
    BY <2>1, <2>5, <2>7 DEF Frees
  <2>9. x = a.cur[c] => a.st[x] \in OnCpu
    <3>1. a.cur = s.cur
      BY <2>4 DEF Did
    <3>2. s.st[s.cur[c]] # "FREE"
      BY LinkedIs
    <3>3. x = a.cur[c] => s.st[x] \in OnCpu
      BY <2>1, <3>1, <3>2 DEF Frees
    <3> QED BY <2>7, <3>3
  <2>10. Linked(t[k], c) /\ Did(a, t[k], {}, Fx, Ex, {}) /\ t[k].gl = a.gl /\ Carries(a, t[k], c, Fx)
    BY <2>1, <2>4, <2>6, <2>9, KillOneIs
  <2> HIDE DEF Fx, Ex
  <2>11. Did(s, t[k], {}, F(k), E(k), {})
    <3>1. Did(s, t[k], {} \cup {}, F(k - 1) \cup Fx, E(k - 1) \cup Ex, {} \cup {})
      BY <2>4, <2>10, DidThen
    <3>2. {} \cup {} = {}
      OBVIOUS
    <3> QED BY <2>8, <3>1, <3>2
  <2>12. Carries(s, t[k], c, Frees(s, p))
    BY <2>4, <2>8, <2>10, CarriesThen
  <2>13. k \in 0 .. m
    BY <1>1
  <2> QED BY <2>4, <2>10, <2>11, <2>12, <2>13
<1>9. m \in T
  <2> HIDE DEF T
  <2>1. \A k \in 0 .. m : k \in T
    BY <1>1, <1>7, <1>8, TurnInduction
  <2> QED BY <1>1, <2>1
<1>10. Good(m)
  BY <1>9
<1>11. F(m) = Frees(s, p) /\ E(m) = Tells(s, p)
  BY <1>2 DEF Frees, Tells
<1> HIDE DEF F, E
<1> QED BY <1>3, <1>6, <1>10, <1>11

Number(n) == n \in Nat

\* do_unblock() of some n: the threads it wakes are in the ring.
LEMMA SomeUnblocked ==
  ASSUME NEW s, NEW c, Linked(s, c), NEW q \in Rings, q # ReadyQ, NEW n, Number(n)
  PROVE  \E W \in SUBSET ToSet(s.q[q]) :
           /\ Linked(DoUnblock(s, c, q, n), c) /\ Did(s, DoUnblock(s, c, q, n), W, {}, {}, {})
           /\ DoUnblock(s, c, q, n).gl = s.gl
           /\ Carries(s, DoUnblock(s, c, q, n), c, {})
<1>1. n \in Nat
  BY DEF Number
<1>2. PICK W \in SUBSET ToSet(s.q[q]) :
        /\ Linked(DoUnblock(s, c, q, n), c) /\ Did(s, DoUnblock(s, c, q, n), W, {}, {}, {})
        /\ DoUnblock(s, c, q, n).gl = s.gl
        /\ Carries(s, DoUnblock(s, c, q, n), c, {})
        /\ n >= Len(s.q[q]) => W = ToSet(s.q[q])
        /\ n > 0 /\ s.q[q] # <<>> => W # {}
  BY <1>1, DoUnblockIs
<1> QED BY <1>2

\* The order in which a set of resources is looked at
LEMMA ResourcesAre ==
  ASSUME NEW X \in SUBSET Resource
  PROVE  \E m : Counts(SetToSeq(X), m) /\ \A i \in 1 .. m : SetToSeq(X)[i] \in X
<1> DEFINE m == Cardinality(X)
           f == SetToSeq(X)
<1>1. IsFiniteSet(X)
  BY SchedAssumption, FS_Subset
<1>2. m \in Nat /\ ExistsBijection(1 .. m, X)
  BY <1>1, FS_CardinalityType
<1>4. \E g \in [1 .. m -> X] : IsInjective(g)
  BY <1>2 DEF ExistsBijection, Bijection, Injection
<1>5. f \in [1 .. m -> X]
  BY <1>4 DEF SetToSeq
<1> QED BY <1>2, <1>5 DEF Counts

\* ress_release_killed() and check_sleeping_on_nic(): some that sleep on a resource wake up.
LEMMA ReleasesIs ==
  ASSUME NEW s, NEW c, Linked(s, c), NEW X \in SUBSET Resource,
         NEW w \in [X -> Wakes]
  PROVE  LET n == Releases(s, c, w, SetToSeq(X)) IN
         /\ Linked(n, c) /\ n.gl = s.gl /\ Carries(s, n, c, {})
         /\ \E R : Did(s, n, R, {}, {}, {}) /\ \A t \in R : Home(s, t) \in ResQs
<1> DEFINE f == SetToSeq(X)
<1>1. PICK m : Counts(f, m) /\ \A i \in 1 .. m : f[i] \in X
  BY ResourcesAre
<1>2. m \in Nat
  BY <1>1 DEF Counts
<1>3. \A r \in X : Number(w[r]) /\ ResQ(r) \in Rings /\ ResQ(r) # ReadyQ /\ ResQ(r) \in ResQs
  BY QueuesAre, ConstantsAssumption DEF Wakes, ResQs, Number
<1> HIDE DEF f
<1>4. PICK t : ReleaseRun(s, c, w, f, m, t)
  BY <1>1, ReleaseTurns
<1>5. /\ t[0] = s /\ Releases(s, c, w, f) = t[m]
      /\ \A k \in 1 .. m : t[k] = DoUnblock(t[k - 1], c, ResQ(f[k]), w[f[k]])
  BY <1>4 DEF ReleaseRun
<1> DEFINE Good(k) == /\ Linked(t[k], c) /\ t[k].gl = s.gl /\ Carries(s, t[k], c, {})
                      /\ \E R : Did(s, t[k], R, {}, {}, {}) /\ \A x \in R : Home(s, x) \in ResQs
           T == {k \in 0 .. m : Good(k)}
<1>6. 0 \in T
  <2>1. Did(s, t[0], {}, {}, {}, {})
    BY <1>5, DidNothing
  <2>2. Linked(t[0], c) /\ t[0].gl = s.gl /\ Carries(s, t[0], c, {})
    BY <1>5, CarriesSelf
  <2>3. 0 \in 0 .. m
    BY <1>2
  <2> QED BY <2>1, <2>2, <2>3
<1>7. ASSUME NEW k \in 1 .. m, k - 1 \in T PROVE k \in T
  <2> DEFINE a == t[k - 1]
             q == ResQ(f[k])
             i == w[f[k]]
             n == DoUnblock(a, c, q, i)
  <2>1. /\ Linked(a, c) /\ a.gl = s.gl /\ Carries(s, a, c, {})
        /\ \E R : Did(s, a, R, {}, {}, {}) /\ \A x \in R : Home(s, x) \in ResQs
    BY <1>7
  <2>2. PICK R : Did(s, a, R, {}, {}, {}) /\ \A x \in R : Home(s, x) \in ResQs
    BY <2>1
  <2>3. q \in Rings /\ q # ReadyQ /\ q \in ResQs /\ Number(i)
    BY <1>1, <1>3
  <2>4. t[k] = n
    BY <1>5
  <2> HIDE DEF a, q, i
  <2>5. PICK W \in SUBSET ToSet(a.q[q]) :
          Linked(n, c) /\ Did(a, n, W, {}, {}, {}) /\ n.gl = a.gl /\ Carries(a, n, c, {})
    BY <2>1, <2>3, SomeUnblocked
  <2> HIDE DEF n
  <2>6. Did(s, n, R \cup W, {}, {}, {})
    <3>1. Did(s, n, R \cup W, {} \cup {}, {} \cup {}, {} \cup {})
      BY <2>1, <2>2, <2>5, DidThen
    <3>2. {} \cup {} = {}
      OBVIOUS
    <3> QED BY <3>1, <3>2
  <2>7. ASSUME NEW x \in W PROVE Home(s, x) \in ResQs
    <3>1. x \in Thread /\ Home(a, x) = q
      BY <2>1, <2>3, LinkedIs
    <3>2. Home(a, x) = Home(s, x)
      <4>1. q # ReadyQ
        BY <2>3
      <4> QED BY <2>2, <3>1, <4>1 DEF Did
    <3> QED BY <2>3, <3>1, <3>2
  <2>8. Carries(s, n, c, {})
    BY <2>1, <2>5, CarriesThen
  <2>9. k \in 0 .. m
    BY <1>2
  <2> QED BY <2>1, <2>2, <2>4, <2>5, <2>6, <2>7, <2>8, <2>9
<1>8. m \in T
  <2> HIDE DEF T
  <2>1. \A k \in 0 .. m : k \in T
    BY <1>2, <1>6, <1>7, TurnInduction
  <2> QED BY <1>2, <2>1
<1> QED BY <1>5, <1>8 DEF f

-----------------------------------------------------------------------------
(* check_sleeping().                                                         *)

\* The last d of ring r are those of ring r0.
SameTail(r, r0, d) ==
  d <= Len(r) /\ d <= Len(r0) /\ \A j \in 0 .. d - 1 : r[Len(r) - j] = r0[Len(r0) - j]

\* A step of the walk along such a ring, and what is left to do when the PCB it is at goes
LEMMA TailNext ==
  ASSUME NEW r \in Ring, NEW r0 \in Ring, NEW d \in Nat, d # 0, SameTail(r, r0, d), NEW p,
         p = r0[Len(r0) - (d - 1)]
  PROVE  /\ p \in ToSet(r) /\ Head(r) \in ToSet(r) /\ r # <<>>
         /\ d = 1 => NextOf(r, p) = Head(r)
         /\ d # 1 => NextOf(r, p) = r0[Len(r0) - (d - 2)] /\ NextOf(r, p) # Head(r)
         /\ SameTail(r, r0, d - 1)
         /\ SameTail(lpcb_del_node(r, p), r0, d - 1)
<1> DEFINE n == Len(r)
           n0 == Len(r0)
           i == n - (d - 1)
           e == d - 1
<1>1. n \in Nat /\ n0 \in Nat /\ d <= n /\ d <= n0 /\ \A j \in 0 .. e : r[n - j] = r0[n0 - j]
  BY RingIs DEF SameTail
<1>2. i \in 1 .. n /\ r[i] = p /\ e \in 0 .. e /\ e \in Nat
  BY <1>1
<1>3. p \in ToSet(r) /\ IndexOf(r, p) = i
  BY <1>2, IndexIs, MembersAre
<1>4. r # <<>> /\ Head(r) = r[1] /\ 1 \in 1 .. n /\ r[1] \in ToSet(r)
  <2>1. 1 \in 1 .. n
    BY <1>1
  <2>2. r \in Seq(Thread) /\ n # 0
    BY <1>1, RingIs
  <2>3. r # <<>> /\ Head(r) = r[1]
    BY <2>2
  <2> QED BY <2>1, <2>3, MembersAre
<1>5. NextOf(r, p) = r[IF i = n THEN 1 ELSE i + 1]
  BY <1>3 DEF NextOf
<1>6. d = 1 => NextOf(r, p) = Head(r)
  BY <1>1, <1>4, <1>5
<1>7. ASSUME d # 1 PROVE NextOf(r, p) = r0[n0 - (d - 2)] /\ NextOf(r, p) # Head(r)
  <2>1. d - 2 \in 0 .. e /\ i + 1 = n - (d - 2) /\ i # n /\ i + 1 \in 1 .. n /\ i + 1 # 1
    BY <1>1, <1>7
  <2>2. NextOf(r, p) = r[i + 1] /\ r[i + 1] = r0[n0 - (d - 2)]
    BY <1>1, <1>5, <2>1
  <2>3. r[i + 1] # r[1]
    BY <1>4, <2>1, RingIs DEF Inj
  <2> QED BY <1>4, <2>2, <2>3
<1>8. SameTail(r, r0, d - 1)
  BY <1>1 DEF SameTail
<1>9. SameTail(lpcb_del_node(r, p), r0, d - 1)
  <2> DEFINE a == lpcb_del_node(r, p)
  <2>1. Len(a) = n - 1 /\ \A l \in 1 .. Len(a) : a[l] = IF l < i THEN r[l] ELSE r[l + 1]
    BY <1>3, DelIs
  <2> HIDE DEF a
  <2>2. ASSUME NEW j \in 0 .. e - 1 PROVE a[(n - 1) - j] = r0[n0 - j]
    <3>1. (n - 1) - j \in 1 .. n - 1 /\ ~((n - 1) - j < i) /\ ((n - 1) - j) + 1 = n - j /\ j \in 0 .. e
      BY <1>1
    <3>2. a[(n - 1) - j] = r[((n - 1) - j) + 1]
      BY <2>1, <3>1
    <3> QED BY <1>1, <3>1, <3>2
  <2>3. d - 1 <= n - 1 /\ d - 1 <= n0
    BY <1>1
  <2> QED BY <2>1, <2>2, <2>3 DEF SameTail, a
<1> QED BY <1>3, <1>4, <1>6, <1>7, <1>8, <1>9

\* The sleeper p, if due, is woken.
CheckOne(s, c, p) == IF p \in due THEN MakeReady(s, c, SleepQ, p) ELSE s

IfDue(p) == IF p \in due THEN {p} ELSE {}

\* A sleeper that is looked at leaves the ring when it is due.
LEMMA CheckOneIs ==
  ASSUME NEW s, NEW c, Linked(s, c), NEW p, p \in ToSet(s.q[SleepQ])
  PROVE  LET n == CheckOne(s, c, p) IN
         /\ s.st[p] = "SLEEPING" /\ Linked(n, c) /\ Did(s, n, IfDue(p), {}, {}, {})
         /\ n.gl = s.gl /\ Carries(s, n, c, {})
         /\ n.q[SleepQ] = lpcb_del_node(s.q[SleepQ], p) \/ n.q[SleepQ] = s.q[SleepQ]
<1>1. SleepQ \in Rings /\ SleepQ # ReadyQ /\ SleepQ # NoQ
  BY QueuesAre
<1>2. ToSet(s.q[SleepQ]) \subseteq Thread
  BY <1>1, LinkedIs
<1>3. p \in Thread /\ Home(s, p) = SleepQ /\ s.st[p] = "SLEEPING"
  <2>1. p \in Thread
    BY <1>2
  <2>2. Home(s, p) = SleepQ
    BY <1>1, <2>1, LinkedIs
  <2>3. Home(s, p) \notin {NoQ, ReadyQ}
    BY <1>1, <2>2
  <2> QED BY <2>1, <2>2, <2>3, LinkedIs
<1>4. CASE p \in due
  <2> DEFINE n == MakeReady(s, c, SleepQ, p)
  <2>1. CheckOne(s, c, p) = n
    BY <1>4 DEF CheckOne
  <2>2. /\ Linked(n, c) /\ Did(s, n, {p}, {}, {}, {}) /\ n.gl = s.gl /\ Carries(s, n, c, {})
        /\ n.q[SleepQ] = lpcb_del_node(s.q[SleepQ], p)
    BY <1>1, <1>3, MakeReadyIs
  <2> HIDE DEF n
  <2>3. IfDue(p) = {p}
    BY <1>4 DEF IfDue
  <2> QED BY <1>3, <2>1, <2>2, <2>3
<1>5. CASE p \notin due
  <2>1. CheckOne(s, c, p) = s /\ IfDue(p) = {}
    BY <1>5 DEF CheckOne, IfDue
  <2> QED BY <1>3, <2>1, DidNothing, CarriesSelf
<1> QED BY <1>4, <1>5

\* The two ways a turn leaves a walk
LEMMA EndsIs ==
  ASSUME NEW w, NEW s
  PROVE  Ends(w, s).s = s /\ Ends(w, s).ended
BY DEF Ends

\* ... when it goes on
LEMMA AtIs ==
  ASSUME NEW s, NEW p
  PROVE  At(s, p).s = s /\ At(s, p).p = p /\ ~At(s, p).ended
BY DEF At

\* A turn of the loop of check_sleeping(), of which there are still d to make: p is looked at
LEMMA CheckedIs ==
  ASSUME NEW c, NEW r0 \in Ring, NEW d \in Nat, d # 0, NEW s, NEW p,
         Linked(s, c), SameTail(s.q[SleepQ], r0, d), p = r0[Len(r0) - (d - 1)]
  PROVE  LET n == CheckOne(s, c, p)
             temp_next == NextOf(s.q[SleepQ], p)
         IN  /\ d = 1 => temp_next = Head(s.q[SleepQ])
             /\ d # 1 => /\ temp_next = r0[Len(r0) - (d - 2)] /\ temp_next # Head(s.q[SleepQ])
                         /\ n.q[SleepQ] # <<>>
             /\ s.st[p] = "SLEEPING" /\ Linked(n, c) /\ SameTail(n.q[SleepQ], r0, d - 1)
             /\ Did(s, n, IfDue(p), {}, {}, {}) /\ n.gl = s.gl /\ Carries(s, n, c, {})
<1> DEFINE r == s.q[SleepQ]
           n == CheckOne(s, c, p)
           temp_next == NextOf(r, p)
           e == d - 1
           pn == r0[Len(r0) - (d - 2)]
<1>1. SleepQ \in Rings /\ SleepQ # ReadyQ
  BY QueuesAre
<1>2. r \in Ring
  BY <1>1, LinkedIs
<1>3. /\ p \in ToSet(r) /\ r # <<>>
      /\ d = 1 => temp_next = Head(r)
      /\ d # 1 => temp_next = pn /\ temp_next # Head(r)
      /\ SameTail(r, r0, e)
      /\ SameTail(lpcb_del_node(r, p), r0, e)
  BY <1>2, TailNext
<1>4. /\ s.st[p] = "SLEEPING" /\ Linked(n, c) /\ Did(s, n, IfDue(p), {}, {}, {})
      /\ n.gl = s.gl /\ Carries(s, n, c, {})
      /\ n.q[SleepQ] = lpcb_del_node(r, p) \/ n.q[SleepQ] = r
  <2> HIDE DEF temp_next, e, pn
  <2>1. p \in ToSet(s.q[SleepQ])
    BY <1>3
  <2> QED BY <2>1, CheckOneIs
<1> HIDE DEF n, temp_next, e, pn
<1>5. SameTail(n.q[SleepQ], r0, e)
  BY <1>3, <1>4
<1>6. d # 1 => n.q[SleepQ] # <<>>
  <2>1. e <= Len(n.q[SleepQ])
    BY <1>5 DEF SameTail
  <2>2. d # 1 => e >= 1
    BY DEF e
  <2>3. n.q[SleepQ] \in Ring
    BY <1>1, <1>4, LinkedIs
  <2>4. Len(n.q[SleepQ]) \in Nat
    BY <2>3, RingIs
  <2>5. d # 1 => Len(n.q[SleepQ]) # 0
    BY <2>1, <2>2, <2>4 DEF e
  <2> QED BY <2>5
<1> QED BY <1>3, <1>4, <1>5, <1>6 DEF n, temp_next, e, pn

\* Walk w along r0 has d turns to make, and v is what one of them makes of it.
HasTurns(w, c, r0, d) ==
  /\ r0 \in Ring /\ d \in Nat /\ ~w.ended
  /\ d # 0 /\ Linked(w.s, c) /\ SameTail(w.s.q[SleepQ], r0, d) /\ w.p = r0[Len(r0) - (d - 1)]
HasTurned(w, v, c, r0, d) ==
  /\ v.s = CheckOne(w.s, c, w.p) /\ (v.ended <=> d = 1) /\ (d # 1 => v.p = r0[Len(r0) - (d - 2)])
  /\ Linked(v.s, c) /\ SameTail(v.s.q[SleepQ], r0, d - 1)
  /\ Did(w.s, v.s, IfDue(w.p), {}, {}, {}) /\ v.s.gl = w.s.gl /\ Carries(w.s, v.s, c, {})

\* A turn of the loop of check_sleeping() is right when it begins right.
LEMMA CheckTurnIs ==
  ASSUME NEW w, NEW c, NEW r0, NEW d, HasTurns(w, c, r0, d)
  PROVE  HasTurned(w, CheckTurn(w, c), c, r0, d)
<1>5. /\ r0 \in Ring /\ d \in Nat /\ ~w.ended
      /\ d # 0 /\ Linked(w.s, c) /\ SameTail(w.s.q[SleepQ], r0, d) /\ w.p = r0[Len(r0) - (d - 1)]
  BY DEF HasTurns
<1>0. PICK s, p : s = w.s /\ p = w.p
  OBVIOUS
<1>6. Linked(s, c) /\ SameTail(s.q[SleepQ], r0, d) /\ p = r0[Len(r0) - (d - 1)]
  BY <1>0, <1>5
<1> DEFINE n == CheckOne(s, c, p)
           temp_next == NextOf(s.q[SleepQ], p)
           temp_sleep == Head(s.q[SleepQ])
           pn == r0[Len(r0) - (d - 2)]
           m == d - 1
<1>1. /\ d = 1 => temp_next = temp_sleep
      /\ d # 1 => /\ temp_next = pn /\ temp_next # temp_sleep
                  /\ n.q[SleepQ] # <<>>
      /\ s.st[p] = "SLEEPING" /\ Linked(n, c) /\ SameTail(n.q[SleepQ], r0, m)
      /\ Did(s, n, IfDue(p), {}, {}, {}) /\ n.gl = s.gl /\ Carries(s, n, c, {})
  BY <1>5, <1>6, CheckedIs
<1>2. CheckTurn(w, c) = IF s.st[p] # "SLEEPING" \/ (n.q[SleepQ] = <<>> /\ temp_next # temp_sleep)
                        THEN Ends(w, Panic(s))
                        ELSE IF temp_next = temp_sleep THEN Ends(w, n) ELSE At(n, temp_next)
  BY <1>0, <1>5 DEF CheckTurn, CheckOne
<1> HIDE DEF n, temp_next, temp_sleep, pn, m
<1>3. CASE d = 1
  <2>1. CheckTurn(w, c) = Ends(w, n)
    BY <1>1, <1>2, <1>3
  <2>2. CheckTurn(w, c).s = n /\ CheckTurn(w, c).ended
    BY <2>1, EndsIs
  <2> QED BY <1>0, <1>1, <1>3, <2>2 DEF HasTurned, n, m
<1>4. CASE d # 1
  <2>1. CheckTurn(w, c) = At(n, pn)
    BY <1>1, <1>2, <1>4
  <2>2. CheckTurn(w, c).s = n /\ ~CheckTurn(w, c).ended /\ CheckTurn(w, c).p = pn
    BY <2>1, AtIs
  <2> QED BY <1>0, <1>1, <1>4, <2>2 DEF HasTurned, n, m, pn
<1> QED BY <1>3, <1>4

\* What check_sleeping() wakes
DueSleepers(s) == {t \in due : t \in ToSet(s.q[SleepQ])}

\* check_sleeping() wakes all that are due, though it unlinks from the ring it walks.
LEMMA CheckSleepingIs ==
  ASSUME NEW s, NEW c, Linked(s, c)
  PROVE  LET n == CheckSleeping(s, c) IN
         /\ Linked(n, c) /\ Did(s, n, DueSleepers(s), {}, {}, {}) /\ n.gl = s.gl
         /\ Carries(s, n, c, {})
<1> DEFINE r0 == s.q[SleepQ]
           m == Len(r0)
           b == At(s, Head(r0))
           f == Turns(m)
<1>1. r0 \in Ring /\ m \in Nat /\ r0 \in Seq(Thread)
  BY QueuesAre, LinkedIs, RingIs
<1>2. CASE r0 = <<>>
  <2>1. CheckSleeping(s, c) = s
    BY <1>2 DEF CheckSleeping
  <2>2. \A t \in ToSet(r0) : FALSE
    <3>1. m = 0
      BY <1>2
    <3> QED BY <1>1, <3>1, MembersAre
  <2>3. DueSleepers(s) = {}
    BY <2>2 DEF DueSleepers
  <2> QED BY <2>1, <2>3, DidNothing, CarriesSelf
<1>3. CASE r0 # <<>>
  <2>1. CheckSleeping(s, c) = After(CheckLoops(b, c, f))
    BY <1>3 DEF CheckSleeping, CheckLoops
  <2>2. m # 0 /\ Head(r0) = r0[1] /\ Counts(f, m)
    BY <1>1, <1>3 DEF Counts, Turns
  <2>3. b.s = s /\ b.p = r0[1] /\ ~b.ended
    BY <2>2, AtIs
  <2> HIDE DEF r0, m, b, f
  <2>4. PICK t : CheckRun(b, c, f, m, t)
    BY <2>2, CheckLoopTurns
  <2>5. t[0] = b /\ CheckLoops(b, c, f) = t[m] /\ \A k \in 1 .. m : t[k] = CheckTurn(t[k - 1], c)
    BY <2>4 DEF CheckRun
  <2> DEFINE D(k) == {x \in due : \E j \in 1 .. k : x = r0[j]}
             Good(k) == /\ t[k].ended <=> k = m
                        /\ k # m => t[k].p = r0[k + 1]
                        /\ Linked(t[k].s, c) /\ SameTail(t[k].s.q[SleepQ], r0, m - k)
                        /\ Did(s, t[k].s, D(k), {}, {}, {}) /\ t[k].s.gl = s.gl /\ Carries(s, t[k].s, c, {})
             T == {k \in 0 .. m : Good(k)}
  <2>6. 0 \in T
    <3>1. D(0) = {}
      OBVIOUS
    <3>2. Did(s, t[0].s, D(0), {}, {}, {})
      BY <2>3, <2>5, <3>1, DidNothing
    <3>3. SameTail(r0, r0, m) /\ m - 0 = m /\ 0 \in 0 .. m /\ 0 + 1 = 1
      BY <1>1 DEF SameTail, m
    <3>4. SameTail(t[0].s.q[SleepQ], r0, m - 0)
      BY <2>3, <2>5, <3>3 DEF r0
    <3>5. Linked(t[0].s, c) /\ t[0].s.gl = s.gl /\ Carries(s, t[0].s, c, {})
      BY <2>3, <2>5, CarriesSelf
    <3>6. ~t[0].ended /\ t[0].p = r0[0 + 1]
      BY <2>3, <2>5, <3>3
    <3> HIDE DEF D
    <3> QED BY <2>2, <3>2, <3>3, <3>4, <3>5, <3>6
  <2>7. ASSUME NEW k \in 1 .. m, k - 1 \in T PROVE k \in T
    <3> DEFINE w == t[k - 1]
               x == r0[k]
    <3>0. PICK d \in Nat : d = m - (k - 1)
      BY <1>1
    <3>1. Good(k - 1) /\ k - 1 # m /\ (k - 1) + 1 = k
      BY <1>1, <2>7
    <3>2. d \in Nat /\ d # 0 /\ (d = 1 <=> k = m) /\ d - 1 = m - k /\ Len(r0) = m
          /\ Len(r0) - (d - 1) = k /\ Len(r0) - (d - 2) = k + 1
      BY <1>1, <3>0 DEF m
    <3>3. /\ ~w.ended /\ w.p = x /\ Linked(w.s, c) /\ SameTail(w.s.q[SleepQ], r0, d)
          /\ Did(s, w.s, D(k - 1), {}, {}, {}) /\ w.s.gl = s.gl /\ Carries(s, w.s, c, {})
      BY <3>0, <3>1
    <3>4. t[k] = CheckTurn(w, c)
      BY <2>5
    <3>5. D(k) = D(k - 1) \cup IfDue(x)
      <4>1. \A i : i \in 1 .. k <=> i \in 1 .. k - 1 \/ i = k
        BY <1>1
      <4> QED BY <4>1 DEF IfDue
    <3> HIDE DEF D, x, w
    <3>6. w.p = r0[Len(r0) - (d - 1)]
      BY <3>2, <3>3 DEF x
    <3>12. HasTurns(w, c, r0, d)
      BY <1>1, <3>0, <3>2, <3>3, <3>6 DEF HasTurns
    <3>13. HasTurned(w, t[k], c, r0, d)
      BY <3>4, <3>12, CheckTurnIs
    <3> DEFINE n == t[k].s
    <3>7. /\ t[k].s = n /\ (t[k].ended <=> d = 1) /\ (d # 1 => t[k].p = r0[Len(r0) - (d - 2)])
          /\ Linked(n, c) /\ SameTail(n.q[SleepQ], r0, d - 1)
          /\ Did(w.s, n, IfDue(w.p), {}, {}, {}) /\ n.gl = w.s.gl /\ Carries(w.s, n, c, {})
      BY <3>13 DEF HasTurned
    <3> HIDE DEF n
    <3>8. Did(s, n, D(k), {}, {}, {})
      <4>1. Did(s, n, D(k - 1) \cup IfDue(x), {} \cup {}, {} \cup {}, {} \cup {})
        BY <3>3, <3>7, DidThen
      <4>2. {} \cup {} = {}
        OBVIOUS
      <4> QED BY <3>5, <4>1, <4>2
    <3>9. Carries(s, n, c, {})
      BY <3>3, <3>7, CarriesThen
    <3>10. k \in 0 .. m
      BY <1>1
    <3>11. (t[k].ended <=> k = m) /\ (k # m => t[k].p = r0[k + 1]) /\ SameTail(n.q[SleepQ], r0, m - k)
      BY <3>2, <3>7
    <3> QED BY <3>3, <3>7, <3>8, <3>9, <3>10, <3>11
  <2>8. m \in T
    <3> HIDE DEF T
    <3>1. \A k \in 0 .. m : k \in T
      BY <1>1, <2>6, <2>7, TurnInduction
    <3> QED BY <1>1, <3>1
  <2>9. Good(m)
    BY <2>8
  <2>10. CheckSleeping(s, c) = t[m].s
    BY <2>1, <2>5, <2>9 DEF After
  <2>11. D(m) = DueSleepers(s)
    <3>1. /\ \A i \in 1 .. m : r0[i] \in ToSet(r0)
          /\ \A x \in ToSet(r0) : \E i \in 1 .. m : r0[i] = x
      BY <1>1, MembersAre DEF m
    <3> QED BY <3>1 DEF DueSleepers, r0
  <2> HIDE DEF D
  <2> QED BY <2>9, <2>10, <2>11
<1> QED BY <1>2, <1>3
-----------------------------------------------------------------------------
(* do_kill() and start_glush().                                              *)

\* A set of numbers has a least one.
LEMMA LeastIs ==
  ASSUME NEW S, S \subseteq Nat, S # {}
  PROVE  \E x \in S : \A y \in S : x <= y
<1> DEFINE T == {n \in Nat : \A x \in S : n <= x}
<1> SUFFICES ASSUME \A x \in S : \E y \in S : ~(x <= y) PROVE FALSE
  OBVIOUS
<1>1. 0 \in T
  OBVIOUS
<1>2. ASSUME NEW k \in Nat, k \in T PROVE k + 1 \in T
  <2>1. k \notin S
    BY <1>2
  <2>2. \A x \in S : x \in Nat /\ k <= x /\ x # k
    BY <1>2, <2>1
  <2>3. \A x \in S : k + 1 <= x
    BY <2>2
  <2> QED BY <2>3
<1>3. Nat \subseteq T
  <2> HIDE DEF T
  <2> QED BY <1>1, <1>2, NatSetInduction
<1>4. PICK x \in S : x \in Nat
  OBVIOUS
<1>5. x + 1 \in T
  BY <1>3, <1>4
<1> QED BY <1>4, <1>5

\* alloc_pid() finds a PID when there is one.
LEMMA AllocPidIs ==
  ASSUME NEW s, FreePids(s) # {}
  PROVE  /\ AllocPid(s) \in FreePids(s) /\ AllocPid(s) \in NCPU .. PidMax /\ AllocPid(s) \in Pid
         /\ <<AllocPid(s), 0>> \in Thread
         /\ \A t \in Thread : t[1] = AllocPid(s) => s.st[t] = "FREE"
<1>1. FreePids(s) \subseteq Nat
  BY ConstantsAssumption DEF FreePids
<1>2. AllocPid(s) \in FreePids(s)
  BY <1>1, LeastIs DEF AllocPid
<1>3. AllocPid(s) \in NCPU .. PidMax /\ Farr(s, AllocPid(s)) = {}
  BY <1>2 DEF FreePids
<1> DEFINE p == AllocPid(s)
<1> HIDE DEF p
<1>4. p \in Pid /\ 0 \in 0 .. TidMax
  BY <1>3, ConstantsAssumption DEF Pid, p
<1>5. <<p, 0>> \in Thread
  BY <1>4 DEF Thread
<1>6. \A t \in Thread : t[1] = p => s.st[t] = "FREE"
  BY <1>3 DEF Farr, p
<1> QED BY <1>2, <1>3, <1>4, <1>5, <1>6 DEF p

\* A new value of pid_glush
LEMMA GlushIs ==
  ASSUME NEW s, NEW c, Linked(s, c), NEW g \in (NCPU .. PidMax) \cup {NoPid}
  PROVE  LET n == [s EXCEPT !.gl = g] IN
         /\ Linked(n, c) /\ n.cur = s.cur /\ n.gl = g /\ n.mk = s.mk /\ n.q = s.q /\ n.st = s.st
         /\ \A u \in Thread : Home(n, u) = Home(s, u)
<1> DEFINE n == [s EXCEPT !.gl = g]
<1>1. s \in SchedState /\ ~s.panic /\ c \in CPU
  BY LinkedIs
<1>2. n.cur = s.cur /\ n.gl = g /\ n.mk = s.mk /\ n.q = s.q /\ n.st = s.st /\ n.panic = s.panic
      /\ n \in SchedState
  BY <1>1 DEF SchedState
<1> HIDE DEF n
<1>3. \A u \in Thread : Home(n, u) = Home(s, u)
  BY <1>2 DEF Home
<1>4. Linked(n, c)
  BY <1>1, <1>2, <1>3 DEF Linked
<1> QED BY <1>2, <1>3, <1>4 DEF n

\* What becomes of the shell between states a and s, when the threads F are freed and A are
\* created: it lives on, or it has died and could not be started again, or it has been.
Room(a, F) == Cardinality({t \in Thread : a.st[t] # "FREE"} \ F) < PcbMax
Gone(a, F, p) == \A t \in Thread : t[1] = p => a.st[t] = "FREE" \/ t \in F
ShellLives(s) == s.gl # NoPid => \E t \in Thread : t[1] = s.gl /\ s.st[t] # "FREE"
Shell(a, s, F, A) ==
  \/ A = {} /\ s.gl = a.gl /\ ShellLives(s)
  \/ a.gl # NoPid /\ Gone(a, F, a.gl) /\ A = {} /\ s.gl = NoPid
  \/ /\ a.gl # NoPid /\ Gone(a, F, a.gl) /\ s.gl \in NCPU .. PidMax /\ A = {<<s.gl, 0>>}
     /\ Gone(a, F, s.gl) /\ Room(a, F)

\* With a PCB more in the ring the walk takes a step more.
CarriesOne(s, n, c, K) ==
  \A x, p \in Thread \ K : \A m \in Nat :
    Ahead(s.q[ReadyQ], s.cur[c], x, p, m) => Ahead(n.q[ReadyQ], n.cur[c], x, p, m + 1)

\* A walk that is not longer is at most one step longer.
LEMMA CarriesMore ==
  ASSUME NEW s, NEW n, NEW c, NEW K, Linked(n, c), Carries(s, n, c, K)
  PROVE  CarriesOne(s, n, c, K)
<1> SUFFICES ASSUME NEW x \in Thread \ K, NEW y \in Thread \ K, NEW m \in Nat,
                    Ahead(s.q[ReadyQ], s.cur[c], x, y, m)
             PROVE  Ahead(n.q[ReadyQ], n.cur[c], x, y, m + 1)
  BY DEF CarriesOne
<1>1. Ahead(n.q[ReadyQ], n.cur[c], x, y, m)
  BY DEF Carries
<1>2. n.q[ReadyQ] \in Ring
  BY QueuesAre, LinkedIs
<1>3. y \in ToSet(n.q[ReadyQ]) /\ n.cur[c] \in ToSet(n.q[ReadyQ])
  BY <1>1 DEF Ahead
<1>4. Left(n.q[ReadyQ], n.cur[c], y) \in 0 .. Len(n.q[ReadyQ]) - 1 /\ Len(n.q[ReadyQ]) \in Nat
  BY <1>2, <1>3, LeftIs, RingIs
<1>5. Left(n.q[ReadyQ], n.cur[c], y) <= m => Left(n.q[ReadyQ], n.cur[c], y) <= m + 1
  BY <1>4
<1> QED BY <1>1, <1>5 DEF Ahead

\* start_glush() for a shell that has died
LEMMA StartGlushIs ==
  ASSUME NEW s, NEW c, Linked(s, c), NEW ok, s.gl # NoPid, Gone(s, {}, s.gl)
  PROVE  LET n == StartGlush(s, ok) IN
         Linked(n, c) /\ \E A : /\ Did(s, n, {}, {}, {}, A) /\ Shell(s, n, {}, A)
                                /\ A = {} => Carries(s, n, c, {})
                                /\ CarriesOne(s, n, c, {})
<1>1. CASE ok /\ HasRoom(s) /\ FreePids(s) # {}
  <2>1. PICK p, t : p = AllocPid(s) /\ t = <<p, 0>>
    OBVIOUS
  <2>2. /\ t \in Thread /\ p \in NCPU .. PidMax /\ \A u \in Thread : u[1] = p => s.st[u] = "FREE"
        /\ s.st[t] = "FREE" /\ p \in (NCPU .. PidMax) \cup {NoPid} /\ t[1] = p
    BY <1>1, <2>1, AllocPidIs
  <2> DEFINE a == AddThread(s, t, CPU)
             n == [a EXCEPT !.gl = p]
  <2>3. StartGlush(s, ok) = n
    BY <1>1, <2>1 DEF StartGlush
  <2>4. CPU \in SUBSET CPU
    OBVIOUS
  <2>5. /\ Linked(a, c) /\ a.cur = s.cur /\ a.gl = s.gl /\ a.q[ReadyQ] = Append(s.q[ReadyQ], t)
        /\ t \notin ToSet(s.q[ReadyQ])
        /\ a.st[t] = "READY" /\ Home(a, t) = ReadyQ /\ a.mk[t] = CPU
        /\ \A u \in Thread \ {t} :
             a.st[u] = s.st[u] /\ Home(a, u) = Home(s, u) /\ a.mk[u] = s.mk[u]
    BY <2>2, <2>4, AddThreadIs
  <2> HIDE DEF a
  <2>6. /\ Linked(n, c) /\ n.cur = a.cur /\ n.gl = p /\ n.mk = a.mk /\ n.q = a.q /\ n.st = a.st
        /\ \A u \in Thread : Home(n, u) = Home(a, u)
    BY <2>2, <2>5, GlushIs
  <2> HIDE DEF n
  <2>7. Up(s, {}, {}) = {}
    BY DEF Up
  <2>8. Did(s, n, {}, {}, {}, {t})
    BY <2>2, <2>5, <2>6, <2>7 DEF Did
  <2>9. Room(s, {})
    BY <1>1 DEF Room, HasRoom, Used
  <2>10. Gone(s, {}, p)
    BY <2>2 DEF Gone
  <2>11. Shell(s, n, {}, {t})
    BY <2>1, <2>2, <2>6, <2>9, <2>10 DEF Shell
  <2>12. CarriesOne(s, n, c, {})
    <3>1. s.q[ReadyQ] \in Ring
      BY QueuesAre, LinkedIs
    <3> SUFFICES ASSUME NEW x \in Thread, NEW y \in Thread, NEW m \in Nat,
                        Ahead(s.q[ReadyQ], s.cur[c], x, y, m)
                 PROVE  Ahead(n.q[ReadyQ], n.cur[c], x, y, m + 1)
      BY DEF CarriesOne
    <3>2. Ahead(Append(s.q[ReadyQ], t), s.cur[c], x, y, m + 1)
      BY <2>2, <2>5, <3>1, AheadApp
    <3> QED BY <2>5, <2>6, <3>2
  <2> QED BY <2>3, <2>6, <2>8, <2>11, <2>12
<1>2. CASE ~(ok /\ HasRoom(s) /\ FreePids(s) # {})
  <2> DEFINE n == [s EXCEPT !.gl = NoPid]
  <2>1. StartGlush(s, ok) = n
    BY <1>2 DEF StartGlush
  <2>2. NoPid \in (NCPU .. PidMax) \cup {NoPid}
    OBVIOUS
  <2>3. /\ Linked(n, c) /\ n.cur = s.cur /\ n.gl = NoPid /\ n.mk = s.mk /\ n.q = s.q /\ n.st = s.st
        /\ \A u \in Thread : Home(n, u) = Home(s, u)
    BY <2>2, GlushIs
  <2> HIDE DEF n
  <2>4. Up(s, {}, {}) = {}
    BY DEF Up
  <2>5. Did(s, n, {}, {}, {}, {})
    BY <2>3, <2>4 DEF Did
  <2>6. Shell(s, n, {}, {})
    BY <2>3 DEF Shell
  <2>7. Carries(s, n, c, {})
    BY <2>3 DEF Carries
  <2>8. CarriesOne(s, n, c, {})
    BY <2>3, <2>7, CarriesMore
  <2> QED BY <2>1, <2>3, <2>5, <2>6, <2>7, <2>8
<1> QED BY <1>1, <1>2

\* What do_kill() of process p makes of s.
Kills(s, n, c, p, R, A) ==
  /\ Linked(n, c) /\ Did(s, n, R, Frees(s, p), Tells(s, p), A)
  /\ \A t \in R : Home(s, t) \in ResQs
  /\ Shell(s, n, Frees(s, p), A)
  /\ A = {} => Carries(s, n, c, Frees(s, p))
  /\ CarriesOne(s, n, c, Frees(s, p))

\* do_kill() of a process that CPU c does not run
LEMMA DoKillIs ==
  ASSUME NEW s, NEW c, Linked(s, c), NEW p \in Pid, s.cur[c] \notin Frees(s, p), ShellLives(s),
         NEW o \in Oracle
  PROVE  \E R, A : Kills(s, DoKill(s, c, p, o), c, p, R, A)
<1> DEFINE F == Frees(s, p)
           E == Tells(s, p)
           s1 == KillThreads(s, c, p)
           s2 == ReleaseKilled(s1, c, o.killed[p])
<1>1. Linked(s1, c) /\ Did(s, s1, {}, F, E, {}) /\ s1.gl = s.gl /\ Carries(s, s1, c, F)
  BY KillThreadsIs
<1>2. \A t \in F : t[1] = p
  BY DEF Frees
<1> HIDE DEF s1, F, E
<1>3. \A t \in Thread : s.st[t] # "FREE" => s1.st[t] # "FREE" \/ t \in F
  BY <1>1 DEF Did
<1>4. CASE Farr(s1, p) # {}
  <2>1. DoKill(s, c, p, o) = s1
    BY <1>4 DEF DoKill, s1
  <2>2. ShellLives(s1)
    <3>1. CASE s.gl = p
      BY <1>1, <1>4, <3>1 DEF ShellLives, Farr
    <3>2. CASE s.gl # p
      BY <1>1, <1>2, <1>3, <3>2 DEF ShellLives
    <3> QED BY <3>1, <3>2
  <2>3. Shell(s, s1, F, {})
    BY <1>1, <2>2 DEF Shell
  <2>4. CarriesOne(s, s1, c, F)
    BY <1>1, CarriesMore
  <2>5. Kills(s, s1, c, p, {}, {})
    BY <1>1, <2>3, <2>4 DEF Kills, F, E
  <2> QED BY <2>1, <2>5
<1>5. CASE Farr(s1, p) = {}
  <2>1. /\ Linked(s2, c) /\ s2.gl = s1.gl /\ Carries(s1, s2, c, {})
        /\ \E R : Did(s1, s2, R, {}, {}, {}) /\ \A t \in R : Home(s1, t) \in ResQs
    <3>1. Resource \ Nic \in SUBSET Resource
      OBVIOUS
    <3>2. s2 = Releases(s1, c, o.killed[p], SetToSeq(Resource \ Nic))
      BY DEF s2, ReleaseKilled, Releases
    <3>3. o.killed[p] \in [Resource \ Nic -> Wakes]
      BY DEF Oracle, LetGo
    <3> HIDE DEF s2
    <3> QED BY <1>1, <3>1, <3>2, <3>3, ReleasesIs
  <2>2. DoKill(s, c, p, o) = IF p = s2.gl THEN StartGlush(s2, o.glush) ELSE s2
    BY <1>5 DEF DoKill, s1, s2
  <2> HIDE DEF s2
  <2>3. PICK R : Did(s1, s2, R, {}, {}, {}) /\ \A t \in R : Home(s1, t) \in ResQs
    BY <2>1
  <2>4. Did(s, s2, R, F, E, {})
    <3>1. Did(s, s2, {} \cup R, F \cup {}, E \cup {}, {} \cup {})
      BY <1>1, <2>1, <2>3, DidThen
    <3>2. {} \cup R = R /\ F \cup {} = F /\ E \cup {} = E /\ {} \cup {} = {}
      OBVIOUS
    <3> QED BY <3>1, <3>2
  <2>5. \A t \in R : Home(s, t) \in ResQs
    <3>1. NoQ \notin ResQs /\ ReadyQ \notin ResQs
      BY QueuesAre DEF ResQs
    <3>2. R \subseteq Thread
      BY <2>3 DEF Did
    <3>3. \A t \in Thread : Home(s1, t) \in {NoQ, ReadyQ, Home(s, t)}
      BY <1>1 DEF Did
    <3> QED BY <2>3, <3>1, <3>2, <3>3
  <2>6. Carries(s, s2, c, F)
    BY <1>1, <2>1, CarriesThen
  <2>7. \A t \in Thread : s2.st[t] = "FREE" <=> s.st[t] = "FREE" \/ t \in F
    <3>1. \A t \in Thread : s.st[t] = "FREE" => s1.st[t] = "FREE"
      <4>1. \A t \in Thread : s.st[t] = "FREE" => Home(s, t) = NoQ
        BY LinkedIs
      <4>2. F \subseteq Thread
        BY <1>1 DEF Did
      <4>3. \A k \in F : WaitQ(k) # NoQ
        BY <4>2, QueuesAre
      <4>4. \A t \in Thread : s.st[t] = "FREE" => t \notin Up(s, {}, F)
        BY <4>1, <4>3 DEF Up
      <4>5. \A t \in E : s.st[t] # "FREE"
        BY DEF E, Tells, OnCpu
      <4> QED BY <1>1, <4>4, <4>5 DEF Did
    <3>2. \A t \in F : s1.st[t] = "FREE"
      BY <1>1 DEF Did
    <3>3. \A t \in Thread : s2.st[t] = "FREE" <=> s1.st[t] = "FREE"
      <4>1. \A t \in R : s1.st[t] = "SLEEPING"
        BY <2>3 DEF Did
      <4> QED BY <2>3, <4>1 DEF Did, Up
    <3> QED BY <1>1, <1>3, <3>1, <3>2, <3>3 DEF Did
  <2>8. CASE p # s2.gl
    <3>1. ShellLives(s2)
      BY <1>1, <1>2, <2>1, <2>7, <2>8 DEF ShellLives
    <3>2. Shell(s, s2, F, {})
      BY <1>1, <2>1, <3>1 DEF Shell
    <3>3. CarriesOne(s, s2, c, F)
      BY <2>1, <2>6, CarriesMore
    <3>4. Kills(s, s2, c, p, R, {})
      BY <2>1, <2>4, <2>5, <2>6, <3>2, <3>3 DEF Kills, F, E
    <3> QED BY <2>2, <2>8, <3>4
  <2>9. CASE p = s2.gl
    <3> DEFINE n == StartGlush(s2, o.glush)
    <3>1. Gone(s, F, p)
      BY <1>3, <1>5 DEF Gone, Farr
    <3>2. Gone(s2, {}, s2.gl)
      BY <2>7, <2>9, <3>1 DEF Gone
    <3>3. s2.gl # NoPid
      BY <2>9, ConstantsAssumption DEF Pid, NoPid
    <3>4. PICK A : Linked(n, c) /\ Did(s2, n, {}, {}, {}, A) /\ Shell(s2, n, {}, A)
                   /\ (A = {} => Carries(s2, n, c, {})) /\ CarriesOne(s2, n, c, {})
      BY <2>1, <3>2, <3>3, StartGlushIs
    <3>5. DoKill(s, c, p, o) = n
      BY <2>2, <2>9
    <3> HIDE DEF n
    <3>6. Did(s, n, R, F, E, A)
      <4>1. Did(s, n, R \cup {}, F \cup {}, E \cup {}, {} \cup A)
        BY <2>1, <2>4, <3>4, DidThen
      <4>2. R \cup {} = R /\ F \cup {} = F /\ E \cup {} = E /\ {} \cup A = A
        OBVIOUS
      <4> QED BY <4>1, <4>2
    <3>7. Shell(s, n, F, A)
      <4>1. \A g : Gone(s2, {}, g) => Gone(s, F, g)
        BY <2>7 DEF Gone
      <4>2. {t \in Thread : s2.st[t] # "FREE"} \ {} = {t \in Thread : s.st[t] # "FREE"} \ F
        BY <2>7
      <4>3. Room(s2, {}) => Room(s, F)
        BY <4>2 DEF Room
      <4>4. s2.gl = s.gl
        BY <1>1, <2>1
      <4> QED BY <3>4, <4>1, <4>3, <4>4 DEF Shell
    <3>8. A = {} => Carries(s, n, c, F)
      BY <2>6, <3>4, CarriesThen
    <3>9. CarriesOne(s, n, c, F)
      BY <2>6, <3>4 DEF Carries, CarriesOne
    <3>10. Kills(s, n, c, p, R, A)
      BY <2>5, <3>4, <3>6, <3>7, <3>8, <3>9 DEF Kills, F, E
    <3> QED BY <3>5, <3>10
  <2> QED BY <2>8, <2>9
<1> QED BY <1>4, <1>5
-----------------------------------------------------------------------------
(* The scan of do_scheduler().                                               *)

\* The state a in which CPU c calls do_scheduler()
ScanPre(a, c) ==
  /\ Linked(a, c) /\ ShellLives(a)
  /\ a.st[a.cur[c]] \in {"RUNNING", "EXITED", "ZOMBIE"}
  /\ \A t, u \in Thread :
       t[1] = u[1] /\ t # u /\ a.st[t] = "EXITED" => a.st[u] \in {"FREE", "EXITING"}
  /\ \A t \in Thread : a.st[t] = "ZOMBIE" => t[2] # 0 /\ a.st[<<t[1], 0>>] # "FREE"
  /\ Idle(c) \in Thread
  /\ a.cur[c] = Idle(c) \/ (a.st[Idle(c)] = "READY" /\ c \in a.mk[Idle(c)])
Corpses(a, c, x) == {t \in Thread : a.st[t] = x /\ t # a.cur[c]}
\* State s has been made of a: those that were due and the sleepers R on resources were woken,
\* the ZOMBIEs Z and the EXITED threads X were freed, A were created.
Reaping(a, s, c, R, Z, X, A) ==
  /\ Z \subseteq Corpses(a, c, "ZOMBIE") /\ X \subseteq Corpses(a, c, "EXITED")
  /\ \A t \in R : Home(a, t) \in ResQs
  /\ Did(a, s, DueSleepers(a) \cup R, Z \cup X, {}, A) /\ Shell(a, s, Z \cup X, A)

\* What is left of the table
LEMMA ReapingIs ==
  ASSUME NEW a, NEW c, Linked(a, c), NEW s, NEW R, NEW Z, NEW X, NEW A, Reaping(a, s, c, R, Z, X, A)
  PROVE  /\ s.cur = a.cur /\ Z \subseteq Thread /\ X \subseteq Thread /\ A \subseteq Thread
         /\ \A u \in Thread :
              /\ Home(s, u) \in {NoQ, ReadyQ, Home(a, u)}
              /\ s.st[u] = "FREE" <=> u \notin A /\ (a.st[u] = "FREE" \/ u \in Z \cup X)
              /\ s.st[u] \notin {"FREE", "READY", "SLEEPING"} =>
                   s.st[u] = a.st[u] /\ u \notin Z \cup X \cup A
              /\ a.st[u] \notin {"FREE", "SLEEPING"} /\ u \notin Z \cup X \cup A => s.st[u] = a.st[u]
<1> DEFINE D == DueSleepers(a) \cup R
           F == Z \cup X
<1>1. Did(a, s, D, F, {}, A)
  BY DEF Reaping
<1>2. Z \subseteq Thread /\ X \subseteq Thread /\ F = Z \cup X
  BY DEF Reaping, Corpses
<1> HIDE DEF D, F
<1>3. \A u \in Up(a, D, F) : a.st[u] = "SLEEPING"
  <2>1. \A k \in F : k \in Thread /\ WaitQ(k) \notin {NoQ, ReadyQ}
    BY <1>2, QueuesAre
  <2>2. \A u \in Thread : a.st[u] = "SLEEPING" <=> Home(a, u) \notin {NoQ, ReadyQ}
    BY LinkedIs
  <2>3. \A u \in D : a.st[u] = "SLEEPING"
    BY <1>1 DEF Did
  <2> QED BY <2>1, <2>2, <2>3 DEF Up
<1>4. \A u \in Thread : Home(s, u) \in {NoQ, ReadyQ, Home(a, u)}
  BY <1>1 DEF Did
<1>5. \A u \in Thread :
        s.st[u] = IF u \in A THEN "READY" ELSE IF u \in F THEN "FREE"
                  ELSE IF u \in Up(a, D, F) THEN "READY" ELSE a.st[u]
  BY <1>1 DEF Did
<1>6. s.cur = a.cur /\ A \subseteq Thread
  BY <1>1 DEF Did
<1>7. \A u \in Thread :
        /\ s.st[u] = "FREE" <=> u \notin A /\ (a.st[u] = "FREE" \/ u \in F)
        /\ s.st[u] \notin {"FREE", "READY", "SLEEPING"} => s.st[u] = a.st[u] /\ u \notin F \cup A
        /\ a.st[u] \notin {"FREE", "SLEEPING"} /\ u \notin F \cup A => s.st[u] = a.st[u]
  BY <1>3, <1>5
<1> QED BY <1>2, <1>4, <1>6, <1>7

\* Threads told to exit that were told before
LEMMA DidTell ==
  ASSUME NEW s, NEW n, NEW c, Linked(s, c), NEW R, NEW F, NEW E, NEW A, Did(s, n, R, F, E, A),
         \A t \in E : s.st[t] = "EXITING"
  PROVE  Did(s, n, R, F, {}, A)
<1>1. \A u \in Up(s, R, F) : s.st[u] = "SLEEPING"
  <2>1. \A k \in F : k \in Thread /\ WaitQ(k) \notin {NoQ, ReadyQ}
    BY QueuesAre DEF Did
  <2>2. \A u \in Thread : s.st[u] = "SLEEPING" <=> Home(s, u) \notin {NoQ, ReadyQ}
    BY LinkedIs
  <2>3. \A u \in R : s.st[u] = "SLEEPING"
    BY DEF Did
  <2> QED BY <2>1, <2>2, <2>3 DEF Up
<1>2. \A t \in E : t \notin Up(s, R, F)
  BY <1>1
<1> QED BY <1>2 DEF Did

\* The table has fewer PCBs when more have been freed.
LEMMA RoomMore ==
  ASSUME NEW a, NEW F, NEW G, F \subseteq G, Room(a, F)
  PROVE  Room(a, G)
<1> DEFINE B == {t \in Thread : a.st[t] # "FREE"}
<1>1. IsFiniteSet(B)
  <2>1. IsFiniteSet(Pid) /\ IsFiniteSet(0 .. TidMax)
    BY FS_Interval, ConstantsAssumption DEF Pid
  <2>2. IsFiniteSet(Thread)
    BY <2>1, FS_Product DEF Thread
  <2> QED BY <2>2, FS_Subset
<1> HIDE DEF B
<1>2. IsFiniteSet(B \ F) /\ B \ G \subseteq B \ F
  BY <1>1, FS_Subset
<1>3. Cardinality(B \ G) \in Nat /\ Cardinality(B \ F) \in Nat /\ Cardinality(B \ G) <= Cardinality(B \ F)
  BY <1>2, FS_Subset, FS_CardinalityType
<1> QED BY <1>3, ConstantsAssumption DEF Room, B

\* A ZOMBIE is reaped: its process lives on.
LEMMA ZombieTurn ==
  ASSUME NEW a, NEW c, ScanPre(a, c), NEW s, Linked(s, c), NEW R, NEW Z, NEW X, NEW A,
         Reaping(a, s, c, R, Z, X, A), NEW p \in Thread, p # a.cur[c], s.st[p] = "ZOMBIE"
  PROVE  LET n == ThreadKill(s, c, p) IN
         Linked(n, c) /\ Reaping(a, n, c, R, Z \cup {p}, X, A) /\ Carries(s, n, c, {p})
<1> DEFINE n == ThreadKill(s, c, p)
           D == DueSleepers(a) \cup R
           F == Z \cup X
           G == (Z \cup {p}) \cup X
<1>1. Linked(a, c)
  BY DEF ScanPre
<1>2. /\ s.cur = a.cur /\ a.st[p] = "ZOMBIE" /\ p \notin F /\ p \notin A
      /\ \A u \in Thread : s.st[u] = "FREE" <=> u \notin A /\ (a.st[u] = "FREE" \/ u \in F)
  BY <1>1, ReapingIs
<1>3. Linked(n, c) /\ Did(s, n, {}, {p}, {}, {}) /\ n.gl = s.gl /\ Carries(s, n, c, {p})
  BY <1>2, ThreadKillIs
<1> HIDE DEF n
<1>4. Did(a, n, D, G, {}, A)
  <2>1. Did(a, s, D, F, {}, A)
    BY DEF Reaping
  <2>2. {p} \cap A = {}
    BY <1>2
  <2>3. Did(a, n, D \cup {}, F \cup {p}, {} \cup {}, A \cup {})
    BY <1>1, <1>3, <2>1, <2>2, DidThen
  <2>4. D \cup {} = D /\ F \cup {p} = G /\ {} \cup {} = {} /\ A \cup {} = A
    OBVIOUS
  <2> QED BY <2>3, <2>4
<1>5. Shell(a, n, G, A)
  <2>1. Shell(a, s, F, A) /\ F \subseteq G
    BY DEF Reaping
  <2>2. \A g : Gone(a, F, g) => Gone(a, G, g)
    BY DEF Gone
  <2>3. Room(a, F) => Room(a, G)
    BY <2>1, RoomMore
  <2>4. CASE A = {} /\ s.gl = a.gl /\ ShellLives(s)
    <3>1. ASSUME s.gl # NoPid PROVE \E t \in Thread : t[1] = s.gl /\ n.st[t] # "FREE"
      <4>1. PICK t \in Thread : t[1] = s.gl /\ s.st[t] # "FREE"
        BY <2>4, <3>1 DEF ShellLives
      <4>2. CASE t # p
        <5>1. n.st[t] # "FREE"
          BY <1>3, <4>1, <4>2 DEF Did
        <5> QED BY <4>1, <5>1
      <4>3. CASE t = p
        <5>1. PICK m : m = <<p[1], 0>>
          OBVIOUS
        <5>2. p[2] # 0 /\ a.st[m] # "FREE"
          BY <1>2, <5>1 DEF ScanPre
        <5>3. m \in Thread /\ m # p /\ m[1] = p[1] /\ m[2] = 0
          BY <5>1, <5>2, ConstantsAssumption DEF Thread
        <5>4. a.st[m] # "ZOMBIE"
          BY <5>3 DEF ScanPre
        <5>5. a.st[m] # "EXITED"
          <6>1. a.st[m] = "EXITED" => a.st[p] \in {"FREE", "EXITING"}
            BY <5>3 DEF ScanPre
          <6> QED BY <1>2, <6>1
        <5>6. m \notin F
          BY <5>4, <5>5 DEF Reaping, Corpses
        <5>7. s.st[m] # "FREE"
          BY <1>2, <5>2, <5>3, <5>6
        <5>8. n.st[m] # "FREE"
          BY <1>3, <5>3, <5>7 DEF Did
        <5> QED BY <4>1, <4>3, <5>3, <5>8
      <4> QED BY <4>2, <4>3
    <3> QED BY <1>3, <2>4, <3>1 DEF Shell, ShellLives
  <2>5. CASE ~(A = {} /\ s.gl = a.gl /\ ShellLives(s))
    BY <1>3, <2>1, <2>2, <2>3, <2>5 DEF Shell
  <2> QED BY <2>4, <2>5
<1>6. Z \cup {p} \subseteq Corpses(a, c, "ZOMBIE")
  BY <1>2 DEF Reaping, Corpses
<1>7. Reaping(a, n, c, R, Z \cup {p}, X, A)
  BY <1>4, <1>5, <1>6 DEF Reaping
<1> QED BY <1>3, <1>7 DEF n

\* F are gone and A are new.
Leaves(a, s, F, A) ==
  /\ A \subseteq Thread /\ \A u \in A : s.st[u] = "READY"
  /\ \A u \in Thread : s.st[u] = "FREE" <=> u \notin A /\ (a.st[u] = "FREE" \/ u \in F)

\* What becomes of the shell when the scan frees p, an EXITED thread and the last of its process
LEMMA ShellThen ==
  ASSUME NEW a, NEW s, NEW n, NEW F, NEW A, NEW B, NEW p \in Thread, Shell(a, s, F, A), Shell(s, n, {p}, B),
         s.st[p] = "EXITED", Leaves(a, s, F, A)
  PROVE  Shell(a, n, F \cup {p}, A \cup B) /\ (A = {} \/ B = {})
<1> DEFINE G == F \cup {p}
<1> USE DEF Leaves
<1>1. F \subseteq G
  OBVIOUS
<1>2. \A g : Gone(a, F, g) => Gone(a, G, g)
  BY DEF Gone
<1>3. Room(a, F) => Room(a, G)
  BY <1>1, RoomMore
<1>4. \A g : A = {} /\ Gone(s, {p}, g) => Gone(a, G, g)
  BY DEF Gone
<1>5. A = {} /\ Room(s, {p}) => Room(a, G)
  <2> SUFFICES ASSUME A = {}, Room(s, {p}) PROVE Room(a, G)
    OBVIOUS
  <2>1. {t \in Thread : s.st[t] # "FREE"} \ {p} = {t \in Thread : a.st[t] # "FREE"} \ G
    OBVIOUS
  <2> QED BY <2>1 DEF Room
<1> HIDE DEF G
<1>6. CASE A = {}
  <2>1. A \cup B = B
    BY <1>6
  <2>2. Shell(a, n, G, B)
    BY <1>2, <1>3, <1>4, <1>5, <1>6 DEF Shell
  <2> QED BY <1>6, <2>1, <2>2 DEF G
<1>7. CASE A # {}
  <2>1. /\ a.gl # NoPid /\ Gone(a, F, a.gl) /\ s.gl \in NCPU .. PidMax /\ A = {<<s.gl, 0>>}
        /\ Gone(a, F, s.gl) /\ Room(a, F)
    BY <1>7 DEF Shell
  <2>2. ~Gone(s, {p}, s.gl)
    <3>1. PICK t : t = <<s.gl, 0>>
      OBVIOUS
    <3>2. t \in A /\ t[1] = s.gl
      BY <2>1, <3>1
    <3> QED BY <3>2 DEF Gone
  <2>3. B = {} /\ n.gl = s.gl
    BY <2>2 DEF Shell
  <2>4. A \cup B = A
    BY <2>3
  <2>5. Shell(a, n, G, A)
    BY <1>2, <1>3, <2>1, <2>3 DEF Shell
  <2> QED BY <2>3, <2>4, <2>5 DEF G
<1> QED BY <1>6, <1>7

\* A shell that a walk starts is one step more of the walk.
Grows(s, n, c, p, A, B) ==
  \/ B = {} /\ Carries(s, n, c, {p})
  \/ A = {} /\ B # {} /\ CarriesOne(s, n, c, {p})

\* The process of an EXITED thread is killed: nothing is left of it but threads that other
\* CPUs run, and that were told to exit before.
LEMMA ExitedTurn ==
  ASSUME NEW a, NEW c, ScanPre(a, c), NEW s, Linked(s, c), NEW R, NEW Z, NEW X, NEW A,
         Reaping(a, s, c, R, Z, X, A), NEW p \in Thread, p # a.cur[c], s.st[p] = "EXITED",
         NEW o \in Oracle
  PROVE  LET n == DoKill(s, c, p[1], o) IN
         /\ p[1] # a.cur[c][1] /\ Linked(n, c)
         /\ \E Q, B : Reaping(a, n, c, Q, Z, X \cup {p}, A \cup B) /\ Grows(s, n, c, p, A, B)
<1> DEFINE n == DoKill(s, c, p[1], o)
           D == DueSleepers(a) \cup R
           F == Z \cup X
           G == Z \cup (X \cup {p})
<1>1. Linked(a, c)
  BY DEF ScanPre
<1>2. /\ s.cur = a.cur /\ a.st[p] = "EXITED" /\ p \notin F /\ p \notin A
      /\ \A u \in Thread :
           /\ s.st[u] = "FREE" <=> u \notin A /\ (a.st[u] = "FREE" \/ u \in F)
           /\ s.st[u] \notin {"FREE", "READY", "SLEEPING"} => s.st[u] = a.st[u]
           /\ a.st[u] \notin {"FREE", "SLEEPING"} /\ u \notin Z \cup X \cup A => s.st[u] = a.st[u]
  BY <1>1, ReapingIs
<1>3. \A u \in Thread : u[1] = p[1] /\ u # p => a.st[u] \in {"FREE", "EXITING"}
  BY <1>2 DEF ScanPre
<1>4. Did(a, s, D, F, {}, A) /\ Shell(a, s, F, A)
  BY DEF Reaping
<1>5. \A u \in A : u \in Thread /\ s.st[u] = "READY"
  BY <1>4 DEF Did
<1>6. \A u \in A : u[1] # p[1]
  <2>1. \A u \in A : Gone(a, F, u[1])
    BY <1>4 DEF Shell
  <2>2. ~Gone(a, F, p[1])
    BY <1>2 DEF Gone
  <2> QED BY <2>1, <2>2
<1>7. \A u \in Thread : u[1] = p[1] /\ u # p => s.st[u] \in {"FREE", "EXITING"}
  <2> SUFFICES ASSUME NEW u \in Thread, u[1] = p[1], u # p
               PROVE  s.st[u] \in {"FREE", "EXITING"}
    OBVIOUS
  <2>1. u \notin A
    BY <1>6
  <2>2. a.st[u] \in {"FREE", "EXITING"}
    BY <1>3
  <2>3. CASE a.st[u] = "FREE" \/ u \in F
    BY <1>2, <2>1, <2>3
  <2>4. CASE a.st[u] = "EXITING" /\ u \notin F
    BY <1>2, <2>1, <2>4
  <2> QED BY <2>2, <2>3, <2>4
<1>8. p[1] # a.cur[c][1] /\ s.cur[c] # p
  <2>1. a.cur[c] \in Thread
    BY <1>1, LinkedIs
  <2>2. a.st[a.cur[c]] \notin {"FREE", "EXITING"}
    BY DEF ScanPre
  <2> QED BY <1>2, <1>3, <2>1, <2>2
<1>9. Frees(s, p[1]) = {p}
  <2>1. p \in Frees(s, p[1])
    BY DEF Frees, OnCpu
  <2>2. \A u \in Frees(s, p[1]) : u = p
    BY <1>7 DEF Frees, OnCpu
  <2> QED BY <2>1, <2>2
<1>10. \A u \in Tells(s, p[1]) : s.st[u] = "EXITING"
  <2>1. \A u \in Tells(s, p[1]) : u \in Thread /\ u[1] = p[1] /\ s.st[u] # "FREE" /\ u # p
    BY DEF Tells, OnCpu
  <2> QED BY <1>7, <2>1
<1>11. p[1] \in Pid /\ s.cur[c] \notin Frees(s, p[1])
  <2>1. p[1] \in Pid
    BY DEF Thread
  <2> QED BY <1>8, <1>9, <2>1
<1>12. ShellLives(s) \/ s.gl = NoPid
  <2>1. CASE A = {<<s.gl, 0>>}
    <3>1. PICK t : t = <<s.gl, 0>>
      OBVIOUS
    <3>2. t \in A /\ t[1] = s.gl
      BY <2>1, <3>1
    <3> QED BY <1>5, <3>2 DEF ShellLives
  <2> QED BY <1>4, <2>1 DEF Shell
<1>13. ShellLives(s)
  BY <1>12 DEF ShellLives
<1>14. PICK Q, B : Kills(s, n, c, p[1], Q, B)
  <2>1. PICK i : i = p[1] /\ i \in Pid
    BY <1>11
  <2> QED BY <1>11, <1>13, <2>1, DoKillIs
<1> HIDE DEF n
<1>15. /\ Linked(n, c) /\ Did(s, n, Q, {p}, {}, B) /\ Shell(s, n, {p}, B)
       /\ \A t \in Q : Home(s, t) \in ResQs
       /\ B = {} => Carries(s, n, c, {p})
       /\ CarriesOne(s, n, c, {p})
  <2>1. Did(s, n, Q, {p}, Tells(s, p[1]), B)
    BY <1>9, <1>14 DEF Kills
  <2>2. Did(s, n, Q, {p}, {}, B)
    BY <1>10, <2>1, DidTell
  <2> QED BY <1>9, <1>14, <2>2 DEF Kills
<1>16. Shell(a, n, F \cup {p}, A \cup B) /\ (A = {} \/ B = {})
  <2>1. A \subseteq Thread /\ \A u \in A : s.st[u] = "READY"
    BY <1>5
  <2>2. \A u \in Thread : s.st[u] = "FREE" <=> u \notin A /\ (a.st[u] = "FREE" \/ u \in F)
    BY <1>2
  <2>3. Shell(a, s, F, A) /\ Shell(s, n, {p}, B)
    BY <1>4, <1>15
  <2>4. Leaves(a, s, F, A)
    BY <2>1, <2>2 DEF Leaves
  <2> HIDE DEF F
  <2> QED BY <2>3, <2>4, ShellThen
<1>17. Reaping(a, n, c, R \cup Q, Z, X \cup {p}, A \cup B)
  <2>1. X \cup {p} \subseteq Corpses(a, c, "EXITED") /\ Z \subseteq Corpses(a, c, "ZOMBIE")
    BY <1>2 DEF Reaping, Corpses
  <2>2. \A t \in R \cup Q : Home(a, t) \in ResQs
    <3>1. \A t \in R : Home(a, t) \in ResQs
      BY DEF Reaping
    <3>2. NoQ \notin ResQs /\ ReadyQ \notin ResQs
      BY QueuesAre DEF ResQs
    <3>3. Q \subseteq Thread
      BY <1>15 DEF Did
    <3>4. \A t \in Thread : Home(s, t) \in {NoQ, ReadyQ, Home(a, t)}
      BY <1>1, ReapingIs
    <3> QED BY <1>15, <3>1, <3>2, <3>3, <3>4
  <2>3. Did(a, n, D \cup Q, F \cup {p}, {}, A \cup B)
    <3>1. {p} \cap A = {}
      BY <1>2
    <3>2. Did(a, n, D \cup Q, F \cup {p}, {} \cup {}, A \cup B)
      BY <1>1, <1>4, <1>15, <3>1, DidThen
    <3>3. {} \cup {} = {}
      OBVIOUS
    <3> HIDE DEF D, F
    <3> QED BY <3>2, <3>3
  <2>4. D \cup Q = DueSleepers(a) \cup (R \cup Q) /\ F \cup {p} = G
    OBVIOUS
  <2>5. Did(a, n, DueSleepers(a) \cup (R \cup Q), G, {}, A \cup B) /\ Shell(a, n, G, A \cup B)
    <3> HIDE DEF D, F, G
    <3> QED BY <1>16, <2>3, <2>4
  <2> QED BY <2>1, <2>2, <2>5 DEF Reaping
<1>18. Grows(s, n, c, p, A, B)
  BY <1>15, <1>16 DEF Grows
<1> QED BY <1>8, <1>15, <1>17, <1>18 DEF n
-----------------------------------------------------------------------------
\* The threads that CPU c may find when it calls do_scheduler() in state a, and those that a walk
\* of it does not miss
Elig(a, c) == {x \in Thread : (a.st[x] = "READY" \/ x \in DueSleepers(a)) /\ c \in a.mk[x]}
Goals(a, c) == {a.cur[c]} \cup Elig(a, c)
\* After k turns there are at most m to be made before a walk of L steps is back at cur;
\* a new shell takes one more.
Budget(m, k, A, L) ==
  m \in Nat /\ k \in Nat /\ L \in Nat /\ m + k <= L /\ (A # {} \/ m + k + 1 <= L)
\* Walk w of CPU c has made k turns, and every thread that may be found is still ahead.
OnWalkBy(a, w, c, k, L, R, Z, X, A, m) ==
  /\ ~w.ended /\ Linked(w.s, c) /\ Reaping(a, w.s, c, R, Z, X, A) /\ Budget(m, k, A, L)
  /\ \A x \in Goals(a, c) : Ahead(w.s.q[ReadyQ], a.cur[c], x, w.p, m)
OnWalk(a, w, c, k, L) == \E R, Z, X, A, m : OnWalkBy(a, w, c, k, L, R, Z, X, A, m)
\* It ends with a switch to another thread, or where it began when nothing was to be found.
Found(a, u, n, c) ==
  \/ \E p \in Thread : CanRun(u, c, p) /\ n = SwitchTo(u, c, p)
  \/ n = u /\ Elig(a, c) = {} /\ a.cur[c][1] < NCPU
ResultBy(a, n, c, u, R, Z, X, A) ==
  Linked(u, c) /\ Reaping(a, u, c, R, Z, X, A) /\ Found(a, u, n, c)
Result(a, n, c) == \E u, R, Z, X, A : ResultBy(a, n, c, u, R, Z, X, A)
\* ... after k turns
Walked(a, w, c, k, L) == OnWalk(a, w, c, k, L) \/ (w.ended /\ Result(a, w.s, c))

\* A thread that may be found can run, and is not reaped.
LEMMA EligIs ==
  ASSUME NEW a, NEW c, ScanPre(a, c), NEW s, NEW R, NEW Z, NEW X, NEW A,
         Reaping(a, s, c, R, Z, X, A), NEW x \in Elig(a, c)
  PROVE  CanRun(s, c, x) /\ x # a.cur[c]
<1>1. Linked(a, c) /\ c \in CPU
  BY DEF ScanPre, Linked
<1>2. /\ \A u \in Thread : s.st[u] = IF u \in A THEN "READY" ELSE IF u \in Z \cup X THEN "FREE"
                  ELSE IF u \in Up(a, DueSleepers(a) \cup R, Z \cup X) THEN "READY" ELSE a.st[u]
      /\ \A u \in Thread : s.mk[u] = IF u \in A THEN CPU ELSE IF u \in Z \cup X THEN {} ELSE a.mk[u]
  BY DEF Reaping, Did
<1>3. /\ x \in Thread /\ c \in a.mk[x]
      /\ a.st[x] = "READY" \/ (a.st[x] = "SLEEPING" /\ x \in Up(a, DueSleepers(a) \cup R, Z \cup X))
  <2>1. x \in DueSleepers(a) => a.st[x] = "SLEEPING"
    <3>1. DueSleepers(a) \cup R \subseteq {t \in Thread : a.st[t] = "SLEEPING"}
      BY DEF Reaping, Did
    <3> QED BY <3>1
  <2> QED BY <2>1 DEF Elig, Up
<1>4. x \notin Z \cup X
  BY <1>3 DEF Reaping, Corpses
<1>5. a.st[a.cur[c]] \notin {"READY", "SLEEPING"}
  BY DEF ScanPre
<1> QED BY <1>1, <1>2, <1>3, <1>4, <1>5 DEF CanRun

\* The walk is somewhere in ready_queue.
LEMMA WalkIs ==
  ASSUME NEW a, NEW w, NEW c, NEW k, NEW L, NEW R, NEW Z, NEW X, NEW A, NEW m,
         ScanPre(a, c), OnWalkBy(a, w, c, k, L, R, Z, X, A, m)
  PROVE  /\ w.s.cur = a.cur /\ w.p \in Thread /\ w.p \in ToSet(w.s.q[ReadyQ])
         /\ Linked(a, c) /\ a.cur[c] \in Thread /\ w.s.q[ReadyQ] \in Ring
<1>1. Linked(a, c) /\ Linked(w.s, c) /\ Reaping(a, w.s, c, R, Z, X, A)
  BY DEF ScanPre, OnWalkBy
<1>2. w.s.cur = a.cur
  BY <1>1, ReapingIs
<1>3. a.cur[c] \in Goals(a, c) /\ a.cur[c] \in Thread
  BY <1>1, LinkedIs DEF Goals
<1>4. w.p \in ToSet(w.s.q[ReadyQ])
  BY <1>3 DEF OnWalkBy, Ahead
<1>5. w.s.q[ReadyQ] \in Ring /\ ToSet(w.s.q[ReadyQ]) \subseteq Thread
  BY <1>1, QueuesAre, LinkedIs
<1> QED BY <1>1, <1>2, <1>3, <1>4, <1>5

\* It is back at the PCB that c runs only when there was nothing to be found.
LEMMA WalkBack ==
  ASSUME NEW a, NEW w, NEW c, NEW k, NEW L, NEW R, NEW Z, NEW X, NEW A, NEW m,
         ScanPre(a, c), OnWalkBy(a, w, c, k, L, R, Z, X, A, m), w.p = a.cur[c]
  PROVE  Elig(a, c) = {} /\ a.cur[c][1] < NCPU
<1> DEFINE r == w.s.q[ReadyQ]
<1>1. r \in Ring /\ Linked(a, c)
  BY WalkIs
<1>2. Reaping(a, w.s, c, R, Z, X, A)
  BY DEF OnWalkBy
<1>3. ASSUME NEW x \in Elig(a, c) PROVE FALSE
  <2>1. x # a.cur[c]
    BY <1>2, EligIs
  <2>2. Ahead(r, a.cur[c], x, a.cur[c], m)
    BY DEF OnWalkBy, Goals
  <2> HIDE DEF r
  <2>3. a.cur[c] \in ToSet(r) /\ x \in ToSet(r) /\ Left(r, a.cur[c], x) <= Left(r, a.cur[c], a.cur[c])
    BY <2>2 DEF Ahead
  <2>4. /\ Left(r, a.cur[c], x) \in Nat /\ Left(r, a.cur[c], x) # 0
        /\ Left(r, a.cur[c], a.cur[c]) = 0
    <3>1. Left(r, a.cur[c], x) \in 0 .. Len(r) - 1 /\ Len(r) \in Nat
      BY <1>1, <2>3, LeftIs, RingIs
    <3> QED BY <1>1, <2>1, <2>3, <3>1, LeftIs
  <2> QED BY <2>3, <2>4
<1>4. Elig(a, c) = {}
  BY <1>3
<1>5. a.cur[c] = Idle(c)
  BY <1>4 DEF ScanPre, Elig
<1>6. c < NCPU
  BY <1>1, ConstantsAssumption DEF Linked, CPU
<1> QED BY <1>4, <1>5, <1>6 DEF Idle

\* The threads to be found are still ahead when the walk has passed one that is not.
Passed(a, w, c, d, m) ==
  /\ d \in Thread /\ d # w.p /\ m \in Nat /\ m # 0 /\ m - 1 \in Nat
  /\ \A x \in Goals(a, c) : x \in Thread /\ x # w.p /\ Ahead(w.s.q[ReadyQ], a.cur[c], x, d, m - 1)

\* A turn passes a PCB that is not to be found, and none that is.
LEMMA WalkNext ==
  ASSUME NEW a, NEW w, NEW c, NEW k, NEW L, NEW R, NEW Z, NEW X, NEW A, NEW m,
         ScanPre(a, c), OnWalkBy(a, w, c, k, L, R, Z, X, A, m), w.p # a.cur[c], w.p \notin Elig(a, c)
  PROVE  Passed(a, w, c, NextOf(w.s.q[ReadyQ], w.p), m)
<1> DEFINE r == w.s.q[ReadyQ]
           d == NextOf(r, w.p)
<1>1. r \in Ring /\ w.p \in ToSet(r) /\ m \in Nat /\ a.cur[c] \in Goals(a, c) /\ a.cur[c] \in Thread
  BY WalkIs DEF OnWalkBy, Budget, Goals
<1>2. \A x \in Goals(a, c) : x \in Thread /\ x # w.p /\ Ahead(r, a.cur[c], x, w.p, m)
  BY <1>1 DEF OnWalkBy, Goals, Elig
<1> HIDE DEF r
<1>3. \A x \in Goals(a, c) : m # 0 /\ Ahead(r, a.cur[c], x, d, m - 1)
  BY <1>1, <1>2, AheadNext
<1>4. a.cur[c] \in ToSet(r)
  BY <1>1, <1>2 DEF Ahead
<1>5. d \in ToSet(r) /\ Left(r, a.cur[c], d) = Left(r, a.cur[c], w.p) - 1
  BY <1>1, <1>4, NextIs
<1>6. d # w.p
  <2>1. Left(r, a.cur[c], w.p) \in 0 .. Len(r) - 1 /\ Len(r) \in Nat
    BY <1>1, <1>4, LeftIs, RingIs
  <2> QED BY <1>5, <2>1
<1>7. d \in Thread
  BY <1>1, <1>5, MembersAre
<1>8. m # 0 /\ m - 1 \in Nat
  BY <1>1, <1>3
<1> QED BY <1>1, <1>2, <1>3, <1>6, <1>7, <1>8 DEF Passed, r

\* It goes on from there, in the state n that the turn has made.
LEMMA WalkOn ==
  ASSUME NEW a, NEW w, NEW c, NEW k, NEW L, NEW R, NEW Z, NEW X, NEW A, NEW m,
         ScanPre(a, c), OnWalkBy(a, w, c, k, L, R, Z, X, A, m),
         NEW d, Passed(a, w, c, d, m), NEW n, Linked(n, c),
         NEW Q, NEW Y, NEW V, NEW B, Reaping(a, n, c, Q, Y, V, A \cup B), Grows(w.s, n, c, w.p, A, B)
  PROVE  OnWalk(a, At(n, d), c, k + 1, L)
<1>1. Linked(a, c) /\ w.s.cur = a.cur
  BY WalkIs
<1>2. n.cur = a.cur
  BY <1>1, ReapingIs
<1>3. m \in Nat /\ k \in Nat /\ L \in Nat /\ m + k <= L /\ (A # {} \/ m + k + 1 <= L)
      /\ m # 0 /\ m - 1 \in Nat
  BY DEF OnWalkBy, Budget, Passed
<1>4. \A x \in Goals(a, c) : x \in Thread \ {w.p} /\ Ahead(w.s.q[ReadyQ], w.s.cur[c], x, d, m - 1)
  BY <1>1 DEF Passed
<1>5. d \in Thread \ {w.p}
  BY DEF Passed
<1>6. CASE B = {} /\ Carries(w.s, n, c, {w.p})
  <2>1. \A x \in Goals(a, c) : Ahead(n.q[ReadyQ], n.cur[c], x, d, m - 1)
    BY <1>3, <1>4, <1>5, <1>6 DEF Carries
  <2>2. A \cup B = A
    BY <1>6
  <2>3. Budget(m - 1, k + 1, A \cup B, L)
    BY <1>3, <2>2 DEF Budget
  <2>4. OnWalkBy(a, At(n, d), c, k + 1, L, Q, Y, V, A \cup B, m - 1)
    BY <1>2, <2>1, <2>3, AtIs DEF OnWalkBy
  <2> QED BY <2>4 DEF OnWalk
<1>7. CASE A = {} /\ B # {} /\ CarriesOne(w.s, n, c, {w.p})
  <2>1. \A x \in Goals(a, c) : Ahead(n.q[ReadyQ], n.cur[c], x, d, (m - 1) + 1)
    BY <1>3, <1>4, <1>5, <1>7 DEF CarriesOne
  <2>2. (m - 1) + 1 = m /\ A \cup B # {}
    BY <1>3, <1>7
  <2>3. Budget(m, k + 1, A \cup B, L)
    BY <1>3, <1>7, <2>2 DEF Budget
  <2>4. OnWalkBy(a, At(n, d), c, k + 1, L, Q, Y, V, A \cup B, m)
    BY <1>2, <2>1, <2>2, <2>3, AtIs DEF OnWalkBy
  <2> QED BY <2>4 DEF OnWalk
<1> QED BY <1>6, <1>7 DEF Grows

\* A turn of the loop of do_scheduler()
LEMMA ScanTurnIs ==
  ASSUME NEW a, NEW w, NEW c, NEW k, NEW L, NEW o \in Oracle, ScanPre(a, c), Walked(a, w, c, k, L),
         k \in Nat
  PROVE  Walked(a, ScanTurn(w, c, o), c, k + 1, L)
<1> DEFINE v == ScanTurn(w, c, o)
<1>1. CASE w.ended
  <2>1. v = w
    BY <1>1 DEF ScanTurn
  <2>2. ~OnWalk(a, w, c, k, L)
    BY <1>1 DEF OnWalk, OnWalkBy
  <2> QED BY <1>1, <2>1, <2>2 DEF Walked
<1>2. CASE ~w.ended
  <2>1. PICK R, Z, X, A, m : OnWalkBy(a, w, c, k, L, R, Z, X, A, m)
    BY <1>2 DEF Walked, OnWalk
  <2>2. PICK s, p, cur : s = w.s /\ p = w.p /\ cur = a.cur[c]
    OBVIOUS
  <2> DEFINE d == NextOf(s.q[ReadyQ], p)
  <2>3. /\ s.cur = a.cur /\ p \in Thread /\ p \in ToSet(s.q[ReadyQ]) /\ Linked(a, c)
        /\ Linked(s, c) /\ Reaping(a, s, c, R, Z, X, A)
    BY <2>1, <2>2, WalkIs DEF OnWalkBy
  <2>4. CASE p = cur
    <3>1. Elig(a, c) = {} /\ cur[1] < NCPU
      BY <2>1, <2>2, <2>4, WalkBack
    <3>2. cur[1] \in Nat /\ NCPU \in Nat
      BY <2>3, <2>4, ConstantsAssumption DEF Thread, Pid
    <3>3. v = Ends(w, s)
      BY <1>2, <2>2, <2>3, <2>4, <3>1, <3>2 DEF ScanTurn
    <3>4. Found(a, s, s, c)
      BY <2>2, <3>1 DEF Found
    <3>5. Result(a, s, c)
      BY <2>3, <3>4 DEF Result, ResultBy
    <3> QED BY <3>3, <3>5, EndsIs DEF Walked
  <2>5. CASE p # cur /\ CanRun(s, c, p)
    <3>1. v = Ends(w, SwitchTo(s, c, p))
      BY <1>2, <2>2, <2>3, <2>5 DEF ScanTurn
    <3>2. Found(a, s, SwitchTo(s, c, p), c)
      BY <2>3, <2>5 DEF Found
    <3>3. Result(a, SwitchTo(s, c, p), c)
      BY <2>3, <3>2 DEF Result, ResultBy
    <3> QED BY <3>1, <3>3, EndsIs DEF Walked
  <2>6. CASE p # cur /\ ~CanRun(s, c, p)
    <3>1. p \notin Elig(a, c)
      BY <2>3, <2>6, EligIs
    <3>2. Passed(a, w, c, d, m)
      BY <2>1, <2>2, <2>6, <3>1, WalkNext
    <3>3. v = IF s.st[p] = "EXITED"
              THEN IF p[1] = cur[1] THEN Ends(w, Panic(s)) ELSE At(DoKill(s, c, p[1], o), d)
              ELSE IF s.st[p] = "ZOMBIE" THEN At(ThreadKill(s, c, p), d)
              ELSE At(s, d)
      BY <1>2, <2>2, <2>3, <2>6 DEF ScanTurn
    <3> HIDE DEF v, d
    <3>4. CASE s.st[p] = "EXITED"
      <4> DEFINE n == DoKill(s, c, p[1], o)
      <4>1. /\ p[1] # cur[1] /\ Linked(n, c)
            /\ \E Q, B : Reaping(a, n, c, Q, Z, X \cup {p}, A \cup B) /\ Grows(s, n, c, p, A, B)
        <5>1. /\ p # a.cur[c] /\ s.st[p] = "EXITED" /\ p \in Thread /\ o \in Oracle
              /\ ScanPre(a, c) /\ Linked(s, c) /\ Reaping(a, s, c, R, Z, X, A)
          BY <2>2, <2>3, <2>6, <3>4
        <5>2. /\ p[1] # a.cur[c][1] /\ Linked(DoKill(s, c, p[1], o), c)
              /\ \E Q, B : /\ Reaping(a, DoKill(s, c, p[1], o), c, Q, Z, X \cup {p}, A \cup B)
                          /\ Grows(s, DoKill(s, c, p[1], o), c, p, A, B)
          BY <5>1, ExitedTurn
        <5> QED BY <2>2, <5>2
      <4>2. v = At(n, d)
        BY <3>3, <3>4, <4>1
      <4> HIDE DEF n
      <4>3. OnWalk(a, At(n, d), c, k + 1, L)
        BY <2>1, <2>2, <3>2, <4>1, WalkOn
      <4> QED BY <4>2, <4>3 DEF Walked, v
    <3>5. CASE s.st[p] = "ZOMBIE"
      <4> DEFINE n == ThreadKill(s, c, p)
      <4>1. Linked(n, c) /\ Reaping(a, n, c, R, Z \cup {p}, X, A) /\ Carries(s, n, c, {p})
        BY <2>2, <2>3, <2>6, <3>5, ZombieTurn
      <4>2. v = At(n, d)
        BY <3>3, <3>5
      <4> HIDE DEF n
      <4>3. A \cup {} = A /\ Grows(s, n, c, p, A, {})
        BY <4>1 DEF Grows
      <4>4. Reaping(a, n, c, R, Z \cup {p}, X, A \cup {})
        BY <4>1, <4>3
      <4>5. OnWalk(a, At(n, d), c, k + 1, L)
        BY <2>1, <2>2, <3>2, <4>1, <4>3, <4>4, WalkOn
      <4> QED BY <4>2, <4>5 DEF Walked, v
    <3>6. CASE s.st[p] \notin {"EXITED", "ZOMBIE"}
      <4>1. v = At(s, d)
        BY <3>3, <3>6
      <4>2. A \cup {} = A /\ Grows(s, s, c, p, A, {})
        BY CarriesSelf DEF Grows
      <4>3. Reaping(a, s, c, R, Z, X, A \cup {})
        BY <2>3, <4>2
      <4>4. OnWalk(a, At(s, d), c, k + 1, L)
        BY <2>1, <2>2, <2>3, <3>2, <4>2, <4>3, WalkOn
      <4> QED BY <4>1, <4>4 DEF Walked, v
    <3> QED BY <3>4, <3>5, <3>6
  <2> QED BY <2>4, <2>5, <2>6
<1> QED BY <1>1, <1>2

\* A walk of L + 1 turns ends.
LEMMA WalkEnds ==
  ASSUME NEW a, NEW w, NEW c, NEW L, L \in Nat, Walked(a, w, c, L + 1, L)
  PROVE  w.ended /\ Result(a, w.s, c)
<1>1. ASSUME NEW m, NEW A, Budget(m, L + 1, A, L) PROVE FALSE
  BY <1>1 DEF Budget
<1>2. ~OnWalk(a, w, c, L + 1, L)
  BY <1>1 DEF OnWalk, OnWalkBy
<1> QED BY <1>2 DEF Walked

\* The loop of do_scheduler()
LEMMA ScanIs ==
  ASSUME NEW a, NEW c, ScanPre(a, c), NEW s, Linked(s, c), NEW R, Reaping(a, s, c, R, {}, {}, {}),
         NEW o \in Oracle
  PROVE  Result(a, Scan(s, c, NextOf(s.q[ReadyQ], s.cur[c]), o), c)
<1> DEFINE r == s.q[ReadyQ]
           p == NextOf(r, s.cur[c])
           b == At(s, p)
           L == Len(r)
           f == Turns(L + 1)
<1>1. Linked(a, c) /\ r \in Ring /\ L \in Nat /\ s.cur = a.cur /\ a.cur[c] \in Thread
  <2>1. Linked(a, c)
    BY DEF ScanPre
  <2>2. s.cur = a.cur
    BY <2>1, ReapingIs
  <2>3. r \in Ring
    BY QueuesAre, LinkedIs
  <2>4. a.cur[c] \in Thread
    BY <2>1, LinkedIs
  <2>5. L \in Nat
    BY <2>3, RingIs
  <2> QED BY <2>1, <2>2, <2>3, <2>4, <2>5
<1>2. \A x \in Goals(a, c) : x \in ToSet(r)
  <2>1. \A x \in Goals(a, c) : x \in Thread /\ Home(s, x) = ReadyQ
    <3> SUFFICES ASSUME NEW x \in Goals(a, c) PROVE x \in Thread /\ Home(s, x) = ReadyQ
      OBVIOUS
    <3>1. CASE x = a.cur[c]
      <4>1. Home(s, s.cur[c]) = ReadyQ
        BY LinkedIs
      <4> QED BY <1>1, <3>1, <4>1
    <3>2. CASE x \in Elig(a, c)
      <4>1. CanRun(s, c, x) /\ x \in Thread
        BY <3>2, EligIs DEF Elig
      <4>2. s.st[x] = "READY"
        BY <4>1 DEF CanRun
      <4> QED BY <4>1, <4>2, LinkedIs
    <3> QED BY <3>1, <3>2 DEF Goals
  <2> QED BY <2>1, QueuesAre, LinkedIs
<1>3. Walked(a, b, c, 0, L)
  <2>1. a.cur[c] \in ToSet(r)
    BY <1>2 DEF Goals
  <2>2. Left(r, a.cur[c], a.cur[c]) \in 0 .. Len(r) - 1
    BY <1>1, <2>1, LeftIs
  <2>3. L # 0 /\ L - 1 \in Nat
    BY <1>1, <2>2
  <2>4. Budget(L - 1, 0, {}, L)
    BY <1>1, <2>3 DEF Budget
  <2> HIDE DEF r
  <2>5. \A x \in Goals(a, c) : Ahead(r, a.cur[c], x, p, Len(r) - 1)
    BY <1>1, <1>2, <2>1, AheadFirst
  <2> HIDE DEF p, L
  <2>6. OnWalkBy(a, b, c, 0, L, R, {}, {}, {}, L - 1)
    BY <2>4, <2>5, AtIs DEF OnWalkBy, L, r
  <2> QED BY <2>6 DEF Walked, OnWalk
<1>4. Counts(f, L + 1)
  BY <1>1 DEF Counts, Turns
<1>5. Scan(s, c, p, o) = After(ScanLoops(b, c, o, f))
  BY DEF Scan, ScanLoops
<1> HIDE DEF r, p, b, L, f
<1>6. PICK t : ScanRun(b, c, o, f, L + 1, t)
  BY <1>4, ScanLoopTurns
<1>7. /\ t[0] = b /\ ScanLoops(b, c, o, f) = t[L + 1]
      /\ \A k \in 1 .. L + 1 : t[k] = ScanTurn(t[k - 1], c, o)
  BY <1>6 DEF ScanRun
<1> DEFINE T == {k \in 0 .. L + 1 : Walked(a, t[k], c, k, L)}
<1>8. 0 \in T
  BY <1>1, <1>3, <1>7
<1>9. ASSUME NEW k \in 1 .. L + 1, k - 1 \in T PROVE k \in T
  <2>1. PICK j : j = k - 1 /\ j \in Nat /\ j + 1 = k
    BY <1>1
  <2>2. Walked(a, t[j], c, j, L)
    BY <1>9, <2>1
  <2>3. Walked(a, ScanTurn(t[j], c, o), c, j + 1, L)
    BY <2>1, <2>2, ScanTurnIs
  <2>4. t[k] = ScanTurn(t[j], c, o)
    BY <1>7, <2>1
  <2> QED BY <1>1, <2>1, <2>3, <2>4
<1>10. L + 1 \in T
  <2>1. PICK n \in Nat : n = L + 1
    BY <1>1
  <2> HIDE DEF T
  <2>2. \A k \in 0 .. n : k \in T
    BY <1>8, <1>9, <2>1, TurnInduction
  <2> QED BY <2>1, <2>2
<1>11. t[L + 1].ended /\ Result(a, t[L + 1].s, c)
  BY <1>1, <1>10, WalkEnds
<1>12. Scan(s, c, p, o) = t[L + 1].s
  BY <1>5, <1>7, <1>11 DEF After
<1> QED BY <1>11, <1>12 DEF p, r

\* do_scheduler()
LEMMA DoSchedulerIs ==
  ASSUME NEW a, NEW c, ScanPre(a, c), NEW o \in Oracle
  PROVE  Result(a, DoScheduler(a, c, o), c)
<1> DEFINE s1 == CheckSleeping(a, c)
           s2 == CheckSleepingOnNic(s1, c, o)
<1>1. Linked(a, c)
  BY DEF ScanPre
<1>2. Linked(s1, c) /\ Did(a, s1, DueSleepers(a), {}, {}, {}) /\ s1.gl = a.gl
  BY <1>1, CheckSleepingIs
<1> HIDE DEF s1
<1>3. Nic \in SUBSET Resource
  BY SchedAssumption
<1>4. s2 = Releases(s1, c, o.nic, SetToSeq(Nic)) /\ o.nic \in [Nic -> Wakes]
  BY DEF CheckSleepingOnNic, Releases, Oracle, LetGo
<1>5. /\ Linked(s2, c) /\ s2.gl = s1.gl
      /\ \E R : Did(s1, s2, R, {}, {}, {}) /\ \A t \in R : Home(s1, t) \in ResQs
  <2> HIDE DEF s2
  <2> QED BY <1>2, <1>3, <1>4, ReleasesIs
<1>6. DoScheduler(a, c, o) = Scan(s2, c, NextOf(s2.q[ReadyQ], s2.cur[c]), o)
  <2>1. s2.cur = s1.cur
    BY <1>5 DEF Did
  <2> QED BY <2>1 DEF DoScheduler, s1
<1> HIDE DEF s2
<1>7. PICK R : Did(s1, s2, R, {}, {}, {}) /\ \A t \in R : Home(s1, t) \in ResQs
  BY <1>5
<1>8. Did(a, s2, DueSleepers(a) \cup R, {}, {}, {})
  <2>1. {} \cup {} = {} /\ {} \cap {} = {}
    OBVIOUS
  <2>2. Did(a, s2, DueSleepers(a) \cup R, {} \cup {}, {} \cup {}, {} \cup {})
    BY <1>1, <1>2, <1>7, <2>1, DidThen
  <2> QED BY <2>1, <2>2
<1>9. \A t \in R : Home(a, t) \in ResQs
  <2>1. NoQ \notin ResQs /\ ReadyQ \notin ResQs
    BY QueuesAre DEF ResQs
  <2>2. R \subseteq Thread
    BY <1>7 DEF Did
  <2>3. \A t \in Thread : Home(s1, t) \in {NoQ, ReadyQ, Home(a, t)}
    BY <1>2 DEF Did
  <2> QED BY <1>7, <2>1, <2>2, <2>3
<1>10. Shell(a, s2, {}, {})
  <2>1. \A t \in Thread : a.st[t] # "FREE" => s2.st[t] # "FREE"
    BY <1>8 DEF Did
  <2>2. ShellLives(s2)
    BY <1>2, <1>5, <2>1 DEF ScanPre, ShellLives
  <2> QED BY <1>2, <1>5, <2>2 DEF Shell
<1>11. Reaping(a, s2, c, R, {}, {}, {})
  <2>1. {} \cup {} = {}
    OBVIOUS
  <2> QED BY <1>8, <1>9, <1>10, <2>1 DEF Reaping
<1> QED BY <1>5, <1>6, <1>11, ScanIs
-----------------------------------------------------------------------------
(* What Proc calls a table.                                                  *)

PcbOf ==
  [t \in Thread |-> [status |-> status[t], phead |-> PheadOf(t), mask |-> mask[t]]]

\* Proc has the names of ProcTypes too.
LEMMA NamesAre ==
  /\ PP!CPU = CPU /\ PP!Pid = Pid /\ PP!Thread = Thread /\ PP!NoPid = NoPid
  /\ PP!ReadyQ = ReadyQ /\ PP!SleepQ = SleepQ /\ PP!NoQ = NoQ /\ PP!ResQs = ResQs
  /\ PP!WaitQs = WaitQs /\ PP!Queue = Queue /\ PP!Status = Status /\ PP!OnCpu = OnCpu
  /\ PP!Dying = Dying /\ PP!Pcb = [status : Status, phead : Queue, mask : SUBSET CPU]
  /\ PP!FreePcb = [status |-> "FREE", phead |-> NoQ, mask |-> {}]
  /\ \A t : PP!WaitQ(t) = WaitQ(t)
  /\ \A r : PP!ResQ(r) = ResQ(r)
  /\ \A c : PP!Idle(c) = Idle(c)
<1> USE DEF PP!CPU, PP!Pid, PP!Thread, PP!NoPid, PP!ReadyQ, PP!SleepQ, PP!NoQ, PP!ResQs, PP!WaitQs,
            PP!Queue, PP!Status, PP!OnCpu, PP!Dying, PP!WaitQ, PP!ResQ, PP!Idle,
            CPU, Pid, Thread, NoPid, ReadyQ, SleepQ, NoQ, ResQs, WaitQs, Queue, Status, OnCpu, Dying,
            WaitQ, ResQ, Idle
<1>1. PP!CPU = CPU /\ PP!Pid = Pid /\ PP!Thread = Thread /\ PP!NoPid = NoPid
  OBVIOUS
<1>2. PP!ReadyQ = ReadyQ /\ PP!SleepQ = SleepQ /\ PP!NoQ = NoQ /\ PP!ResQs = ResQs
      /\ PP!WaitQs = WaitQs
  OBVIOUS
<1>3. PP!Queue = Queue /\ PP!Status = Status /\ PP!OnCpu = OnCpu /\ PP!Dying = Dying
  OBVIOUS
<1>4. PP!Pcb = [status : Status, phead : Queue, mask : SUBSET CPU]
  BY <1>1, <1>3 DEF PP!Pcb
<1>5. PP!FreePcb = [status |-> "FREE", phead |-> NoQ, mask |-> {}]
  BY DEF PP!FreePcb
<1>6. (\A t : PP!WaitQ(t) = WaitQ(t)) /\ (\A r : PP!ResQ(r) = ResQ(r)) /\ (\A c : PP!Idle(c) = Idle(c))
  OBVIOUS
<1> QED BY <1>1, <1>2, <1>3, <1>4, <1>5, <1>6

\* The number of threads is Proc's too.
LEMMA CardinalityIs == \A S : PP!Cardinality(S) = Cardinality(S)
BY DEF PP!Cardinality, Cardinality

Pcbs == [status : Status, phead : Queue, mask : SUBSET CPU]
Tables == [Thread -> Pcbs]
\* The entry of t in table b
Entry(b, t, x, q, m) == b[t].status = x /\ b[t].phead = q /\ b[t].mask = m

\* The table that Proc has for a state
LEMMA TabIs ==
  ASSUME NEW s, NEW c, Linked(s, c)
  PROVE  Tab(s) \in Tables /\ \A t \in Thread : Entry(Tab(s), t, s.st[t], Home(s, t), s.mk[t])
<1>1. s \in SchedState
  BY LinkedIs
<1>2. \A t \in Thread : s.st[t] \in Status /\ Home(s, t) \in Queue /\ s.mk[t] \in SUBSET CPU
  <2>1. s.st \in [Thread -> Status] /\ s.mk \in [Thread -> SUBSET CPU]
    BY <1>1, StateIs
  <2>2. \A t \in Thread : Home(s, t) \in Queue
    BY LinkedIs
  <2> QED BY <2>1, <2>2
<1>3. \A t \in Thread : Tab(s)[t] = [status |-> s.st[t], phead |-> Home(s, t), mask |-> s.mk[t]]
  BY DEF Tab
<1>4. Tab(s) \in Tables
  BY <1>2 DEF Tab, Tables, Pcbs
<1>5. ASSUME NEW t \in Thread PROVE Entry(Tab(s), t, s.st[t], Home(s, t), s.mk[t])
  <2>1. Tab(s)[t] = [status |-> s.st[t], phead |-> Home(s, t), mask |-> s.mk[t]]
    BY <1>3
  <2> QED BY <2>1 DEF Entry
<1> QED BY <1>4, <1>5

\* Two tables with the same entries
LEMMA TabsEqual ==
  ASSUME NEW a \in Tables, NEW b \in Tables,
         \A t \in Thread : Entry(a, t, b[t].status, b[t].phead, b[t].mask)
  PROVE  a = b
<1>1. ASSUME NEW t \in Thread PROVE a[t] = b[t]
  <2>1. a[t] \in Pcbs /\ b[t] \in Pcbs
    BY DEF Tables
  <2>2. a[t].status = b[t].status /\ a[t].phead = b[t].phead /\ a[t].mask = b[t].mask
    BY DEF Entry
  <2> QED BY <2>1, <2>2 DEF Pcbs
<1> QED BY <1>1 DEF Tables

\* wake_up() in Proc's table
LEMMA WakeTab ==
  ASSUME NEW b \in Tables, NEW W
  PROVE  /\ PP!Wake(b, W) \in Tables
         /\ \A t \in Thread :
              Entry(PP!Wake(b, W), t, IF t \in W THEN "READY" ELSE b[t].status,
                    IF t \in W THEN ReadyQ ELSE b[t].phead, b[t].mask)
<1> DEFINE n == PP!Wake(b, W)
<1>1. n = [t \in Thread |-> IF t \in W THEN [b[t] EXCEPT !.status = "READY", !.phead = ReadyQ] ELSE b[t]]
  BY NamesAre DEF PP!Wake
<1>2. "READY" \in Status /\ ReadyQ \in Queue
  BY QueuesAre DEF Status
<1> HIDE DEF n
<1>3. ASSUME NEW t \in Thread
      PROVE  /\ n[t] \in Pcbs
             /\ Entry(n, t, IF t \in W THEN "READY" ELSE b[t].status,
                      IF t \in W THEN ReadyQ ELSE b[t].phead, b[t].mask)
  <2>1. b[t] \in Pcbs
    BY DEF Tables
  <2>2. n[t] = IF t \in W THEN [b[t] EXCEPT !.status = "READY", !.phead = ReadyQ] ELSE b[t]
    BY <1>1
  <2>3. CASE t \in W
    BY <1>2, <2>1, <2>2, <2>3 DEF Pcbs, Entry
  <2>4. CASE t \notin W
    BY <2>1, <2>2, <2>4 DEF Entry
  <2> QED BY <2>3, <2>4
<1>4. n \in Tables
  BY <1>1, <1>3 DEF Tables
<1> QED BY <1>3, <1>4 DEF n

\* A new status in Proc's table
LEMMA SetTab ==
  ASSUME NEW b \in Tables, NEW k \in Thread, NEW x \in Status
  PROVE  /\ PP!SetStatus(b, k, x) \in Tables
         /\ \A t \in Thread :
              Entry(PP!SetStatus(b, k, x), t, IF t = k THEN x ELSE b[t].status, b[t].phead, b[t].mask)
<1> DEFINE n == PP!SetStatus(b, k, x)
<1>1. n = [t \in Thread |-> IF t = k THEN [b[k] EXCEPT !.status = x] ELSE b[t]]
  BY NamesAre DEF PP!SetStatus, PP!Update
<1> HIDE DEF n
<1>2. ASSUME NEW t \in Thread
      PROVE  n[t] \in Pcbs /\ Entry(n, t, IF t = k THEN x ELSE b[t].status, b[t].phead, b[t].mask)
  <2>1. b[t] \in Pcbs
    BY DEF Tables
  <2>2. CASE t = k
    BY <1>1, <2>1, <2>2 DEF Pcbs, Entry
  <2>3. CASE t # k
    BY <1>1, <2>1, <2>3 DEF Entry
  <2> QED BY <2>2, <2>3
<1>3. n \in Tables
  BY <1>1, <1>2 DEF Tables
<1> QED BY <1>2, <1>3 DEF n

\* thread_kill() in Proc's table
LEMMA KillTab ==
  ASSUME NEW b \in Tables, NEW K
  PROVE  /\ PP!KillThreads(b, K) \in Tables
         /\ \A t \in Thread :
              Entry(PP!KillThreads(b, K), t,
                    IF t \in K THEN "FREE"
                    ELSE IF \E k \in K : b[t].phead = WaitQ(k) THEN "READY" ELSE b[t].status,
                    IF t \in K THEN NoQ
                    ELSE IF \E k \in K : b[t].phead = WaitQ(k) THEN ReadyQ ELSE b[t].phead,
                    IF t \in K THEN {} ELSE b[t].mask)
<1> DEFINE n == PP!KillThreads(b, K)
           w(t) == \E k \in K : b[t].phead = WaitQ(k)
<1>1. n = [t \in Thread |-> IF t \in K THEN [status |-> "FREE", phead |-> NoQ, mask |-> {}]
                  ELSE IF w(t) THEN [b[t] EXCEPT !.status = "READY", !.phead = ReadyQ] ELSE b[t]]
  BY NamesAre DEF PP!KillThreads
<1>2. "READY" \in Status /\ "FREE" \in Status /\ ReadyQ \in Queue /\ NoQ \in Queue
  BY QueuesAre DEF Status
<1> HIDE DEF n, w
<1>3. ASSUME NEW t \in Thread
      PROVE  /\ n[t] \in Pcbs
             /\ Entry(n, t, IF t \in K THEN "FREE" ELSE IF w(t) THEN "READY" ELSE b[t].status,
                      IF t \in K THEN NoQ ELSE IF w(t) THEN ReadyQ ELSE b[t].phead,
                      IF t \in K THEN {} ELSE b[t].mask)
  <2>1. b[t] \in Pcbs
    BY DEF Tables
  <2>2. n[t] = IF t \in K THEN [status |-> "FREE", phead |-> NoQ, mask |-> {}]
               ELSE IF w(t) THEN [b[t] EXCEPT !.status = "READY", !.phead = ReadyQ] ELSE b[t]
    BY <1>1
  <2>3. CASE t \in K
    BY <1>2, <2>2, <2>3 DEF Pcbs, Entry
  <2>4. CASE t \notin K /\ w(t)
    BY <1>2, <2>1, <2>2, <2>4 DEF Pcbs, Entry
  <2>5. CASE t \notin K /\ ~w(t)
    BY <2>1, <2>2, <2>5 DEF Entry
  <2> QED BY <2>3, <2>4, <2>5
<1>4. n \in Tables
  BY <1>1, <1>3 DEF Tables
<1> QED BY <1>3, <1>4 DEF n, w

\* Threads told to exit that were told before: do_kill() does no more than free the rest.
LEMMA KillsTab ==
  ASSUME NEW b \in Tables, NEW Pids, NEW K, PP!Victims(b, Pids) = K,
         \A t \in Thread : t[1] \in Pids /\ b[t].status \in OnCpu => b[t].status = "EXITING"
  PROVE  PP!DoKill(b, Pids) = PP!KillThreads(b, K)
<1> DEFINE n == PP!KillThreads(b, K)
           d == PP!DoKill(b, Pids)
<1>1. n \in Tables
  BY KillTab
<1>2. \A t \in Thread :
        n[t].status = IF t \in K THEN "FREE"
                      ELSE IF \E k \in K : b[t].phead = WaitQ(k) THEN "READY" ELSE b[t].status
  BY KillTab DEF Entry
<1>3. d = [t \in Thread |-> IF t[1] \in Pids /\ n[t].status \in OnCpu
                            THEN [n[t] EXCEPT !.status = "EXITING"] ELSE n[t]]
  BY NamesAre DEF PP!DoKill
<1> HIDE DEF n, d
<1>4. ASSUME NEW t \in Thread PROVE d[t] = n[t]
  <2>1. CASE t[1] \in Pids /\ n[t].status \in OnCpu
    <3>1. n[t].status = b[t].status
      BY <1>2, <2>1 DEF OnCpu
    <3>2. n[t].status = "EXITING" /\ n[t] \in Pcbs
      BY <1>1, <2>1, <3>1 DEF Tables
    <3>3. d[t] = [n[t] EXCEPT !.status = "EXITING"]
      BY <1>3, <2>1
    <3> QED BY <3>2, <3>3 DEF Pcbs
  <2>2. CASE ~(t[1] \in Pids /\ n[t].status \in OnCpu)
    BY <1>3, <2>2
  <2> QED BY <2>1, <2>2
<1>5. d = n
  BY <1>1, <1>3, <1>4 DEF Tables
<1> QED BY <1>5 DEF n, d

Reaped(a, R, Z, X) ==
  PP!DoKill(PP!KillThreads(PP!Wake(PP!Wake(Tab(a), DueSleepers(a)), R), Z), {x[1] : x \in X})
\* What is left of the entry of t when the threads W are woken, F are freed and E told to exit
LeftOf(b, a, W, F, E, t) ==
  Entry(b, t, IF t \in F THEN "FREE" ELSE IF t \in E THEN "EXITING"
              ELSE IF t \in Up(a, W, F) THEN "READY" ELSE a.st[t],
        IF t \in F THEN NoQ ELSE IF t \in Up(a, W, F) THEN ReadyQ ELSE Home(a, t),
        IF t \in F THEN {} ELSE a.mk[t])

\* Proc wakes, reaps and kills the same threads.
LEMMA ReapedTab ==
  ASSUME NEW a, NEW c, ScanPre(a, c), NEW R, NEW Z, NEW X,
         DueSleepers(a) \cup R \subseteq {t \in Thread : a.st[t] = "SLEEPING"},
         Z \subseteq Corpses(a, c, "ZOMBIE"), X \subseteq Corpses(a, c, "EXITED")
  PROVE  /\ Reaped(a, R, Z, X) \in Tables
         /\ \A t \in Thread : LeftOf(Reaped(a, R, Z, X), a, DueSleepers(a) \cup R, Z \cup X, {}, t)
<1> DEFINE D == DueSleepers(a)
           Pids == {x[1] : x \in X}
           b1 == PP!Wake(Tab(a), D)
           b2 == PP!Wake(b1, R)
           b3 == PP!KillThreads(b2, Z)
           b4 == PP!KillThreads(b3, X)
<1>1. Linked(a, c)
  BY DEF ScanPre
<1>2. Tab(a) \in Tables /\ \A t \in Thread : Entry(Tab(a), t, a.st[t], Home(a, t), a.mk[t])
  BY <1>1, TabIs
<1>3. /\ b1 \in Tables
      /\ \A t \in Thread : Entry(b1, t, IF t \in D THEN "READY" ELSE Tab(a)[t].status,
                                 IF t \in D THEN ReadyQ ELSE Tab(a)[t].phead, Tab(a)[t].mask)
  BY <1>2, WakeTab
<1> HIDE DEF b1
<1>4. /\ b2 \in Tables
      /\ \A t \in Thread : Entry(b2, t, IF t \in R THEN "READY" ELSE b1[t].status,
                                 IF t \in R THEN ReadyQ ELSE b1[t].phead, b1[t].mask)
  BY <1>3, WakeTab
<1>5. \A t \in Thread : Entry(b2, t, IF t \in D \cup R THEN "READY" ELSE a.st[t],
                              IF t \in D \cup R THEN ReadyQ ELSE Home(a, t), a.mk[t])
  BY <1>2, <1>3, <1>4 DEF Entry
<1> HIDE DEF b2
<1>6. /\ b3 \in Tables
      /\ \A t \in Thread :
           Entry(b3, t, IF t \in Z THEN "FREE"
                        ELSE IF \E k \in Z : b2[t].phead = WaitQ(k) THEN "READY" ELSE b2[t].status,
                 IF t \in Z THEN NoQ
                 ELSE IF \E k \in Z : b2[t].phead = WaitQ(k) THEN ReadyQ ELSE b2[t].phead,
                 IF t \in Z THEN {} ELSE b2[t].mask)
  BY <1>4, KillTab
<1> HIDE DEF b3
<1>7. Z \subseteq Thread /\ X \subseteq Thread /\ (\A t \in Z : a.st[t] = "ZOMBIE") /\ (\A t \in X : a.st[t] = "EXITED")
      /\ (\A k \in Z \cup X : WaitQ(k) # ReadyQ /\ WaitQ(k) # NoQ)
      /\ (\A t \in D \cup R : t \in Thread /\ a.st[t] = "SLEEPING")
  BY QueuesAre DEF Corpses
<1>8. \A t \in Thread : Home(a, t) \notin {NoQ, ReadyQ} <=> a.st[t] = "SLEEPING"
  BY <1>1, LinkedIs
<1> HIDE DEF D
<1>9. \A t \in Thread :
        Entry(b3, t, IF t \in Z THEN "FREE" ELSE IF t \in Up(a, D \cup R, Z) THEN "READY" ELSE a.st[t],
              IF t \in Z THEN NoQ ELSE IF t \in Up(a, D \cup R, Z) THEN ReadyQ ELSE Home(a, t),
              IF t \in Z THEN {} ELSE a.mk[t])
  <2> SUFFICES ASSUME NEW t \in Thread
               PROVE  Entry(b3, t, IF t \in Z THEN "FREE" ELSE IF t \in Up(a, D \cup R, Z) THEN "READY" ELSE a.st[t],
                            IF t \in Z THEN NoQ ELSE IF t \in Up(a, D \cup R, Z) THEN ReadyQ ELSE Home(a, t),
                            IF t \in Z THEN {} ELSE a.mk[t])
    OBVIOUS
  <2>1. /\ b2[t].status = IF t \in D \cup R THEN "READY" ELSE a.st[t]
        /\ b2[t].phead = IF t \in D \cup R THEN ReadyQ ELSE Home(a, t)
        /\ b2[t].mask = a.mk[t]
    BY <1>5 DEF Entry
  <2>2. t \in Up(a, D \cup R, Z) <=> t \in D \cup R \/ \E k \in Z : b2[t].phead = WaitQ(k)
    BY <1>7, <2>1 DEF Up
  <2>3. /\ b3[t].status = IF t \in Z THEN "FREE"
                          ELSE IF \E k \in Z : b2[t].phead = WaitQ(k) THEN "READY" ELSE b2[t].status
        /\ b3[t].phead = IF t \in Z THEN NoQ
                         ELSE IF \E k \in Z : b2[t].phead = WaitQ(k) THEN ReadyQ ELSE b2[t].phead
        /\ b3[t].mask = IF t \in Z THEN {} ELSE b2[t].mask
    BY <1>6 DEF Entry
  <2> QED BY <2>1, <2>2, <2>3 DEF Entry
<1>10. \A t \in Thread : /\ b3[t].status \in OnCpu \/ b3[t].status \in {"EXITED", "ZOMBIE"} => b3[t].status = a.st[t] /\ t \notin Z
                         /\ a.st[t] \notin {"SLEEPING", "ZOMBIE"} => b3[t].status = a.st[t]
  <2>1. \A t \in Thread : t \in Up(a, D \cup R, Z) => a.st[t] = "SLEEPING"
    BY <1>7, <1>8 DEF Up
  <2>2. \A t \in Thread :
          b3[t].status = IF t \in Z THEN "FREE" ELSE IF t \in Up(a, D \cup R, Z) THEN "READY" ELSE a.st[t]
    BY <1>9 DEF Entry
  <2> QED BY <1>7, <2>1, <2>2 DEF OnCpu
<1>11. \A t \in Thread : t[1] \in Pids => t \in X \/ a.st[t] \in {"FREE", "EXITING"}
  <2> SUFFICES ASSUME NEW t \in Thread, NEW x \in X, t[1] = x[1], t \notin X
               PROVE  a.st[t] \in {"FREE", "EXITING"}
    OBVIOUS
  <2>1. x \in Thread /\ a.st[x] = "EXITED" /\ x # t
    BY <1>7
  <2> QED BY <2>1 DEF ScanPre
<1>12. PP!Victims(b3, Pids) = X
  <2>1. PP!Victims(b3, Pids) = {t \in Thread : t[1] \in Pids /\ b3[t].status \notin OnCpu \cup {"FREE"}}
    BY NamesAre DEF PP!Victims
  <2>2. \A t \in X : t \in Thread /\ t[1] \in Pids /\ b3[t].status = "EXITED"
    BY <1>7, <1>10
  <2>3. \A t \in Thread : t[1] \in Pids /\ t \notin X => b3[t].status \in OnCpu \cup {"FREE"}
    BY <1>10, <1>11 DEF OnCpu
  <2> QED BY <2>1, <2>2, <2>3 DEF OnCpu
<1>13. \A t \in Thread : t[1] \in Pids => a.st[t] # "RUNNING" /\ a.st[t] # "SLEEPING" /\ a.st[t] # "ZOMBIE"
  BY <1>7, <1>11
<1>14. \A t \in Thread : t[1] \in Pids => b3[t].status = a.st[t]
  BY <1>10, <1>13
<1>15. \A t \in Thread : t[1] \in Pids /\ b3[t].status \in OnCpu => b3[t].status = "EXITING"
  BY <1>13, <1>14 DEF OnCpu
<1>16. Reaped(a, R, Z, X) = b4
  <2>1. PP!DoKill(b3, Pids) = b4
    <3> HIDE DEF Pids
    <3> QED BY <1>6, <1>12, <1>15, KillsTab
  <2> QED BY <2>1 DEF Reaped, b3, b2, b1, D
<1>17. /\ b4 \in Tables
       /\ \A t \in Thread :
           Entry(b4, t, IF t \in X THEN "FREE"
                        ELSE IF \E k \in X : b3[t].phead = WaitQ(k) THEN "READY" ELSE b3[t].status,
                 IF t \in X THEN NoQ
                 ELSE IF \E k \in X : b3[t].phead = WaitQ(k) THEN ReadyQ ELSE b3[t].phead,
                 IF t \in X THEN {} ELSE b3[t].mask)
  BY <1>6, KillTab
<1> HIDE DEF b4, Pids
<1>18. ASSUME NEW t \in Thread PROVE LeftOf(b4, a, D \cup R, Z \cup X, {}, t)
  <2>1. /\ b3[t].status = IF t \in Z THEN "FREE" ELSE IF t \in Up(a, D \cup R, Z) THEN "READY" ELSE a.st[t]
        /\ b3[t].phead = IF t \in Z THEN NoQ ELSE IF t \in Up(a, D \cup R, Z) THEN ReadyQ ELSE Home(a, t)
        /\ b3[t].mask = IF t \in Z THEN {} ELSE a.mk[t]
    BY <1>9 DEF Entry
  <2>2. t \notin Z => (t \in Up(a, D \cup R, Z \cup X) <=> t \in Up(a, D \cup R, Z) \/ \E k \in X : b3[t].phead = WaitQ(k))
    BY <1>7, <2>1 DEF Up
  <2>3. t \in Z => ~ \E k \in X : b3[t].phead = WaitQ(k)
    BY <1>7, <2>1
  <2>4. /\ b4[t].status = IF t \in X THEN "FREE"
                          ELSE IF \E k \in X : b3[t].phead = WaitQ(k) THEN "READY" ELSE b3[t].status
        /\ b4[t].phead = IF t \in X THEN NoQ
                         ELSE IF \E k \in X : b3[t].phead = WaitQ(k) THEN ReadyQ ELSE b3[t].phead
        /\ b4[t].mask = IF t \in X THEN {} ELSE b3[t].mask
    BY <1>17 DEF Entry
  <2>5. CASE t \in Z
    BY <2>1, <2>3, <2>4, <2>5 DEF Entry, LeftOf
  <2>6. CASE t \notin Z
    BY <2>1, <2>2, <2>4, <2>6 DEF Entry, LeftOf
  <2> QED BY <2>5, <2>6
<1> QED BY <1>16, <1>17, <1>18 DEF D

\* b is the table of a after that, and u is the state when A are created too.
Leads(b, a, u, W, F, E, A) ==
  b \in Tables /\ Did(a, u, W, F, E, A) /\ \A t \in Thread : LeftOf(b, a, W, F, E, t)

\* The two tables are one,
LEMMA SameTab ==
  ASSUME NEW a, NEW u, NEW c, Linked(u, c), NEW b, NEW W, NEW F, NEW E, Leads(b, a, u, W, F, E, {})
  PROVE  Tab(u) = b
<1>1. Tab(u) \in Tables /\ \A t \in Thread : Entry(Tab(u), t, u.st[t], Home(u, t), u.mk[t])
  BY TabIs
<1>2. b \in Tables
  BY DEF Leads
<1>3. ASSUME NEW t \in Thread PROVE Entry(Tab(u), t, b[t].status, b[t].phead, b[t].mask)
  <2>1. LeftOf(b, a, W, F, E, t)
    BY DEF Leads
  <2>2. /\ u.st[t] = IF t \in F THEN "FREE" ELSE IF t \in E THEN "EXITING"
                     ELSE IF t \in Up(a, W, F) THEN "READY" ELSE a.st[t]
        /\ Home(u, t) = IF t \in F THEN NoQ ELSE IF t \in Up(a, W, F) THEN ReadyQ ELSE Home(a, t)
        /\ u.mk[t] = IF t \in F THEN {} ELSE a.mk[t]
    BY DEF Leads, Did
  <2> QED BY <1>1, <2>1, <2>2 DEF Entry, LeftOf
<1> QED BY <1>1, <1>2, <1>3, TabsEqual

\* ... with a new PCB
LEMMA AddedTab ==
  ASSUME NEW a, NEW u, NEW c, Linked(u, c), NEW b, NEW W, NEW F, NEW E, NEW k \in Thread,
         Leads(b, a, u, W, F, E, {k})
  PROVE  Tab(u) = PP!AddThread(b, k, CPU)
<1> DEFINE e == [status |-> "READY", phead |-> ReadyQ, mask |-> CPU]
           n == PP!AddThread(b, k, CPU)
<1>1. Tab(u) \in Tables /\ \A t \in Thread : Entry(Tab(u), t, u.st[t], Home(u, t), u.mk[t])
  BY TabIs
<1>2. n = [t \in Thread |-> IF t = k THEN e ELSE b[t]]
  BY NamesAre DEF PP!AddThread, PP!Update
<1>3. e \in Pcbs /\ b \in Tables
  BY QueuesAre DEF Pcbs, Status, Leads
<1>4. n \in Tables
  <2> HIDE DEF n, e
  <2> QED BY <1>2, <1>3 DEF Tables
<1> HIDE DEF n
<1>5. ASSUME NEW t \in Thread PROVE Entry(Tab(u), t, n[t].status, n[t].phead, n[t].mask)
  <2>1. Entry(Tab(u), t, u.st[t], Home(u, t), u.mk[t])
    BY <1>1
  <2>2. CASE t = k
    <3>1. n[t] = e
      BY <1>2, <2>2
    <3>2. u.st[t] = "READY" /\ Home(u, t) = ReadyQ /\ u.mk[t] = CPU
      BY <2>2 DEF Leads, Did
    <3> QED BY <2>1, <3>1, <3>2 DEF Entry
  <2>3. CASE t # k
    <3>1. n[t] = b[t]
      BY <1>2, <2>3
    <3>2. LeftOf(b, a, W, F, E, t)
      BY DEF Leads
    <3>3. /\ u.st[t] = IF t \in F THEN "FREE" ELSE IF t \in E THEN "EXITING"
                       ELSE IF t \in Up(a, W, F) THEN "READY" ELSE a.st[t]
          /\ Home(u, t) = IF t \in F THEN NoQ ELSE IF t \in Up(a, W, F) THEN ReadyQ ELSE Home(a, t)
          /\ u.mk[t] = IF t \in F THEN {} ELSE a.mk[t]
      BY <2>3 DEF Leads, Did
    <3> QED BY <2>1, <3>1, <3>2, <3>3 DEF Entry, LeftOf
  <2> QED BY <2>2, <2>3
<1>6. Tab(u) = n
  BY <1>1, <1>4, <1>5, TabsEqual
<1> QED BY <1>6 DEF n

\* Proc restarts the shell in the same cases.
LEMMA RestartIs ==
  ASSUME NEW a, NEW u, NEW c, Linked(a, c), Linked(u, c), NEW b, NEW W, NEW F, NEW E, NEW A,
         Leads(b, a, u, W, F, E, A), Shell(a, u, F, A), a.gl = glush
  PROVE  [pcb |-> Tab(u), glush |-> u.gl] \in PP!Restarts(b)
<1>1. \A t \in Thread : b[t].status = "FREE" <=> a.st[t] = "FREE" \/ t \in F
  <2>1. \A t \in Thread : t \in Up(a, W, F) => a.st[t] = "SLEEPING"
    <3>1. \A k \in F : k \in Thread /\ WaitQ(k) \notin {NoQ, ReadyQ}
      BY QueuesAre DEF Leads, Did
    <3>2. \A t \in Thread : a.st[t] = "SLEEPING" <=> Home(a, t) \notin {NoQ, ReadyQ}
      BY LinkedIs
    <3>3. \A t \in W : a.st[t] = "SLEEPING"
      BY DEF Leads, Did
    <3> QED BY <3>1, <3>2, <3>3 DEF Up
  <2>2. \A t \in E : a.st[t] # "FREE"
    BY DEF Leads, Did, OnCpu
  <2>3. \A t \in Thread :
          b[t].status = IF t \in F THEN "FREE" ELSE IF t \in E THEN "EXITING"
                        ELSE IF t \in Up(a, W, F) THEN "READY" ELSE a.st[t]
    BY DEF Leads, LeftOf, Entry
  <2> QED BY <2>1, <2>2, <2>3
<1>2. \A g : PP!ThreadsOf(b, g) = {} <=> Gone(a, F, g)
  <2>1. \A g : PP!ThreadsOf(b, g) = {t \in Thread : t[1] = g /\ b[t].status # "FREE"}
    BY NamesAre DEF PP!ThreadsOf
  <2> QED BY <1>1, <2>1 DEF Gone
<1>3. PP!HasRoom(b) <=> Room(a, F)
  <2>1. PP!Used(b) = {t \in Thread : a.st[t] # "FREE"} \ F
    BY <1>1, NamesAre DEF PP!Used
  <2> DEFINE U == {t \in Thread : a.st[t] # "FREE"} \ F
  <2>2. Room(a, F) <=> Cardinality(U) < PcbMax
    BY DEF Room
  <2> HIDE DEF U
  <2>3. PP!HasRoom(b) <=> Cardinality(PP!Used(b)) < PcbMax
    BY CardinalityIs DEF PP!HasRoom
  <2>4. PP!Used(b) = U
    BY <2>1 DEF U
  <2> QED BY <2>2, <2>3, <2>4
<1>4. CASE A = {} /\ u.gl = a.gl /\ ShellLives(u)
  <2>1. Tab(u) = b
    BY <1>4, SameTab
  <2>2. glush # NoPid => PP!ThreadsOf(b, glush) # {}
    <3> SUFFICES ASSUME glush # NoPid PROVE ~Gone(a, F, glush)
      BY <1>2
    <3>1. PICK t \in Thread : t[1] = glush /\ u.st[t] # "FREE"
      BY <1>4 DEF ShellLives
    <3>2. b[t].status = u.st[t]
      <4>1. Entry(Tab(u), t, u.st[t], Home(u, t), u.mk[t])
        BY TabIs
      <4> QED BY <2>1, <4>1 DEF Entry
    <3> QED BY <1>1, <3>1, <3>2 DEF Gone
  <2> QED BY <1>4, <2>1, <2>2, NamesAre DEF PP!Restarts
<1>5. CASE a.gl # NoPid /\ Gone(a, F, a.gl) /\ A = {} /\ u.gl = NoPid
  <2>1. Tab(u) = b
    BY <1>5, SameTab
  <2> QED BY <1>2, <1>5, <2>1, NamesAre DEF PP!Restarts
<1>6. CASE /\ a.gl # NoPid /\ Gone(a, F, a.gl) /\ u.gl \in NCPU .. PidMax /\ A = {<<u.gl, 0>>}
           /\ Gone(a, F, u.gl) /\ Room(a, F)
  <2>1. PICK g, k : g = u.gl /\ k = <<g, 0>>
    OBVIOUS
  <2>2. k \in Thread
    BY <1>6, <2>1 DEF Leads, Did
  <2>3. Tab(u) = PP!AddThread(b, k, CPU)
    BY <1>6, <2>1, <2>2, AddedTab
  <2>4. g \in PP!FreePids(b)
    BY <1>2, <1>6, <2>1 DEF PP!FreePids
  <2>5. PP!HasRoom(b)
    BY <1>3, <1>6
  <2>6. PP!ThreadsOf(b, glush) = {} /\ glush # PP!NoPid
    BY <1>2, <1>6, NamesAre
  <2>7. [pcb |-> Tab(u), glush |-> u.gl] \in {[pcb |-> PP!AddThread(b, <<f, 0>>, CPU), glush |-> f] :
                                                f \in {f \in PP!FreePids(b) : PP!HasRoom(b)}}
    BY <2>1, <2>3, <2>4, <2>5
  <2> QED BY <2>6, <2>7, NamesAre DEF PP!Restarts
<1> QED BY <1>4, <1>5, <1>6 DEF Shell
-----------------------------------------------------------------------------
(* A step of do_scheduler() is one of Proc's.                                *)

\* A handler has made n of the state.
Becomes(n) ==
  /\ status' = n.st /\ mask' = n.mk /\ queue' = n.q
  /\ current' = n.cur /\ glush' = n.gl /\ panic' = n.panic
  /\ due' = due \cap ToSet(n.q[SleepQ])

\* The table after the handler is that of what it has made.
LEMMA PcbNext ==
  ASSUME NEW n, Becomes(n)
  PROVE  PcbOf' = Tab(n)
<1>1. status' = n.st /\ mask' = n.mk /\ queue' = n.q
  BY DEF Becomes
<1>2. \A t \in Thread : PheadOf(t)' = Home(n, t)
  BY <1>1 DEF PheadOf, Home
<1> QED BY <1>1, <1>2 DEF PcbOf, Tab

\* switch_to() another thread
LEMMA SwitchIs ==
  ASSUME NEW u, NEW c, Linked(u, c), NEW p \in Thread, CanRun(u, c, p),
         u.st[u.cur[c]] \in {"RUNNING", "EXITED", "ZOMBIE"}
  PROVE  LET n == SwitchTo(u, c, p) IN
         /\ Linked(n, c) /\ n.gl = u.gl /\ n.cur = [u.cur EXCEPT ![c] = p] /\ n.q = u.q
         /\ p \in PP!Eligible(Tab(u), c)
         /\ Tab(n) = PP!SetStatus(IF Tab(u)[u.cur[c]].status = "RUNNING"
                                  THEN PP!SetStatus(Tab(u), u.cur[c], "READY")
                                  ELSE Tab(u), p, "RUNNING")
<1> DEFINE n == SwitchTo(u, c, p)
           k == u.cur[c]
           x == IF u.st[k] = "RUNNING" THEN "READY" ELSE u.st[k]
<1>1. u \in SchedState /\ u.panic = FALSE /\ c \in CPU /\ k \in Thread /\ k # p
      /\ u.st[p] = "READY" /\ c \in u.mk[p]
  BY LinkedIs DEF CanRun
<1>2. /\ u.st \in [Thread -> Status] /\ u.mk \in [Thread -> SUBSET CPU]
      /\ u.q \in [Rings -> Ring] /\ u.cur \in [CPU -> Thread]
  BY <1>1, StateIs
<1>3. /\ n.st = [[u.st EXCEPT ![k] = x] EXCEPT ![p] = "RUNNING"] /\ n.cur = [u.cur EXCEPT ![c] = p]
      /\ n.gl = u.gl /\ n.q = u.q /\ n.mk = u.mk /\ n.panic = u.panic
  BY <1>1, <1>2 DEF SwitchTo, SchedState
<1>4. n \in SchedState
  <2>1. x \in Status /\ "RUNNING" \in Status
    BY <1>1, <1>2 DEF Status
  <2> HIDE DEF x, k
  <2>2. n.st \in [Thread -> Status] /\ n.cur \in [CPU -> Thread]
    BY <1>1, <1>2, <1>3, <2>1
  <2> QED BY <1>1, <1>3, <2>1, <2>2 DEF SwitchTo, SchedState, x, k
<1> HIDE DEF n, k
<1>5. /\ n.st[p] = "RUNNING" /\ n.st[k] = x
      /\ \A t \in Thread \ {p, k} : n.st[t] = u.st[t]
  BY <1>1, <1>2, <1>3
<1>6. x \notin {"FREE", "SLEEPING"} /\ u.st[k] \notin {"FREE", "SLEEPING"}
  BY DEF k
<1>7. \A t \in Thread : /\ n.st[t] = "FREE" <=> u.st[t] = "FREE"
                        /\ n.st[t] = "SLEEPING" <=> u.st[t] = "SLEEPING"
  BY <1>1, <1>5, <1>6
<1>8. \A t \in Thread : Home(n, t) = Home(u, t)
  BY <1>3, <1>7 DEF Home
<1>9. Linked(n, c)
  <2>1. n.cur[c] = p
    BY <1>1, <1>2, <1>3
  <2>2. ~n.panic
    BY <1>1, <1>3
  <2>3. \A t \in Thread : /\ Home(n, t) \in Queue
                          /\ \A q \in Rings : t \in ToSet(n.q[q]) <=> Home(n, t) = q
                          /\ n.st[t] = "FREE" <=> Home(n, t) = NoQ
                          /\ n.st[t] = "SLEEPING" <=> Home(n, t) \notin {NoQ, ReadyQ}
    <3>1. \A t \in Thread : /\ Home(u, t) \in Queue
                            /\ \A q \in Rings : t \in ToSet(u.q[q]) <=> Home(u, t) = q
                            /\ u.st[t] = "FREE" <=> Home(u, t) = NoQ
                            /\ u.st[t] = "SLEEPING" <=> Home(u, t) \notin {NoQ, ReadyQ}
      BY LinkedIs
    <3> QED BY <1>3, <1>7, <1>8, <3>1
  <2> QED BY <1>1, <1>4, <1>5, <2>1, <2>2, <2>3 DEF Linked
<1>10. Tab(u) \in Tables /\ \A t \in Thread : Entry(Tab(u), t, u.st[t], Home(u, t), u.mk[t])
  BY TabIs
<1>11. Tab(n) \in Tables /\ \A t \in Thread : Entry(Tab(n), t, n.st[t], Home(n, t), n.mk[t])
  BY <1>9, TabIs
<1>12. p \in PP!Eligible(Tab(u), c)
  <2>1. Entry(Tab(u), p, u.st[p], Home(u, p), u.mk[p])
    BY <1>10
  <2> QED BY <1>1, <2>1, NamesAre DEF PP!Eligible, Entry
<1> DEFINE b == IF Tab(u)[k].status = "RUNNING" THEN PP!SetStatus(Tab(u), k, "READY") ELSE Tab(u)
           d == PP!SetStatus(b, p, "RUNNING")
<1>13. b \in Tables /\ \A t \in Thread : Entry(b, t, IF t = k THEN x ELSE u.st[t], Home(u, t), u.mk[t])
  <2>1. Tab(u)[k].status = u.st[k]
    BY <1>1, <1>10 DEF Entry
  <2>2. CASE u.st[k] = "RUNNING"
    <3>1. "READY" \in Status
      BY DEF Status
    <3>2. b \in Tables /\ \A t \in Thread : Entry(b, t, IF t = k THEN "READY" ELSE Tab(u)[t].status, Tab(u)[t].phead, Tab(u)[t].mask)
      BY <1>1, <1>10, <2>1, <2>2, <3>1, SetTab
    <3> QED BY <1>10, <2>2, <3>2 DEF Entry
  <2>3. CASE u.st[k] # "RUNNING"
    BY <1>10, <2>1, <2>3 DEF Entry
  <2> QED BY <2>2, <2>3
<1> HIDE DEF b, x
<1>14. d \in Tables /\ \A t \in Thread : Entry(d, t, IF t = p THEN "RUNNING" ELSE b[t].status, b[t].phead, b[t].mask)
  <2>1. "RUNNING" \in Status
    BY DEF Status
  <2> QED BY <1>13, <2>1, SetTab
<1> HIDE DEF d
<1>15. ASSUME NEW t \in Thread PROVE Entry(Tab(n), t, d[t].status, d[t].phead, d[t].mask)
  <2>1. /\ d[t].status = (IF t = p THEN "RUNNING" ELSE b[t].status) /\ d[t].phead = b[t].phead /\ d[t].mask = b[t].mask
    BY <1>14 DEF Entry
  <2>2. b[t].status = (IF t = k THEN x ELSE u.st[t]) /\ b[t].phead = Home(u, t) /\ b[t].mask = u.mk[t]
    BY <1>13 DEF Entry
  <2>3. n.st[t] = (IF t = p THEN "RUNNING" ELSE IF t = k THEN x ELSE u.st[t])
    BY <1>5
  <2>4. Entry(Tab(n), t, n.st[t], Home(n, t), n.mk[t])
    BY <1>11
  <2> QED BY <1>3, <1>8, <2>1, <2>2, <2>3, <2>4 DEF Entry
<1>16. Tab(n) = d
  BY <1>11, <1>14, <1>15, TabsEqual
<1> QED BY <1>3, <1>9, <1>12, <1>16 DEF n, d, b, k

\* do_scheduler(), called in state a, has made n of it: so does Proc's.
LEMMA SchedulerMaps ==
  ASSUME NEW a, NEW c, ScanPre(a, c), a.cur = current, a.gl = glush, due \subseteq Thread,
         NEW n, Result(a, n, c), Becomes(n)
  PROVE  PP!DoScheduler(c, Tab(a)) /\ PP!KeepDue /\ Linked(n, c)
<1>1. PICK u, R, Z, X, A : ResultBy(a, n, c, u, R, Z, X, A)
  BY DEF Result
<1>2. Linked(a, c) /\ Linked(u, c) /\ Reaping(a, u, c, R, Z, X, A) /\ Found(a, u, n, c)
  BY <1>1 DEF ScanPre, ResultBy
<1> DEFINE D == DueSleepers(a)
           W == D \cup R
           F == Z \cup X
           b == Reaped(a, R, Z, X)
           k == current[c]
<1>3. /\ Z \subseteq Corpses(a, c, "ZOMBIE") /\ X \subseteq Corpses(a, c, "EXITED")
      /\ \A t \in R : Home(a, t) \in ResQs
      /\ Did(a, u, W, F, {}, A) /\ Shell(a, u, F, A)
  BY <1>2 DEF Reaping
<1>4. W \subseteq {t \in Thread : a.st[t] = "SLEEPING"}
  BY <1>3 DEF Did
<1>5. Leads(b, a, u, W, F, {}, A)
  BY <1>3, <1>4, ReapedTab DEF Leads
<1> HIDE DEF b, F, W
<1>6. [pcb |-> Tab(u), glush |-> u.gl] \in PP!Restarts(b)
  BY <1>2, <1>3, <1>5, RestartIs
<1>7. k \in Thread /\ u.cur = current /\ u.st[k] = a.st[k] /\ a.st[k] \in {"RUNNING", "EXITED", "ZOMBIE"}
  <2>1. k \in Thread /\ u.cur = current
    <3>1. a.cur[c] \in Thread
      BY <1>2, LinkedIs
    <3>2. u.cur = a.cur
      BY <1>2, ReapingIs
    <3> QED BY <3>1, <3>2
  <2>2. a.st[k] \in {"RUNNING", "EXITED", "ZOMBIE"}
    BY DEF ScanPre
  <2>3. k \notin Z \cup X
    BY <1>3 DEF Corpses
  <2>4. k \notin A
    <3>1. \A g : k[1] = g => ~Gone(a, F, g)
      BY <2>1, <2>2, <2>3 DEF Gone, F
    <3>2. ASSUME k \in A PROVE FALSE
      <4>1. k = <<u.gl, 0>> /\ Gone(a, F, u.gl)
        BY <1>3, <3>2 DEF Shell
      <4>2. k[1] = u.gl
        BY <4>1
      <4> QED BY <3>1, <4>1, <4>2
    <3> QED BY <3>2
  <2>5. \A t \in Thread : a.st[t] \notin {"FREE", "SLEEPING"} /\ t \notin Z \cup X \cup A => u.st[t] = a.st[t]
    BY <1>2, ReapingIs
  <2> QED BY <2>1, <2>2, <2>3, <2>4, <2>5
<1>8. Tab(a) \in Tables /\ \A t \in Thread : Entry(Tab(a), t, a.st[t], Home(a, t), a.mk[t])
  BY <1>2, TabIs
<1>9. \A t \in Thread : Tab(a)[t].status = a.st[t] /\ Tab(a)[t].phead = Home(a, t) /\ Tab(a)[t].mask = a.mk[t]
  BY <1>8 DEF Entry
<1>10. {t \in due : Tab(a)[t].phead = SleepQ} = D
  <2>1. \A t \in Thread : t \in ToSet(a.q[SleepQ]) <=> Home(a, t) = SleepQ
    BY <1>2, QueuesAre, LinkedIs
  <2> QED BY <1>9, <2>1 DEF DueSleepers
<1>11. R \in SUBSET PP!ResSleepers(Tab(a))
  BY <1>3, <1>4, <1>9, NamesAre DEF PP!ResSleepers, W
<1>12. /\ Z \in SUBSET {t \in Thread \ {k} : Tab(a)[t].status = "ZOMBIE"}
       /\ X \in SUBSET {t \in Thread \ {k} : Tab(a)[t].status = "EXITED"}
  BY <1>3, <1>9 DEF Corpses
<1>13. b = PP!DoKill(PP!KillThreads(PP!Wake(PP!Wake(Tab(a), D), R), Z), {t[1] : t \in X})
  BY DEF b, Reaped
<1>14. PcbOf' = Tab(n) /\ current' = n.cur /\ glush' = n.gl
  BY PcbNext DEF Becomes
<1>15. PP!Eligible(PP!Wake(Tab(a), D), c) = Elig(a, c)
  <2>1. \A t \in Thread : /\ PP!Wake(Tab(a), D)[t].status = IF t \in D THEN "READY" ELSE Tab(a)[t].status
                          /\ PP!Wake(Tab(a), D)[t].mask = Tab(a)[t].mask
    BY <1>8, WakeTab DEF Entry
  <2> QED BY <1>9, <2>1, NamesAre DEF PP!Eligible, Elig
<1> DEFINE Ends1 == \/ \E p \in PP!Eligible(Tab(u), c) :
                         /\ current' = [current EXCEPT ![c] = p]
                         /\ PcbOf' = PP!SetStatus(IF Tab(u)[k].status = "RUNNING"
                                                  THEN PP!SetStatus(Tab(u), k, "READY")
                                                  ELSE Tab(u), p, "RUNNING")
                    \/ /\ Elig(a, c) = {} /\ k[1] < NCPU
                       /\ PcbOf' = Tab(u) /\ current' = current
<1>16. Ends1 /\ glush' = u.gl /\ Linked(n, c)
  <2>1. CASE \E p \in Thread : CanRun(u, c, p) /\ n = SwitchTo(u, c, p)
    <3>1. PICK p \in Thread : CanRun(u, c, p) /\ n = SwitchTo(u, c, p)
      BY <2>1
    <3>2. /\ Linked(n, c) /\ n.gl = u.gl /\ n.cur = [u.cur EXCEPT ![c] = p]
          /\ p \in PP!Eligible(Tab(u), c)
          /\ Tab(n) = PP!SetStatus(IF Tab(u)[u.cur[c]].status = "RUNNING"
                                   THEN PP!SetStatus(Tab(u), u.cur[c], "READY")
                                   ELSE Tab(u), p, "RUNNING")
      BY <1>2, <1>7, <3>1, SwitchIs
    <3> QED BY <1>7, <1>14, <3>2
  <2>2. CASE n = u /\ Elig(a, c) = {} /\ a.cur[c][1] < NCPU
    BY <1>2, <1>7, <1>14, <2>2
  <2> QED BY <1>2, <2>1, <2>2 DEF Found
<1> HIDE DEF D, k
<1>17. PP!DoScheduler(c, Tab(a))
  <2> DEFINE r == [pcb |-> Tab(u), glush |-> u.gl]
  <2>2. r.pcb = Tab(u) /\ r.glush = u.gl
    OBVIOUS
  <2>3. r \in PP!Restarts(PP!DoKill(PP!KillThreads(PP!Wake(
                       PP!Wake(Tab(a), {t \in due : Tab(a)[t].phead = PP!SleepQ}), R), Z), {t[1] : t \in X}))
    BY <1>6, <1>10, <1>13, NamesAre
  <2> HIDE DEF r
  <2>4. /\ glush' = r.glush
        /\ \/ \E p \in PP!Eligible(r.pcb, c) :
                /\ current' = [current EXCEPT ![c] = p]
                /\ PcbOf' = PP!SetStatus(IF r.pcb[current[c]].status = "RUNNING"
                                         THEN PP!SetStatus(r.pcb, current[c], "READY")
                                         ELSE r.pcb, p, "RUNNING")
           \/ /\ PP!Eligible(PP!Wake(Tab(a), {t \in due : Tab(a)[t].phead = PP!SleepQ}), c) = {}
              /\ current[c][1] < NCPU
              /\ PcbOf' = r.pcb
              /\ UNCHANGED current
    BY <1>10, <1>15, <1>16, <2>2, NamesAre DEF k
  <2>5. /\ R \in SUBSET PP!ResSleepers(Tab(a))
        /\ Z \in SUBSET {t \in PP!Thread \ {current[c]} : Tab(a)[t].status = "ZOMBIE"}
        /\ X \in SUBSET {t \in PP!Thread \ {current[c]} : Tab(a)[t].status = "EXITED"}
    BY <1>11, <1>12, NamesAre DEF k
  <2> SUFFICES
          \E V \in SUBSET PP!ResSleepers(Tab(a)),
             Y \in SUBSET {t \in PP!Thread \ {current[c]} : Tab(a)[t].status = "ZOMBIE"},
             K \in SUBSET {t \in PP!Thread \ {current[c]} : Tab(a)[t].status = "EXITED"} :
            \E rs \in PP!Restarts(PP!DoKill(PP!KillThreads(PP!Wake(
                       PP!Wake(Tab(a), {t \in due : Tab(a)[t].phead = PP!SleepQ}), V), Y), {t[1] : t \in K})) :
              /\ glush' = rs.glush
              /\ \/ \E p \in PP!Eligible(rs.pcb, c) :
                      /\ current' = [current EXCEPT ![c] = p]
                      /\ PcbOf' = PP!SetStatus(IF rs.pcb[current[c]].status = "RUNNING"
                                               THEN PP!SetStatus(rs.pcb, current[c], "READY")
                                               ELSE rs.pcb, p, "RUNNING")
                 \/ /\ PP!Eligible(PP!Wake(Tab(a), {t \in due : Tab(a)[t].phead = PP!SleepQ}), c) = {}
                    /\ current[c][1] < NCPU
                    /\ PcbOf' = rs.pcb
                    /\ UNCHANGED current
    BY DEF PP!DoScheduler, PcbOf
  <2> USE <2>5
  <2> WITNESS R \in SUBSET PP!ResSleepers(Tab(a)),
              Z \in SUBSET {t \in PP!Thread \ {current[c]} : Tab(a)[t].status = "ZOMBIE"},
              X \in SUBSET {t \in PP!Thread \ {current[c]} : Tab(a)[t].status = "EXITED"}
  <2> USE <2>3
  <2> WITNESS r \in PP!Restarts(PP!DoKill(PP!KillThreads(PP!Wake(
                       PP!Wake(Tab(a), {t \in due : Tab(a)[t].phead = PP!SleepQ}), R), Z), {t[1] : t \in X}))
  <2> QED BY <2>4
<1>18. PP!KeepDue
  <2>1. n.q[SleepQ] \in Ring /\ \A t \in Thread : t \in ToSet(n.q[SleepQ]) <=> Home(n, t) = SleepQ
    BY <1>16, QueuesAre, LinkedIs
  <2>2. \A t \in Thread : PcbOf'[t].phead = Home(n, t)
    BY <1>14, <1>16, TabIs DEF Entry
  <2>3. due' = {t \in due : PcbOf'[t].phead = SleepQ}
    BY <2>1, <2>2 DEF Becomes
  <2> QED BY <2>3, NamesAre DEF PP!KeepDue, PcbOf
<1> QED BY <1>16, <1>17, <1>18
-----------------------------------------------------------------------------
(* The invariant.                                                            *)

\* Between two handlers each CPU may start one, and Proc's invariant holds of the table.
SchedIInv == (\A c \in CPU : Linked(State, c)) /\ PP!ProcInv

\* The fields of the state that a handler starts from
LEMMA StateFields ==
  /\ State.st = status /\ State.mk = mask /\ State.q = queue /\ State.cur = current
  /\ State.gl = glush /\ State.panic = panic
BY DEF State

\* The table is that of the state.
LEMMA StateTab == Tab(State) = PcbOf
<1>1. \A t \in Thread : Home(State, t) = PheadOf(t)
  BY StateFields DEF Home, PheadOf
<1> QED BY <1>1, StateFields DEF Tab, PcbOf

\* What Proc's invariant says of the state
LEMMA InvIs ==
  ASSUME SchedIInv
  PROVE  /\ current \in [CPU -> Thread] /\ glush \in (NCPU .. PidMax) \cup {NoPid} /\ due \subseteq Thread
         /\ \A c \in CPU : status[current[c]] \in OnCpu
         /\ \A c, d \in CPU : current[c] = current[d] => c = d
         /\ \A t, u \in Thread : t[1] = u[1] /\ t # u /\ status[t] \in Dying =>
              /\ status[u] \in {"FREE", "EXITING", "EXITED"}
              /\ status[t] = "EXITED" => status[u] # "EXITED"
         /\ \A c \in CPU : Idle(c) \in Thread /\ mask[Idle(c)] = {c}
              /\ (current[c] = Idle(c) \/ status[Idle(c)] = "READY")
         /\ \A t \in Thread : /\ status[t] \notin Dying \cup {"FREE"} => status[<<t[1], 0>>] # "FREE"
                              /\ status[t] = "ZOMBIE" => t[2] # 0
         /\ glush # NoPid => \E t \in Thread : t[1] = glush /\ status[t] # "FREE"
         /\ \A t \in due : t \in ToSet(queue[SleepQ])
         /\ status \in [Thread -> Status] /\ mask \in [Thread -> SUBSET CPU] /\ panic = FALSE
<1>1. PP!ProcInv
  BY DEF SchedIInv
<1>2. \A t \in Thread : /\ PcbOf[t].status = status[t] /\ PcbOf[t].phead = PheadOf(t) /\ PcbOf[t].mask = mask[t]
  BY DEF PcbOf
<1>3. PP!TypeOK /\ PP!OneCpuEach /\ PP!DyingTogether /\ PP!IdleAvailable /\ PP!MainThreadAlive
      /\ PP!GlushAlive /\ PP!DueSleeps
  BY <1>1 DEF PP!ProcInv
<1>4. current \in [CPU -> Thread] /\ glush \in (NCPU .. PidMax) \cup {NoPid} /\ due \subseteq Thread
  BY <1>3, NamesAre DEF PP!TypeOK
<1>5. (\A c \in CPU : status[current[c]] \in OnCpu) /\ (\A c, d \in CPU : current[c] = current[d] => c = d)
  <2>1. (\A c \in CPU : PcbOf[current[c]].status \in OnCpu) /\ (\A c, d \in CPU : current[c] = current[d] => c = d)
    BY <1>3, NamesAre DEF PP!OneCpuEach, PcbOf
  <2> QED BY <1>2, <1>4, <2>1
<1>6. \A t, u \in Thread : t[1] = u[1] /\ t # u /\ status[t] \in Dying =>
              /\ status[u] \in {"FREE", "EXITING", "EXITED"}
              /\ status[t] = "EXITED" => status[u] # "EXITED"
  BY <1>3, NamesAre DEF PP!DyingTogether
<1>7. \A p \in Pid : <<p, 0>> \in Thread
  BY ConstantsAssumption DEF Thread
<1>8. \A c \in CPU : Idle(c) \in Thread
  <2>1. CPU \subseteq Pid
    BY ConstantsAssumption DEF CPU, Pid
  <2> QED BY <1>7, <2>1 DEF Idle
<1>9. \A c \in CPU : mask[Idle(c)] = {c} /\ (current[c] = Idle(c) \/ status[Idle(c)] = "READY")
  <2>1. \A c \in CPU : PcbOf[Idle(c)].mask = {c} /\ (current[c] = Idle(c) \/ PcbOf[Idle(c)].status = "READY")
    BY <1>3, NamesAre DEF PP!IdleAvailable, PcbOf
  <2> QED BY <1>2, <1>8, <2>1
<1>10. \A t \in Thread : /\ status[t] \notin Dying \cup {"FREE"} => status[<<t[1], 0>>] # "FREE"
                         /\ status[t] = "ZOMBIE" => t[2] # 0
  <2>1. \A t \in Thread : /\ PcbOf[t].status \notin Dying \cup {"FREE"} => PcbOf[<<t[1], 0>>].status # "FREE"
                          /\ PcbOf[t].status = "ZOMBIE" => t[2] # 0
    BY <1>3, NamesAre DEF PP!MainThreadAlive, PcbOf
  <2>2. \A t \in Thread : <<t[1], 0>> \in Thread
    BY <1>7 DEF Thread
  <2> QED BY <1>2, <2>1, <2>2
<1>11. glush # NoPid => \E t \in Thread : t[1] = glush /\ status[t] # "FREE"
  <2>1. PP!ThreadsOf(PcbOf, glush) = {t \in Thread : t[1] = glush /\ PcbOf[t].status # "FREE"}
    BY NamesAre DEF PP!ThreadsOf
  <2>2. glush # NoPid => PP!ThreadsOf(PcbOf, glush) # {}
    BY <1>3, NamesAre DEF PP!GlushAlive, PcbOf
  <2> QED BY <1>2, <2>1, <2>2
<1>12. \A t \in due : t \in ToSet(queue[SleepQ])
  <2>1. \A t \in due : PcbOf[t].phead = SleepQ
    BY <1>3, NamesAre DEF PP!DueSleeps, PcbOf
  <2>2. 0 \in CPU
    BY ConstantsAssumption DEF CPU
  <2>3. PICK c \in CPU : c = 0
    BY <2>2
  <2>4. Linked(State, c)
    BY DEF SchedIInv
  <2>5. \A t \in Thread : t \in ToSet(queue[SleepQ]) <=> Home(State, t) = SleepQ
    BY <2>4, QueuesAre, LinkedIs, StateFields
  <2>6. \A t \in Thread : PcbOf[t].phead = Home(State, t)
    BY StateTab DEF Tab
  <2> QED BY <1>4, <2>1, <2>5, <2>6
<1>13. status \in [Thread -> Status] /\ mask \in [Thread -> SUBSET CPU] /\ panic = FALSE
  <2>1. PICK c : c \in CPU /\ c = 0
    BY ConstantsAssumption DEF CPU
  <2>2. Linked(State, c)
    BY <2>1 DEF SchedIInv
  <2>3. State \in SchedState /\ State.panic = FALSE
    BY <2>2, LinkedIs
  <2>4. State.st \in [Thread -> Status] /\ State.mk \in [Thread -> SUBSET CPU]
    BY <2>3, StateIs
  <2> QED BY <2>3, <2>4, StateFields
<1> QED BY <1>4, <1>5, <1>6, <1>8, <1>9, <1>10, <1>11, <1>12, <1>13

\* What handlers call do_scheduler() with: the timer,
LEMMA TimerPre ==
  ASSUME SchedIInv, NEW c \in CPU, status[current[c]] = "RUNNING"
  PROVE  ScanPre(State, c)
<1>1. Linked(State, c)
  BY DEF SchedIInv
<1>2. ShellLives(State)
  BY InvIs, StateFields DEF ShellLives
<1>3. \A t, u \in Thread :
        t[1] = u[1] /\ t # u /\ status[t] = "EXITED" => status[u] \in {"FREE", "EXITING"}
  BY InvIs DEF Dying
<1>4. \A t \in Thread : status[t] = "ZOMBIE" => t[2] # 0 /\ status[<<t[1], 0>>] # "FREE"
  BY InvIs DEF Dying
<1>5. Idle(c) \in Thread /\ (current[c] = Idle(c) \/ (status[Idle(c)] = "READY" /\ c \in mask[Idle(c)]))
  BY InvIs
<1> QED BY <1>1, <1>2, <1>3, <1>4, <1>5, StateFields DEF ScanPre

\* do_thread_exit(),
LEMMA ZombiePre ==
  ASSUME SchedIInv, NEW c \in CPU, status[current[c]] = "RUNNING", current[c][2] # 0
  PROVE  LET a == [State EXCEPT !.st[current[c]] = "ZOMBIE"] IN
         /\ ScanPre(a, c) /\ a.cur = current /\ a.gl = glush
         /\ Tab(a) = PP!SetStatus(PcbOf, current[c], "ZOMBIE")
<1> DEFINE a == [State EXCEPT !.st[current[c]] = "ZOMBIE"]
           k == current[c]
<1>1. Linked(State, c) /\ k \in Thread /\ status[k] = "RUNNING"
  BY InvIs DEF SchedIInv
<1>2. /\ Linked(a, c) /\ a.cur = current /\ a.gl = glush /\ a.mk = mask
      /\ a.st[k] = "ZOMBIE" /\ (\A u \in Thread \ {k} : a.st[u] = status[u])
      /\ \A u \in Thread : Home(a, u) = Home(State, u)
  <2>1. PICK x : x = "ZOMBIE"
    OBVIOUS
  <2>2. x \in Status \ {"FREE", "SLEEPING"} /\ State.st[k] \notin {"FREE", "SLEEPING"}
    BY <1>1, <2>1, StateFields DEF Status
  <2>3. LET n == [State EXCEPT !.st[k] = x] IN
        /\ Linked(n, c) /\ n.cur = State.cur /\ n.gl = State.gl /\ n.mk = State.mk
        /\ n.st[k] = x /\ (\A u \in Thread \ {k} : n.st[u] = State.st[u])
        /\ \A u \in Thread : Home(n, u) = Home(State, u)
    <3> HIDE DEF k
    <3> QED BY <1>1, <2>2, SetIs
  <2> QED BY <2>1, <2>3, StateFields
<1> HIDE DEF a
<1>3. ShellLives(a)
  BY <1>1, <1>2, InvIs DEF ShellLives
<1>4. \A t, u \in Thread :
        t[1] = u[1] /\ t # u /\ a.st[t] = "EXITED" => a.st[u] \in {"FREE", "EXITING"}
  <2>1. \A t, u \in Thread : t[1] = u[1] /\ t # u /\ status[t] = "EXITED" => status[u] \in {"FREE", "EXITING"}
    BY InvIs DEF Dying
  <2> QED BY <1>1, <1>2, <2>1
<1>5. \A t \in Thread : a.st[t] = "ZOMBIE" => t[2] # 0 /\ a.st[<<t[1], 0>>] # "FREE"
  <2>1. \A t \in Thread : status[t] \notin Dying \cup {"FREE"} => status[<<t[1], 0>>] # "FREE"
    BY InvIs
  <2>2. \A t \in Thread : status[t] = "ZOMBIE" => t[2] # 0
    BY InvIs
  <2>3. \A t \in Thread : <<t[1], 0>> \in Thread
    BY ConstantsAssumption DEF Thread
  <2>4. \A t \in Thread : a.st[t] = "ZOMBIE" => status[t] \in {"ZOMBIE", "RUNNING"} /\ t[2] # 0
    BY <1>1, <1>2, <2>2
  <2>5. \A t \in Thread : status[t] # "FREE" => a.st[t] # "FREE"
    BY <1>2
  <2> QED BY <2>1, <2>3, <2>4, <2>5 DEF Dying
<1>6. Idle(c) \in Thread /\ (k = Idle(c) \/ (a.st[Idle(c)] = "READY" /\ c \in a.mk[Idle(c)]))
  BY <1>2, InvIs
<1>7. ScanPre(a, c)
  BY <1>2, <1>3, <1>4, <1>5, <1>6 DEF ScanPre
<1>8. Tab(a) = PP!SetStatus(PcbOf, k, "ZOMBIE")
  <2>1. PcbOf \in Tables /\ \A t \in Thread : Entry(PcbOf, t, status[t], Home(State, t), mask[t])
    BY <1>1, TabIs, StateTab, StateFields
  <2>2. Tab(a) \in Tables /\ \A t \in Thread : Entry(Tab(a), t, a.st[t], Home(a, t), a.mk[t])
    BY <1>2, TabIs
  <2> DEFINE d == PP!SetStatus(PcbOf, k, "ZOMBIE")
  <2>3. d \in Tables /\ \A t \in Thread : Entry(d, t, IF t = k THEN "ZOMBIE" ELSE PcbOf[t].status, PcbOf[t].phead, PcbOf[t].mask)
    <3>1. "ZOMBIE" \in Status
      BY DEF Status
    <3> HIDE DEF k
    <3> QED BY <1>1, <2>1, <3>1, SetTab
  <2> HIDE DEF d
  <2>4. ASSUME NEW t \in Thread PROVE Entry(Tab(a), t, d[t].status, d[t].phead, d[t].mask)
    <3>1. a.st[t] = IF t = k THEN "ZOMBIE" ELSE status[t]
      BY <1>2
    <3> QED BY <1>2, <2>1, <2>2, <2>3, <3>1 DEF Entry
  <2>5. Tab(a) = d
    BY <2>2, <2>3, <2>4, TabsEqual
  <2> QED BY <2>5 DEF d
<1> QED BY <1>2, <1>7, <1>8 DEF a

\* What Proc's do_kill() of process p makes of a table in which W have been woken
LEMMA DoKillTab ==
  ASSUME NEW a, NEW c, Linked(a, c), NEW W, W \subseteq {t \in Thread : a.st[t] = "SLEEPING"},
         \A t \in W : Home(a, t) \in ResQs, NEW b \in Tables, NEW p,
         \A t \in Thread : Entry(b, t, IF t \in W THEN "READY" ELSE a.st[t],
                                 IF t \in W THEN ReadyQ ELSE Home(a, t), a.mk[t])
  PROVE  /\ PP!DoKill(b, {p}) \in Tables
         /\ \A t \in Thread : LeftOf(PP!DoKill(b, {p}), a, W, Frees(a, p), Tells(a, p), t)
<1> DEFINE F == Frees(a, p)
           E == Tells(a, p)
           n == PP!KillThreads(b, F)
           d == PP!DoKill(b, {p})
<1>1. PP!Victims(b, {p}) = F
  <2>1. PP!Victims(b, {p}) = {t \in Thread : t[1] \in {p} /\ b[t].status \notin OnCpu \cup {"FREE"}}
    BY NamesAre DEF PP!Victims
  <2>2. \A t \in Thread : b[t].status \in OnCpu \cup {"FREE"} <=> a.st[t] \in OnCpu \cup {"FREE"}
    BY DEF Entry, OnCpu
  <2> QED BY <2>1, <2>2 DEF Frees
<1>2. d = [t \in Thread |-> IF t[1] = p /\ n[t].status \in OnCpu
                            THEN [n[t] EXCEPT !.status = "EXITING"] ELSE n[t]]
  BY <1>1, NamesAre DEF PP!DoKill
<1> DEFINE w(t) == \E k \in F : b[t].phead = WaitQ(k)
<1>3. /\ n \in Tables
      /\ \A t \in Thread : /\ n[t].status = IF t \in F THEN "FREE" ELSE IF w(t) THEN "READY" ELSE b[t].status
                           /\ n[t].phead = IF t \in F THEN NoQ ELSE IF w(t) THEN ReadyQ ELSE b[t].phead
                           /\ n[t].mask = IF t \in F THEN {} ELSE b[t].mask
  BY KillTab DEF Entry
<1>4. \A t \in Thread : t \in Up(a, W, F) <=> t \in W \/ w(t)
  <2>1. \A k \in F : WaitQ(k) # ReadyQ
    BY QueuesAre DEF Frees
  <2> QED BY <2>1 DEF Up, Entry
<1>5. \A t \in Thread : t \in Up(a, W, F) => a.st[t] = "SLEEPING"
  <2>1. \A k \in F : WaitQ(k) \notin {NoQ, ReadyQ}
    BY QueuesAre DEF Frees
  <2>2. \A t \in Thread : a.st[t] = "SLEEPING" <=> Home(a, t) \notin {NoQ, ReadyQ}
    BY LinkedIs
  <2> QED BY <2>1, <2>2 DEF Up
<1>6. \A t \in Thread : t \in F => a.st[t] \notin OnCpu /\ t \notin E
  BY DEF Frees, Tells
<1>7. \A t \in Thread : t \in E <=> t[1] = p /\ a.st[t] \in OnCpu
  BY DEF Tells
<1> HIDE DEF n, F, E, w, d
<1>8. ASSUME NEW t \in Thread
      PROVE  d[t] \in Pcbs /\ LeftOf(d, a, W, F, E, t)
  <2>1. b[t].status = (IF t \in W THEN "READY" ELSE a.st[t]) /\ b[t].phead = (IF t \in W THEN ReadyQ ELSE Home(a, t))
        /\ b[t].mask = a.mk[t]
    BY DEF Entry
  <2>2. /\ n[t].status = IF t \in F THEN "FREE" ELSE IF t \in Up(a, W, F) THEN "READY" ELSE a.st[t]
        /\ n[t].phead = IF t \in F THEN NoQ ELSE IF t \in Up(a, W, F) THEN ReadyQ ELSE Home(a, t)
        /\ n[t].mask = IF t \in F THEN {} ELSE a.mk[t]
    BY <1>3, <1>4, <2>1
  <2>3. n[t] \in Pcbs
    BY <1>3 DEF Tables
  <2>4. n[t].status \in OnCpu <=> a.st[t] \in OnCpu
    BY <1>5, <1>6, <2>2 DEF OnCpu
  <2>5. CASE t \in E
    <3>1. d[t] = [n[t] EXCEPT !.status = "EXITING"]
      BY <1>2, <1>7, <2>4, <2>5
    <3>2. d[t].status = "EXITING" /\ d[t].phead = n[t].phead /\ d[t].mask = n[t].mask /\ d[t] \in Pcbs
      BY <2>3, <3>1 DEF Pcbs, Status
    <3> QED BY <1>6, <2>2, <2>5, <3>2 DEF LeftOf, Entry
  <2>6. CASE t \notin E
    <3>1. d[t] = n[t]
      BY <1>2, <1>7, <2>4, <2>6
    <3> QED BY <2>2, <2>3, <2>6, <3>1 DEF LeftOf, Entry
  <2> QED BY <2>5, <2>6
<1>9. d \in Tables
  BY <1>2, <1>8 DEF Tables
<1> QED BY <1>8, <1>9 DEF d, F, E
-----------------------------------------------------------------------------
\* A new status is one in Proc's table too.
LEMMA SetStatusIs ==
  ASSUME NEW s, NEW c, Linked(s, c), NEW k \in Thread, NEW x \in Status \ {"FREE", "SLEEPING"},
         s.st[k] \notin {"FREE", "SLEEPING"}
  PROVE  Tab([s EXCEPT !.st[k] = x]) = PP!SetStatus(Tab(s), k, x)
<1> DEFINE n == [s EXCEPT !.st[k] = x]
           d == PP!SetStatus(Tab(s), k, x)
<1>1. /\ Linked(n, c) /\ n.mk = s.mk /\ n.st[k] = x /\ (\A u \in Thread \ {k} : n.st[u] = s.st[u])
      /\ \A u \in Thread : Home(n, u) = Home(s, u)
  BY SetIs
<1> HIDE DEF n
<1>2. Tab(s) \in Tables /\ \A t \in Thread : Entry(Tab(s), t, s.st[t], Home(s, t), s.mk[t])
  BY TabIs
<1>3. Tab(n) \in Tables /\ \A t \in Thread : Entry(Tab(n), t, n.st[t], Home(n, t), n.mk[t])
  BY <1>1, TabIs
<1>4. d \in Tables /\ \A t \in Thread : Entry(d, t, IF t = k THEN x ELSE Tab(s)[t].status, Tab(s)[t].phead, Tab(s)[t].mask)
  BY <1>2, SetTab
<1> HIDE DEF d
<1>5. ASSUME NEW t \in Thread PROVE Entry(Tab(n), t, d[t].status, d[t].phead, d[t].mask)
  <2>1. n.st[t] = IF t = k THEN x ELSE s.st[t]
    BY <1>1
  <2> QED BY <1>1, <1>2, <1>3, <1>4, <2>1 DEF Entry
<1> QED BY <1>3, <1>4, <1>5, TabsEqual DEF n, d

\* ... and do_kill() of the own process
LEMMA ExitPre ==
  ASSUME SchedIInv, NEW c \in CPU, current[c][1] >= NCPU
  PROVE  LET k == current[c]
             a == [KillThreads(State, c, k[1]) EXCEPT !.st[k] = "EXITED"]
         IN  /\ ScanPre(a, c) /\ a.cur = current /\ a.gl = glush
             /\ Tab(a) = PP!SetStatus(PP!DoKill(PcbOf, {k[1]}), k, "EXITED")
<1> DEFINE k == current[c]
           p == k[1]
           s == KillThreads(State, c, p)
           a == [s EXCEPT !.st[k] = "EXITED"]
           F == Frees(State, p)
           E == Tells(State, p)
<1>1. Linked(State, c) /\ k \in Thread /\ status[k] \in OnCpu /\ p \in Pid
  BY InvIs DEF SchedIInv, Thread
<1>2. k \notin F /\ k \in E
  BY <1>1, StateFields DEF Frees, Tells
<1>3. Linked(s, c) /\ Did(State, s, {}, F, E, {}) /\ s.gl = glush /\ s.cur = current
  <2>1. State.cur[c] \notin F
    BY <1>2, StateFields
  <2>2. Linked(s, c) /\ Did(State, s, {}, F, E, {}) /\ s.gl = State.gl
    BY <1>1, <2>1, KillThreadsIs
  <2> QED BY <2>2, StateFields DEF Did
<1> HIDE DEF s, k, p
<1>4. \A t \in Thread :
        /\ s.st[t] = IF t \in F THEN "FREE" ELSE IF t \in E THEN "EXITING"
                     ELSE IF t \in Up(State, {}, F) THEN "READY" ELSE status[t]
        /\ s.mk[t] = IF t \in F THEN {} ELSE mask[t]
  BY <1>3, StateFields DEF Did
<1>5. \A t \in Thread : t \in Up(State, {}, F) => status[t] = "SLEEPING"
  <2>1. \A u \in F : WaitQ(u) \notin {NoQ, ReadyQ}
    BY QueuesAre DEF Frees
  <2>2. \A t \in Thread : status[t] = "SLEEPING" <=> Home(State, t) \notin {NoQ, ReadyQ}
    BY <1>1, LinkedIs, StateFields
  <2> QED BY <2>1, <2>2 DEF Up
<1>6. \A t \in Thread : /\ t \in F <=> t[1] = p /\ status[t] \notin OnCpu \cup {"FREE"}
                        /\ t \in E <=> t[1] = p /\ status[t] \in OnCpu
  BY StateFields DEF Frees, Tells
<1> HIDE DEF F, E
<1>7. PICK x : x = "EXITED"
  OBVIOUS
<1>8. x \in Status \ {"FREE", "SLEEPING"} /\ s.st[k] \notin {"FREE", "SLEEPING"}
  BY <1>1, <1>2, <1>4, <1>7 DEF Status
<1>9. a = [s EXCEPT !.st[k] = x]
  BY <1>7
<1>10. LET n == [s EXCEPT !.st[k] = x] IN
       /\ Linked(n, c) /\ n.cur = s.cur /\ n.gl = s.gl /\ n.mk = s.mk
       /\ n.st[k] = x /\ (\A u \in Thread \ {k} : n.st[u] = s.st[u])
  BY <1>1, <1>3, <1>8, SetIs
<1>11. /\ Linked(a, c) /\ a.cur = current /\ a.gl = glush /\ a.mk = s.mk /\ a.st[k] = "EXITED"
       /\ \A u \in Thread \ {k} : a.st[u] = s.st[u]
  BY <1>3, <1>7, <1>9, <1>10
<1> HIDE DEF a
<1>12. \A t \in Thread : a.st[t] = IF t = k THEN "EXITED" ELSE IF t \in F THEN "FREE"
                                   ELSE IF t \in E THEN "EXITING"
                                   ELSE IF t \in Up(State, {}, F) THEN "READY" ELSE status[t]
  BY <1>4, <1>11
<1>13. ShellLives(a)
  <2> SUFFICES ASSUME glush # NoPid
               PROVE  \E t \in Thread : t[1] = glush /\ a.st[t] # "FREE"
    BY <1>11 DEF ShellLives
  <2>1. PICK t \in Thread : t[1] = glush /\ status[t] # "FREE"
    BY InvIs
  <2>2. CASE glush = p
    BY <1>1, <1>11, <2>2 DEF p
  <2>3. CASE glush # p
    <3>1. t \notin F
      BY <1>6, <2>1, <2>3
    <3> QED BY <1>12, <2>1, <3>1
  <2> QED BY <2>2, <2>3
<1>14. ASSUME NEW t \in Thread, NEW u \in Thread, t[1] = u[1], t # u, a.st[t] = "EXITED"
       PROVE  a.st[u] \in {"FREE", "EXITING"}
  <2>1. CASE t[1] = p
    <3>1. t = k
      BY <1>6, <1>12, <1>14, <2>1
    <3> QED BY <1>5, <1>6, <1>12, <1>14, <2>1, <3>1
  <2>2. CASE t[1] # p
    <3>1. status[t] = "EXITED" /\ u # k
      BY <1>6, <1>12, <1>14, <2>2 DEF p
    <3>2. status[u] \in {"FREE", "EXITING"}
      BY <1>14, <3>1, InvIs DEF Dying
    <3> QED BY <1>5, <1>6, <1>12, <1>14, <2>2, <3>1, <3>2
  <2> QED BY <2>1, <2>2
<1>15. ASSUME NEW t \in Thread, a.st[t] = "ZOMBIE"
       PROVE  t[2] # 0 /\ a.st[<<t[1], 0>>] # "FREE"
  <2>1. status[t] = "ZOMBIE" /\ t[1] # p
    BY <1>6, <1>12, <1>15 DEF OnCpu
  <2>2. t[2] # 0
    BY <2>1, InvIs
  <2>3. status[<<t[1], 0>>] # "FREE"
    BY <2>1, InvIs DEF Dying
  <2>4. <<t[1], 0>> \in Thread
    BY ConstantsAssumption DEF Thread
  <2>5. <<t[1], 0>> \notin F
    BY <1>6, <2>1, <2>4
  <2> QED BY <1>12, <2>2, <2>3, <2>4, <2>5
<1>16. Idle(c) \in Thread /\ a.st[Idle(c)] = "READY" /\ c \in a.mk[Idle(c)]
  <2>1. Idle(c) \in Thread /\ mask[Idle(c)] = {c} /\ (k = Idle(c) \/ status[Idle(c)] = "READY")
    BY InvIs DEF k
  <2>2. c # p /\ Idle(c)[1] # p
    BY ConstantsAssumption DEF Idle, p, k, CPU
  <2>3. k # Idle(c) /\ Idle(c) \notin F /\ Idle(c) \notin E
    BY <1>6, <2>1, <2>2 DEF p
  <2> QED BY <1>4, <1>11, <1>12, <2>1, <2>3
<1>17. ScanPre(a, c)
  BY <1>11, <1>13, <1>14, <1>15, <1>16 DEF ScanPre, k
<1>18. Tab(s) = PP!DoKill(PcbOf, {p})
  <2>1. PcbOf \in Tables /\ \A t \in Thread : Entry(PcbOf, t, status[t], Home(State, t), mask[t])
    BY <1>1, TabIs, StateTab, StateFields
  <2>2. \A t \in Thread : Entry(PcbOf, t, IF t \in {} THEN "READY" ELSE State.st[t],
                                IF t \in {} THEN ReadyQ ELSE Home(State, t), State.mk[t])
    BY <2>1, StateFields
  <2> DEFINE W == {}
  <2>3. W \subseteq {t \in Thread : State.st[t] = "SLEEPING"} /\ (\A t \in W : Home(State, t) \in ResQs)
        /\ \A t \in Thread : Entry(PcbOf, t, IF t \in W THEN "READY" ELSE State.st[t],
                                IF t \in W THEN ReadyQ ELSE Home(State, t), State.mk[t])
    BY <2>2
  <2>4. Did(State, s, W, F, E, {})
    BY <1>3
  <2> HIDE DEF W
  <2>5. /\ PP!DoKill(PcbOf, {p}) \in Tables
        /\ \A t \in Thread : LeftOf(PP!DoKill(PcbOf, {p}), State, W, F, E, t)
    BY <1>1, <2>1, <2>3, DoKillTab DEF F, E
  <2>6. Leads(PP!DoKill(PcbOf, {p}), State, s, W, F, E, {})
    BY <2>4, <2>5 DEF Leads
  <2> QED BY <1>3, <2>6, SameTab
<1>19. Tab(a) = PP!SetStatus(PP!DoKill(PcbOf, {p}), k, "EXITED")
  BY <1>1, <1>3, <1>7, <1>8, <1>9, <1>18, SetStatusIs
<1> QED BY <1>11, <1>17, <1>19 DEF a, s, p, k
-----------------------------------------------------------------------------
(* The handlers take Proc's steps.                                           *)

\* A handler of CPU c has made n of the state, and each CPU may start another.
Made(n, c) == Linked(n, c) /\ Becomes(n)

\* A handler makes one of the states it may return.
LEMMA ReturnIs ==
  ASSUME NEW S, Return(S)
  PROVE  \E n \in S : Becomes(n)
BY DEF Return, Becomes

\* What the guards of the handlers say of Proc's table
LEMMA TrapIs ==
  ASSUME SchedIInv, NEW c \in CPU
  PROVE  /\ Linked(State, c) /\ current[c] \in Thread
         /\ PcbOf \in Tables /\ Tab(State) = PcbOf
         /\ \A t \in Thread : Entry(PcbOf, t, status[t], Home(State, t), mask[t])
         /\ PcbOf[current[c]].status = status[current[c]]
<1>1. Linked(State, c) /\ current[c] \in Thread
  BY InvIs DEF SchedIInv
<1>2. Tab(State) \in Tables /\ \A t \in Thread : Entry(Tab(State), t, status[t], Home(State, t), mask[t])
  BY <1>1, TabIs, StateFields
<1> QED BY <1>1, <1>2, StateTab DEF Entry

\* The threads of a process, the free PIDs and the room are Proc's, so the guards are.
LEMMA GuardsAre ==
  ASSUME SchedIInv, NEW c \in CPU
  PROVE  /\ \A p : PP!ThreadsOf(PcbOf, p) = Farr(State, p)
         /\ PP!FreePids(PcbOf) = FreePids(State)
         /\ PP!HasRoom(PcbOf) <=> HasRoom(State)
         /\ Trap(c) => PP!Trap(c)
         /\ \A name : Syscall(c, name) => PP!Syscall(c) /\ status[current[c]] = "RUNNING"
<1>1. \A t \in Thread : PcbOf[t].status = status[t]
  BY TrapIs DEF Entry
<1>2. \A p : PP!ThreadsOf(PcbOf, p) = Farr(State, p)
  <2> TAKE p
  <2>1. PP!ThreadsOf(PcbOf, p) = {t \in Thread : t[1] = p /\ PcbOf[t].status # "FREE"}
    BY NamesAre DEF PP!ThreadsOf
  <2>2. Farr(State, p) = {t \in Thread : t[1] = p /\ status[t] # "FREE"}
    BY StateFields DEF Farr
  <2> QED BY <1>1, <2>1, <2>2
<1>3. PP!FreePids(PcbOf) = FreePids(State)
  BY <1>2 DEF PP!FreePids, FreePids
<1>4. PP!HasRoom(PcbOf) <=> HasRoom(State)
  <2>1. PP!Used(PcbOf) = {t \in Thread : PcbOf[t].status # "FREE"}
    BY NamesAre DEF PP!Used
  <2>2. Used(State) = {t \in Thread : status[t] # "FREE"}
    BY StateFields DEF Used
  <2>3. PP!Used(PcbOf) = Used(State)
    BY <1>1, <2>1, <2>2
  <2> QED BY <2>3, CardinalityIs DEF PP!HasRoom, HasRoom
<1>5. Trap(c) => PP!Trap(c)
  <2>1. PcbOf[current[c]].status = status[current[c]]
    BY TrapIs
  <2> QED BY <2>1 DEF Trap, PP!Trap, PcbOf
<1>6. \A name : Syscall(c, name) => PP!Syscall(c) /\ status[current[c]] = "RUNNING"
  BY <1>5 DEF Syscall, PP!Syscall, Trap
<1> QED BY <1>2, <1>3, <1>4, <1>5, <1>6

\* What a step does to the sleepers that are due
LEMMA KeepDueIs ==
  ASSUME NEW n, NEW c, Made(n, c), due \subseteq Thread
  PROVE  /\ PP!KeepDue
         /\ (\A t \in due : Home(n, t) = SleepQ) => due' = due
<1>1. \A t \in Thread : t \in ToSet(n.q[SleepQ]) <=> Home(n, t) = SleepQ
  BY QueuesAre, LinkedIs DEF Made
<1>2. \A t \in Thread : PcbOf'[t].phead = Home(n, t)
  <2>1. PcbOf' = Tab(n)
    BY PcbNext DEF Made
  <2> QED BY <2>1, TabIs DEF Entry, Made
<1>3. due' = due \cap ToSet(n.q[SleepQ])
  BY DEF Made, Becomes
<1>4. due' = {t \in due : PcbOf'[t].phead = SleepQ}
  BY <1>1, <1>2, <1>3
<1>5. PP!KeepDue
  BY <1>4, NamesAre DEF PP!KeepDue, PcbOf
<1> QED BY <1>1, <1>3, <1>5

\* Who is due is asleep.
LEMMA DueHome ==
  ASSUME SchedIInv
  PROVE  due \subseteq Thread /\ \A t \in due : Home(State, t) = SleepQ
<1>1. PICK c : c \in CPU /\ c = 0
  BY ConstantsAssumption DEF CPU
<1>2. due \subseteq Thread /\ \A t \in due : t \in ToSet(queue[SleepQ])
  BY InvIs
<1>3. \A t \in Thread : t \in ToSet(queue[SleepQ]) <=> Home(State, t) = SleepQ
  <2>1. Linked(State, c)
    BY <1>1 DEF SchedIInv
  <2>2. \A t \in Thread : t \in ToSet(State.q[SleepQ]) <=> Home(State, t) = SleepQ
    BY <2>1, QueuesAre, LinkedIs
  <2> QED BY <2>2, StateFields
<1> QED BY <1>2, <1>3

\* The outcome of Proc's do_scheduler(), called with table tab
Outcome(c, tab, cur2, tab2, gl2) ==
  LET cur == current[c]
      awake == PP!Wake(tab, {t \in due : tab[t].phead = PP!SleepQ})
  IN  \E W \in SUBSET PP!ResSleepers(tab),
         Z \in SUBSET {t \in PP!Thread \ {cur} : tab[t].status = "ZOMBIE"},
         X \in SUBSET {t \in PP!Thread \ {cur} : tab[t].status = "EXITED"} :
        LET reaped == PP!DoKill(PP!KillThreads(PP!Wake(awake, W), Z), {t[1] : t \in X})
        IN  \E r \in PP!Restarts(reaped) :
              /\ gl2 = r.glush
              /\ \/ \E n \in PP!Eligible(r.pcb, c) :
                      /\ cur2 = [current EXCEPT ![c] = n]
                      /\ tab2 = PP!SetStatus(IF r.pcb[cur].status = "RUNNING"
                                          THEN PP!SetStatus(r.pcb, cur, "READY")
                                          ELSE r.pcb, n, "RUNNING")
                 \/ /\ PP!Eligible(awake, c) = {}
                    /\ cur[1] < NCPU
                    /\ tab2 = r.pcb
                    /\ cur2 = current

\* It is Proc's do_scheduler().
LEMMA OutcomeIs ==
  ASSUME NEW c, NEW b, PP!DoScheduler(c, b)
  PROVE  Outcome(c, b, current', PcbOf', glush')
BY DEF PP!DoScheduler, Outcome, PcbOf

\* handle_irq_timer()
LEMMA TimerMaps ==
  ASSUME SchedIInv, NEW c \in CPU, Timer(c)
  PROVE  PP!Timer(c) /\ \E n : Made(n, c) /\ Result(State, n, c)
<1>1. PICK n \in {DoScheduler(State, c, o) : o \in Oracle} : Becomes(n)
  BY ReturnIs DEF Timer
<1>2. status[current[c]] = "RUNNING"
  BY DEF Timer, Trap
<1>3. ScanPre(State, c)
  BY <1>2, TimerPre
<1>4. Result(State, n, c)
  BY <1>1, <1>3, DoSchedulerIs
<1>5. PICK a, b : a = State /\ b = PcbOf
  OBVIOUS
<1>7. PP!DoScheduler(c, b) /\ PP!KeepDue /\ Linked(n, c)
  <2>1. a.cur = current /\ a.gl = glush /\ ScanPre(a, c) /\ Result(a, n, c) /\ Tab(a) = b
    BY <1>3, <1>4, <1>5, StateFields, StateTab
  <2>2. due \subseteq Thread
    BY InvIs
  <2>3. PP!DoScheduler(c, Tab(a)) /\ PP!KeepDue /\ Linked(n, c)
    BY <1>1, <2>1, <2>2, SchedulerMaps
  <2> QED BY <2>1, <2>3
<1>6. PP!Trap(c)
  BY GuardsAre DEF Timer
<1>8. PP!Timer(c)
  <2>1. Outcome(c, b, current', PcbOf', glush')
    BY <1>7, OutcomeIs
  <2>2. Outcome(c, PcbOf, current', PcbOf', glush')
    BY <1>5, <2>1
  <2>3. PP!DoScheduler(c, PcbOf)
    BY <2>2 DEF PP!DoScheduler, Outcome, PcbOf
  <2> QED BY <1>6, <1>7, <2>3 DEF PP!Timer, PcbOf
<1> QED BY <1>1, <1>4, <1>7, <1>8 DEF Made

\* do_exit(), and the end of a process that another CPU has killed
LEMMA ExitMaps ==
  ASSUME SchedIInv, NEW c \in CPU, current[c][1] >= NCPU, DoExit(c)
  PROVE  PP!Exit(c) /\ \E n, a : /\ Made(n, c) /\ ScanPre(a, c) /\ a.cur = current /\ Result(a, n, c)
<1> DEFINE k == current[c]
           a == [KillThreads(State, c, k[1]) EXCEPT !.st[k] = "EXITED"]
<1>1. /\ ScanPre(a, c) /\ a.cur = current /\ a.gl = glush
      /\ Tab(a) = PP!SetStatus(PP!DoKill(PcbOf, {k[1]}), k, "EXITED")
  BY ExitPre
<1>2. Return({DoScheduler(a, c, o) : o \in Oracle})
  BY DEF DoExit
<1> HIDE DEF a
<1>7. PICK b, d : b = a /\ d = PP!SetStatus(PP!DoKill(PcbOf, {k[1]}), k, "EXITED")
  OBVIOUS
<1>3. PICK n \in {DoScheduler(a, c, o) : o \in Oracle} : Becomes(n)
  BY <1>2, ReturnIs
<1>4. Result(a, n, c)
  BY <1>1, <1>3, DoSchedulerIs
<1>5. PP!DoScheduler(c, d) /\ PP!KeepDue /\ Linked(n, c)
  <2>1. due \subseteq Thread
    BY InvIs
  <2>2. ScanPre(b, c) /\ b.cur = current /\ b.gl = glush /\ Result(b, n, c) /\ Tab(b) = d
    BY <1>1, <1>4, <1>7
  <2>3. PP!DoScheduler(c, Tab(b)) /\ PP!KeepDue /\ Linked(n, c)
    BY <1>3, <2>1, <2>2, SchedulerMaps
  <2> QED BY <2>2, <2>3
<1>6. PP!Exit(c)
  <2>1. Outcome(c, d, current', PcbOf', glush')
    BY <1>5, OutcomeIs
  <2>2. Outcome(c, PP!SetStatus(PP!DoKill(PcbOf, {k[1]}), k, "EXITED"), current', PcbOf', glush')
    BY <1>7, <2>1
  <2>3. PP!DoScheduler(c, PP!SetStatus(PP!DoKill(PcbOf, {k[1]}), k, "EXITED"))
    BY <2>2 DEF PP!DoScheduler, Outcome, PcbOf
  <2> QED BY <1>5, <2>3 DEF PP!Exit, PcbOf
<1> QED BY <1>1, <1>3, <1>4, <1>5, <1>6 DEF Made

\* A thread that was told to exit is no idle one.
LEMMA KilledPid ==
  ASSUME SchedIInv, NEW c \in CPU, status[current[c]] = "EXITING"
  PROVE  current[c][1] >= NCPU
<1>1. current[c] \in Thread
  BY InvIs
<1>2. current[c][1] \in Nat /\ current[c][2] \in 0 .. TidMax
  BY <1>1 DEF Thread, Pid
<1> SUFFICES ASSUME current[c][1] < NCPU PROVE FALSE
  BY <1>2, ConstantsAssumption
<1>3. PICK d \in CPU : d = current[c][1]
  BY <1>2, ConstantsAssumption DEF CPU
<1>4. \A t \in Thread : PcbOf[t].status = status[t]
  BY TrapIs DEF Entry
<1>5. PP!IdleAvailable
  BY DEF SchedIInv, PP!ProcInv
<1>6. /\ \A i \in 1 .. TidMax : PcbOf[<<d, i>>].status = "FREE"
      /\ PcbOf[Idle(d)].status \in {"RUNNING", "READY"}
  BY <1>5, NamesAre DEF PP!IdleAvailable, PcbOf
<1>7. current[c] = <<d, current[c][2]>>
  BY <1>1, <1>3 DEF Thread
<1>8. PcbOf[current[c]].status = "EXITING"
  BY <1>1, <1>4
<1>9. CASE current[c][2] = 0
  BY <1>6, <1>7, <1>8, <1>9 DEF Idle
<1>10. CASE current[c][2] # 0
  <2>1. current[c][2] \in 1 .. TidMax
    BY <1>2, <1>10
  <2> QED BY <1>6, <1>7, <1>8, <2>1
<1> QED BY <1>9, <1>10

\* do_thread_exit()
LEMMA ThreadExitMaps ==
  ASSUME SchedIInv, NEW c \in CPU, ThreadExit(c)
  PROVE  PP!ThreadExit(c) /\ \E n, a : /\ Made(n, c) /\ ScanPre(a, c) /\ a.cur = current /\ Result(a, n, c)
<1> DEFINE k == current[c]
           a == [State EXCEPT !.st[k] = "ZOMBIE"]
<1>1. PP!Syscall(c) /\ status[k] = "RUNNING" /\ k[2] # 0
  BY GuardsAre DEF ThreadExit
<1>2. /\ ScanPre(a, c) /\ a.cur = current /\ a.gl = glush
      /\ Tab(a) = PP!SetStatus(PcbOf, k, "ZOMBIE")
  BY <1>1, ZombiePre
<1>3. Return({DoScheduler(a, c, o) : o \in Oracle})
  BY DEF ThreadExit
<1> HIDE DEF a
<1>8. PICK b, d : b = a /\ d = PP!SetStatus(PcbOf, k, "ZOMBIE")
  OBVIOUS
<1>4. PICK n \in {DoScheduler(a, c, o) : o \in Oracle} : Becomes(n)
  BY <1>3, ReturnIs
<1>5. Result(a, n, c)
  BY <1>2, <1>4, DoSchedulerIs
<1>6. PP!DoScheduler(c, d) /\ PP!KeepDue /\ Linked(n, c)
  <2>1. due \subseteq Thread
    BY InvIs
  <2>2. ScanPre(b, c) /\ b.cur = current /\ b.gl = glush /\ Result(b, n, c) /\ Tab(b) = d
    BY <1>2, <1>5, <1>8
  <2>3. PP!DoScheduler(c, Tab(b)) /\ PP!KeepDue /\ Linked(n, c)
    BY <1>4, <2>1, <2>2, SchedulerMaps
  <2> QED BY <2>2, <2>3
<1>7. PP!ThreadExit(c)
  <2>1. Outcome(c, d, current', PcbOf', glush')
    BY <1>6, OutcomeIs
  <2>2. Outcome(c, PP!SetStatus(PcbOf, k, "ZOMBIE"), current', PcbOf', glush')
    BY <1>8, <2>1
  <2>3. PP!DoScheduler(c, PP!SetStatus(PcbOf, k, "ZOMBIE"))
    BY <2>2 DEF PP!DoScheduler, Outcome, PcbOf
  <2> QED BY <1>1, <1>6, <2>3 DEF PP!ThreadExit, PcbOf
<1> QED BY <1>2, <1>4, <1>5, <1>6, <1>7 DEF Made
-----------------------------------------------------------------------------
\* do_kill() of another process
LEMMA KillMaps ==
  ASSUME SchedIInv, NEW c \in CPU, NEW p \in Pid, Kill(c, p)
  PROVE  PP!Kill(c, p) /\ current' = current /\ \E n : Made(n, c)
<1>1. /\ PP!Syscall(c) /\ p >= NCPU /\ p # current[c][1] /\ Farr(State, p) # {}
      /\ Return({DoKill(State, c, p, o) : o \in Oracle})
  BY GuardsAre DEF Kill
<1>2. PICK n \in {DoKill(State, c, p, o) : o \in Oracle} : Becomes(n)
  BY <1>1, ReturnIs
<1>3. Linked(State, c) /\ PcbOf \in Tables
      /\ \A t \in Thread : Entry(PcbOf, t, status[t], Home(State, t), mask[t])
  BY TrapIs
<1>4. State.cur[c] \notin Frees(State, p)
  BY <1>1, StateFields DEF Frees
<1>5. ShellLives(State)
  BY InvIs, StateFields DEF ShellLives
<1>6. PICK R, A : Kills(State, n, c, p, R, A)
  BY <1>2, <1>3, <1>4, <1>5, DoKillIs
<1> DEFINE F == Frees(State, p)
           E == Tells(State, p)
           b == PP!Wake(PcbOf, R)
           d == PP!DoKill(b, {p})
<1>7. /\ Linked(n, c) /\ Did(State, n, R, F, E, A) /\ (\A t \in R : Home(State, t) \in ResQs)
      /\ Shell(State, n, F, A)
  BY <1>6 DEF Kills
<1>8. R \subseteq {t \in Thread : State.st[t] = "SLEEPING"} /\ n.cur = current
  BY <1>7, StateFields DEF Did
<1>9. b \in Tables /\ \A t \in Thread : Entry(b, t, IF t \in R THEN "READY" ELSE State.st[t],
                                              IF t \in R THEN ReadyQ ELSE Home(State, t), State.mk[t])
  BY <1>3, WakeTab, StateFields DEF Entry
<1> HIDE DEF b
<1>10. d \in Tables /\ \A t \in Thread : LeftOf(d, State, R, F, E, t)
  BY <1>3, <1>7, <1>8, <1>9, DoKillTab
<1> HIDE DEF d, F, E
<1>11. Leads(d, State, n, R, F, E, A)
  BY <1>7, <1>10 DEF Leads
<1>12. [pcb |-> Tab(n), glush |-> n.gl] \in PP!Restarts(d)
  BY <1>3, <1>7, <1>11, StateFields, RestartIs
<1>13. PcbOf' = Tab(n) /\ glush' = n.gl /\ current' = current
  BY <1>2, <1>8, PcbNext DEF Becomes
<1>14. PP!KeepDue
  <2>1. due \subseteq Thread
    BY InvIs
  <2> QED BY <1>2, <1>7, <2>1, KeepDueIs DEF Made
<1>15. R \in SUBSET PP!ResSleepers(PcbOf)
  BY <1>3, <1>7, <1>8, NamesAre DEF PP!ResSleepers, Entry
<1>16. PP!Kill(c, p)
  <2>1. PP!ThreadsOf(PcbOf, p) # {}
    BY <1>1, GuardsAre
  <2> DEFINE r == [pcb |-> Tab(n), glush |-> n.gl]
  <2>2. r \in PP!Restarts(PP!DoKill(PP!Wake(PcbOf, R), {p})) /\ PcbOf' = r.pcb /\ glush' = r.glush
    BY <1>12, <1>13 DEF d, b
  <2> HIDE DEF r
  <2>3. \E W \in SUBSET PP!ResSleepers(PcbOf) :
          \E x \in PP!Restarts(PP!DoKill(PP!Wake(PcbOf, W), {p})) : PcbOf' = x.pcb /\ glush' = x.glush
    BY <1>15, <2>2
  <2> QED BY <1>1, <1>13, <1>14, <2>1, <2>3 DEF PP!Kill, PcbOf
<1> QED BY <1>2, <1>7, <1>13, <1>16 DEF Made

\* A new PCB is one in Proc's table.
LEMMA AddMaps ==
  ASSUME SchedIInv, NEW c \in CPU, NEW t \in Thread, status[t] = "FREE", NEW m \in SUBSET CPU,
         NEW n, n = AddThread(State, t, m), Becomes(n)
  PROVE  /\ Made(n, c) /\ PcbOf' = PP!AddThread(PcbOf, t, m)
         /\ current' = current /\ glush' = glush /\ due' = due
<1> DEFINE e == [status |-> "READY", phead |-> ReadyQ, mask |-> m]
           d == PP!AddThread(PcbOf, t, m)
<1>1. Linked(State, c) /\ PcbOf \in Tables
      /\ \A u \in Thread : Entry(PcbOf, u, status[u], Home(State, u), mask[u])
  BY TrapIs
<1>2. /\ Linked(n, c) /\ n.cur = current /\ n.gl = glush
      /\ n.st[t] = "READY" /\ Home(n, t) = ReadyQ /\ n.mk[t] = m
      /\ \A u \in Thread \ {t} :
            n.st[u] = status[u] /\ Home(n, u) = Home(State, u) /\ n.mk[u] = mask[u]
  BY <1>1, AddThreadIs, StateFields
<1>3. d = [u \in Thread |-> IF u = t THEN e ELSE PcbOf[u]]
  BY NamesAre DEF PP!AddThread, PP!Update
<1>4. e \in Pcbs
  BY QueuesAre DEF Pcbs, Status
<1>5. d \in Tables
  <2> HIDE DEF d, e
  <2> QED BY <1>1, <1>3, <1>4 DEF Tables
<1>6. Tab(n) \in Tables /\ \A u \in Thread : Entry(Tab(n), u, n.st[u], Home(n, u), n.mk[u])
  BY <1>2, TabIs
<1> HIDE DEF d
<1>7. ASSUME NEW u \in Thread PROVE Entry(Tab(n), u, d[u].status, d[u].phead, d[u].mask)
  <2>1. CASE u = t
    <3>1. d[u] = e
      BY <1>3, <2>1
    <3> QED BY <1>2, <1>6, <2>1, <3>1 DEF Entry
  <2>2. CASE u # t
    <3>1. d[u] = PcbOf[u]
      BY <1>3, <2>2
    <3> QED BY <1>1, <1>2, <1>6, <2>2, <3>1 DEF Entry
  <2> QED BY <2>1, <2>2
<1>8. Tab(n) = d
  BY <1>5, <1>6, <1>7, TabsEqual
<1>9. PcbOf' = Tab(n) /\ current' = current /\ glush' = glush
  BY <1>2, PcbNext DEF Becomes
<1>10. due' = due
  <2>1. Made(n, c)
    BY <1>2 DEF Made
  <2>2. due \subseteq Thread /\ \A u \in due : Home(State, u) = SleepQ
    BY DueHome
  <2>3. \A u \in due : u # t
    <3>1. Home(State, t) = NoQ
      BY <1>1, LinkedIs, StateFields
    <3> QED BY <2>2, <3>1, QueuesAre
  <2>4. \A u \in due : Home(n, u) = SleepQ
    BY <1>2, <2>2, <2>3
  <2> QED BY <2>1, <2>2, <2>4, KeepDueIs
<1> QED BY <1>2, <1>8, <1>9, <1>10 DEF d, Made

\* do_exec(), do_taskset(create)
LEMMA ExecMaps ==
  ASSUME SchedIInv, NEW c \in CPU, NEW m \in SUBSET CPU, Exec(c, m)
  PROVE  (\E p \in Pid : PP!Exec(c, p, m)) /\ current' = current /\ \E n : Made(n, c)
<1>1. /\ PP!Syscall(c) /\ HasRoom(State) /\ FreePids(State) # {}
      /\ Return({AddThread(State, <<AllocPid(State), 0>>, m)})
  BY GuardsAre DEF Exec
<1>2. PICK p : p = AllocPid(State)
  OBVIOUS
<1>3. p \in FreePids(State) /\ p \in Pid /\ <<p, 0>> \in Thread /\ status[<<p, 0>>] = "FREE"
  BY <1>1, <1>2, AllocPidIs, StateFields
<1>4. PICK n : n = AddThread(State, <<p, 0>>, m) /\ Becomes(n)
  BY <1>1, <1>2, ReturnIs
<1>5. /\ Made(n, c) /\ PcbOf' = PP!AddThread(PcbOf, <<p, 0>>, m)
      /\ current' = current /\ glush' = glush /\ due' = due
  BY <1>3, <1>4, AddMaps
<1>6. PP!HasRoom(PcbOf) /\ p \in PP!FreePids(PcbOf)
  BY <1>1, <1>3, GuardsAre
<1>7. PP!Exec(c, p, m)
  BY <1>1, <1>5, <1>6 DEF PP!Exec, PcbOf
<1> QED BY <1>3, <1>5, <1>7

\* do_fork()
LEMMA ForkMaps ==
  ASSUME SchedIInv, NEW c \in CPU, Fork(c)
  PROVE  (\E p \in Pid : PP!Fork(c, p)) /\ current' = current /\ \E n : Made(n, c)
<1>1. /\ PP!Syscall(c) /\ HasRoom(State) /\ FreePids(State) # {}
      /\ Farr(State, current[c][1]) = {current[c]}
      /\ Return({AddThread(State, <<AllocPid(State), 0>>, mask[current[c]])})
  BY GuardsAre DEF Fork
<1>2. PICK p, m : p = AllocPid(State) /\ m = mask[current[c]]
  OBVIOUS
<1>3. p \in FreePids(State) /\ p \in Pid /\ <<p, 0>> \in Thread /\ status[<<p, 0>>] = "FREE"
  BY <1>1, <1>2, AllocPidIs, StateFields
<1>4. m \in SUBSET CPU /\ PcbOf[current[c]].mask = m
  <2>1. current[c] \in Thread
    BY InvIs
  <2>2. \A t \in Thread : PcbOf[t].mask = mask[t]
    BY TrapIs DEF Entry
  <2>3. mask \in [Thread -> SUBSET CPU]
    BY InvIs
  <2> QED BY <1>2, <2>1, <2>2, <2>3
<1>5. PICK n : n = AddThread(State, <<p, 0>>, m) /\ Becomes(n)
  BY <1>1, <1>2, ReturnIs
<1>6. /\ Made(n, c) /\ PcbOf' = PP!AddThread(PcbOf, <<p, 0>>, m)
      /\ current' = current /\ glush' = glush /\ due' = due
  BY <1>3, <1>4, <1>5, AddMaps
<1>7. PP!HasRoom(PcbOf) /\ p \in PP!FreePids(PcbOf)
      /\ PP!ThreadsOf(PcbOf, current[c][1]) = {current[c]}
  BY <1>1, <1>3, GuardsAre
<1>8. PcbOf' = PP!AddThread(PcbOf, <<p, 0>>, PcbOf[current[c]].mask)
  BY <1>4, <1>6
<1>9. PP!Fork(c, p)
  BY <1>1, <1>6, <1>7, <1>8 DEF PP!Fork, PcbOf
<1> QED BY <1>3, <1>6, <1>9

\* do_thread_create()
LEMMA ThreadCreateMaps ==
  ASSUME SchedIInv, NEW c \in CPU, ThreadCreate(c)
  PROVE  (\E tid \in 0 .. TidMax : PP!ThreadCreate(c, tid)) /\ current' = current /\ \E n : Made(n, c)
<1> DEFINE g == current[c][1]
           T == {i \in 1 .. TidMax : status[<<g, i>>] = "FREE"}
<1>1. PICK tid : tid = CHOOSE i \in T : \A j \in T : i <= j
  OBVIOUS
<1>2. /\ PP!Syscall(c) /\ HasRoom(State) /\ T # {}
      /\ Return({AddThread(State, <<g, tid>>, CPU)})
  BY <1>1, GuardsAre DEF ThreadCreate
<1>3. T \subseteq Nat
  BY ConstantsAssumption
<1>4. tid \in T /\ \A j \in T : tid <= j
  <2> HIDE DEF T
  <2>1. \E i \in T : \A j \in T : i <= j
    BY <1>2, <1>3, LeastIs
  <2> QED BY <1>1, <2>1
<1>5. tid \in 1 .. TidMax /\ tid \in 0 .. TidMax /\ status[<<g, tid>>] = "FREE"
      /\ \A o \in 1 .. tid - 1 : status[<<g, o>>] # "FREE" /\ o \in 0 .. TidMax
  <2>1. tid \in 1 .. TidMax /\ status[<<g, tid>>] = "FREE"
    BY <1>4
  <2>2. ASSUME NEW o \in 1 .. tid - 1 PROVE o \in 1 .. TidMax /\ ~(tid <= o)
    BY <2>1, <2>2, ConstantsAssumption
  <2> QED BY <1>4, <2>1, <2>2
<1>6. g \in Pid /\ current[c] \in Thread
  BY InvIs DEF Thread
<1>7. \A o \in 0 .. TidMax : <<g, o>> \in Thread
  BY <1>6 DEF Thread
<1>8. PICK t : t = <<g, tid>>
  OBVIOUS
<1>9. t \in Thread /\ status[t] = "FREE"
  BY <1>5, <1>7, <1>8
<1>10. PICK n : n = AddThread(State, t, CPU) /\ Becomes(n)
  BY <1>2, <1>8, ReturnIs
<1>11. /\ Made(n, c) /\ PcbOf' = PP!AddThread(PcbOf, t, CPU)
       /\ current' = current /\ glush' = glush /\ due' = due
  BY <1>9, <1>10, AddMaps
<1>12. \A u \in Thread : PcbOf[u].status = status[u]
  BY TrapIs DEF Entry
<1>13. PP!HasRoom(PcbOf) /\ PcbOf[<<g, tid>>].status = "FREE" /\ tid # 0
       /\ \A o \in 1 .. tid - 1 : PcbOf[<<g, o>>].status # "FREE"
  BY <1>2, <1>5, <1>7, <1>8, <1>9, <1>12, GuardsAre
<1>14. PP!ThreadCreate(c, tid)
  BY <1>2, <1>8, <1>11, <1>13, NamesAre DEF PP!ThreadCreate, PcbOf
<1> QED BY <1>5, <1>11, <1>14
-----------------------------------------------------------------------------
\* The walk that do_block() takes meets all the others of the ring, and no one else.
LEMMA WalkFromIs ==
  ASSUME NEW r \in Ring, NEW t \in ToSet(r)
  PROVE  /\ DOMAIN WalkFrom(r, t) = 1 .. Len(WalkFrom(r, t)) /\ Len(WalkFrom(r, t)) \in Nat
         /\ \A i \in DOMAIN WalkFrom(r, t) : WalkFrom(r, t)[i] \in Thread
         /\ \A x \in ToSet(r) \ {t} : \E i \in DOMAIN WalkFrom(r, t) : WalkFrom(r, t)[i] = x
<1> DEFINE k == IndexOf(r, t)
           n == Len(r)
           a == SubSeq(r, k + 1, n)
           b == SubSeq(r, 1, k - 1)
           w == WalkFrom(r, t)
<1>1. r \in Seq(Thread) /\ n \in Nat
  BY RingIs
<1>2. k \in 1 .. n /\ r[k] = t
  BY IndexIn
<1>3. w = a \o b
  BY DEF WalkFrom
<1> HIDE DEF k
<1>4. k \in 0 .. n /\ k - 1 \in 0 .. n
  BY <1>1, <1>2
<1>5. a \in Seq(Thread) /\ Len(a) = n - k /\ \A i \in 1 .. n - k : a[i] = r[k + i]
  BY <1>1, <1>4, PartsAre
<1>6. b \in Seq(Thread) /\ Len(b) = k - 1 /\ \A i \in 1 .. k - 1 : b[i] = r[i]
  BY <1>1, <1>4, PartsAre
<1> HIDE DEF a, b, n, w
<1>7. /\ w \in Seq(Thread) /\ Len(w) = Len(a) + Len(b)
      /\ \A i \in 1 .. Len(a) + Len(b) : w[i] = IF i <= Len(a) THEN a[i] ELSE b[i - Len(a)]
  BY <1>3, <1>5, <1>6, JoinIs
<1>8. DOMAIN w = 1 .. Len(w) /\ Len(w) \in Nat /\ \A i \in DOMAIN w : w[i] \in Thread
  BY <1>7
<1>9. ASSUME NEW x \in ToSet(r) \ {t}
      PROVE  \E i \in DOMAIN w : w[i] = x
  <2>1. PICK j \in 1 .. n : r[j] = x
    BY MembersAre DEF n
  <2>2. j # k
    BY <1>2, <2>1
  <2>3. CASE j > k
    <3>1. j - k \in 1 .. n - k /\ k + (j - k) = j
      BY <1>1, <1>2, <2>1, <2>3
    <3>2. a[j - k] = x
      BY <1>5, <2>1, <3>1
    <3>3. j - k \in 1 .. Len(a) + Len(b) /\ j - k <= Len(a)
      BY <1>1, <1>2, <1>5, <1>6, <3>1
    <3> QED BY <1>7, <1>8, <3>2, <3>3
  <2>4. CASE j < k
    <3>1. b[j] = x
      BY <1>1, <1>2, <1>6, <2>1, <2>4
    <3>2. /\ Len(a) + j \in 1 .. Len(a) + Len(b) /\ ~(Len(a) + j <= Len(a)) /\ (Len(a) + j) - Len(a) = j
      <4>1. PICK x0, y0 : x0 = Len(a) /\ y0 = Len(b)
        OBVIOUS
      <4>2. x0 \in Nat /\ y0 \in Nat /\ j \in 1 .. y0
        BY <1>1, <1>2, <1>5, <1>6, <2>1, <2>4, <4>1
      <4>3. x0 + j \in 1 .. x0 + y0 /\ ~(x0 + j <= x0) /\ (x0 + j) - x0 = j
        BY <4>2
      <4> QED BY <4>1, <4>3
    <3>3. w[Len(a) + j] = b[(Len(a) + j) - Len(a)]
      BY <1>7, <3>2
    <3> QED BY <1>7, <1>8, <3>1, <3>2, <3>3
  <2> QED BY <1>1, <1>2, <2>1, <2>2, <2>3, <2>4
<1> QED BY <1>8, <1>9 DEF w

\* The caller sleeps in ring q, and p runs.
Blocked(c, q, p) ==
  [State EXCEPT !.cur[c] = p, !.st[p] = "RUNNING", !.st[current[c]] = "SLEEPING",
                !.q[ReadyQ] = lpcb_del_node(@, current[c]),
                !.q[q] = Append(@, current[c])]

\* do_block() finds a thread to run: the idle PCB at least.
LEMMA BlockFinds ==
  ASSUME SchedIInv, NEW c \in CPU, status[current[c]] = "RUNNING", current[c][1] >= NCPU, NEW q
  PROVE  \E p \in Thread :
           /\ CanRun(State, c, p) /\ p # current[c]
           /\ DoBlock(State, c, q) = Blocked(c, q, p)
<1> DEFINE k == current[c]
           r == queue[ReadyQ]
           w == WalkFrom(r, k)
           S == {i \in DOMAIN w : CanRun(State, c, w[i])}
<1>1. Linked(State, c) /\ k \in Thread
  BY TrapIs
<1>2. r \in Ring /\ \A t \in Thread : t \in ToSet(r) <=> Home(State, t) = ReadyQ
  <2>1. State.q[ReadyQ] \in Ring /\ \A t \in Thread : t \in ToSet(State.q[ReadyQ]) <=> Home(State, t) = ReadyQ
    <3>1. \A q0 \in Rings : State.q[q0] \in Ring
      BY <1>1, LinkedIs
    <3>2. \A t \in Thread : \A q0 \in Rings : t \in ToSet(State.q[q0]) <=> Home(State, t) = q0
      BY <1>1, LinkedIs
    <3> QED BY <3>1, <3>2, QueuesAre
  <2> QED BY <2>1, StateFields
<1>3. \A t \in Thread : status[t] \notin {"FREE", "SLEEPING"} => t \in ToSet(r)
  <2>1. \A t \in Thread : /\ status[t] = "FREE" <=> Home(State, t) = NoQ
                          /\ status[t] = "SLEEPING" <=> Home(State, t) \notin {NoQ, ReadyQ}
    BY <1>1, LinkedIs, StateFields
  <2> QED BY <1>2, <2>1
<1>4. Idle(c) \in Thread /\ CanRun(State, c, Idle(c)) /\ Idle(c) # k
  <2>1. Idle(c) \in Thread /\ mask[Idle(c)] = {c} /\ (k = Idle(c) \/ status[Idle(c)] = "READY")
    BY InvIs
  <2>2. Idle(c) # k
    BY ConstantsAssumption DEF Idle, CPU
  <2> QED BY <2>1, <2>2, StateFields DEF CanRun
<1>5. k \in ToSet(r) /\ Idle(c) \in ToSet(r) \ {k}
  BY <1>1, <1>3, <1>4, StateFields DEF CanRun
<1>6. /\ DOMAIN w = 1 .. Len(w) /\ Len(w) \in Nat
      /\ \A i \in DOMAIN w : w[i] \in Thread
      /\ \E i \in DOMAIN w : w[i] = Idle(c)
  BY <1>2, <1>5, WalkFromIs
<1> HIDE DEF w, r
<1>7. S # {} /\ S \subseteq Nat
  BY <1>4, <1>6
<1> HIDE DEF S
<1>8. Min(S) \in S
  <2>1. \E x \in S : \A y \in S : x <= y
    BY <1>7, LeastIs
  <2> QED BY <2>1 DEF Min
<1>9. PICK p : p = w[Min(S)]
  OBVIOUS
<1>10. p \in Thread /\ CanRun(State, c, p)
  BY <1>6, <1>8, <1>9 DEF S
<1>11. p # k
  BY <1>10, StateFields DEF CanRun
<1>12. DoBlock(State, c, q) = Blocked(c, q, p)
  BY <1>7, <1>9, StateFields DEF DoBlock, Blocked, S, w, r
<1> QED BY <1>10, <1>11, <1>12

\* What it has made of the state then
LEMMA BlockIs ==
  ASSUME SchedIInv, NEW c \in CPU, status[current[c]] = "RUNNING", NEW q \in Rings, q # ReadyQ,
         NEW p \in Thread, CanRun(State, c, p), p # current[c], NEW n,
         n = Blocked(c, q, p)
  PROVE  /\ Linked(n, c) /\ n.gl = glush /\ n.cur = [current EXCEPT ![c] = p] /\ n.mk = mask
         /\ n.st[p] = "RUNNING" /\ n.st[current[c]] = "SLEEPING"
         /\ \A u \in Thread \ {p, current[c]} : n.st[u] = status[u]
         /\ Home(n, current[c]) = q /\ \A u \in Thread \ {current[c]} : Home(n, u) = Home(State, u)
<1> DEFINE k == current[c]
<1>21. PICK h : h = [u \in Thread |-> IF u = k THEN q ELSE Home(State, u)]
  OBVIOUS
<1>1. State \in SchedState /\ panic = FALSE /\ k \in Thread /\ Home(State, k) = ReadyQ
      /\ \A r \in Rings : queue[r] \in Ring
  <2>1. Linked(State, c)
    BY TrapIs
  <2>2. State \in SchedState /\ State.panic = FALSE /\ State.cur[c] \in Thread
        /\ Home(State, State.cur[c]) = ReadyQ
    BY <2>1, LinkedIs
  <2>3. \A r \in Rings : State.q[r] \in Ring
    BY <2>1, LinkedIs
  <2> QED BY <2>2, <2>3, StateFields
<1>2. /\ \A u \in Thread : Home(State, u) \in Queue
      /\ \A u \in Thread, r \in Rings : u \in ToSet(queue[r]) <=> Home(State, u) = r
      /\ \A u \in Thread : status[u] = "FREE" <=> Home(State, u) = NoQ
      /\ \A u \in Thread : status[u] = "SLEEPING" <=> Home(State, u) \notin {NoQ, ReadyQ}
  <2>1. Linked(State, c)
    BY TrapIs
  <2>2. \A u \in Thread : Home(State, u) \in Queue
    BY <2>1, LinkedIs
  <2>3. \A u \in Thread : \A r \in Rings : u \in ToSet(State.q[r]) <=> Home(State, u) = r
    BY <2>1, LinkedIs
  <2>4. \A u \in Thread : State.st[u] = "FREE" <=> Home(State, u) = NoQ
    BY <2>1, LinkedIs
  <2>5. \A u \in Thread : State.st[u] = "SLEEPING" <=> Home(State, u) \notin {NoQ, ReadyQ}
    BY <2>1, LinkedIs
  <2> QED BY <2>2, <2>3, <2>4, <2>5, StateFields
<1>3. ReadyQ \in Rings /\ q # NoQ /\ q \in Queue /\ ReadyQ # NoQ
  BY QueuesAre
<1>4. k \in ToSet(queue[ReadyQ]) /\ k \notin ToSet(queue[q]) /\ status[p] = "READY"
  <2>1. status[p] = "READY"
    BY StateFields DEF CanRun
  <2> QED BY <1>1, <1>2, <1>3, <2>1
<1> DEFINE d == lpcb_del_node(queue[ReadyQ], k)
           a == Append(queue[q], k)
<1>5. n = [State EXCEPT !.cur[c] = p, !.st[p] = "RUNNING", !.st[k] = "SLEEPING",
                        !.q[ReadyQ] = d, !.q[q] = a]
  BY StateFields DEF State, Blocked
<1>6. d \in Ring /\ ToSet(d) = ToSet(queue[ReadyQ]) \ {k}
  BY <1>1, <1>3, DelSet
<1>7. a \in Ring /\ ToSet(a) = ToSet(queue[q]) \cup {k}
  BY <1>1, <1>4, AppIs
<1>8. /\ status \in [Thread -> Status] /\ queue \in [Rings -> Ring] /\ current \in [CPU -> Thread]
  BY <1>1, StateIs, StateFields
<1> HIDE DEF d, a, k
<1>9. /\ n.st = [[status EXCEPT ![p] = "RUNNING"] EXCEPT ![k] = "SLEEPING"] /\ n.mk = mask
      /\ n.cur = [current EXCEPT ![c] = p] /\ n.gl = glush
      /\ n.q = [[queue EXCEPT ![ReadyQ] = d] EXCEPT ![q] = a] /\ n.panic = panic
  BY <1>5 DEF State
<1>20. n = [st |-> n.st, mk |-> n.mk, q |-> n.q, cur |-> n.cur, gl |-> n.gl, panic |-> n.panic]
  BY <1>5 DEF State
<1>10. n.st \in [Thread -> Status] /\ n.q \in [Rings -> Ring] /\ n.cur \in [CPU -> Thread]
  <2>1. "RUNNING" \in Status /\ "SLEEPING" \in Status
    BY DEF Status
  <2>2. n.st \in [Thread -> Status]
    <3>1. PICK x0, y0 : x0 = "RUNNING" /\ y0 = "SLEEPING"
      OBVIOUS
    <3>2. PICK f0 : f0 = [status EXCEPT ![p] = x0]
      OBVIOUS
    <3>3. f0 \in [Thread -> Status]
      BY <1>8, <2>1, <3>1, <3>2
    <3>4. [f0 EXCEPT ![k] = y0] \in [Thread -> Status]
      BY <2>1, <3>1, <3>3
    <3>5. n.st = [f0 EXCEPT ![k] = y0]
      BY <1>9, <3>1, <3>2
    <3> QED BY <3>4, <3>5
  <2>3. n.q \in [Rings -> Ring]
    <3>1. PICK f0 : f0 = [queue EXCEPT ![ReadyQ] = d]
      OBVIOUS
    <3>2. f0 \in [Rings -> Ring]
      BY <1>6, <1>8, <3>1
    <3>3. [f0 EXCEPT ![q] = a] \in [Rings -> Ring]
      BY <1>7, <3>2
    <3> QED BY <1>9, <3>1, <3>3
  <2>4. n.cur \in [CPU -> Thread]
    BY <1>8, <1>9
  <2> QED BY <2>2, <2>3, <2>4
<1>11. n \in SchedState
  <2>1. mask \in [Thread -> SUBSET CPU] /\ glush \in (NCPU .. PidMax) \cup {NoPid} /\ panic \in BOOLEAN
    BY <1>1, StateIs, StateFields
  <2> QED BY <1>9, <1>10, <1>20, <2>1 DEF SchedState
<1>12. /\ n.q[q] = a /\ n.q[ReadyQ] = d /\ \A r \in Rings \ {q, ReadyQ} : n.q[r] = queue[r]
  BY <1>3, <1>8, <1>9
<1>13. /\ n.st[p] = "RUNNING" /\ n.st[k] = "SLEEPING" /\ \A u \in Thread \ {p, k} : n.st[u] = status[u]
  <2>1. PICK x0, y0 : x0 = "RUNNING" /\ y0 = "SLEEPING"
    OBVIOUS
  <2>2. PICK f0 : f0 = [status EXCEPT ![p] = x0]
    OBVIOUS
  <2>3. DOMAIN f0 = Thread /\ f0[p] = x0 /\ \A u \in Thread \ {p} : f0[u] = status[u]
    BY <1>8, <2>2
  <2>4. n.st = [f0 EXCEPT ![k] = y0] /\ p # k
    BY <1>9, <2>1, <2>2 DEF k
  <2>5. n.st[k] = y0 /\ \A u \in Thread \ {k} : n.st[u] = f0[u]
    BY <1>1, <2>3, <2>4
  <2> QED BY <2>1, <2>3, <2>4, <2>5
<1>14. h \in [Thread -> Queue] /\ h[k] = q /\ \A u \in Thread \ {k} : h[u] = Home(State, u)
  BY <1>1, <1>2, <1>3, <1>21
<1>15. ASSUME NEW u \in Thread
       PROVE  /\ \A r \in Rings : u \in ToSet(n.q[r]) <=> h[u] = r
              /\ n.st[u] = "FREE" <=> h[u] = NoQ
              /\ n.st[u] = "SLEEPING" <=> h[u] \notin {NoQ, ReadyQ}
  <2>1. ASSUME NEW r \in Rings PROVE u \in ToSet(n.q[r]) <=> h[u] = r
    <3>1. CASE r = ReadyQ
      BY <1>2, <1>3, <1>6, <1>12, <1>14, <3>1
    <3>2. CASE r = q
      <4>1. u \in ToSet(n.q[q]) <=> u \in ToSet(queue[q]) \/ u = k
        BY <1>7, <1>12
      <4>2. u \in ToSet(queue[q]) <=> Home(State, u) = q
        BY <1>2
      <4> QED BY <1>14, <3>2, <4>1, <4>2
    <3>3. CASE r # ReadyQ /\ r # q
      BY <1>1, <1>2, <1>12, <1>14, <3>3
    <3> QED BY <3>1, <3>2, <3>3
  <2>2. (n.st[u] = "FREE" <=> h[u] = NoQ) /\ (n.st[u] = "SLEEPING" <=> h[u] \notin {NoQ, ReadyQ})
    <3>1. CASE u = k
      BY <1>3, <1>13, <1>14, <3>1
    <3>2. CASE u # k
      <4>1. (n.st[u] = "FREE" <=> status[u] = "FREE") /\ (n.st[u] = "SLEEPING" <=> status[u] = "SLEEPING")
        BY <1>4, <1>13, <3>2
      <4> QED BY <1>2, <1>14, <3>2, <4>1
    <3> QED BY <3>1, <3>2
  <2> QED BY <2>1, <2>2
<1>16. n.st[n.cur[c]] \notin {"FREE", "SLEEPING"}
  <2>1. n.cur[c] = p
    BY <1>8, <1>9
  <2> QED BY <1>13, <2>1
<1>17. Linked(n, c) /\ \A u \in Thread : Home(n, u) = h[u]
  <2>1. ~n.panic /\ c \in CPU
    BY <1>1, <1>9, <1>11
  <2>2. h \in [Thread -> Queue]
    BY <1>14
  <2>3. \A t \in Thread : /\ \A r \in Rings : t \in ToSet(n.q[r]) <=> h[t] = r
                          /\ n.st[t] = "FREE" <=> h[t] = NoQ
                          /\ n.st[t] = "SLEEPING" <=> h[t] \notin {NoQ, ReadyQ}
    BY <1>15
  <2>4. n.st[n.cur[c]] \notin {"FREE", "SLEEPING"}
    BY <1>16
  <2>5. n \in SchedState
    BY <1>11
  <2> HIDE <1>15, <1>16, <1>11
  <2> QED BY <2>1, <2>2, <2>3, <2>4, <2>5, LinkedFrom
<1> QED BY <1>1, <1>9, <1>13, <1>14, <1>17 DEF k
-----------------------------------------------------------------------------
\* A CPU that has switched runs a thread that may run there.
Affine == \A d \in CPU : current'[d] # current[d] => d \in mask'[current'[d]]

\* do_block()
LEMMA BlockMaps ==
  ASSUME SchedIInv, NEW c \in CPU, status[current[c]] = "RUNNING", current[c][1] >= NCPU,
         NEW q \in Rings, q # ReadyQ, Return({DoBlock(State, c, q)})
  PROVE  PP!DoBlock(c, q) /\ Affine /\ \E n : Made(n, c)
<1>1. PICK n \in {DoBlock(State, c, q)} : Becomes(n)
  BY ReturnIs
<1>2. PICK p \in Thread : CanRun(State, c, p) /\ p # current[c] /\ n = Blocked(c, q, p)
  BY <1>1, BlockFinds
<1>3. /\ Linked(n, c) /\ n.gl = glush /\ n.cur = [current EXCEPT ![c] = p] /\ n.mk = mask
      /\ n.st[p] = "RUNNING" /\ n.st[current[c]] = "SLEEPING"
      /\ \A u \in Thread \ {p, current[c]} : n.st[u] = status[u]
      /\ Home(n, current[c]) = q /\ \A u \in Thread \ {current[c]} : Home(n, u) = Home(State, u)
  BY <1>2, BlockIs
<1>4. status[p] = "READY" /\ c \in mask[p]
  BY <1>2, StateFields DEF CanRun
<1>5. current \in [CPU -> Thread]
  BY InvIs
<1>6. Affine
  <2>1. current' = [current EXCEPT ![c] = p] /\ mask' = mask
    BY <1>1, <1>3 DEF Becomes
  <2>2. \A d \in CPU : current'[d] # current[d] => d = c /\ current'[d] = p
    BY <1>5, <2>1
  <2> QED BY <1>4, <2>1, <2>2 DEF Affine
<1>7. PICK k : k = current[c]
  OBVIOUS
<1>8. /\ k \in Thread /\ PcbOf \in Tables
      /\ \A u \in Thread : Entry(PcbOf, u, status[u], Home(State, u), mask[u])
  BY <1>7, TrapIs
<1>9. PICK e : e = [PcbOf[k] EXCEPT !.status = "SLEEPING", !.phead = q]
  OBVIOUS
<1>10. e \in Pcbs /\ e.status = "SLEEPING" /\ e.phead = q /\ e.mask = mask[k]
  <2>1. PcbOf[k] \in Pcbs /\ PcbOf[k].mask = mask[k]
    BY <1>8 DEF Tables, Entry
  <2>2. q \in Queue
    BY QueuesAre
  <2> QED BY <1>9, <2>1, <2>2 DEF Pcbs, Status
<1>11. PICK b : b = PP!Update(PcbOf, k, e)
  OBVIOUS
<1>12. b = [u \in Thread |-> IF u = k THEN e ELSE PcbOf[u]]
  BY <1>11, NamesAre DEF PP!Update
<1>13. b \in Tables
  BY <1>8, <1>10, <1>12 DEF Tables
<1>14. PICK d : d = PP!SetStatus(b, p, "RUNNING")
  OBVIOUS
<1>15. d \in Tables /\ \A t \in Thread : Entry(d, t, IF t = p THEN "RUNNING" ELSE b[t].status, b[t].phead, b[t].mask)
  <2>1. "RUNNING" \in Status
    BY DEF Status
  <2> QED BY <1>13, <1>14, <2>1, SetTab
<1>16. Tab(n) \in Tables /\ \A u \in Thread : Entry(Tab(n), u, n.st[u], Home(n, u), n.mk[u])
  BY <1>3, TabIs
<1>17. ASSUME NEW u \in Thread PROVE Entry(Tab(n), u, d[u].status, d[u].phead, d[u].mask)
  <2>1. /\ d[u].status = (IF u = p THEN "RUNNING" ELSE b[u].status) /\ d[u].phead = b[u].phead /\ d[u].mask = b[u].mask
    BY <1>15 DEF Entry
  <2>2. Entry(Tab(n), u, n.st[u], Home(n, u), n.mk[u])
    BY <1>16
  <2>3. CASE u = k
    <3>1. b[u] = e
      BY <1>12, <2>3
    <3> QED BY <1>2, <1>3, <1>7, <1>10, <2>1, <2>2, <2>3, <3>1 DEF Entry
  <2>4. CASE u # k
    <3>1. b[u] = PcbOf[u]
      BY <1>12, <2>4
    <3>2. PcbOf[u].status = status[u] /\ PcbOf[u].phead = Home(State, u) /\ PcbOf[u].mask = mask[u]
      BY <1>8 DEF Entry
    <3>3. n.st[u] = (IF u = p THEN "RUNNING" ELSE status[u]) /\ Home(n, u) = Home(State, u) /\ n.mk[u] = mask[u]
      BY <1>3, <1>7, <2>4
    <3> QED BY <2>1, <2>2, <3>1, <3>2, <3>3 DEF Entry
  <2> QED BY <2>3, <2>4
<1>18. Tab(n) = d
  BY <1>15, <1>16, <1>17, TabsEqual
<1>19. Made(n, c)
  BY <1>1, <1>3 DEF Made
<1>20. PcbOf' = d /\ current' = [current EXCEPT ![c] = p] /\ glush' = glush
  BY <1>1, <1>3, <1>18, PcbNext DEF Becomes
<1>21. PP!KeepDue
  <2>1. due \subseteq Thread
    BY InvIs
  <2> QED BY <1>19, <2>1, KeepDueIs
<1>22. p \in PP!Eligible(PcbOf, c)
  <2>1. PcbOf[p].status = "READY" /\ c \in PcbOf[p].mask
    BY <1>4, <1>8 DEF Entry
  <2> QED BY <2>1, NamesAre DEF PP!Eligible
<1>23. PcbOf' = PP!SetStatus(PP!Update(PcbOf, current[c], [PcbOf[current[c]] EXCEPT
                                !.status = "SLEEPING", !.phead = q]), p, "RUNNING")
  BY <1>7, <1>9, <1>11, <1>14, <1>20
<1>24. PP!DoBlock(c, q)
  <2>1. \E x \in PP!Eligible(PcbOf, c) :
          /\ PcbOf' = PP!SetStatus(PP!Update(PcbOf, current[c], [PcbOf[current[c]] EXCEPT
                                !.status = "SLEEPING", !.phead = q]), x, "RUNNING")
          /\ current' = [current EXCEPT ![c] = x]
          /\ PP!KeepDue
          /\ UNCHANGED glush
    BY <1>20, <1>21, <1>22, <1>23
  <2> QED BY <2>1 DEF PP!DoBlock, PcbOf
<1> QED BY <1>6, <1>19, <1>24

\* do_sleep()
LEMMA SleepMaps ==
  ASSUME SchedIInv, NEW c \in CPU, Sleep(c)
  PROVE  PP!Sleep(c) /\ Affine /\ \E n : Made(n, c)
<1>1. /\ PP!Syscall(c) /\ status[current[c]] = "RUNNING" /\ current[c][1] >= NCPU
      /\ Return({DoBlock(State, c, SleepQ)})
  BY GuardsAre DEF Sleep, Syscall
<1>2. SleepQ \in Rings /\ SleepQ # ReadyQ
  BY QueuesAre
<1>3. PP!DoBlock(c, SleepQ) /\ Affine /\ \E n : Made(n, c)
  BY <1>1, <1>2, BlockMaps
<1> QED BY <1>1, <1>3, NamesAre DEF PP!Sleep

\* do_block() on a resource
LEMMA ResourceBlockMaps ==
  ASSUME SchedIInv, NEW c \in CPU, NEW r \in Resource, Block(c, r)
  PROVE  PP!Block(c, r) /\ Affine /\ \E n : Made(n, c)
<1>1. /\ PP!Syscall(c) /\ status[current[c]] = "RUNNING" /\ current[c][1] >= NCPU
      /\ Return({DoBlock(State, c, ResQ(r))})
  BY GuardsAre DEF Block, Syscall
<1>2. ResQ(r) \in Rings /\ ResQ(r) # ReadyQ
  BY QueuesAre
<1>3. PP!DoBlock(c, ResQ(r)) /\ Affine /\ \E n : Made(n, c)
  BY <1>1, <1>2, BlockMaps
<1> QED BY <1>1, <1>3, NamesAre DEF PP!Block

\* do_thread_wait()
LEMMA ThreadWaitMaps ==
  ASSUME SchedIInv, NEW c \in CPU, NEW tid \in 0 .. TidMax, ThreadWait(c, tid)
  PROVE  PP!ThreadWait(c, tid) /\ Affine /\ \E n : Made(n, c)
<1>1. PICK u : u = <<current[c][1], tid>>
  OBVIOUS
<1>2. /\ PP!Syscall(c) /\ status[current[c]] = "RUNNING" /\ current[c][1] >= NCPU
      /\ tid # 0 /\ tid # current[c][2] /\ status[u] # "FREE"
      /\ Return({DoBlock(State, c, WaitQ(u))})
  BY <1>1, GuardsAre DEF ThreadWait, Syscall
<1>3. u \in Thread
  <2>1. current[c] \in Thread
    BY InvIs
  <2> QED BY <1>1, <2>1 DEF Thread
<1>4. WaitQ(u) \in Rings /\ WaitQ(u) # ReadyQ
  BY <1>3, QueuesAre
<1>5. PICK q : q = WaitQ(u)
  OBVIOUS
<1>6. PP!DoBlock(c, q) /\ Affine /\ \E n : Made(n, c)
  BY <1>2, <1>4, <1>5, BlockMaps
<1>7. PcbOf[u].status # "FREE"
  BY <1>2, <1>3, TrapIs DEF Entry
<1>8. PcbOf[<<current[c][1], tid>>].status # "FREE"
  BY <1>1, <1>7
<1>9. PP!WaitQ(<<current[c][1], tid>>) = q
  BY <1>1, <1>5, NamesAre
<1>10. PP!DoBlock(c, PP!WaitQ(<<current[c][1], tid>>))
  BY <1>6, <1>9 DEF PP!DoBlock
<1> QED BY <1>2, <1>6, <1>8, <1>10 DEF PP!ThreadWait, PcbOf

\* do_waitpid()
LEMMA WaitpidMaps ==
  ASSUME SchedIInv, NEW c \in CPU, NEW p \in Pid, Waitpid(c, p)
  PROVE  PP!Waitpid(c, p) /\ Affine /\ \E n : Made(n, c)
<1> DEFINE S == Farr(State, p)
<1>1. PICK u : u = CHOOSE t \in S : \A o \in S : t[2] <= o[2]
  OBVIOUS
<1>2. /\ PP!Syscall(c) /\ status[current[c]] = "RUNNING" /\ current[c][1] >= NCPU
      /\ S # {} /\ p # current[c][1]
      /\ \A w \in ToSet(queue[WaitQ(current[c])]) : w[1] # p
      /\ Return({DoBlock(State, c, WaitQ(u))})
  BY <1>1, GuardsAre DEF Waitpid, Syscall
<1>3. \A t \in S : t \in Thread /\ t[1] = p /\ status[t] # "FREE" /\ t[2] \in Nat
  BY StateFields DEF Farr, Thread
<1>4. u \in S /\ \A o \in S : u[2] <= o[2]
  <2> DEFINE M == {t[2] : t \in S}
  <2> HIDE DEF S
  <2>1. M \subseteq Nat /\ M # {}
    BY <1>2, <1>3
  <2>2. \E x \in M : \A y \in M : x <= y
    <3> HIDE DEF M
    <3> QED BY <2>1, LeastIs
  <2>3. \E t \in S : \A o \in S : t[2] <= o[2]
    BY <2>2
  <2> QED BY <1>1, <2>3
<1> HIDE DEF S
<1>5. u \in Thread /\ u[1] = p
  BY <1>3, <1>4
<1>6. WaitQ(u) \in Rings /\ WaitQ(u) # ReadyQ
  BY <1>5, QueuesAre
<1>7. PICK q : q = WaitQ(u)
  OBVIOUS
<1>8. PP!DoBlock(c, q) /\ Affine /\ \E n : Made(n, c)
  BY <1>2, <1>6, <1>7, BlockMaps
<1>9. \A t \in Thread : PcbOf[t].status = status[t] /\ PcbOf[t].phead = Home(State, t)
  BY TrapIs DEF Entry
<1>10. \A w \in PP!Thread : PcbOf[w].phead = PP!WaitQ(current[c]) => w[1] # p
  <2>1. Linked(State, c) /\ current[c] \in Thread
    BY TrapIs
  <2>2. WaitQ(current[c]) \in Rings
    BY <2>1, QueuesAre
  <2>3. \A t \in Thread : \A r \in Rings : t \in ToSet(State.q[r]) <=> Home(State, t) = r
    BY <2>1, LinkedIs
  <2>4. \A t \in Thread : t \in ToSet(queue[WaitQ(current[c])]) <=> Home(State, t) = WaitQ(current[c])
    BY <2>2, <2>3, StateFields
  <2> QED BY <1>2, <1>9, <2>4, NamesAre
<1>11. u \in PP!SearchPid(p)
  <2>1. <<p, 0>> \in Thread
    BY ConstantsAssumption DEF Thread
  <2>2. PP!SearchPid(p) = IF status[<<p, 0>>] # "FREE" THEN {<<p, 0>>} ELSE S
    <3>1. PP!ThreadsOf(PcbOf, p) = S
      BY GuardsAre DEF S
    <3>2. PP!SearchPid(p) = IF PcbOf[<<p, 0>>].status # "FREE" THEN {<<p, 0>>} ELSE PP!ThreadsOf(PcbOf, p)
      BY DEF PP!SearchPid, PcbOf
    <3> QED BY <1>9, <2>1, <3>1, <3>2
  <2>3. CASE status[<<p, 0>>] # "FREE"
    <3>1. <<p, 0>> \in S
      BY <2>1, <2>3, StateFields DEF Farr, S
    <3>2. u[2] <= 0 /\ u[2] \in Nat
      BY <1>3, <1>4, <3>1
    <3>3. u[2] = 0
      BY <3>2
    <3>4. u = <<u[1], u[2]>>
      BY <1>5 DEF Thread
    <3> QED BY <1>5, <2>2, <2>3, <3>3, <3>4
  <2>4. CASE status[<<p, 0>>] = "FREE"
    BY <1>4, <2>2, <2>4
  <2> QED BY <2>3, <2>4
<1>12. PP!DoBlock(c, PP!WaitQ(u))
  <2>1. PP!WaitQ(u) = q
    BY <1>7, NamesAre
  <2> QED BY <1>8, <2>1
<1> QED BY <1>2, <1>8, <1>10, <1>11, <1>12 DEF PP!Waitpid, PcbOf
-----------------------------------------------------------------------------
\* do_unblock() of the first sleepers on a resource
LEMMA UnblockMaps ==
  ASSUME SchedIInv, NEW c \in CPU, NEW r \in Resource, Unblock(c, r)
  PROVE  /\ \E W \in SUBSET PP!ResSleepers(PcbOf) : PP!Unblock(c, W)
         /\ current' = current /\ \E n : Made(n, c)
<1>1. PICK q : q = ResQ(r)
  OBVIOUS
<1>2. /\ PP!Trap(c) /\ queue[q] # <<>>
      /\ Return({DoUnblock(State, c, q, i) : i \in 1 .. Len(queue[q])})
  BY <1>1, GuardsAre DEF Unblock
<1>3. PICK n \in {DoUnblock(State, c, q, i) : i \in 1 .. Len(queue[q])} : Becomes(n)
  BY <1>2, ReturnIs
<1>4. Linked(State, c) /\ PcbOf \in Tables
      /\ \A t \in Thread : Entry(PcbOf, t, status[t], Home(State, t), mask[t])
  BY TrapIs
<1>5. q \in Rings /\ q \notin {ReadyQ, SleepQ, NoQ} /\ q \in ResQs
  BY <1>1, QueuesAre DEF ResQs
<1>6. queue[q] \in Ring /\ \A t \in ToSet(queue[q]) : t \in Thread /\ Home(State, t) = q
  <2>1. State.q[q] \in Ring /\ ToSet(State.q[q]) \subseteq Thread
    BY <1>4, <1>5, LinkedIs
  <2>2. \A t \in Thread : t \in ToSet(State.q[q]) <=> Home(State, t) = q
    BY <1>4, <1>5, LinkedIs
  <2> QED BY <2>1, <2>2, StateFields
<1>7. PICK W \in SUBSET ToSet(queue[q]) :
         Linked(n, c) /\ Did(State, n, W, {}, {}, {}) /\ n.gl = glush /\ W # {}
  <2>1. Len(queue[q]) \in Nat
    BY <1>6, RingIs
  <2>2. PICK i : i \in Nat /\ i > 0 /\ n = DoUnblock(State, c, q, i)
    BY <1>3, <2>1
  <2>3. i \in Nat /\ i > 0
    BY <2>2
  <2>4. \E W \in SUBSET ToSet(State.q[q]) :
           /\ Linked(DoUnblock(State, c, q, i), c) /\ Did(State, DoUnblock(State, c, q, i), W, {}, {}, {})
           /\ DoUnblock(State, c, q, i).gl = State.gl
           /\ Carries(State, DoUnblock(State, c, q, i), c, {})
           /\ i >= Len(State.q[q]) => W = ToSet(State.q[q])
           /\ i > 0 /\ State.q[q] # <<>> => W # {}
    BY <1>4, <1>5, <2>3, DoUnblockIs
  <2> QED BY <1>2, <2>2, <2>3, <2>4, StateFields
<1>8. \A t \in Thread : t \in Up(State, W, {}) <=> t \in W
  BY DEF Up
<1>9. /\ n.cur = current
      /\ \A t \in Thread : /\ n.st[t] = IF t \in W THEN "READY" ELSE status[t]
                           /\ Home(n, t) = IF t \in W THEN ReadyQ ELSE Home(State, t)
                           /\ n.mk[t] = mask[t]
  BY <1>7, <1>8, StateFields DEF Did
<1>10. PICK d : d = PP!Wake(PcbOf, W)
  OBVIOUS
<1>11. d \in Tables /\ \A t \in Thread :
              Entry(d, t, IF t \in W THEN "READY" ELSE PcbOf[t].status,
                    IF t \in W THEN ReadyQ ELSE PcbOf[t].phead, PcbOf[t].mask)
  BY <1>4, <1>10, WakeTab
<1>12. Tab(n) \in Tables /\ \A t \in Thread : Entry(Tab(n), t, n.st[t], Home(n, t), n.mk[t])
  BY <1>7, TabIs
<1>13. ASSUME NEW t \in Thread PROVE Entry(Tab(n), t, d[t].status, d[t].phead, d[t].mask)
  BY <1>4, <1>9, <1>11, <1>12 DEF Entry
<1>14. Tab(n) = d
  BY <1>11, <1>12, <1>13, TabsEqual
<1>15. Made(n, c)
  BY <1>3, <1>7 DEF Made
<1>16. PcbOf' = PP!Wake(PcbOf, W) /\ current' = current /\ glush' = glush
  BY <1>3, <1>7, <1>9, <1>10, <1>14, PcbNext DEF Becomes
<1>17. due' = due
  <2>1. due \subseteq Thread /\ \A t \in due : Home(State, t) = SleepQ
    BY DueHome
  <2>2. \A t \in due : t \notin W
    BY <1>5, <1>6, <1>7, <2>1
  <2>3. \A t \in due : Home(n, t) = SleepQ
    BY <1>9, <2>1, <2>2
  <2> QED BY <1>15, <2>1, <2>3, KeepDueIs
<1>18. W \in SUBSET PP!ResSleepers(PcbOf)
  BY <1>4, <1>5, <1>6, <1>7, NamesAre DEF PP!ResSleepers, Entry
<1>19. PP!Unblock(c, W)
  BY <1>2, <1>7, <1>16, <1>17 DEF PP!Unblock, PcbOf
<1> QED BY <1>15, <1>16, <1>18, <1>19

\* do_taskset() of an existing process
LEMMA TasksetMaps ==
  ASSUME SchedIInv, NEW c \in CPU, NEW p \in Pid, NEW m \in SUBSET CPU, Taskset(c, p, m)
  PROVE  PP!Taskset(c, p, m) /\ current' = current /\ \E n : Made(n, c)
<1>1. PICK f : f = [t \in Thread |-> IF t \in Farr(State, p) THEN m ELSE mask[t]]
  OBVIOUS
<1>2. /\ PP!Syscall(c) /\ p >= NCPU /\ Farr(State, p) # {}
      /\ Return({[State EXCEPT !.mk = f]})
  <2>1. [State EXCEPT !.mk = [t \in Thread |-> IF t \in Farr(State, p) THEN m ELSE @[t]]]
          = [State EXCEPT !.mk = f]
    BY <1>1, StateFields
  <2> QED BY <2>1, GuardsAre DEF Taskset
<1>3. PICK n : n = [State EXCEPT !.mk = f] /\ Becomes(n)
  BY <1>2, ReturnIs
<1>4. Linked(State, c) /\ PcbOf \in Tables
      /\ \A t \in Thread : Entry(PcbOf, t, status[t], Home(State, t), mask[t])
  BY TrapIs
<1>5. f \in [Thread -> SUBSET CPU]
  BY <1>1, InvIs
<1>6. /\ n.st = status /\ n.q = queue /\ n.cur = current /\ n.gl = glush /\ n.mk = f /\ n.panic = panic
      /\ n = [st |-> n.st, mk |-> n.mk, q |-> n.q, cur |-> n.cur, gl |-> n.gl, panic |-> n.panic]
  BY <1>3 DEF State
<1>7. \A t \in Thread : Home(n, t) = Home(State, t)
  BY <1>6, StateFields DEF Home
<1>8. Linked(n, c)
  <2>1. n \in SchedState
    <3>1. State \in SchedState
      BY <1>4, LinkedIs
    <3>2. /\ status \in [Thread -> Status] /\ queue \in [Rings -> Ring] /\ current \in [CPU -> Thread]
          /\ glush \in (NCPU .. PidMax) \cup {NoPid} /\ panic \in BOOLEAN
      BY <3>1, StateIs, StateFields
    <3> QED BY <1>5, <1>6, <3>2 DEF SchedState
  <2> QED BY <1>4, <1>6, <1>7, <2>1, StateFields DEF Linked
<1>9. Made(n, c)
  BY <1>3, <1>8 DEF Made
<1>10. PICK d : d = [t \in Thread |-> IF t \in PP!ThreadsOf(PcbOf, p)
                                      THEN [PcbOf[t] EXCEPT !.mask = m] ELSE PcbOf[t]]
  OBVIOUS
<1>11. PP!ThreadsOf(PcbOf, p) = Farr(State, p)
  BY GuardsAre
<1>12. ASSUME NEW t \in Thread
       PROVE  /\ d[t] \in Pcbs /\ d[t].status = PcbOf[t].status /\ d[t].phead = PcbOf[t].phead
              /\ d[t].mask = f[t]
  <2>1. PcbOf[t] \in Pcbs /\ PcbOf[t].mask = mask[t]
    BY <1>4 DEF Tables, Entry
  <2>2. CASE t \in Farr(State, p)
    <3>1. d[t] = [PcbOf[t] EXCEPT !.mask = m]
      BY <1>10, <1>11, <2>2
    <3> QED BY <1>1, <2>1, <2>2, <3>1 DEF Pcbs
  <2>3. CASE t \notin Farr(State, p)
    <3>1. d[t] = PcbOf[t]
      BY <1>10, <1>11, <2>3
    <3> QED BY <1>1, <2>1, <2>3, <3>1
  <2> QED BY <2>2, <2>3
<1>13. d \in Tables
  BY <1>10, <1>12 DEF Tables
<1>14. Tab(n) \in Tables /\ \A t \in Thread : Entry(Tab(n), t, n.st[t], Home(n, t), n.mk[t])
  BY <1>8, TabIs
<1>15. ASSUME NEW t \in Thread PROVE Entry(Tab(n), t, d[t].status, d[t].phead, d[t].mask)
  <2>1. PcbOf[t].status = status[t] /\ PcbOf[t].phead = Home(State, t)
    BY <1>4 DEF Entry
  <2> QED BY <1>6, <1>7, <1>12, <1>14, <2>1 DEF Entry
<1>16. Tab(n) = d
  BY <1>13, <1>14, <1>15, TabsEqual
<1>17. PcbOf' = d /\ current' = current /\ glush' = glush
  BY <1>3, <1>6, <1>16, PcbNext DEF Becomes
<1>18. due' = due
  <2>1. due \subseteq Thread /\ \A t \in due : Home(State, t) = SleepQ
    BY DueHome
  <2> QED BY <1>7, <1>9, <2>1, KeepDueIs
<1>19. PP!Taskset(c, p, m)
  <2>1. PP!ThreadsOf(PcbOf, p) # {}
    BY <1>2, <1>11
  <2>2. PcbOf' = [t \in PP!Thread |-> IF t \in PP!ThreadsOf(PcbOf, p)
                                      THEN [PcbOf[t] EXCEPT !.mask = m] ELSE PcbOf[t]]
    BY <1>10, <1>17, NamesAre
  <2> QED BY <1>2, <1>17, <1>18, <2>1, <2>2 DEF PP!Taskset, PcbOf
<1> QED BY <1>9, <1>17, <1>19

\* The wakeup_time of a sleeper is reached.
LEMMA TimePassesMaps ==
  ASSUME SchedIInv, NEW t \in Thread, TimePasses(t)
  PROVE  PP!TimePasses(t) /\ UNCHANGED <<status, mask, queue, current, glush, panic>>
<1>1. PICK c : c \in CPU /\ c = 0
  BY ConstantsAssumption DEF CPU
<1>2. UNCHANGED <<status, mask, queue, current, glush, panic>> /\ due' = due \cup {t}
      /\ t \in ToSet(queue[SleepQ]) /\ t \notin due
  BY DEF TimePasses
<1>3. Linked(State, c)
  BY <1>1, TrapIs
<1>4. \A u \in Thread : u \in ToSet(State.q[SleepQ]) <=> Home(State, u) = SleepQ
  BY <1>3, QueuesAre, LinkedIs
<1>5. PcbOf[t].phead = SleepQ
  <2>1. PcbOf[t].phead = Home(State, t)
    BY <1>1, TrapIs DEF Entry
  <2> QED BY <1>2, <1>4, <2>1, StateFields
<1>6. PcbOf' = PcbOf
  <2>1. \A u \in Thread : PheadOf(u)' = PheadOf(u)
    BY <1>2 DEF PheadOf
  <2> QED BY <1>2, <2>1 DEF PcbOf
<1>7. PP!TimePasses(t)
  BY <1>2, <1>5, <1>6, NamesAre DEF PP!TimePasses, PcbOf
<1> QED BY <1>2, <1>7

\* do_scheduler() switches to a thread that may run there, and leaves no one asleep that was due.
LEMMA ResultIs ==
  ASSUME NEW a, NEW c, ScanPre(a, c), a.cur = current, current \in [CPU -> Thread], NEW n,
         Result(a, n, c), Becomes(n)
  PROVE  /\ Affine
         /\ \A t \in DueSleepers(a) : t \in Thread => Home(n, t) # SleepQ
<1>1. PICK u, R, Z, X, A : ResultBy(a, n, c, u, R, Z, X, A)
  BY DEF Result
<1>2. Linked(a, c) /\ Linked(u, c) /\ Reaping(a, u, c, R, Z, X, A) /\ Found(a, u, n, c)
  BY <1>1 DEF ScanPre, ResultBy
<1>3. u.cur = current /\ c \in CPU
  <2>1. u.cur = a.cur
    BY <1>2, ReapingIs
  <2>2. c \in CPU
    BY <1>2, LinkedIs
  <2> QED BY <2>1, <2>2
<1>4. u \in SchedState
  BY <1>2, LinkedIs
<1>5. u.st[u.cur[c]] \in {"RUNNING", "EXITED", "ZOMBIE"} \/ n = u
  <2>1. CASE n = u
    BY <2>1
  <2>2. CASE n # u
    <3>1. a.st[a.cur[c]] \in {"RUNNING", "EXITED", "ZOMBIE"} /\ a.cur[c] \in Thread
      <4>1. a.cur[c] \in Thread
        BY <1>2, LinkedIs
      <4> QED BY <4>1 DEF ScanPre
    <3>2. a.cur[c] \notin Z \cup X
      BY <1>2 DEF Reaping, Corpses
    <3>3. a.cur[c] \notin A
      <4>1. Shell(a, u, Z \cup X, A)
        BY <1>2 DEF Reaping
      <4>2. \A g : a.cur[c][1] = g => ~Gone(a, Z \cup X, g)
        BY <3>1, <3>2 DEF Gone
      <4>3. ASSUME a.cur[c] \in A PROVE FALSE
        <5>1. a.cur[c] = <<u.gl, 0>> /\ Gone(a, Z \cup X, u.gl)
          BY <4>1, <4>3 DEF Shell
        <5>2. a.cur[c][1] = u.gl
          BY <5>1
        <5> QED BY <4>2, <5>1, <5>2
      <4> QED BY <4>3
    <3>4. \A t \in Thread : a.st[t] \notin {"FREE", "SLEEPING"} /\ t \notin Z \cup X \cup A => u.st[t] = a.st[t]
      BY <1>2, ReapingIs
    <3>5. u.cur = a.cur
      BY <1>2, ReapingIs
    <3> QED BY <3>1, <3>2, <3>3, <3>4, <3>5
  <2> QED BY <2>1, <2>2
<1>6. current' = n.cur /\ mask' = n.mk
  BY DEF Becomes
<1>7. /\ \A t \in Thread : Home(n, t) = Home(u, t)
      /\ \A d \in CPU : n.cur[d] # current[d] => d \in n.mk[n.cur[d]]
  <2>1. CASE n = u
    BY <1>3, <2>1
  <2>2. CASE n # u
    <3>1. PICK p \in Thread : CanRun(u, c, p) /\ n = SwitchTo(u, c, p)
      BY <1>2, <2>2 DEF Found
    <3>2. Linked(n, c) /\ n.cur = [u.cur EXCEPT ![c] = p] /\ n.q = u.q
      BY <1>2, <1>5, <2>2, <3>1, SwitchIs
    <3>3. n.mk = u.mk
      BY <1>4, <3>1 DEF SwitchTo, SchedState
    <3>4. c \in u.mk[p] /\ \A t \in Thread : n.st[t] = "FREE" <=> u.st[t] = "FREE"
      <4>1. c \in u.mk[p] /\ u.st[p] = "READY"
        BY <3>1 DEF CanRun
      <4>2. PICK k : k = u.cur[c]
        OBVIOUS
      <4>3. PICK x : x = IF u.st[k] = "RUNNING" THEN "READY" ELSE u.st[k]
        OBVIOUS
      <4>4. n.st = [[u.st EXCEPT ![k] = x] EXCEPT ![p] = "RUNNING"]
        BY <1>4, <3>1, <4>2, <4>3 DEF SwitchTo, SchedState
      <4>5. u.st \in [Thread -> Status] /\ k \in Thread
        BY <1>2, <1>4, <4>2, StateIs, LinkedIs
      <4>6. x # "FREE" /\ u.st[k] # "FREE"
        BY <1>5, <2>2, <4>2, <4>3
      <4>7. \A t \in Thread : n.st[t] = IF t = p THEN "RUNNING" ELSE IF t = k THEN x ELSE u.st[t]
        BY <4>4, <4>5
      <4> QED BY <4>1, <4>6, <4>7
    <3>5. \A d \in CPU : n.cur[d] # current[d] => d = c /\ n.cur[d] = p
      BY <1>3, <3>2
    <3>6. \A t \in Thread : Home(n, t) = Home(u, t)
      BY <3>2, <3>4 DEF Home
    <3> QED BY <3>3, <3>4, <3>5, <3>6
  <2> QED BY <2>1, <2>2
<1>8. Affine
  BY <1>6, <1>7 DEF Affine
<1>9. ASSUME NEW t \in DueSleepers(a), t \in Thread
      PROVE  Home(n, t) # SleepQ
  <2>1. Did(a, u, DueSleepers(a) \cup R, Z \cup X, {}, A)
    BY <1>2 DEF Reaping
  <2>2. t \in Up(a, DueSleepers(a) \cup R, Z \cup X)
    BY <1>9 DEF Up
  <2>3. Home(u, t) \in {NoQ, ReadyQ}
    BY <1>9, <2>1, <2>2 DEF Did
  <2> QED BY <1>7, <1>9, <2>3, QueuesAre
<1> QED BY <1>8, <1>9
-----------------------------------------------------------------------------
(* Proc, as Sched and as its proofs know it, is one.                         *)

\* The names of ProcTypes are the same,
LEMMA ProcNames ==
  /\ P!CPU = PP!CPU /\ P!Pid = PP!Pid /\ P!Thread = PP!Thread /\ P!NoPid = PP!NoPid
  /\ P!ReadyQ = PP!ReadyQ /\ P!SleepQ = PP!SleepQ /\ P!NoQ = PP!NoQ /\ P!ResQs = PP!ResQs
  /\ P!OnCpu = PP!OnCpu /\ P!FreePcb = PP!FreePcb
  /\ \A t : P!WaitQ(t) = PP!WaitQ(t)
  /\ \A r : P!ResQ(r) = PP!ResQ(r)
  /\ \A S : P!Cardinality(S) = PP!Cardinality(S)
BY DEF P!CPU, PP!CPU, P!Pid, PP!Pid, P!Thread, PP!Thread, P!NoPid, PP!NoPid, P!ReadyQ, PP!ReadyQ,
       P!SleepQ, PP!SleepQ, P!NoQ, PP!NoQ, P!ResQ, PP!ResQ, P!ResQs, PP!ResQs, P!OnCpu, PP!OnCpu,
       P!FreePcb, PP!FreePcb, P!WaitQ, PP!WaitQ, P!Cardinality, PP!Cardinality

\* ... and so are the operators on a table.
LEMMA ProcOperators ==
  /\ \A b, x : P!ThreadsOf(b, x) = PP!ThreadsOf(b, x)
  /\ \A b, W : P!Wake(b, W) = PP!Wake(b, W)
  /\ \A b, K : P!KillThreads(b, K) = PP!KillThreads(b, K)
  /\ \A b, S : P!DoKill(b, S) = PP!DoKill(b, S)
  /\ \A b : P!FreePids(b) = PP!FreePids(b)
  /\ \A b : P!HasRoom(b) = PP!HasRoom(b)
  /\ \A b, t, e : P!Update(b, t, e) = PP!Update(b, t, e)
  /\ \A b, t, x : P!SetStatus(b, t, x) = PP!SetStatus(b, t, x)
  /\ \A b, t, m : P!AddThread(b, t, m) = PP!AddThread(b, t, m)
  /\ \A b : P!Restarts(b) = PP!Restarts(b)
  /\ \A b, c : P!Eligible(b, c) = PP!Eligible(b, c)
  /\ \A b : P!ResSleepers(b) = PP!ResSleepers(b)
<1>1. \A b, x : P!ThreadsOf(b, x) = PP!ThreadsOf(b, x)
  BY ProcNames DEF P!ThreadsOf, PP!ThreadsOf
<1>2. \A b, W : P!Wake(b, W) = PP!Wake(b, W)
  BY ProcNames DEF P!Wake, PP!Wake
<1>3. \A b, K : P!KillThreads(b, K) = PP!KillThreads(b, K)
  BY ProcNames DEF P!KillThreads, PP!KillThreads
<1>4. \A b, S : P!Victims(b, S) = PP!Victims(b, S)
  BY ProcNames DEF P!Victims, PP!Victims
<1>5. \A b, S : P!DoKill(b, S) = PP!DoKill(b, S)
  <2> TAKE b, S
  <2>1. P!KillThreads(b, P!Victims(b, S)) = PP!KillThreads(b, PP!Victims(b, S))
    BY <1>3, <1>4
  <2> QED BY <2>1, ProcNames DEF P!DoKill, PP!DoKill
<1>6. \A b : P!FreePids(b) = PP!FreePids(b)
  BY <1>1 DEF P!FreePids, PP!FreePids
<1>7. \A b : P!HasRoom(b) = PP!HasRoom(b)
  <2> TAKE b
  <2>1. P!Used(b) = PP!Used(b)
    BY ProcNames DEF P!Used, PP!Used
  <2> QED BY <2>1, ProcNames DEF P!HasRoom, PP!HasRoom
<1>8. \A b, t, e : P!Update(b, t, e) = PP!Update(b, t, e)
  BY ProcNames DEF P!Update, PP!Update
<1>9. \A b, t, x : P!SetStatus(b, t, x) = PP!SetStatus(b, t, x)
  BY <1>8 DEF P!SetStatus, PP!SetStatus
<1>10. \A b, t, m : P!AddThread(b, t, m) = PP!AddThread(b, t, m)
  BY <1>8, ProcNames DEF P!AddThread, PP!AddThread
<1>11. \A b : P!Restarts(b) = PP!Restarts(b)
  <2> TAKE b
  <2>1. {f \in P!FreePids(b) : P!HasRoom(b)} = {f \in PP!FreePids(b) : PP!HasRoom(b)}
    BY <1>6, <1>7
  <2> DEFINE S == {f \in PP!FreePids(b) : PP!HasRoom(b)}
  <2>2. {[pcb |-> P!AddThread(b, <<p, 0>>, P!CPU), glush |-> p] : p \in S}
          = {[pcb |-> PP!AddThread(b, <<p, 0>>, PP!CPU), glush |-> p] : p \in S}
    <3> HIDE DEF S
    <3> QED BY <1>10, ProcNames
  <2>3. P!ThreadsOf(b, glush) = PP!ThreadsOf(b, glush)
    BY <1>1
  <2> QED BY <2>1, <2>2, <2>3, ProcNames DEF P!Restarts, PP!Restarts
<1>12. \A b, c : P!Eligible(b, c) = PP!Eligible(b, c)
  BY ProcNames DEF P!Eligible, PP!Eligible
<1>13. \A b : P!ResSleepers(b) = PP!ResSleepers(b)
  BY ProcNames DEF P!ResSleepers, PP!ResSleepers
<1> QED BY <1>1, <1>2, <1>3, <1>5, <1>6, <1>7, <1>8, <1>9, <1>10, <1>11, <1>12, <1>13

\* The same outcomes of do_scheduler()
Outcome2(c, tab, cur2, tab2, gl2) ==
  LET cur == current[c]
      awake == P!Wake(tab, {t \in due : tab[t].phead = P!SleepQ})
  IN  \E W \in SUBSET P!ResSleepers(tab),
         Z \in SUBSET {t \in P!Thread \ {cur} : tab[t].status = "ZOMBIE"},
         X \in SUBSET {t \in P!Thread \ {cur} : tab[t].status = "EXITED"} :
        LET reaped == P!DoKill(P!KillThreads(P!Wake(awake, W), Z), {t[1] : t \in X})
        IN  \E r \in P!Restarts(reaped) :
              /\ gl2 = r.glush
              /\ \/ \E n \in P!Eligible(r.pcb, c) :
                      /\ cur2 = [current EXCEPT ![c] = n]
                      /\ tab2 = P!SetStatus(IF r.pcb[cur].status = "RUNNING"
                                            THEN P!SetStatus(r.pcb, cur, "READY")
                                            ELSE r.pcb, n, "RUNNING")
                 \/ /\ P!Eligible(awake, c) = {}
                    /\ cur[1] < NCPU
                    /\ tab2 = r.pcb
                    /\ cur2 = current

\* They have the same outcomes.
LEMMA SameOutcome ==
  ASSUME NEW c, NEW b, NEW x, NEW y, NEW z, Outcome(c, b, x, y, z)
  PROVE  Outcome2(c, b, x, y, z)
<1> DEFINE cur == current[c]
           awake == PP!Wake(b, {t \in due : b[t].phead = PP!SleepQ})
           up == P!Wake(b, {t \in due : b[t].phead = P!SleepQ})
<1>1. PICK W \in SUBSET PP!ResSleepers(b),
           Z \in SUBSET {t \in PP!Thread \ {cur} : b[t].status = "ZOMBIE"},
           X \in SUBSET {t \in PP!Thread \ {cur} : b[t].status = "EXITED"} :
        \E r \in PP!Restarts(PP!DoKill(PP!KillThreads(PP!Wake(awake, W), Z), {t[1] : t \in X})) :
              /\ z = r.glush
              /\ \/ \E n \in PP!Eligible(r.pcb, c) :
                      /\ x = [current EXCEPT ![c] = n]
                      /\ y = PP!SetStatus(IF r.pcb[cur].status = "RUNNING"
                                          THEN PP!SetStatus(r.pcb, cur, "READY")
                                          ELSE r.pcb, n, "RUNNING")
                 \/ /\ PP!Eligible(awake, c) = {}
                    /\ cur[1] < NCPU
                    /\ y = r.pcb
                    /\ x = current
  BY DEF Outcome
<1>2. PICK r \in PP!Restarts(PP!DoKill(PP!KillThreads(PP!Wake(awake, W), Z), {t[1] : t \in X})) :
              /\ z = r.glush
              /\ \/ \E n \in PP!Eligible(r.pcb, c) :
                      /\ x = [current EXCEPT ![c] = n]
                      /\ y = PP!SetStatus(IF r.pcb[cur].status = "RUNNING"
                                          THEN PP!SetStatus(r.pcb, cur, "READY")
                                          ELSE r.pcb, n, "RUNNING")
                 \/ /\ PP!Eligible(awake, c) = {}
                    /\ cur[1] < NCPU
                    /\ y = r.pcb
                    /\ x = current
  BY <1>1
<1>3. up = awake
  BY ProcNames, ProcOperators
<1>4. r \in P!Restarts(P!DoKill(P!KillThreads(P!Wake(up, W), Z), {t[1] : t \in X}))
  <2> HIDE DEF awake, up
  <2> DEFINE K == {t[1] : t \in X}
  <2>1. r \in PP!Restarts(PP!DoKill(PP!KillThreads(PP!Wake(awake, W), Z), K))
    BY <1>2
  <2> HIDE DEF K
  <2>2. r \in P!Restarts(P!DoKill(P!KillThreads(P!Wake(awake, W), Z), K))
    BY <2>1, ProcOperators
  <2>3. r \in P!Restarts(P!DoKill(P!KillThreads(P!Wake(up, W), Z), K))
    BY <1>3, <2>2
  <2> QED BY <2>3 DEF K
<1>5. \/ \E n \in P!Eligible(r.pcb, c) :
           /\ x = [current EXCEPT ![c] = n]
           /\ y = P!SetStatus(IF r.pcb[cur].status = "RUNNING"
                              THEN P!SetStatus(r.pcb, cur, "READY")
                              ELSE r.pcb, n, "RUNNING")
      \/ /\ P!Eligible(up, c) = {}
         /\ cur[1] < NCPU
         /\ y = r.pcb
         /\ x = current
  <2> HIDE DEF awake, cur, up
  <2>1. CASE \E n \in PP!Eligible(r.pcb, c) :
           /\ x = [current EXCEPT ![c] = n]
           /\ y = PP!SetStatus(IF r.pcb[cur].status = "RUNNING"
                              THEN PP!SetStatus(r.pcb, cur, "READY")
                              ELSE r.pcb, n, "RUNNING")
    <3>1. PICK n \in PP!Eligible(r.pcb, c) :
           /\ x = [current EXCEPT ![c] = n]
           /\ y = PP!SetStatus(IF r.pcb[cur].status = "RUNNING"
                              THEN PP!SetStatus(r.pcb, cur, "READY")
                              ELSE r.pcb, n, "RUNNING")
      BY <2>1
    <3>2. n \in P!Eligible(r.pcb, c)
      BY <3>1, ProcOperators
    <3>3. y = P!SetStatus(IF r.pcb[cur].status = "RUNNING"
                              THEN P!SetStatus(r.pcb, cur, "READY")
                              ELSE r.pcb, n, "RUNNING")
      BY <3>1, ProcOperators
    <3> QED BY <3>1, <3>2, <3>3
  <2>2. CASE /\ PP!Eligible(awake, c) = {}
             /\ cur[1] < NCPU
             /\ y = r.pcb
             /\ x = current
    BY <1>3, <2>2, ProcOperators
  <2> QED BY <1>2, <2>1, <2>2 DEF cur
<1>6. /\ W \in SUBSET P!ResSleepers(b)
      /\ Z \in SUBSET {t \in P!Thread \ {cur} : b[t].status = "ZOMBIE"}
      /\ X \in SUBSET {t \in P!Thread \ {cur} : b[t].status = "EXITED"}
  <2> HIDE DEF awake, cur, up
  <2>1. P!ResSleepers(b) = PP!ResSleepers(b) /\ P!Thread = PP!Thread
    BY ProcNames, ProcOperators
  <2>2. /\ W \in SUBSET PP!ResSleepers(b)
        /\ Z \in SUBSET {t \in PP!Thread \ {cur} : b[t].status = "ZOMBIE"}
        /\ X \in SUBSET {t \in PP!Thread \ {cur} : b[t].status = "EXITED"}
    BY DEF cur
  <2> QED BY <2>1, <2>2
<1> HIDE DEF awake, cur, up
<1> SUFFICES \E V \in SUBSET P!ResSleepers(b),
         Y \in SUBSET {t \in P!Thread \ {cur} : b[t].status = "ZOMBIE"},
         K \in SUBSET {t \in P!Thread \ {cur} : b[t].status = "EXITED"} :
        \E q \in P!Restarts(P!DoKill(P!KillThreads(P!Wake(up, V), Y), {t[1] : t \in K})) :
              /\ z = q.glush
              /\ \/ \E n \in P!Eligible(q.pcb, c) :
                      /\ x = [current EXCEPT ![c] = n]
                      /\ y = P!SetStatus(IF q.pcb[cur].status = "RUNNING"
                                            THEN P!SetStatus(q.pcb, cur, "READY")
                                            ELSE q.pcb, n, "RUNNING")
                 \/ /\ P!Eligible(up, c) = {}
                    /\ cur[1] < NCPU
                    /\ y = q.pcb
                    /\ x = current
  BY DEF Outcome2, cur, up
<1> USE <1>6
<1> WITNESS W \in SUBSET P!ResSleepers(b),
            Z \in SUBSET {t \in P!Thread \ {cur} : b[t].status = "ZOMBIE"},
            X \in SUBSET {t \in P!Thread \ {cur} : b[t].status = "EXITED"}
<1> USE <1>4
<1> WITNESS r \in P!Restarts(P!DoKill(P!KillThreads(P!Wake(up, W), Z), {t[1] : t \in X}))
<1> QED BY <1>2, <1>5

\* Who stays due is the same.
LEMMA SameDue == PP!KeepDue => P!KeepDue
BY ProcNames DEF PP!KeepDue, P!KeepDue

\* The guards are the same.
LEMMA SameTrap ==
  ASSUME NEW c
  PROVE  (PP!Trap(c) => P!Trap(c)) /\ (PP!Syscall(c) => P!Syscall(c))
BY DEF PP!Trap, P!Trap, PP!Syscall, P!Syscall

\* Each step of PP is one of P: the timer,
LEMMA SameTimer ==
  ASSUME NEW c, PP!Timer(c)
  PROVE  P!Timer(c)
<1>1. PP!Trap(c) /\ PP!DoScheduler(c, PcbOf) /\ PP!KeepDue
  BY DEF PP!Timer, PcbOf
<1>2. Outcome(c, PcbOf, current', PcbOf', glush')
  BY <1>1 DEF PP!DoScheduler, Outcome, PcbOf
<1>3. Outcome2(c, PcbOf, current', PcbOf', glush')
  BY <1>2, SameOutcome
<1>4. P!DoScheduler(c, PcbOf)
  BY <1>3 DEF P!DoScheduler, Outcome2, PcbOf
<1> QED BY <1>1, <1>4, SameDue, SameTrap DEF P!Timer, PcbOf

\* do_exit(),
LEMMA SameExit ==
  ASSUME NEW c, PP!Exit(c)
  PROVE  P!Exit(c)
<1>1. /\ PP!DoScheduler(c, PP!SetStatus(PP!DoKill(PcbOf, {current[c][1]}), current[c], "EXITED"))
      /\ PP!KeepDue /\ current[c][1] >= NCPU
  BY DEF PP!Exit, PcbOf
<1>2. Outcome(c, PP!SetStatus(PP!DoKill(PcbOf, {current[c][1]}), current[c], "EXITED"), current', PcbOf', glush')
  BY <1>1 DEF PP!DoScheduler, Outcome, PcbOf
<1>3. Outcome2(c, P!SetStatus(P!DoKill(PcbOf, {current[c][1]}), current[c], "EXITED"), current', PcbOf', glush')
  <2>1. P!SetStatus(P!DoKill(PcbOf, {current[c][1]}), current[c], "EXITED")
          = PP!SetStatus(PP!DoKill(PcbOf, {current[c][1]}), current[c], "EXITED")
    BY ProcOperators
  <2> QED BY <1>2, <2>1, SameOutcome
<1>4. P!DoScheduler(c, P!SetStatus(P!DoKill(PcbOf, {current[c][1]}), current[c], "EXITED"))
  BY <1>3 DEF P!DoScheduler, Outcome2, PcbOf
<1> QED BY <1>1, <1>4, SameDue DEF P!Exit, PcbOf

\* do_thread_exit(),
LEMMA SameThreadExit ==
  ASSUME NEW c, PP!ThreadExit(c)
  PROVE  P!ThreadExit(c)
<1>1. /\ PP!DoScheduler(c, PP!SetStatus(PcbOf, current[c], "ZOMBIE"))
      /\ PP!KeepDue /\ PP!Syscall(c) /\ current[c][2] # 0
  BY DEF PP!ThreadExit, PcbOf
<1>2. Outcome(c, PP!SetStatus(PcbOf, current[c], "ZOMBIE"), current', PcbOf', glush')
  BY <1>1 DEF PP!DoScheduler, Outcome, PcbOf
<1>3. Outcome2(c, P!SetStatus(PcbOf, current[c], "ZOMBIE"), current', PcbOf', glush')
  <2>1. P!SetStatus(PcbOf, current[c], "ZOMBIE") = PP!SetStatus(PcbOf, current[c], "ZOMBIE")
    BY ProcOperators
  <2> QED BY <1>2, <2>1, SameOutcome
<1>4. P!DoScheduler(c, P!SetStatus(PcbOf, current[c], "ZOMBIE"))
  BY <1>3 DEF P!DoScheduler, Outcome2, PcbOf
<1> QED BY <1>1, <1>4, SameDue, SameTrap DEF P!ThreadExit, PcbOf

\* do_kill() of another process,
LEMMA SameKill ==
  ASSUME NEW c, NEW p, PP!Kill(c, p)
  PROVE  P!Kill(c, p)
<1>1. /\ PP!Syscall(c) /\ p >= NCPU /\ p # current[c][1] /\ PP!ThreadsOf(PcbOf, p) # {}
      /\ \E W \in SUBSET PP!ResSleepers(PcbOf) :
           \E r \in PP!Restarts(PP!DoKill(PP!Wake(PcbOf, W), {p})) :
             PcbOf' = r.pcb /\ glush' = r.glush
      /\ PP!KeepDue /\ UNCHANGED current
  BY DEF PP!Kill, PcbOf
<1>6. PICK W \in SUBSET PP!ResSleepers(PcbOf) :
           \E r \in PP!Restarts(PP!DoKill(PP!Wake(PcbOf, W), {p})) :
             PcbOf' = r.pcb /\ glush' = r.glush
  BY <1>1
<1>2. PICK r \in PP!Restarts(PP!DoKill(PP!Wake(PcbOf, W), {p})) : PcbOf' = r.pcb /\ glush' = r.glush
  BY <1>6
<1>3. W \in SUBSET P!ResSleepers(PcbOf) /\ P!ThreadsOf(PcbOf, p) # {}
  BY <1>1, <1>6, ProcOperators
<1>4. r \in P!Restarts(P!DoKill(P!Wake(PcbOf, W), {p}))
  BY <1>2, ProcOperators
<1>5. \E V \in SUBSET P!ResSleepers(PcbOf) :
           \E x \in P!Restarts(P!DoKill(P!Wake(PcbOf, V), {p})) :
             PcbOf' = x.pcb /\ glush' = x.glush
  BY <1>2, <1>3, <1>4
<1> QED BY <1>1, <1>3, <1>5, SameDue, SameTrap DEF P!Kill, PcbOf

\* do_block(),
LEMMA SameDoBlock ==
  ASSUME NEW c, NEW q, PP!DoBlock(c, q)
  PROVE  P!DoBlock(c, q)
<1>1. PICK p \in PP!Eligible(PcbOf, c) :
        /\ PcbOf' = PP!SetStatus(PP!Update(PcbOf, current[c], [PcbOf[current[c]] EXCEPT
                                  !.status = "SLEEPING", !.phead = q]), p, "RUNNING")
        /\ current' = [current EXCEPT ![c] = p]
        /\ PP!KeepDue
        /\ UNCHANGED glush
  BY DEF PP!DoBlock, PcbOf
<1>2. p \in P!Eligible(PcbOf, c)
  BY ProcOperators
<1>3. PcbOf' = P!SetStatus(P!Update(PcbOf, current[c], [PcbOf[current[c]] EXCEPT
                                  !.status = "SLEEPING", !.phead = q]), p, "RUNNING")
  BY <1>1, ProcOperators
<1>4. \E x \in P!Eligible(PcbOf, c) :
        /\ PcbOf' = P!SetStatus(P!Update(PcbOf, current[c], [PcbOf[current[c]] EXCEPT
                                  !.status = "SLEEPING", !.phead = q]), x, "RUNNING")
        /\ current' = [current EXCEPT ![c] = x]
        /\ P!KeepDue
        /\ UNCHANGED glush
  BY <1>1, <1>2, <1>3, SameDue
<1> QED BY <1>4 DEF P!DoBlock, PcbOf

\* do_sleep(),
LEMMA SameSleep == ASSUME NEW c, PP!Sleep(c) PROVE P!Sleep(c)
<1>1. PP!Syscall(c) /\ PP!DoBlock(c, PP!SleepQ)
  BY DEF PP!Sleep
<1>2. PICK q : q = PP!SleepQ
  OBVIOUS
<1>3. P!DoBlock(c, q) /\ q = P!SleepQ
  BY <1>1, <1>2, SameDoBlock, ProcNames
<1> QED BY <1>1, <1>3, SameTrap DEF P!Sleep

\* do_block() on a resource,
LEMMA SameBlock == ASSUME NEW c, NEW r, PP!Block(c, r) PROVE P!Block(c, r)
<1>1. PP!Syscall(c) /\ PP!DoBlock(c, PP!ResQ(r))
  BY DEF PP!Block
<1>2. PICK q : q = PP!ResQ(r)
  OBVIOUS
<1>3. P!DoBlock(c, q) /\ q = P!ResQ(r)
  BY <1>1, <1>2, SameDoBlock, ProcNames
<1> QED BY <1>1, <1>3, SameTrap DEF P!Block

\* do_thread_wait(),
LEMMA SameThreadWait == ASSUME NEW c, NEW tid, PP!ThreadWait(c, tid) PROVE P!ThreadWait(c, tid)
<1>1. /\ PP!Syscall(c) /\ tid # 0 /\ tid # current[c][2]
      /\ PcbOf[<<current[c][1], tid>>].status # "FREE"
      /\ PP!DoBlock(c, PP!WaitQ(<<current[c][1], tid>>))
  BY DEF PP!ThreadWait, PcbOf
<1>2. PICK q : q = PP!WaitQ(<<current[c][1], tid>>)
  OBVIOUS
<1>3. PP!DoBlock(c, q)
  BY <1>1, <1>2 DEF PP!DoBlock
<1>4. P!DoBlock(c, q) /\ q = P!WaitQ(<<current[c][1], tid>>)
  BY <1>2, <1>3, SameDoBlock, ProcNames
<1>5. P!DoBlock(c, P!WaitQ(<<current[c][1], tid>>))
  BY <1>4 DEF P!DoBlock
<1> QED BY <1>1, <1>5, SameTrap DEF P!ThreadWait, PcbOf

\* do_waitpid(),
LEMMA SameWaitpid == ASSUME NEW c, NEW p, PP!Waitpid(c, p) PROVE P!Waitpid(c, p)
<1>1. /\ PP!Syscall(c) /\ p # current[c][1]
      /\ \A w \in PP!Thread : PcbOf[w].phead = PP!WaitQ(current[c]) => w[1] # p
      /\ \E u \in PP!SearchPid(p) : PP!DoBlock(c, PP!WaitQ(u))
  BY DEF PP!Waitpid, PcbOf
<1>2. PICK u \in PP!SearchPid(p) : PP!DoBlock(c, PP!WaitQ(u))
  BY <1>1
<1>3. u \in P!SearchPid(p)
  <2>1. PP!SearchPid(p) = IF PcbOf[<<p, 0>>].status # "FREE" THEN {<<p, 0>>} ELSE PP!ThreadsOf(PcbOf, p)
    BY DEF PP!SearchPid, PcbOf
  <2>2. P!SearchPid(p) = IF PcbOf[<<p, 0>>].status # "FREE" THEN {<<p, 0>>} ELSE P!ThreadsOf(PcbOf, p)
    BY DEF P!SearchPid, PcbOf
  <2>3. P!ThreadsOf(PcbOf, p) = PP!ThreadsOf(PcbOf, p)
    BY ProcOperators
  <2> QED BY <1>2, <2>1, <2>2, <2>3
<1>4. P!DoBlock(c, P!WaitQ(u))
  <2>1. PICK q : q = PP!WaitQ(u)
    OBVIOUS
  <2>2. P!DoBlock(c, q) /\ q = P!WaitQ(u)
    BY <1>2, <2>1, SameDoBlock, ProcNames
  <2> QED BY <2>2
<1>5. \A w \in P!Thread : PcbOf[w].phead = P!WaitQ(current[c]) => w[1] # p
  BY <1>1, ProcNames
<1> QED BY <1>1, <1>3, <1>4, <1>5, SameTrap DEF P!Waitpid, PcbOf

\* do_exec(),
LEMMA SameExec == ASSUME NEW c, NEW p, NEW m, PP!Exec(c, p, m) PROVE P!Exec(c, p, m)
<1>1. /\ PP!Syscall(c) /\ PP!HasRoom(PcbOf) /\ p \in PP!FreePids(PcbOf)
      /\ PcbOf' = PP!AddThread(PcbOf, <<p, 0>>, m)
      /\ UNCHANGED <<current, glush, due>>
  BY DEF PP!Exec, PcbOf
<1>2. /\ P!HasRoom(PcbOf) /\ p \in P!FreePids(PcbOf)
      /\ PcbOf' = P!AddThread(PcbOf, <<p, 0>>, m)
  BY <1>1, ProcOperators
<1> QED BY <1>1, <1>2, SameTrap DEF P!Exec, PcbOf

\* do_fork(),
LEMMA SameFork == ASSUME NEW c, NEW p, PP!Fork(c, p) PROVE P!Fork(c, p)
<1>1. /\ PP!Syscall(c) /\ PP!HasRoom(PcbOf) /\ p \in PP!FreePids(PcbOf)
      /\ PP!ThreadsOf(PcbOf, current[c][1]) = {current[c]}
      /\ PcbOf' = PP!AddThread(PcbOf, <<p, 0>>, PcbOf[current[c]].mask)
      /\ UNCHANGED <<current, glush, due>>
  BY DEF PP!Fork, PcbOf
<1>2. /\ P!HasRoom(PcbOf) /\ p \in P!FreePids(PcbOf)
      /\ P!ThreadsOf(PcbOf, current[c][1]) = {current[c]}
      /\ PcbOf' = P!AddThread(PcbOf, <<p, 0>>, PcbOf[current[c]].mask)
  BY <1>1, ProcOperators
<1> QED BY <1>1, <1>2, SameTrap DEF P!Fork, PcbOf

\* do_thread_create(),
LEMMA SameThreadCreate == ASSUME NEW c, NEW tid, PP!ThreadCreate(c, tid) PROVE P!ThreadCreate(c, tid)
<1>1. /\ PP!Syscall(c) /\ PP!HasRoom(PcbOf) /\ tid # 0
      /\ PcbOf[<<current[c][1], tid>>].status = "FREE"
      /\ \A o \in 1 .. tid - 1 : PcbOf[<<current[c][1], o>>].status # "FREE"
      /\ PcbOf' = PP!AddThread(PcbOf, <<current[c][1], tid>>, PP!CPU)
      /\ UNCHANGED <<current, glush, due>>
  BY DEF PP!ThreadCreate, PcbOf
<1>2. /\ P!HasRoom(PcbOf)
      /\ PcbOf' = P!AddThread(PcbOf, <<current[c][1], tid>>, P!CPU)
  BY <1>1, ProcOperators, ProcNames
<1> QED BY <1>1, <1>2, SameTrap DEF P!ThreadCreate, PcbOf

\* do_unblock(),
LEMMA SameUnblock == ASSUME NEW c, NEW W, PP!Unblock(c, W) PROVE P!Unblock(c, W)
<1>1. /\ PP!Trap(c) /\ W # {} /\ PcbOf' = PP!Wake(PcbOf, W)
      /\ UNCHANGED <<current, glush, due>>
  BY DEF PP!Unblock, PcbOf
<1>2. PcbOf' = P!Wake(PcbOf, W)
  BY <1>1, ProcOperators
<1> QED BY <1>1, <1>2, SameTrap DEF P!Unblock, PcbOf

\* do_taskset(),
LEMMA SameTaskset == ASSUME NEW c, NEW p, NEW m, PP!Taskset(c, p, m) PROVE P!Taskset(c, p, m)
<1>1. /\ PP!Syscall(c) /\ p >= NCPU /\ PP!ThreadsOf(PcbOf, p) # {}
      /\ PcbOf' = [t \in PP!Thread |-> IF t \in PP!ThreadsOf(PcbOf, p)
                              THEN [PcbOf[t] EXCEPT !.mask = m] ELSE PcbOf[t]]
      /\ UNCHANGED <<current, glush, due>>
  BY DEF PP!Taskset, PcbOf
<1>2. P!ThreadsOf(PcbOf, p) = PP!ThreadsOf(PcbOf, p) /\ P!Thread = PP!Thread
  BY ProcOperators, ProcNames
<1>3. /\ P!ThreadsOf(PcbOf, p) # {}
      /\ PcbOf' = [t \in P!Thread |-> IF t \in P!ThreadsOf(PcbOf, p)
                              THEN [PcbOf[t] EXCEPT !.mask = m] ELSE PcbOf[t]]
  BY <1>1, <1>2
<1> QED BY <1>1, <1>3, SameTrap DEF P!Taskset, PcbOf

\* ... and the passing of time.
LEMMA SameTimePasses == ASSUME NEW t, PP!TimePasses(t) PROVE P!TimePasses(t)
BY ProcNames DEF PP!TimePasses, P!TimePasses

\* So every step of PP is one of P,
LEMMA SameNext == PP!Next => P!Next
<1> SUFFICES ASSUME PP!Next PROVE P!Next
  OBVIOUS
<1>1. CASE \E t \in PP!Thread : PP!TimePasses(t)
  BY <1>1, SameTimePasses, ProcNames DEF P!Next
<1>2. ASSUME NEW c \in PP!CPU, PP!Timer(c) \/ PP!Exit(c) \/ PP!ThreadExit(c) \/ PP!Sleep(c) PROVE P!Next
  <2>1. P!Timer(c) \/ P!Exit(c) \/ P!ThreadExit(c) \/ P!Sleep(c)
    BY <1>2, SameTimer, SameExit, SameThreadExit, SameSleep
  <2> QED BY <2>1, ProcNames DEF P!Next
<1>3. ASSUME NEW c \in PP!CPU, NEW p \in PP!Pid, PP!Kill(c, p) \/ PP!Waitpid(c, p) \/ PP!Fork(c, p) PROVE P!Next
  <2>1. P!Kill(c, p) \/ P!Waitpid(c, p) \/ P!Fork(c, p)
    BY <1>3, SameKill, SameWaitpid, SameFork
  <2> QED BY <2>1, ProcNames DEF P!Next
<1>4. ASSUME NEW c \in PP!CPU, NEW p \in PP!Pid, NEW m \in SUBSET PP!CPU, PP!Exec(c, p, m) \/ PP!Taskset(c, p, m)
      PROVE P!Next
  <2>1. P!Exec(c, p, m) \/ P!Taskset(c, p, m)
    BY <1>4, SameExec, SameTaskset
  <2> QED BY <2>1, ProcNames DEF P!Next
<1>5. ASSUME NEW c \in PP!CPU, NEW tid \in 0 .. TidMax, PP!ThreadCreate(c, tid) \/ PP!ThreadWait(c, tid)
      PROVE P!Next
  <2>1. P!ThreadCreate(c, tid) \/ P!ThreadWait(c, tid)
    BY <1>5, SameThreadCreate, SameThreadWait
  <2> QED BY <2>1, ProcNames DEF P!Next
<1>6. ASSUME NEW c \in PP!CPU, NEW r \in Resource, PP!Block(c, r) PROVE P!Next
  <2>1. P!Block(c, r)
    BY <1>6, SameBlock
  <2> QED BY <2>1, ProcNames DEF P!Next
<1>7. ASSUME NEW c \in PP!CPU, NEW W \in SUBSET PP!ResSleepers(PcbOf), PP!Unblock(c, W) PROVE P!Next
  <2>1. P!Unblock(c, W) /\ W \in SUBSET P!ResSleepers(PcbOf) /\ c \in P!CPU
    BY <1>7, SameUnblock, ProcOperators, ProcNames
  <2> QED BY <2>1 DEF P!Next, PcbOf
<1> QED BY <1>1, <1>2, <1>3, <1>4, <1>5, <1>6, <1>7 DEF PP!Next, PcbOf

\* ... and they start alike.
LEMMA SameInit == PP!Init => P!Init
BY DEF PP!Init, P!Init, PP!Thread, P!Thread, PP!CPU, P!CPU, PP!Idle, P!Idle, PP!Pid, P!Pid,
       PP!FreePcb, P!FreePcb, PP!ReadyQ, P!ReadyQ, PP!NoQ, P!NoQ
-----------------------------------------------------------------------------
(* The steps.                                                                *)

\* Any CPU may take the next trap.
LEMMA MadeKeeps ==
  ASSUME NEW c, NEW n, Made(n, c), PP!ProcInv'
  PROVE  SchedIInv'
<1>1. Linked(n, c) /\ Becomes(n)
  BY DEF Made
<1>2. /\ n \in SchedState
      /\ status' = n.st /\ mask' = n.mk /\ queue' = n.q
      /\ current' = n.cur /\ glush' = n.gl /\ panic' = n.panic
  BY <1>1, LinkedIs DEF Becomes
<1>3. State' = n
  BY <1>2 DEF State, SchedState
<1>4. ASSUME NEW d \in CPU
      PROVE  Linked(n, d)
  <2>1. PcbOf'[current'[d]].status \in OnCpu
    <3>1. PP!OneCpuEach'
      BY DEF PP!ProcInv
    <3> QED BY <3>1, NamesAre DEF PP!OneCpuEach, PcbOf
  <2>2. n.cur[d] \in Thread
    BY <1>2, StateIs
  <2>3. PcbOf' = Tab(n)
    BY <1>1, PcbNext
  <2>4. Tab(n)[n.cur[d]].status = n.st[n.cur[d]]
    BY <2>2 DEF Tab
  <2>5. n.st[n.cur[d]] \notin {"FREE", "SLEEPING"}
    BY <1>2, <2>1, <2>3, <2>4 DEF OnCpu
  <2> QED BY <1>1, <2>5 DEF Linked
<1> QED BY <1>3, <1>4 DEF SchedIInv

\* Every step is one of Proc's, and moves a CPU only to a thread that may run on it.
LEMMA NextMaps ==
  ASSUME SchedIInv, Next
  PROVE  /\ PP!Next /\ (current' = current \/ Affine)
         /\ \/ \E c \in CPU : \E n : Made(n, c)
            \/ UNCHANGED <<status, mask, queue, current, glush, panic>>
<1> USE NamesAre
<1> DEFINE Good == /\ PP!Next /\ (current' = current \/ Affine)
                   /\ \/ \E c \in CPU : \E n : Made(n, c)
                      \/ UNCHANGED <<status, mask, queue, current, glush, panic>>
<1>1. ASSUME NEW c \in CPU, Timer(c) PROVE Good
  <2>1. PICK n : PP!Timer(c) /\ Made(n, c) /\ Result(State, n, c)
    BY <1>1, TimerMaps
  <2>2. Affine
    <3>1. ScanPre(State, c)
      BY <1>1, TimerPre DEF Timer, Trap
    <3>2. PICK a : a = State
      OBVIOUS
    <3>3. ScanPre(a, c) /\ a.cur = current /\ Result(a, n, c) /\ Becomes(n)
      BY <2>1, <3>1, <3>2, StateFields DEF Made
    <3>4. current \in [CPU -> Thread]
      BY InvIs
    <3> QED BY <3>3, <3>4, ResultIs
  <2> QED BY <2>1, <2>2 DEF PP!Next
<1>2. ASSUME NEW c \in CPU, Exit(c) \/ KilledTrap(c) PROVE Good
  <2>1. current[c][1] >= NCPU /\ DoExit(c)
    BY <1>2, KilledPid DEF Exit, KilledTrap, WasKilled, Syscall
  <2>2. PICK n, a : PP!Exit(c) /\ Made(n, c) /\ ScanPre(a, c) /\ a.cur = current /\ Result(a, n, c)
    BY <2>1, ExitMaps
  <2>3. Affine
    <3>1. current \in [CPU -> Thread]
      BY InvIs
    <3> QED BY <2>2, <3>1, ResultIs DEF Made
  <2> QED BY <2>2, <2>3 DEF PP!Next
<1>3. ASSUME NEW c \in CPU, ThreadExit(c) PROVE Good
  <2>1. PICK n, a : PP!ThreadExit(c) /\ Made(n, c) /\ ScanPre(a, c) /\ a.cur = current /\ Result(a, n, c)
    BY <1>3, ThreadExitMaps
  <2>2. Affine
    <3>1. current \in [CPU -> Thread]
      BY InvIs
    <3> QED BY <2>1, <3>1, ResultIs DEF Made
  <2> QED BY <2>1, <2>2 DEF PP!Next
<1>4. ASSUME NEW c \in CPU, Fork(c) PROVE Good
  BY <1>4, ForkMaps DEF PP!Next
<1>5. ASSUME NEW c \in CPU, ThreadCreate(c) PROVE Good
  BY <1>5, ThreadCreateMaps DEF PP!Next
<1>6. ASSUME NEW c \in CPU, Sleep(c) PROVE Good
  BY <1>6, SleepMaps DEF PP!Next
<1>7. ASSUME NEW c \in CPU, NEW p \in Pid, Kill(c, p) PROVE Good
  BY <1>7, KillMaps DEF PP!Next
<1>8. ASSUME NEW c \in CPU, NEW p \in Pid, Waitpid(c, p) PROVE Good
  BY <1>8, WaitpidMaps DEF PP!Next
<1>9. ASSUME NEW c \in CPU, NEW m \in SUBSET CPU, Exec(c, m) PROVE Good
  BY <1>9, ExecMaps DEF PP!Next
<1>10. ASSUME NEW c \in CPU, NEW m \in SUBSET CPU, NEW p \in Pid, Taskset(c, p, m) PROVE Good
  BY <1>10, TasksetMaps DEF PP!Next
<1>11. ASSUME NEW c \in CPU, NEW tid \in 0 .. TidMax, ThreadWait(c, tid) PROVE Good
  BY <1>11, ThreadWaitMaps DEF PP!Next
<1>12. ASSUME NEW c \in CPU, NEW r \in Resource, Block(c, r) PROVE Good
  BY <1>12, ResourceBlockMaps DEF PP!Next
<1>13. ASSUME NEW c \in CPU, NEW r \in Resource, Unblock(c, r) PROVE Good
  BY <1>13, UnblockMaps DEF PP!Next, PcbOf
<1>14. ASSUME NEW t \in Thread, TimePasses(t) PROVE Good
  BY <1>14, TimePassesMaps DEF PP!Next
<1> HIDE DEF Good
<1>15. Good
  BY <1>1, <1>2, <1>3, <1>4, <1>5, <1>6, <1>7, <1>8, <1>9, <1>10, <1>11, <1>12, <1>13, <1>14 DEF Next
<1> QED BY <1>15 DEF Good

\* Nothing moves while time passes.
LEMMA SameState ==
  ASSUME UNCHANGED <<status, mask, queue, current, glush, panic>>
  PROVE  State' = State /\ PcbOf' = PcbOf
<1>1. State' = State
  BY DEF State
<1>2. \A u \in Thread : PheadOf(u)' = PheadOf(u)
  BY DEF PheadOf
<1> QED BY <1>1, <1>2 DEF PcbOf

\* The invariant is kept, and every step is one of Proc's or a stutter.
LEMMA SchedStep ==
  ASSUME SchedIInv, [Next]_vars
  PROVE  SchedIInv' /\ [PP!Next]_(PP!vars)
<1>1. CASE Next
  <2>1. PP!Next /\ \/ \E c \in CPU : \E n : Made(n, c)
                   \/ UNCHANGED <<status, mask, queue, current, glush, panic>>
    BY <1>1, NextMaps
  <2>2. PP!ProcInv'
    BY <2>1, ConstantsAssumption, PP!NextProcInv DEF SchedIInv
  <2>3. CASE \E c \in CPU : \E n : Made(n, c)
    BY <2>1, <2>2, <2>3, MadeKeeps
  <2>4. CASE UNCHANGED <<status, mask, queue, current, glush, panic>>
    <3>1. State' = State
      BY <2>4, SameState
    <3> QED BY <2>1, <2>2, <3>1 DEF SchedIInv
  <2> QED BY <2>1, <2>3, <2>4
<1>2. CASE UNCHANGED vars
  <2>1. State' = State /\ PcbOf' = PcbOf /\ current' = current /\ glush' = glush /\ due' = due
    BY <1>2, SameState DEF vars
  <2>2. UNCHANGED PP!vars
    BY <2>1 DEF PP!vars, PcbOf
  <2>3. PP!ProcInv'
    BY <2>2, ConstantsAssumption, PP!NextProcInv DEF SchedIInv
  <2> QED BY <2>1, <2>2, <2>3 DEF SchedIInv
<1> QED BY <1>1, <1>2
-----------------------------------------------------------------------------
(* The theorems.                                                             *)

First == <<NCPU, 0>>
IdleRing == [i \in 1 .. NCPU |-> Idle(i - 1)]

\* The idle PCBs are linked once each, and the first shell is none of them.
LEMMA IdleRingIs ==
  /\ IdleRing \in Ring /\ First \in Thread /\ First \notin ToSet(IdleRing)
  /\ \A t : t \in ToSet(IdleRing) <=> \E c \in CPU : t = Idle(c)
  /\ \A c \in CPU : Idle(c) \in Thread /\ Idle(c) # First /\ Idle(c)[1] = c
<1>1. NCPU \in Nat /\ PidMax \in Nat /\ TidMax \in Nat /\ PidMax >= NCPU
  BY ConstantsAssumption
<1>2. First \in Thread
  BY <1>1 DEF First, Thread, Pid
<1>3. \A c \in CPU : Idle(c) \in Thread /\ Idle(c) # First /\ Idle(c)[1] = c
  BY <1>1 DEF Idle, First, Thread, Pid, CPU
<1>4. \A i \in 1 .. NCPU : i - 1 \in CPU /\ IdleRing[i] = Idle(i - 1)
  BY <1>1 DEF CPU, IdleRing
<1>5. IdleRing \in [1 .. NCPU -> Thread]
  BY <1>3, <1>4 DEF IdleRing
<1>6. IdleRing \in Seq(Thread) /\ Len(IdleRing) = NCPU
  BY <1>1, <1>5
<1>7. \A i, j \in 1 .. NCPU : IdleRing[i] = IdleRing[j] => i = j
  <2> TAKE i, j \in 1 .. NCPU
  <2> HAVE IdleRing[i] = IdleRing[j]
  <2>1. i - 1 \in CPU /\ j - 1 \in CPU /\ Idle(i - 1) = Idle(j - 1)
    BY <1>4
  <2>2. i - 1 = j - 1
    BY <1>3, <2>1
  <2> QED BY <1>1, <2>2
<1>8. IdleRing \in Ring
  BY <1>1, <1>6, <1>7, RingFrom
<1>9. \A t : t \in ToSet(IdleRing) <=> \E c \in CPU : t = Idle(c)
  <2> TAKE t
  <2>1. ASSUME t \in ToSet(IdleRing) PROVE \E c \in CPU : t = Idle(c)
    <3>1. PICK i \in 1 .. NCPU : IdleRing[i] = t
      BY <1>6, <1>8, <2>1, MembersAre
    <3> QED BY <1>4, <3>1
  <2>2. ASSUME NEW c \in CPU PROVE Idle(c) \in ToSet(IdleRing)
    <3>1. PICK i : i = c + 1
      OBVIOUS
    <3>2. i \in 1 .. NCPU /\ i - 1 = c
      BY <1>1, <2>2, <3>1 DEF CPU
    <3>3. IdleRing[i] = Idle(c)
      BY <1>4, <3>2
    <3> QED BY <1>6, <1>8, <3>2, <3>3, MembersAre
  <2> QED BY <2>1, <2>2
<1> QED BY <1>2, <1>3, <1>8, <1>9

\* What init_pcb() and the first start_glush() leave.
LEMMA InitIs ==
  ASSUME Init
  PROVE  /\ PP!Init /\ \A c \in CPU : Linked(State, c)
<1>1. /\ status = [t \in Thread |-> IF t \in ToSet(IdleRing) THEN "RUNNING"
                                    ELSE IF t = First THEN "READY" ELSE "FREE"]
      /\ mask = [t \in Thread |-> IF t \in ToSet(IdleRing) THEN {t[1]}
                                  ELSE IF t = First THEN CPU ELSE {}]
      /\ queue = [q \in Rings |-> IF q = ReadyQ THEN Append(IdleRing, First) ELSE <<>>]
      /\ current = [c \in CPU |-> Idle(c)]
      /\ glush = NCPU /\ due = {} /\ panic = FALSE
  BY DEF Init, IdleRing, First
<1>2. /\ IdleRing \in Ring /\ First \in Thread /\ First \notin ToSet(IdleRing)
      /\ \A t : t \in ToSet(IdleRing) <=> \E c \in CPU : t = Idle(c)
      /\ \A c \in CPU : Idle(c) \in Thread /\ Idle(c) # First /\ Idle(c)[1] = c
  BY IdleRingIs
<1>3. PICK r : r = Append(IdleRing, First)
  OBVIOUS
<1>4. r \in Ring /\ ToSet(r) = ToSet(IdleRing) \cup {First}
  BY <1>2, <1>3, AppIs
<1>5. <<>> \in Ring /\ ToSet(<<>>) = {}
  <2>1. <<>> \in Ring
    BY DEF Ring, Inj
  <2> QED BY <2>1, MembersAre
<1>6. /\ ReadyQ \in Rings /\ SleepQ \in Rings /\ NoQ \in Queue /\ NoQ \notin Rings /\ Rings \subseteq Queue
  BY QueuesAre
<1>7. \A t \in ToSet(IdleRing) : t \in Thread /\ t[1] \in CPU
  BY <1>2
<1>8. State \in SchedState
  <2>1. status \in [Thread -> Status]
    BY <1>1 DEF Status
  <2>2. mask \in [Thread -> SUBSET CPU]
    BY <1>1, <1>7
  <2>3. queue \in [Rings -> Ring]
    BY <1>1, <1>3, <1>4, <1>5
  <2>4. current \in [CPU -> Thread]
    BY <1>1, <1>2
  <2>5. glush \in NCPU .. PidMax /\ panic \in BOOLEAN
    <3>1. NCPU \in Nat /\ PidMax \in Nat /\ PidMax >= NCPU
      BY ConstantsAssumption
    <3>2. NCPU \in NCPU .. PidMax
      BY <3>1
    <3> QED BY <1>1, <3>2
  <2> QED BY <2>1, <2>2, <2>3, <2>4, <2>5 DEF State, SchedState
<1>9. PICK h : h = [t \in Thread |-> IF status[t] = "FREE" THEN NoQ ELSE ReadyQ]
  OBVIOUS
<1>10. h \in [Thread -> Queue]
  BY <1>6, <1>9
<1>11. \A t \in Thread : status[t] \in {"RUNNING", "READY", "FREE"} /\ (status[t] = "FREE" <=> t \notin ToSet(r))
  BY <1>1, <1>4
<1>12. \A t \in Thread : /\ \A q \in Rings : t \in ToSet(queue[q]) <=> h[t] = q
                         /\ status[t] = "FREE" <=> h[t] = NoQ
                         /\ status[t] = "SLEEPING" <=> h[t] \notin {NoQ, ReadyQ}
  <2> TAKE t \in Thread
  <2>1. h[t] = IF status[t] = "FREE" THEN NoQ ELSE ReadyQ
    BY <1>9
  <2>2. \A q \in Rings : queue[q] = IF q = ReadyQ THEN r ELSE <<>>
    BY <1>1, <1>3
  <2>3. ASSUME NEW q \in Rings PROVE t \in ToSet(queue[q]) <=> h[t] = q
    <3>1. CASE q = ReadyQ
      BY <1>6, <1>11, <2>1, <2>2, <3>1
    <3>2. CASE q # ReadyQ
      BY <1>5, <1>6, <2>1, <2>2, <3>2
    <3> QED BY <3>1, <3>2
  <2>4. /\ status[t] = "FREE" <=> h[t] = NoQ
        /\ status[t] = "SLEEPING" <=> h[t] \notin {NoQ, ReadyQ}
    BY <1>6, <1>11, <2>1
  <2> QED BY <2>3, <2>4
<1>13. ASSUME NEW c \in CPU PROVE Linked(State, c) /\ \A t \in Thread : Home(State, t) = h[t]
  <2>1. status[current[c]] = "RUNNING"
    BY <1>1, <1>2
  <2>2. PICK s : s = State
    OBVIOUS
  <2>3. s \in SchedState /\ ~s.panic /\ s.st = status /\ s.q = queue /\ s.cur = current
    BY <1>1, <1>8, <2>2, StateFields
  <2>4. Linked(s, c) /\ \A t \in Thread : Home(s, t) = h[t]
    BY <1>10, <1>12, <2>1, <2>3, LinkedFrom
  <2> QED BY <2>2, <2>4
<1>14. PcbOf = [t \in Thread |->
           IF \E c \in CPU : t = Idle(c)
           THEN [status |-> "RUNNING", phead |-> ReadyQ, mask |-> {t[1]}]
           ELSE IF t = First THEN [status |-> "READY", phead |-> ReadyQ, mask |-> CPU]
                ELSE [status |-> "FREE", phead |-> NoQ, mask |-> {}]]
  <2>1. 0 \in CPU
    BY ConstantsAssumption DEF CPU
  <2>2. \A t \in Thread : Tab(State)[t] = [status |-> status[t], phead |-> h[t], mask |-> mask[t]]
    BY <1>13, <2>1, StateFields DEF Tab
  <2>3. \A t \in Thread : PcbOf[t] = [status |-> status[t], phead |-> h[t], mask |-> mask[t]]
    BY <2>2, StateTab
  <2>4. ASSUME NEW t \in Thread
        PROVE  PcbOf[t] = IF \E c \in CPU : t = Idle(c)
           THEN [status |-> "RUNNING", phead |-> ReadyQ, mask |-> {t[1]}]
           ELSE IF t = First THEN [status |-> "READY", phead |-> ReadyQ, mask |-> CPU]
                ELSE [status |-> "FREE", phead |-> NoQ, mask |-> {}]
    <3>1. h[t] = IF status[t] = "FREE" THEN NoQ ELSE ReadyQ
      BY <1>9
    <3>2. PcbOf[t] = [status |-> status[t], phead |-> h[t], mask |-> mask[t]]
      BY <2>3
    <3>3. CASE \E c \in CPU : t = Idle(c)
      <4>1. status[t] = "RUNNING" /\ mask[t] = {t[1]}
        BY <1>1, <1>2, <3>3
      <4> QED BY <3>1, <3>2, <3>3, <4>1
    <3>4. CASE ~(\E c \in CPU : t = Idle(c)) /\ t = First
      <4>1. status[t] = "READY" /\ mask[t] = CPU
        BY <1>1, <1>2, <3>4
      <4> QED BY <3>1, <3>2, <3>4, <4>1
    <3>5. CASE ~(\E c \in CPU : t = Idle(c)) /\ t # First
      <4>1. status[t] = "FREE" /\ mask[t] = {}
        BY <1>1, <1>2, <3>5
      <4> QED BY <3>1, <3>2, <3>5, <4>1
    <3> QED BY <3>3, <3>4, <3>5
  <2>5. PcbOf = [t \in Thread |-> PcbOf[t]]
    BY DEF PcbOf
  <2> HIDE DEF PcbOf
  <2> QED BY <2>4, <2>5
<1>15. PP!Init
  BY <1>1, <1>14, NamesAre DEF PP!Init, PcbOf, First
<1> QED BY <1>13, <1>15

\* init_pcb() establishes the invariant.
LEMMA InitSchedIInv == Init => SchedIInv
BY InitIs, PP!InitProcInv, ConstantsAssumption DEF SchedIInv

\* A PCB that is in its ring has one place there.
LEMMA InvLinkedOnce ==
  ASSUME SchedIInv
  PROVE  LinkedOnce
<1>1. PICK s : s = State
  OBVIOUS
<1>2. /\ s \in SchedState
      /\ \A t \in Thread : /\ Home(s, t) \in Queue
                           /\ \A q \in Rings : t \in ToSet(s.q[q]) <=> Home(s, t) = q
                           /\ s.st[t] = "FREE" <=> Home(s, t) = NoQ
      /\ \A q \in Rings : s.q[q] \in Ring
  <2>1. 0 \in CPU
    BY ConstantsAssumption DEF CPU
  <2>2. Linked(s, 0)
    BY <1>1, <2>1 DEF SchedIInv
  <2> QED BY <2>2, LinkedIs
<1>3. s.q = queue /\ s.st = status
  BY <1>1, StateFields
<1>4. ASSUME NEW t \in Thread
      PROVE  LET at == UNION {{<<q, i>> : i \in {j \in DOMAIN queue[q] : queue[q][j] = t}} : q \in Rings}
             IN  IF status[t] = "FREE" THEN at = {} ELSE \E x \in at : at = {x}
  <2> DEFINE at == UNION {{<<q, i>> : i \in {j \in DOMAIN queue[q] : queue[q][j] = t}} : q \in Rings}
  <2>1. \A x : x \in at <=> \E q \in Rings : \E i \in DOMAIN queue[q] : queue[q][i] = t /\ x = <<q, i>>
    OBVIOUS
  <2> HIDE DEF at
  <2>2. \A q \in Rings : \A i \in DOMAIN queue[q] : queue[q][i] = t => Home(s, t) = q /\ i = IndexOf(queue[q], t)
    <3> TAKE q \in Rings
    <3>1. PICK r : r = queue[q]
      OBVIOUS
    <3>2. r \in Ring
      BY <1>2, <1>3, <3>1
    <3>3. DOMAIN r = 1 .. Len(r)
      BY <3>2, RingIs
    <3>4. \A i \in 1 .. Len(r) : r[i] \in ToSet(r)
      BY <3>2, MembersAre
    <3>5. \A i \in 1 .. Len(r) : IndexOf(r, r[i]) = i
      BY <3>2, IndexIs
    <3>6. t \in ToSet(r) => Home(s, t) = q
      BY <1>2, <1>3, <3>1
    <3> QED BY <3>1, <3>3, <3>4, <3>5, <3>6
  <2>3. CASE status[t] = "FREE"
    <3>1. Home(s, t) = NoQ /\ NoQ \notin Rings
      BY <1>2, <1>3, <2>3, QueuesAre
    <3>2. at = {}
      BY <2>1, <2>2, <3>1
    <3> QED BY <2>3, <3>2 DEF at
  <2>4. CASE status[t] # "FREE"
    <3>1. Home(s, t) \in Queue /\ Home(s, t) # NoQ
      BY <1>2, <1>3, <2>4
    <3>2. PICK q : q = Home(s, t)
      OBVIOUS
    <3>3. q \in Rings
      BY <3>1, <3>2, QueuesAre
    <3>4. t \in ToSet(queue[q]) /\ queue[q] \in Ring
      BY <1>2, <1>3, <3>2, <3>3
    <3>5. PICK i : i = IndexOf(queue[q], t)
      OBVIOUS
    <3>6. i \in 1 .. Len(queue[q]) /\ queue[q][i] = t
      BY <3>4, <3>5, IndexIn
    <3>7. DOMAIN queue[q] = 1 .. Len(queue[q])
      BY <3>4, RingIs
    <3>8. <<q, i>> \in at
      BY <2>1, <3>3, <3>6, <3>7
    <3>9. \A x \in at : x = <<q, i>>
      BY <2>1, <2>2, <3>2, <3>5
    <3>10. at = {<<q, i>>}
      BY <3>8, <3>9
    <3> QED BY <2>4, <3>8, <3>10 DEF at
  <2> QED BY <2>3, <2>4
<1> QED BY <1>4 DEF LinkedOnce

\* No handler of the scheduler panics, and no PCB is ever lost or linked twice, whatever wakes
\* and reaps do_scheduler(), do_kill() and do_unblock() make of the rings they walk.
THEOREM SchedIsSound == Spec => []SchedInv
<1>1. Init => SchedIInv
  BY InitSchedIInv
<1>2. SchedIInv /\ [Next]_vars => SchedIInv'
  BY SchedStep
<1>3. SchedIInv => SchedInv
  <2> SUFFICES ASSUME SchedIInv PROVE SchedInv
    OBVIOUS
  <2>1. ~panic
    BY InvIs
  <2>2. LinkedOnce
    BY InvLinkedOnce
  <2> QED BY <2>1, <2>2 DEF SchedInv, NoPanic
<1> QED BY <1>1, <1>2, <1>3, PTL DEF Spec

\* The scheduler with its rings, walked and changed in place, implements the process table of
\* Proc, in which queues are sets and reaping is one choice of the dead.
THEOREM SchedImplementsProc == Spec => ImplementsProc
<1>1. Init => SchedIInv /\ P!Init
  BY InitSchedIInv, InitIs, SameInit
<1>2. SchedIInv /\ [Next]_vars => SchedIInv' /\ [P!Next]_(P!vars)
  <2> SUFFICES ASSUME SchedIInv, [Next]_vars PROVE SchedIInv' /\ [P!Next]_(P!vars)
    OBVIOUS
  <2>1. SchedIInv' /\ [PP!Next]_(PP!vars)
    BY SchedStep
  <2>2. P!vars = PP!vars
    BY DEF P!vars, PP!vars
  <2>3. UNCHANGED PP!vars => UNCHANGED P!vars
    BY DEF P!vars, PP!vars
  <2> QED BY <2>1, <2>3, SameNext
<1> QED BY <1>1, <1>2, PTL DEF Spec, ImplementsProc, P!Spec

\* check_sleeping() finds every sleeper that is due, although it unlinks from the ring it walks:
\* after a timer interrupt none of them is asleep.
THEOREM SleepersAreWoken == Spec => DueAreWoken
<1>1. Init => SchedIInv
  BY InitSchedIInv
<1>2. SchedIInv /\ [Next]_vars => SchedIInv'
  BY SchedStep
<1>3. SchedIInv /\ [Next]_vars => [\A c \in CPU : Timer(c) => due' = {}]_vars
  <2> SUFFICES ASSUME SchedIInv, NEW c \in CPU, Timer(c) PROVE due' = {}
    OBVIOUS
  <2>1. PICK n : Made(n, c) /\ Result(State, n, c)
    BY TimerMaps
  <2>2. PICK a : a = State
    OBVIOUS
  <2>3. ScanPre(a, c)
    BY <2>2, TimerPre DEF Timer, Trap
  <2>4. \A t \in DueSleepers(a) : t \in Thread => Home(n, t) # SleepQ
    <3>1. a.cur = current /\ current \in [CPU -> Thread]
      BY <2>2, StateFields, InvIs
    <3> QED BY <2>1, <2>2, <2>3, <3>1, ResultIs DEF Made
  <2>5. due \subseteq Thread /\ \A t \in due : Home(a, t) = SleepQ
    BY <2>2, DueHome
  <2>6. \A t \in due : t \in DueSleepers(a)
    <3>1. Linked(a, c)
      BY <2>2 DEF SchedIInv
    <3>2. \A t \in Thread : Home(a, t) = SleepQ => t \in ToSet(a.q[SleepQ])
      BY <3>1, LinkedIs, QueuesAre
    <3> QED BY <2>5, <3>2 DEF DueSleepers
  <2>7. \A t \in Thread : t \in ToSet(n.q[SleepQ]) => Home(n, t) = SleepQ
    BY <2>1, LinkedIs, QueuesAre DEF Made
  <2>8. due' = due \cap ToSet(n.q[SleepQ])
    BY <2>1 DEF Made, Becomes
  <2> QED BY <2>4, <2>5, <2>6, <2>7, <2>8
<1> QED BY <1>1, <1>2, <1>3, PTL DEF Spec, DueAreWoken

\* No handler of any CPU moves a CPU to a thread whose cpu_mask does not have it: neither the
\* scan of do_scheduler() nor the search of do_block().
THEOREM AffinityIsRespected == Spec => AffinityRespected
<1>1. Init => SchedIInv
  BY InitSchedIInv
<1>2. SchedIInv /\ [Next]_vars => SchedIInv'
  BY SchedStep
<1>3. SchedIInv /\ [Next]_vars =>
        [\A c \in CPU : current'[c] # current[c] => c \in mask'[current'[c]]]_vars
  <2> SUFFICES ASSUME SchedIInv, Next
               PROVE  \A c \in CPU : current'[c] # current[c] => c \in mask'[current'[c]]
    OBVIOUS
  <2>1. current' = current \/ Affine
    BY NextMaps
  <2> QED BY <2>1 DEF Affine
<1> QED BY <1>1, <1>2, <1>3, PTL DEF Spec, AffinityRespected
=============================================================================
