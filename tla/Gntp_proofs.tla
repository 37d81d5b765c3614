----------------------------- MODULE Gntp_proofs -----------------------------
(* Proofs about Gntp: DeliveredAsSent is an invariant for every way to cut   *)
(* the stream into segments, every length, window and timeout, and any       *)
(* number of frames lost, doubled and reordered.                             *)
EXTENDS Gntp, SequenceTheorems, FiniteSetTheorems, WellFoundedInduction, TLAPS

Node == [start : Cut, end : Cut]

\* The list of dlist_insert(): it starts at 0, only its first node may be empty, and
\* there is a gap between any two of its nodes.
ListOK(d) ==
  /\ d \in Seq(Node) /\ d # <<>> /\ d[1].start = 0
  /\ \A k \in 1 .. Len(d) : k > 1 => d[k].start < d[k].end
  /\ \A j, k \in 1 .. Len(d) : j < k => d[j].end < d[k].start

\* Byte i is in node k of list d, or in the list.
In(d, k, i) == d[k].start <= i /\ i < d[k].end
Has(d, i) == \E k \in 1 .. Len(d) : In(d, k, i)

\* The buffer has the bytes of the list, or all.
BufferOK ==
  /\ Receiving => \A i \in Bytes : buf[i] = IF Has(dlist, i) THEN i ELSE Nothing
  /\ pc = "done" => \A i \in Bytes : buf[i] = i

\* The inductive invariant.
GntpInv ==
  /\ TypeOK /\ ListOK(dlist) /\ BufferOK
  /\ pc = "blocked" => time <= 2 * GNTP_TIMEOUT
-----------------------------------------------------------------------------
\* What the assumption on the constants says of those the proofs need.
LEMMA CutIs ==
  /\ Cut \subseteq Nat /\ 0 \in Cut /\ IsFiniteSet(Cut)
  /\ GNTP_TIMEOUT \in Nat /\ len \in Nat
  BY GntpAssumption
-----------------------------------------------------------------------------
(* Least and greatest numbers of a set.                                     *)

\* A set of natural numbers has a least one.
LEMMA MinIs ==
  ASSUME NEW S \in SUBSET Nat, S # {}
  PROVE  Min(S) \in S /\ \A x \in S : Min(S) <= x
<1>1. PICK x \in S : \A y \in S : <<y, x>> \notin OpToRel(<, Nat)
  BY NatLessThanWellFounded, WFMin
<1>2. \A y \in S : ~(y < x)
  BY <1>1 DEF OpToRel
<1>3. \A y \in S : x <= y
  BY <1>2
<1> QED BY <1>3 DEF Min

\* A set of numbers up to a bound has a greatest one.
LEMMA MaxIs ==
  ASSUME NEW n \in Nat, NEW S \in SUBSET (0 .. n), S # {}
  PROVE  Max(S) \in S /\ \A x \in S : Max(S) >= x
<1> DEFINE T == {n - x : x \in S}
<1>1. T \in SUBSET Nat /\ T # {}
  <2>1. \A x \in S : n - x \in Nat
    OBVIOUS
  <2> QED BY <2>1
<1>2. Min(T) \in T /\ \A y \in T : Min(T) <= y
  <2> HIDE DEF T
  <2> QED BY <1>1, MinIs
<1>3. PICK x \in S : Min(T) = n - x
  BY <1>2
<1>4. \A y \in S : x >= y
  <2> SUFFICES ASSUME NEW y \in S PROVE x >= y
    OBVIOUS
  <2>1. n - y \in T
    OBVIOUS
  <2>2. n - x <= n - y
    BY <1>2, <1>3, <2>1
  <2> QED BY <2>2
<1> QED BY <1>4 DEF Max

\* Induction on the natural numbers, over a set.
LEMMA NatSetInduction ==
  ASSUME NEW T, 0 \in T, \A k \in Nat : k \in T => k + 1 \in T
  PROVE  Nat \subseteq T
<1> SUFFICES ASSUME Nat \ T # {} PROVE FALSE
  OBVIOUS
<1>1. Min(Nat \ T) \in Nat \ T /\ \A y \in Nat \ T : Min(Nat \ T) <= y
  BY MinIs
<1> DEFINE x == Min(Nat \ T)
<1> HIDE DEF x
<1>2. x \in Nat \ T /\ \A y \in Nat \ T : x <= y
  BY <1>1 DEF x
<1>3. x # 0 /\ x - 1 \in Nat /\ (x - 1) + 1 = x
  BY <1>2
<1>4. x - 1 \in Nat \ T
  BY <1>2, <1>3
<1>5. x <= x - 1
  BY <1>2, <1>4
<1> QED BY <1>2, <1>5

\* A finite set of natural numbers has a bound.
LEMMA FiniteIsBounded ==
  ASSUME NEW S \in SUBSET Nat, IsFiniteSet(S)
  PROVE  \E n \in Nat : \A x \in S : x <= n
<1>1. PICK n \in Nat : ExistsBijection(1 .. n, S)
  BY FS_CardinalityType
<1>2. PICK f \in [1 .. n -> S] : \A x \in S : \E i \in 1 .. n : f[i] = x
  BY <1>1 DEF ExistsBijection, Bijection, Surjection
<1> DEFINE T == {k \in Nat : k <= n => \E b \in Nat : \A i \in 1 .. k : f[i] <= b}
<1>3. 0 \in T
  OBVIOUS
<1>4. ASSUME NEW k \in Nat, k \in T
      PROVE  k + 1 \in T
  <2> SUFFICES ASSUME k + 1 <= n PROVE \E b \in Nat : \A i \in 1 .. k + 1 : f[i] <= b
    OBVIOUS
  <2>1. PICK b \in Nat : \A i \in 1 .. k : f[i] <= b
    BY <1>4
  <2>2. \A i \in 1 .. k + 1 : i \in 1 .. n /\ (i \in 1 .. k \/ i = k + 1)
    OBVIOUS
  <2>3. f[k + 1] \in Nat /\ \A i \in 1 .. k + 1 : f[i] \in Nat
    <3>1. \A i \in 1 .. n : f[i] \in Nat
      OBVIOUS
    <3>2. k + 1 \in 1 .. n
      OBVIOUS
    <3> QED BY <2>2, <3>1, <3>2
  <2>4. b + f[k + 1] \in Nat /\ \A i \in 1 .. k + 1 : f[i] <= b + f[k + 1]
    BY <2>1, <2>2, <2>3
  <2> QED BY <2>4
<1>5. n \in T
  <2> HIDE DEF T
  <2> QED BY <1>3, <1>4, NatSetInduction
<1>6. PICK b \in Nat : \A i \in 1 .. n : f[i] <= b
  BY <1>5
<1>7. \A x \in S : x <= b
  BY <1>2, <1>6
<1> QED BY <1>7
-----------------------------------------------------------------------------
(* The interval list.                                                       *)

\* A node is put after node k of a list.
LEMMA InsertedAt ==
  ASSUME NEW A, NEW d \in Seq(A), NEW x \in A, NEW k \in 1 .. Len(d)
  PROVE  /\ InsertAt(d, k + 1, x) \in Seq(A) /\ Len(InsertAt(d, k + 1, x)) = Len(d) + 1
         /\ \A i \in 1 .. Len(d) + 1 : InsertAt(d, k + 1, x)[i] =
              IF i <= k THEN d[i] ELSE IF i = k + 1 THEN x ELSE d[i - 1]
<1> DEFINE a == SubSeq(d, 1, k)
           b == SubSeq(d, k + 1, Len(d))
<1>0. Len(d) \in Nat /\ k \in Nat /\ (k + 1) - 1 = k
  OBVIOUS
<1>1. a \in Seq(A) /\ Len(a) = k /\ \A i \in 1 .. k : a[i] = d[i]
  BY <1>0, SubSeqProperties
<1>2. b \in Seq(A) /\ Len(b) = Len(d) - k /\ \A i \in 1 .. Len(d) - k : b[i] = d[k + i]
  <2>1. CASE k < Len(d)
    BY <2>1, <1>0, SubSeqProperties
  <2>2. CASE k = Len(d)
    BY <2>2, <1>0, SubSeqProperties
  <2> QED BY <2>1, <2>2
<1>3. InsertAt(d, k + 1, x) = a \o <<x>> \o b
  BY <1>0 DEF InsertAt
<1> HIDE DEF a, b
<1> DEFINE c == a \o <<x>>
<1>4. <<x>> \in Seq(A) /\ Len(<<x>>) = 1 /\ <<x>>[1] = x
  OBVIOUS
<1>5. c \in Seq(A) /\ Len(c) = k + 1 /\ (\A i \in 1 .. k : c[i] = d[i]) /\ c[k + 1] = x
  <2>1. c \in Seq(A) /\ Len(c) = k + 1
        /\ \A i \in 1 .. k + 1 : c[i] = IF i <= k THEN a[i] ELSE <<x>>[i - k]
    BY <1>0, <1>1, <1>4, ConcatProperties
  <2>2. c[k + 1] = <<x>>[k + 1 - k] /\ k + 1 - k = 1
    BY <1>0, <2>1
  <2>3. ASSUME NEW i \in 1 .. k
        PROVE  c[i] = d[i]
    <3>1. i \in 1 .. k + 1 /\ i <= k
      BY <1>0
    <3> QED BY <1>1, <2>1, <3>1
  <2>4. c[k + 1] = x
    BY <1>4, <2>2
  <2> QED BY <2>1, <2>3, <2>4
<1> HIDE DEF c
<1>6. c \o b \in Seq(A) /\ Len(c \o b) = Len(d) + 1
      /\ \A i \in 1 .. Len(d) + 1 : (c \o b)[i] = IF i <= k + 1 THEN c[i] ELSE b[i - (k + 1)]
  <2>1. /\ c \o b \in Seq(A) /\ Len(c \o b) = Len(c) + Len(b)
        /\ \A i \in 1 .. Len(c) + Len(b) :
             (c \o b)[i] = IF i <= Len(c) THEN c[i] ELSE b[i - Len(c)]
    BY <1>2, <1>5, ConcatProperties
  <2>2. Len(c) + Len(b) = Len(d) + 1
    BY <1>0, <1>2, <1>5
  <2> QED BY <1>5, <2>1, <2>2
<1>7. ASSUME NEW i \in 1 .. Len(d) + 1
      PROVE  (c \o b)[i] = IF i <= k THEN d[i] ELSE IF i = k + 1 THEN x ELSE d[i - 1]
  <2>1. CASE i <= k + 1
    BY <1>0, <1>5, <1>6, <2>1
  <2>2. CASE i > k + 1
    <3>1. i - (k + 1) \in 1 .. Len(d) - k /\ k + (i - (k + 1)) = i - 1
      BY <1>0, <2>2
    <3>2. b[i - (k + 1)] = d[i - 1]
      BY <1>2, <3>1
    <3>3. (c \o b)[i] = b[i - (k + 1)] /\ ~(i <= k) /\ i # k + 1
      BY <1>0, <1>6, <2>2
    <3> QED BY <3>2, <3>3
  <2>3. i <= k + 1 \/ i > k + 1
    BY <1>0
  <2> QED BY <2>1, <2>2, <2>3
<1> DEFINE g == InsertAt(d, k + 1, x)
<1>8. g = c \o b
  BY <1>3 DEF c
<1> HIDE DEF g
<1>9. /\ g \in Seq(A) /\ Len(g) = Len(d) + 1
      /\ \A i \in 1 .. Len(d) + 1 : g[i] = IF i <= k THEN d[i] ELSE IF i = k + 1 THEN x ELSE d[i - 1]
  BY <1>6, <1>7, <1>8
<1> QED BY <1>9 DEF g

\* Node k + 1 of a list is taken out.
LEMMA RemovedAt ==
  ASSUME NEW A, NEW d \in Seq(A), NEW k \in 1 .. Len(d) - 1
  PROVE  /\ RemoveAt(d, k + 1) \in Seq(A) /\ Len(RemoveAt(d, k + 1)) = Len(d) - 1
         /\ \A i \in 1 .. Len(d) - 1 : RemoveAt(d, k + 1)[i] = IF i <= k THEN d[i] ELSE d[i + 1]
<1> DEFINE a == SubSeq(d, 1, k)
           b == SubSeq(d, k + 2, Len(d))
<1>0. Len(d) \in Nat /\ k \in Nat /\ (k + 1) - 1 = k /\ (k + 1) + 1 = k + 2
  OBVIOUS
<1>1. a \in Seq(A) /\ Len(a) = k /\ \A i \in 1 .. k : a[i] = d[i]
  BY <1>0, SubSeqProperties
<1>2. b \in Seq(A) /\ Len(b) = Len(d) - k - 1 /\ \A i \in 1 .. Len(d) - k - 1 : b[i] = d[k + 1 + i]
  BY <1>0, SubSeqProperties
<1>3. RemoveAt(d, k + 1) = a \o b
  BY <1>0 DEF RemoveAt
<1> HIDE DEF a, b
<1>4. a \o b \in Seq(A) /\ Len(a \o b) = Len(d) - 1
      /\ \A i \in 1 .. Len(d) - 1 : (a \o b)[i] = IF i <= k THEN a[i] ELSE b[i - k]
  <2>1. /\ a \o b \in Seq(A) /\ Len(a \o b) = Len(a) + Len(b)
        /\ \A i \in 1 .. Len(a) + Len(b) :
             (a \o b)[i] = IF i <= Len(a) THEN a[i] ELSE b[i - Len(a)]
    BY <1>1, <1>2, ConcatProperties
  <2>2. Len(a) + Len(b) = Len(d) - 1
    BY <1>0, <1>1, <1>2
  <2> QED BY <1>1, <2>1, <2>2
<1>5. ASSUME NEW i \in 1 .. Len(d) - 1
      PROVE  (a \o b)[i] = IF i <= k THEN d[i] ELSE d[i + 1]
  <2>1. CASE i <= k
    BY <1>0, <1>1, <1>4, <2>1
  <2>2. CASE i > k
    <3>1. i - k \in 1 .. Len(d) - k - 1 /\ k + 1 + (i - k) = i + 1
      BY <1>0, <2>2
    <3>2. b[i - k] = d[i + 1]
      BY <1>2, <3>1
    <3>3. ~(i <= k)
      BY <1>0, <2>2
    <3>4. (a \o b)[i] = b[i - k]
      BY <1>4, <3>3
    <3> QED BY <3>2, <3>3, <3>4
  <2>3. i <= k \/ i > k
    BY <1>0
  <2> QED BY <2>1, <2>2, <2>3
<1> QED BY <1>3, <1>4, <1>5

\* What the nodes of a list are.
LEMMA ListFacts ==
  ASSUME NEW d, ListOK(d)
  PROVE  /\ Len(d) \in Nat /\ 1 \in 1 .. Len(d) /\ d \in Seq(Node)
         /\ \A j \in 1 .. Len(d) :
              /\ d[j] \in Node /\ d[j] = [start |-> d[j].start, end |-> d[j].end]
              /\ d[j].start \in Cut /\ d[j].end \in Cut
              /\ d[j].start \in Nat /\ d[j].end \in Nat
              /\ d[j].start <= d[j].end
         /\ d[1].start = 0
         /\ \A j \in 1 .. Len(d) : j > 1 => d[j].start < d[j].end
         /\ \A j, m \in 1 .. Len(d) : j < m => d[j].end < d[m].start
<1>1. Len(d) \in Nat /\ d \in Seq(Node) /\ Len(d) > 0
  BY DEF ListOK
<1>2. ASSUME NEW j \in 1 .. Len(d)
      PROVE  d[j] \in Node
  BY <1>1
<1>3. ASSUME NEW j \in 1 .. Len(d)
      PROVE  /\ d[j] = [start |-> d[j].start, end |-> d[j].end]
             /\ d[j].start \in Cut /\ d[j].end \in Cut
             /\ d[j].start \in Nat /\ d[j].end \in Nat
  <2>1. d[j] \in Node
    BY <1>2
  <2> HIDE DEF ListOK
  <2>2. Cut \subseteq Nat
    BY CutIs
  <2> QED BY <2>1, <2>2 DEF Node
<1>5. d[1].start = 0 /\ \A j \in 1 .. Len(d) : j > 1 => d[j].start < d[j].end
  BY DEF ListOK
<1>4. ASSUME NEW j \in 1 .. Len(d)
      PROVE  d[j].start <= d[j].end
  <2>1. d[j].start \in Nat /\ d[j].end \in Nat
    BY <1>3
  <2>2. CASE j = 1
    <3>1. d[j].start = 0
      BY <1>5, <2>2
    <3> QED BY <2>1, <3>1
  <2>3. CASE j > 1
    <3>1. d[j].start < d[j].end
      BY <1>5, <2>3
    <3> QED BY <2>1, <3>1
  <2> QED BY <1>1, <2>2, <2>3
<1>6. \A j, m \in 1 .. Len(d) : j < m => d[j].end < d[m].start
  BY DEF ListOK
<1> QED BY <1>1, <1>2, <1>3, <1>4, <1>5, <1>6

\* A node starts no later than the nodes after it.
LEMMA StartsGrow ==
  ASSUME NEW d, ListOK(d), NEW j \in 1 .. Len(d), NEW m \in 1 .. Len(d), j < m
  PROVE  d[j].start < d[m].start
<1>1. /\ d[j].start \in Nat /\ d[j].end \in Nat /\ d[m].start \in Nat
      /\ d[j].start <= d[j].end /\ d[j].end < d[m].start
  BY ListFacts
<1>2. \A a, b, c \in Nat : a <= b /\ b < c => a < c
  OBVIOUS
<1> QED BY <1>1, <1>2

\* dlist_insert() finds the last node that starts at or before the interval.
Place(d, start) == Max({1} \cup {j \in 1 .. Len(d) : d[j].start <= start})
LEMMA PlaceIs ==
  ASSUME NEW d, ListOK(d), NEW s \in Nat
  PROVE  /\ Place(d, s) \in 1 .. Len(d) /\ d[Place(d, s)].start <= s
         /\ \A j \in 1 .. Len(d) : j > Place(d, s) => s < d[j].start
<1> DEFINE S == {1} \cup {j \in 1 .. Len(d) : d[j].start <= s}
<1>1. /\ Len(d) \in Nat /\ 1 \in 1 .. Len(d) /\ d[1].start = 0
      /\ \A j \in 1 .. Len(d) : d[j].start \in Nat
  BY ListFacts DEF ListOK
<1>2. S \in SUBSET (0 .. Len(d)) /\ S # {}
  BY <1>1
<1>3. \A x \in S : x \in 1 .. Len(d) /\ d[x].start <= s
  BY <1>1
<1>4. \A j \in 1 .. Len(d) : d[j].start <= s => j \in S
  OBVIOUS
<1>5. Place(d, s) = Max(S)
  BY DEF Place
<1> HIDE DEF S
<1>6. Place(d, s) \in S /\ \A x \in S : Place(d, s) >= x
  BY <1>1, <1>2, <1>5, MaxIs
<1>7. Place(d, s) \in 1 .. Len(d) /\ d[Place(d, s)].start <= s
  BY <1>3, <1>6
<1>8. ASSUME NEW j \in 1 .. Len(d), j > Place(d, s)
      PROVE  s < d[j].start
  <2>1. j \notin S
    BY <1>1, <1>6, <1>7, <1>8
  <2> QED BY <1>1, <1>4, <2>1
<1> QED BY <1>7, <1>8

\* The bytes of list g are those of list d and those from s to e.
Adds(g, d, s, e) == \A i \in Nat : Has(g, i) <=> Has(d, i) \/ (s <= i /\ i < e)

\* A sequence of nodes is a list if its nodes are in order.
LEMMA IsList ==
  ASSUME NEW g \in Seq(Node), Len(g) > 0, g[1].start = 0,
         \A j \in 1 .. Len(g) : j > 1 => g[j].start < g[j].end,
         \A j, m \in 1 .. Len(g) : j < m => g[j].end < g[m].start
  PROVE  ListOK(g)
<1>1. g # <<>>
  OBVIOUS
<1> QED BY <1>1 DEF ListOK

\* The new interval starts where node k ends: the node is made longer.
LEMMA Lengthened ==
  ASSUME NEW d, ListOK(d), NEW k \in 1 .. Len(d), NEW s \in Cut, NEW e \in Cut,
         s < e, s = d[k].end, k < Len(d) => e < d[k + 1].start,
         NEW g, g = [d EXCEPT ![k].end = e]
  PROVE  ListOK(g) /\ Adds(g, d, s, e)
<1>1. /\ Len(d) \in Nat /\ k \in Nat /\ 1 \in 1 .. Len(d) /\ s \in Nat /\ e \in Nat
      /\ \A j \in 1 .. Len(d) : /\ d[j].start \in Nat /\ d[j].end \in Nat
                                /\ d[j].start <= d[j].end
      /\ d[1].start = 0
      /\ \A j \in 1 .. Len(d) : j > 1 => d[j].start < d[j].end
      /\ \A j, m \in 1 .. Len(d) : j < m => d[j].end < d[m].start
  <2>1. k \in Nat /\ s \in Nat /\ e \in Nat
    BY CutIs
  <2> QED BY <2>1, ListFacts
<1>2. /\ g \in Seq(Node) /\ Len(g) = Len(d)
      /\ \A j \in 1 .. Len(d) : /\ g[j].start = d[j].start
                                /\ g[j].end = IF j = k THEN e ELSE d[j].end
  <2>1. d \in Seq(Node) /\ d[k] \in Node
    BY ListFacts
  <2>2. [d[k] EXCEPT !.end = e] \in Node
    BY <2>1 DEF Node
  <2>3. g = [d EXCEPT ![k] = [d[k] EXCEPT !.end = e]]
    OBVIOUS
  <2>4. g \in Seq(Node) /\ Len(g) = Len(d)
    BY <2>1, <2>2, <2>3, ExceptSeq
  <2>5. ASSUME NEW j \in 1 .. Len(d)
        PROVE  /\ g[j].start = d[j].start /\ g[j].end = IF j = k THEN e ELSE d[j].end
    <3>1. CASE j = k
      <4>1. g[j] = [d[k] EXCEPT !.end = e]
        BY <2>1, <2>3, <3>1
      <4> QED BY <2>1, <3>1, <4>1 DEF Node
    <3>2. CASE j # k
      <4>1. g[j] = d[j]
        BY <2>1, <2>3, <3>2
      <4> QED BY <3>2, <4>1
    <3> QED BY <3>1, <3>2
  <2> QED BY <2>4, <2>5
<1>3. ListOK(g)
  <2>1. Len(g) > 0 /\ g[1].start = 0
    BY <1>1, <1>2
  <2>2. ASSUME NEW j \in 1 .. Len(g), j > 1
        PROVE  g[j].start < g[j].end
    <3>1. d[j].start < d[j].end /\ d[j].start \in Nat /\ d[j].end \in Nat
      BY <1>1, <1>2, <2>2
    <3>2. g[j].start = d[j].start /\ g[j].end = IF j = k THEN e ELSE d[j].end
      BY <1>2
    <3> QED BY <1>1, <3>1, <3>2
  <2>3. ASSUME NEW j \in 1 .. Len(g), NEW m \in 1 .. Len(g), j < m
        PROVE  g[j].end < g[m].start
    <3>1. d[j].end < d[m].start /\ g[m].start = d[m].start
          /\ g[j].end = IF j = k THEN e ELSE d[j].end
      BY <1>1, <1>2, <2>3
    <3>2. CASE j = k
      <4>1. k + 1 \in 1 .. Len(d) /\ (m = k + 1 \/ k + 1 < m)
        BY <1>1, <1>2, <2>3, <3>2
      <4>2. d[k + 1].start <= d[m].start
        <5>1. CASE k + 1 < m
          <6>1. d[k + 1].start < d[m].start
            BY <1>2, <4>1, <5>1, StartsGrow
          <6> QED BY <1>1, <1>2, <4>1, <6>1
        <5>2. CASE m = k + 1
          BY <1>1, <4>1, <5>2
        <5> QED BY <4>1, <5>1, <5>2
      <4>3. e < d[k + 1].start /\ d[k + 1].start \in Nat /\ d[m].start \in Nat
        BY <1>1, <1>2, <4>1
      <4>4. \A a, b, c \in Nat : a < b /\ b <= c => a < c
        OBVIOUS
      <4>5. e < d[m].start
        BY <1>1, <4>2, <4>3, <4>4
      <4> QED BY <3>1, <3>2, <4>5
    <3>3. CASE j # k
      BY <3>1, <3>3
    <3> QED BY <3>2, <3>3
  <2> QED BY <1>2, <2>1, <2>2, <2>3, IsList
<1>4. ASSUME NEW i \in Nat
      PROVE  Has(g, i) <=> Has(d, i) \/ (s <= i /\ i < e)
  <2>1. ASSUME NEW j \in 1 .. Len(g), In(g, j, i)
        PROVE  Has(d, i) \/ (s <= i /\ i < e)
    <3>1. d[j].start <= i /\ i < (IF j = k THEN e ELSE d[j].end)
      BY <1>2, <2>1 DEF In
    <3>2. CASE j = k /\ s <= i
      BY <3>1, <3>2
    <3>3. CASE j # k \/ i < s
      <4>1. In(d, j, i)
        BY <1>2, <3>1, <3>3 DEF In
      <4> QED BY <1>2, <4>1 DEF Has
    <3> QED BY <1>1, <3>2, <3>3
  <2>2. ASSUME NEW j \in 1 .. Len(d), In(d, j, i)
        PROVE  In(g, j, i)
    <3>1. d[j].start <= i /\ i < d[j].end /\ g[j].start = d[j].start
          /\ g[j].end = IF j = k THEN e ELSE d[j].end
      BY <1>2, <2>2 DEF In
    <3>2. j = k => d[j].end = s
      OBVIOUS
    <3> QED BY <1>1, <3>1, <3>2 DEF In
  <2>3. ASSUME s <= i, i < e PROVE In(g, k, i)
    <3>1. d[k].start <= s /\ g[k].start = d[k].start /\ g[k].end = e /\ d[k].start \in Nat
      BY <1>1, <1>2
    <3> QED BY <1>1, <2>3, <3>1 DEF In
  <2> QED BY <1>2, <2>1, <2>2, <2>3 DEF Has
<1> QED BY <1>3, <1>4 DEF Adds

\* It ends where the next node starts: the next node is made longer.
LEMMA LengthenedDown ==
  ASSUME NEW d, ListOK(d), NEW k \in 1 .. Len(d) - 1, NEW s \in Cut, NEW e \in Cut,
         s < e, d[k].end < s, e = d[k + 1].start,
         NEW g, g = [d EXCEPT ![k + 1].start = s]
  PROVE  ListOK(g) /\ Adds(g, d, s, e)
<1>1. /\ Len(d) \in Nat /\ k \in Nat /\ 1 \in 1 .. Len(d) /\ s \in Nat /\ e \in Nat
      /\ k \in 1 .. Len(d) /\ k + 1 \in 1 .. Len(d) /\ k + 1 # 1
      /\ \A j \in 1 .. Len(d) : /\ d[j].start \in Nat /\ d[j].end \in Nat
                                /\ d[j].start <= d[j].end
      /\ d[1].start = 0
      /\ \A j \in 1 .. Len(d) : j > 1 => d[j].start < d[j].end
      /\ \A j, m \in 1 .. Len(d) : j < m => d[j].end < d[m].start
  <2>1. /\ Len(d) \in Nat
        /\ \A j \in 1 .. Len(d) : /\ d[j].start \in Nat /\ d[j].end \in Nat
                                  /\ d[j].start <= d[j].end
        /\ d[1].start = 0
        /\ \A j \in 1 .. Len(d) : j > 1 => d[j].start < d[j].end
        /\ \A j, m \in 1 .. Len(d) : j < m => d[j].end < d[m].start
    BY ListFacts
  <2>2. k \in Nat /\ s \in Nat /\ e \in Nat
    BY <2>1, CutIs
  <2>3. 1 \in 1 .. Len(d) /\ k \in 1 .. Len(d) /\ k + 1 \in 1 .. Len(d) /\ k + 1 # 1
    BY <2>1
  <2> QED BY <2>1, <2>2, <2>3
<1>2. /\ g \in Seq(Node) /\ Len(g) = Len(d)
      /\ \A j \in 1 .. Len(d) : /\ g[j].end = d[j].end
                                /\ g[j].start = IF j = k + 1 THEN s ELSE d[j].start
  <2>1. d \in Seq(Node) /\ d[k + 1] \in Node
    BY <1>1, ListFacts
  <2>2. [d[k + 1] EXCEPT !.start = s] \in Node
    BY <2>1 DEF Node
  <2>3. g = [d EXCEPT ![k + 1] = [d[k + 1] EXCEPT !.start = s]]
    OBVIOUS
  <2>4. g \in Seq(Node) /\ Len(g) = Len(d)
        /\ \A j \in 1 .. Len(d) : g[j] = IF j = k + 1 THEN [d[k + 1] EXCEPT !.start = s] ELSE d[j]
    BY <1>1, <2>1, <2>2, <2>3, ExceptSeq
  <2>5. ASSUME NEW j \in 1 .. Len(d)
        PROVE  /\ g[j].end = d[j].end /\ g[j].start = IF j = k + 1 THEN s ELSE d[j].start
    <3>1. CASE j = k + 1
      <4>1. g[j] = [d[k + 1] EXCEPT !.start = s]
        BY <2>4, <3>1
      <4> QED BY <2>1, <3>1, <4>1 DEF Node
    <3>2. CASE j # k + 1
      <4>1. g[j] = d[j]
        BY <2>4, <3>2
      <4> QED BY <3>2, <4>1
    <3> QED BY <3>1, <3>2
  <2> QED BY <2>4, <2>5
<1>3. d[k + 1].start < d[k + 1].end /\ s < d[k + 1].end
  BY <1>1
<1>4. ListOK(g)
  <2>1. Len(g) > 0 /\ g[1].start = 0
    BY <1>1, <1>2
  <2>2. ASSUME NEW j \in 1 .. Len(g), j > 1
        PROVE  g[j].start < g[j].end
    <3>1. d[j].start < d[j].end
      BY <1>1, <1>2, <2>2
    <3>2. g[j].end = d[j].end /\ g[j].start = IF j = k + 1 THEN s ELSE d[j].start
      BY <1>2
    <3> QED BY <1>3, <3>1, <3>2
  <2>3. ASSUME NEW j \in 1 .. Len(g), NEW m \in 1 .. Len(g), j < m
        PROVE  g[j].end < g[m].start
    <3>1. d[j].end < d[m].start /\ g[j].end = d[j].end
          /\ g[m].start = IF m = k + 1 THEN s ELSE d[m].start
      BY <1>1, <1>2, <2>3
    <3>2. CASE m = k + 1
      <4>1. d[j].end <= d[k].end
        <5>1. CASE j < k
          <6>1. d[j].end < d[k].start /\ d[k].start <= d[k].end
            BY <1>1, <1>2, <5>1
          <6>2. \A a, b, c \in Nat : a < b /\ b <= c => a <= c
            OBVIOUS
          <6> QED BY <1>1, <1>2, <6>1, <6>2
        <5>2. CASE j = k
          BY <1>1, <5>2
        <5> QED BY <1>1, <1>2, <2>3, <3>2, <5>1, <5>2
      <4>2. \A a, b, c \in Nat : a <= b /\ b < c => a < c
        OBVIOUS
      <4>3. d[j].end < s
        BY <1>1, <1>2, <4>1, <4>2
      <4> QED BY <3>1, <3>2, <4>3
    <3>3. CASE m # k + 1
      BY <3>1, <3>3
    <3> QED BY <3>2, <3>3
  <2> QED BY <1>2, <2>1, <2>2, <2>3, IsList
<1>5. ASSUME NEW i \in Nat
      PROVE  Has(g, i) <=> Has(d, i) \/ (s <= i /\ i < e)
  <2>1. ASSUME NEW j \in 1 .. Len(g), In(g, j, i)
        PROVE  Has(d, i) \/ (s <= i /\ i < e)
    <3>1. i < d[j].end /\ (IF j = k + 1 THEN s ELSE d[j].start) <= i
      BY <1>2, <2>1 DEF In
    <3>2. CASE j = k + 1 /\ i < e
      BY <3>1, <3>2
    <3>3. CASE j # k + 1 \/ i >= e
      <4>1. In(d, j, i)
        BY <1>2, <3>1, <3>3 DEF In
      <4> QED BY <1>2, <4>1 DEF Has
    <3> QED BY <1>1, <3>2, <3>3
  <2>2. ASSUME NEW j \in 1 .. Len(d), In(d, j, i)
        PROVE  In(g, j, i)
    <3>1. d[j].start <= i /\ i < d[j].end /\ g[j].end = d[j].end
          /\ g[j].start = IF j = k + 1 THEN s ELSE d[j].start
      BY <1>2, <2>2 DEF In
    <3>2. j = k + 1 => s <= i
      BY <1>1, <3>1
    <3> QED BY <3>1, <3>2 DEF In
  <2>3. ASSUME s <= i, i < e PROVE In(g, k + 1, i)
    <3>1. g[k + 1].start = s /\ g[k + 1].end = d[k + 1].end /\ d[k + 1].end \in Nat
      BY <1>1, <1>2
    <3>2. i < d[k + 1].end
      BY <1>1, <1>3, <2>3
    <3> QED BY <2>3, <3>1, <3>2 DEF In
  <2> QED BY <1>1, <1>2, <2>1, <2>2, <2>3 DEF Has
<1> QED BY <1>4, <1>5 DEF Adds

\* It touches no node: it becomes a node of its own.
LEMMA Separate ==
  ASSUME NEW d, ListOK(d), NEW k \in 1 .. Len(d), NEW s \in Cut, NEW e \in Cut,
         s < e, d[k].end < s, k < Len(d) => e < d[k + 1].start,
         NEW g, g = InsertAt(d, k + 1, [start |-> s, end |-> e])
  PROVE  ListOK(g) /\ Adds(g, d, s, e)
<1> DEFINE x == [start |-> s, end |-> e]
<1>0. s \in Nat /\ e \in Nat /\ x \in Node
  BY CutIs DEF Node
<1>1. /\ Len(d) \in Nat /\ k \in Nat /\ 1 \in 1 .. Len(d) /\ d \in Seq(Node)
      /\ \A j \in 1 .. Len(d) : /\ d[j].start \in Nat /\ d[j].end \in Nat
                                /\ d[j].start <= d[j].end
      /\ d[1].start = 0
      /\ \A j \in 1 .. Len(d) : j > 1 => d[j].start < d[j].end
      /\ \A j, m \in 1 .. Len(d) : j < m => d[j].end < d[m].start
  <2>1. k \in Nat
    OBVIOUS
  <2> HIDE DEF x
  <2> QED BY <2>1, ListFacts
<1>2. /\ g \in Seq(Node) /\ Len(g) = Len(d) + 1
      /\ \A i \in 1 .. Len(d) + 1 : g[i] = IF i <= k THEN d[i] ELSE IF i = k + 1 THEN x ELSE d[i - 1]
  <2> HIDE DEF x
  <2>1. g = InsertAt(d, k + 1, x)
    BY DEF x
  <2>2. d \in Seq(Node) /\ x \in Node /\ k \in 1 .. Len(d)
    BY <1>0, <1>1
  <2>3. /\ InsertAt(d, k + 1, x) \in Seq(Node) /\ Len(InsertAt(d, k + 1, x)) = Len(d) + 1
        /\ \A i \in 1 .. Len(d) + 1 : InsertAt(d, k + 1, x)[i] =
             IF i <= k THEN d[i] ELSE IF i = k + 1 THEN x ELSE d[i - 1]
    BY <2>2, InsertedAt
  <2> QED BY <2>1, <2>3
\* Where the nodes of d are in g, and what is at the other place.
<1>3. /\ \A i \in 1 .. k : i \in 1 .. Len(d) /\ i \in 1 .. Len(g) /\ g[i] = d[i]
      /\ k + 1 \in 1 .. Len(g) /\ g[k + 1].start = s /\ g[k + 1].end = e
      /\ \A i \in k + 2 .. Len(d) + 1 : i - 1 \in k + 1 .. Len(d) /\ i - 1 \in 1 .. Len(d) /\ g[i] = d[i - 1]
  <2>1. \A i \in 1 .. k : i \in 1 .. Len(d) /\ i \in 1 .. Len(d) + 1 /\ i <= k
    BY <1>1
  <2>2. k + 1 \in 1 .. Len(d) + 1 /\ ~(k + 1 <= k)
    BY <1>1
  <2>3. \A i \in k + 2 .. Len(d) + 1 : /\ i - 1 \in k + 1 .. Len(d) /\ i - 1 \in 1 .. Len(d)
                                       /\ i \in 1 .. Len(d) + 1 /\ ~(i <= k) /\ i # k + 1
    BY <1>1
  <2>4. g[k + 1] = x
    BY <1>2, <2>2
  <2> QED BY <1>2, <2>1, <2>2, <2>3, <2>4
<1>4. \A i \in 1 .. Len(g) : i \in 1 .. k \/ i = k + 1 \/ i \in k + 2 .. Len(d) + 1
  BY <1>1, <1>2
\* The nodes up to k end before s, and those after it start behind e.
<1>5. \A j \in 1 .. k : d[j].end < s
  <2> SUFFICES ASSUME NEW j \in 1 .. k PROVE d[j].end < s
    OBVIOUS
  <2>1. CASE j < k
    <3>1. d[j].end < d[k].start /\ d[k].start <= d[k].end /\ d[k].end < s
      BY <1>1, <2>1
    <3>2. \A a, b, c, f \in Nat : a < b /\ b <= c /\ c < f => a < f
      OBVIOUS
    <3> QED BY <1>0, <1>1, <1>3, <3>1, <3>2
  <2>2. CASE j = k
    BY <2>2
  <2> QED BY <1>1, <2>1, <2>2
<1>6. \A j \in k + 1 .. Len(d) : e < d[j].start
  <2> SUFFICES ASSUME NEW j \in k + 1 .. Len(d) PROVE e < d[j].start
    OBVIOUS
  <2>1. k + 1 \in 1 .. Len(d) /\ j \in 1 .. Len(d) /\ (j = k + 1 \/ k + 1 < j) /\ k < Len(d)
    BY <1>1
  <2>2. CASE k + 1 < j
    <3>1. d[k + 1].start < d[j].start
      BY <2>1, <2>2, StartsGrow
    <3>2. \A a, b, c \in Nat : a < b /\ b < c => a < c
      OBVIOUS
    <3> QED BY <1>0, <1>1, <2>1, <3>1, <3>2
  <2>3. CASE j = k + 1
    BY <2>1, <2>3
  <2> QED BY <2>1, <2>2, <2>3
<1> HIDE DEF x
<1>7. ListOK(g)
  <2>1. Len(g) > 0 /\ g[1].start = 0
    BY <1>1, <1>2, <1>3
  <2>2. ASSUME NEW j \in 1 .. Len(g), j > 1
        PROVE  g[j].start < g[j].end
    <3>1. CASE j \in 1 .. k
      BY <1>1, <1>3, <2>2, <3>1
    <3>2. CASE j = k + 1
      BY <1>3, <3>2
    <3>3. CASE j \in k + 2 .. Len(d) + 1
      <4>1. j - 1 > 1 /\ j - 1 \in 1 .. Len(d) /\ g[j] = d[j - 1]
        BY <1>1, <1>3, <3>3
      <4> QED BY <1>1, <4>1
    <3> QED BY <1>4, <3>1, <3>2, <3>3
  <2>3. ASSUME NEW j \in 1 .. Len(g), NEW m \in 1 .. Len(g), j < m
        PROVE  g[j].end < g[m].start
    <3>1. CASE j \in 1 .. k
      <4>1. g[j] = d[j] /\ d[j].end < s /\ j \in 1 .. Len(d)
        BY <1>3, <1>5, <3>1
      <4>2. CASE m \in 1 .. k
        BY <1>1, <1>3, <2>3, <4>1, <4>2
      <4>3. CASE m = k + 1
        BY <1>3, <4>1, <4>3
      <4>4. CASE m \in k + 2 .. Len(d) + 1
        <5>1. g[m] = d[m - 1] /\ m - 1 \in 1 .. Len(d) /\ j < m - 1
          BY <1>1, <1>3, <3>1, <4>4
        <5> QED BY <1>1, <4>1, <5>1
      <4> QED BY <1>4, <4>2, <4>3, <4>4
    <3>2. CASE j = k + 1
      <4>1. m \in k + 2 .. Len(d) + 1
        BY <1>1, <1>2, <2>3, <3>2
      <4>2. g[m] = d[m - 1] /\ m - 1 \in k + 1 .. Len(d)
        BY <1>3, <4>1
      <4> QED BY <1>3, <1>6, <3>2, <4>2
    <3>3. CASE j \in k + 2 .. Len(d) + 1
      <4>1. m \in k + 2 .. Len(d) + 1 /\ j - 1 < m - 1
        BY <1>1, <1>2, <2>3, <3>3
      <4>2. g[m] = d[m - 1] /\ m - 1 \in 1 .. Len(d) /\ g[j] = d[j - 1] /\ j - 1 \in 1 .. Len(d)
        BY <1>3, <3>3, <4>1
      <4> QED BY <1>1, <4>1, <4>2
    <3> QED BY <1>4, <3>1, <3>2, <3>3
  <2> QED BY <1>2, <2>1, <2>2, <2>3, IsList
<1>8. ASSUME NEW i \in Nat
      PROVE  Has(g, i) <=> Has(d, i) \/ (s <= i /\ i < e)
  <2>1. ASSUME NEW j \in 1 .. Len(g), In(g, j, i)
        PROVE  Has(d, i) \/ (s <= i /\ i < e)
    <3>1. CASE j \in 1 .. k
      <4>1. In(d, j, i) /\ j \in 1 .. Len(d)
        BY <1>3, <2>1, <3>1 DEF In
      <4> QED BY <4>1 DEF Has
    <3>2. CASE j = k + 1
      BY <1>3, <2>1, <3>2 DEF In
    <3>3. CASE j \in k + 2 .. Len(d) + 1
      <4>1. In(d, j - 1, i) /\ j - 1 \in 1 .. Len(d)
        BY <1>3, <2>1, <3>3 DEF In
      <4> QED BY <4>1 DEF Has
    <3> QED BY <1>4, <3>1, <3>2, <3>3
  <2>2. ASSUME NEW j \in 1 .. Len(d), In(d, j, i)
        PROVE  Has(g, i)
    <3>1. CASE j \in 1 .. k
      <4>1. In(g, j, i) /\ j \in 1 .. Len(g)
        BY <1>3, <2>2, <3>1 DEF In
      <4> QED BY <4>1 DEF Has
    <3>2. CASE j \in k + 1 .. Len(d)
      <4>1. j + 1 \in k + 2 .. Len(d) + 1 /\ (j + 1) - 1 = j /\ j + 1 \in 1 .. Len(g)
        BY <1>1, <1>2, <3>2
      <4>2. g[j + 1] = d[j]
        BY <1>3, <4>1
      <4>3. In(g, j + 1, i)
        BY <2>2, <4>2 DEF In
      <4> QED BY <4>1, <4>3 DEF Has
    <3> QED BY <1>1, <3>1, <3>2
  <2>3. ASSUME s <= i, i < e PROVE In(g, k + 1, i) /\ k + 1 \in 1 .. Len(g)
    BY <1>3, <2>3 DEF In
  <2> QED BY <2>1, <2>2, <2>3 DEF Has
<1> QED BY <1>7, <1>8 DEF Adds

\* Nodes k and k + 1 of d are one node of g.
NodesJoined(g, d, k) ==
  /\ g \in Seq(Node) /\ Len(g) = Len(d) - 1
  /\ \A i \in 1 .. k - 1 : i \in 1 .. Len(d) /\ i \in 1 .. Len(g) /\ g[i] = d[i]
  /\ k \in 1 .. Len(g) /\ g[k].start = d[k].start /\ g[k].end = d[k + 1].end
  /\ \A i \in k + 1 .. Len(d) - 1 :
       i + 1 \in k + 2 .. Len(d) /\ i + 1 \in 1 .. Len(d) /\ g[i] = d[i + 1]

LEMMA JoinedNodes ==
  ASSUME NEW d, ListOK(d), NEW k \in 1 .. Len(d) - 1, NEW s \in Cut, NEW e \in Cut,
         s < e, s = d[k].end, e = d[k + 1].start,
         NEW g, g = RemoveAt([d EXCEPT ![k].end = d[k + 1].end], k + 1)
  PROVE  NodesJoined(g, d, k)
<1>1. /\ Len(d) \in Nat /\ 1 \in 1 .. Len(d) /\ d \in Seq(Node)
      /\ \A j \in 1 .. Len(d) : /\ d[j].start \in Nat /\ d[j].end \in Nat
                                /\ d[j].start <= d[j].end
      /\ d[1].start = 0
      /\ \A j \in 1 .. Len(d) : j > 1 => d[j].start < d[j].end
      /\ \A j, m \in 1 .. Len(d) : j < m => d[j].end < d[m].start
  BY ListFacts
<1>2. /\ k \in Nat /\ s \in Nat /\ e \in Nat /\ k + 1 # 1
      /\ k \in 1 .. Len(d) /\ k + 1 \in 1 .. Len(d)
  BY <1>1
<1>0. Len(d) \in Nat /\ k \in Nat /\ k >= 1 /\ k + 1 <= Len(d)
  BY <1>1
<1> DEFINE x == [start |-> d[k].start, end |-> d[k + 1].end]
           f == [d EXCEPT ![k].end = d[k + 1].end]
<1>3. /\ f \in Seq(Node) /\ Len(f) = Len(d)
      /\ \A j \in 1 .. Len(d) : f[j] = IF j = k THEN x ELSE d[j]
  <2>1. d[k] \in Node /\ d[k + 1] \in Node
    BY <1>2, ListFacts
  <2>2. x \in Node /\ [d[k] EXCEPT !.end = d[k + 1].end] = x
    BY <2>1 DEF Node
  <2>3. f = [d EXCEPT ![k] = x]
    BY <2>2
  <2> HIDE DEF x, f
  <2> QED BY <1>1, <1>2, <2>2, <2>3, ExceptSeq
<1>4. x.start = d[k].start /\ x.end = d[k + 1].end
  OBVIOUS
<1> HIDE DEF x
<1>5. /\ g \in Seq(Node) /\ Len(g) = Len(d) - 1
      /\ \A i \in 1 .. Len(d) - 1 : g[i] = IF i <= k THEN f[i] ELSE f[i + 1]
  <2>1. g = RemoveAt(f, k + 1)
    OBVIOUS
  <2> HIDE DEF f
  <2>2. f \in Seq(Node) /\ k \in 1 .. Len(f) - 1
    BY <1>3
  <2>3. /\ RemoveAt(f, k + 1) \in Seq(Node) /\ Len(RemoveAt(f, k + 1)) = Len(f) - 1
        /\ \A i \in 1 .. Len(f) - 1 : RemoveAt(f, k + 1)[i] = IF i <= k THEN f[i] ELSE f[i + 1]
    BY <2>2, RemovedAt
  <2> QED BY <1>3, <2>1, <2>3
<1> HIDE DEF f
\* Where the nodes of d are in g.
<1>6. /\ \A i \in 1 .. k - 1 : i \in 1 .. Len(d) /\ i \in 1 .. Len(g) /\ g[i] = d[i]
      /\ k \in 1 .. Len(g) /\ g[k].start = d[k].start /\ g[k].end = d[k + 1].end
      /\ \A i \in k + 1 .. Len(d) - 1 : i + 1 \in k + 2 .. Len(d) /\ i + 1 \in 1 .. Len(d) /\ g[i] = d[i + 1]
  <2>1. ASSUME NEW i \in 1 .. k - 1
        PROVE  i \in 1 .. Len(d) /\ i \in 1 .. Len(g) /\ g[i] = d[i]
    <3>1. i \in 1 .. Len(d) - 1 /\ i \in 1 .. Len(d) /\ i <= k /\ i # k
      BY <1>0
    <3> QED BY <1>3, <1>5, <3>1
  <2>2. k \in 1 .. Len(d) - 1 /\ k <= k
    BY <1>2
  <2>3. g[k] = x
    BY <1>2, <1>3, <1>5, <2>2
  <2>4. ASSUME NEW i \in k + 1 .. Len(d) - 1
        PROVE  i + 1 \in k + 2 .. Len(d) /\ i + 1 \in 1 .. Len(d) /\ g[i] = d[i + 1]
    <3>1. i + 1 \in k + 2 .. Len(d) /\ i + 1 \in 1 .. Len(d) /\ i \in 1 .. Len(d) - 1
          /\ ~(i <= k) /\ i + 1 # k
      BY <1>0
    <3> QED BY <1>3, <1>5, <3>1
  <2> QED BY <1>4, <1>5, <2>1, <2>2, <2>3, <2>4
<1> QED BY <1>5, <1>6 DEF NodesJoined

\* It fills the gap between node k and the next one: the two become one node.
LEMMA Joined ==
  ASSUME NEW d, ListOK(d), NEW k \in 1 .. Len(d) - 1, NEW s \in Cut, NEW e \in Cut,
         s = d[k].end, e = d[k + 1].start, NEW g, NodesJoined(g, d, k)
  PROVE  ListOK(g) /\ Adds(g, d, s, e)
<1>1. /\ Len(d) \in Nat /\ 1 \in 1 .. Len(d) /\ d \in Seq(Node)
      /\ \A j \in 1 .. Len(d) : /\ d[j].start \in Nat /\ d[j].end \in Nat
                                /\ d[j].start <= d[j].end
      /\ d[1].start = 0
      /\ \A j \in 1 .. Len(d) : j > 1 => d[j].start < d[j].end
      /\ \A j, m \in 1 .. Len(d) : j < m => d[j].end < d[m].start
  BY ListFacts
<1>2. /\ k \in Nat /\ s \in Nat /\ e \in Nat /\ k + 1 # 1
      /\ k \in 1 .. Len(d) /\ k + 1 \in 1 .. Len(d)
  BY <1>1
<1>0. Len(d) \in Nat /\ k \in Nat /\ k >= 1 /\ k + 1 <= Len(d)
  BY <1>1
<1>5. g \in Seq(Node) /\ Len(g) = Len(d) - 1
  BY DEF NodesJoined
<1>6. /\ \A i \in 1 .. k - 1 : i \in 1 .. Len(d) /\ i \in 1 .. Len(g) /\ g[i] = d[i]
      /\ k \in 1 .. Len(g) /\ g[k].start = d[k].start /\ g[k].end = d[k + 1].end
      /\ \A i \in k + 1 .. Len(d) - 1 : i + 1 \in k + 2 .. Len(d) /\ i + 1 \in 1 .. Len(d) /\ g[i] = d[i + 1]
  BY DEF NodesJoined
<1>7. \A i \in 1 .. Len(g) : i \in 1 .. k - 1 \/ i = k \/ i \in k + 1 .. Len(d) - 1
  BY <1>1, <1>2, <1>5
<1>8. d[k].start < d[k + 1].end /\ d[k + 1].start < d[k + 1].end
  <2>1. d[k].start < d[k + 1].start /\ d[k + 1].start < d[k + 1].end
    BY <1>1, <1>2, StartsGrow
  <2> QED BY <1>1, <1>2, <2>1
<1>9. ListOK(g)
  <2>1. Len(g) > 0 /\ g[1].start = 0
    <3>1. CASE k = 1
      BY <1>1, <1>6, <3>1
    <3>2. CASE k > 1
      BY <1>0, <1>1, <1>6, <3>2
    <3>3. Len(g) > 0
      BY <1>1, <1>2, <1>5
    <3> QED BY <1>2, <3>1, <3>2, <3>3
  <2>2. ASSUME NEW j \in 1 .. Len(g), j > 1
        PROVE  g[j].start < g[j].end
    <3>1. CASE j \in 1 .. k - 1
      BY <1>1, <1>6, <2>2, <3>1
    <3>2. CASE j = k
      BY <1>6, <1>8, <3>2
    <3>3. CASE j \in k + 1 .. Len(d) - 1
      <4>1. j + 1 > 1 /\ j + 1 \in 1 .. Len(d) /\ g[j] = d[j + 1]
        BY <1>0, <1>6, <3>3
      <4> QED BY <1>1, <4>1
    <3> QED BY <1>7, <3>1, <3>2, <3>3
  <2>3. ASSUME NEW j \in 1 .. Len(g), NEW m \in 1 .. Len(g), j < m
        PROVE  g[j].end < g[m].start
    <3>1. CASE j \in 1 .. k - 1
      <4>1. g[j] = d[j] /\ j \in 1 .. Len(d)
        BY <1>6, <3>1
      <4>2. CASE m \in 1 .. k - 1
        BY <1>1, <1>6, <2>3, <4>1, <4>2
      <4>3. CASE m = k
        BY <1>1, <1>2, <1>6, <2>3, <4>1, <4>3
      <4>4. CASE m \in k + 1 .. Len(d) - 1
        <5>1. g[m] = d[m + 1] /\ m + 1 \in 1 .. Len(d) /\ j < m + 1
          BY <1>0, <1>6, <2>3, <4>4
        <5> QED BY <1>1, <4>1, <5>1
      <4> QED BY <1>7, <4>2, <4>3, <4>4
    <3>2. CASE j = k
      <4>1. m \in k + 1 .. Len(d) - 1
        BY <1>0, <1>7, <2>3, <3>2
      <4>2. g[m] = d[m + 1] /\ m + 1 \in 1 .. Len(d) /\ k + 1 < m + 1
        BY <1>0, <1>6, <4>1
      <4>3. d[k + 1].end < d[m + 1].start
        BY <1>1, <1>2, <4>2
      <4> QED BY <1>6, <3>2, <4>2, <4>3
    <3>3. CASE j \in k + 1 .. Len(d) - 1
      <4>1. m \in k + 1 .. Len(d) - 1 /\ j + 1 < m + 1
        BY <1>2, <1>5, <2>3, <3>3
      <4>2. g[m] = d[m + 1] /\ m + 1 \in 1 .. Len(d) /\ g[j] = d[j + 1] /\ j + 1 \in 1 .. Len(d)
        BY <1>6, <3>3, <4>1
      <4> QED BY <1>1, <4>1, <4>2
    <3> QED BY <1>7, <3>1, <3>2, <3>3
  <2> QED BY <1>5, <2>1, <2>2, <2>3, IsList
<1>10. ASSUME NEW i \in Nat
       PROVE  Has(g, i) <=> Has(d, i) \/ (s <= i /\ i < e)
  <2>1. ASSUME NEW j \in 1 .. Len(g), In(g, j, i)
        PROVE  Has(d, i) \/ (s <= i /\ i < e)
    <3>1. CASE j \in 1 .. k - 1
      <4>1. In(d, j, i) /\ j \in 1 .. Len(d)
        BY <1>6, <2>1, <3>1 DEF In
      <4> QED BY <4>1 DEF Has
    <3>2. CASE j = k
      <4>1. d[k].start <= i /\ i < d[k + 1].end
        BY <1>6, <2>1, <3>2 DEF In
      <4>2. In(d, k, i) \/ In(d, k + 1, i) \/ (s <= i /\ i < e)
        <5>1. d[k].end \in Nat /\ d[k + 1].start \in Nat
          BY <1>1, <1>2
        <5>2. i < d[k].end \/ d[k + 1].start <= i \/ (s <= i /\ i < e)
          BY <1>2, <5>1
        <5> QED BY <4>1, <5>2 DEF In
      <4> QED BY <1>2, <4>2 DEF Has
    <3>3. CASE j \in k + 1 .. Len(d) - 1
      <4>1. In(d, j + 1, i) /\ j + 1 \in 1 .. Len(d)
        BY <1>6, <2>1, <3>3 DEF In
      <4> QED BY <4>1 DEF Has
    <3> QED BY <1>7, <3>1, <3>2, <3>3
  <2>2. ASSUME d[k].start <= i, i < d[k + 1].end PROVE Has(g, i)
    <3>1. In(g, k, i)
      BY <1>6, <2>2 DEF In
    <3> QED BY <1>6, <3>1 DEF Has
  <2>3. ASSUME NEW j \in 1 .. Len(d), In(d, j, i)
        PROVE  Has(g, i)
    <3>1. CASE j \in 1 .. k - 1
      <4>1. In(g, j, i) /\ j \in 1 .. Len(g)
        BY <1>6, <2>3, <3>1 DEF In
      <4> QED BY <4>1 DEF Has
    <3>2. CASE j = k
      <4>0. d[k].start <= i /\ i < d[k].end
        BY <2>3, <3>2 DEF In
      <4>1. d[k].start <= i /\ i < d[k].end /\ d[k].end <= d[k + 1].end
        <5>1. d[k].end \in Nat /\ d[k + 1].start \in Nat /\ d[k + 1].end \in Nat
              /\ d[k].end < d[k + 1].start
          BY <1>1, <1>2
        <5> QED BY <1>8, <4>0, <5>1
      <4>2. i < d[k + 1].end
        BY <1>1, <1>2, <4>1
      <4> QED BY <2>2, <4>1, <4>2
    <3>3. CASE j = k + 1
      <4>1. d[k + 1].start <= i /\ i < d[k + 1].end /\ d[k].start <= d[k + 1].start
        BY <1>1, <1>2, <2>3, <3>3, StartsGrow DEF In
      <4>2. d[k].start <= i
        <5>1. d[k].start \in Nat /\ d[k + 1].start \in Nat
          BY <1>1, <1>2
        <5> QED BY <4>1, <5>1
      <4> QED BY <2>2, <4>1, <4>2
    <3>4. CASE j \in k + 2 .. Len(d)
      <4>1. j - 1 \in k + 1 .. Len(d) - 1 /\ (j - 1) + 1 = j /\ j - 1 \in 1 .. Len(g)
        BY <1>0, <1>1, <1>5, <3>4
      <4>2. g[j - 1] = d[j]
        BY <1>6, <4>1
      <4>3. In(g, j - 1, i)
        BY <2>3, <4>2 DEF In
      <4> QED BY <4>1, <4>3 DEF Has
    <3> QED BY <1>0, <3>1, <3>2, <3>3, <3>4
  <2>4. ASSUME s <= i, i < e PROVE d[k].start <= i /\ i < d[k + 1].end
    <3>1. /\ d[k].start \in Nat /\ d[k].end \in Nat /\ d[k + 1].start \in Nat
          /\ d[k + 1].end \in Nat /\ d[k].start <= d[k].end
      BY <1>1, <1>2
    <3> QED BY <1>8, <2>4, <3>1
  <2> QED BY <2>1, <2>2, <2>3, <2>4 DEF Has
<1> QED BY <1>9, <1>10 DEF Adds

\* dlist_insert() refuses the interval, or adds its bytes and no other to the list,
\* or finds no memory for a node; the list stays in order.
LEMMA InsertSound ==
  ASSUME NEW d, ListOK(d), NEW s \in Cut, NEW e \in Cut, NEW r \in dlist_insert(d, s, e)
  PROVE  /\ r.rt \in {0, 1, 0 - 1} /\ ListOK(r.d)
         /\ r.rt # 0 => r.d = d
         /\ r.rt = 0 => s < e /\ Adds(r.d, d, s, e)
<1> DEFINE k == Place(d, s)
           next == k < Len(d)
           joins == next /\ e = d[k + 1].start
           same == [rt |-> 1, d |-> d]
           longer == [d EXCEPT ![k].end = e]
           one == RemoveAt([d EXCEPT ![k].end = d[k + 1].end], k + 1)
           lower == [d EXCEPT ![k + 1].start = s]
           more == InsertAt(d, k + 1, [start |-> s, end |-> e])
<1>1. r \in IF s >= e \/ e >= d[1].end + GNTP_WINSIZE THEN {same}
            ELSE IF s < d[k].end \/ (next /\ e > d[k + 1].start) THEN {same}
            ELSE IF s = d[k].end THEN {[rt |-> 0, d |-> IF joins THEN one ELSE longer]}
            ELSE IF joins THEN {[rt |-> 0, d |-> lower]}
            ELSE {[rt |-> 0, d |-> more]} \cup {[rt |-> 0 - 1, d |-> d] : x \in {y \in {1} : MayFail}}
  BY DEF dlist_insert, Place
<1>2. /\ k \in 1 .. Len(d) /\ Len(d) \in Nat /\ s \in Nat /\ e \in Nat /\ d[k].end \in Nat
      /\ next => k \in 1 .. Len(d) - 1 /\ d[k + 1].start \in Nat
  <2>1. s \in Nat /\ e \in Nat
    BY CutIs
  <2>2. k \in 1 .. Len(d)
    BY <2>1, PlaceIs
  <2> HIDE DEF k
  <2>3. /\ Len(d) \in Nat
        /\ \A j \in 1 .. Len(d) : d[j].start \in Nat /\ d[j].end \in Nat
    BY ListFacts
  <2>4. next => k \in 1 .. Len(d) - 1 /\ k + 1 \in 1 .. Len(d)
    BY <2>2, <2>3
  <2> QED BY <2>1, <2>2, <2>3, <2>4
<1> HIDE DEF k
<1>3. CASE r = same
  <2>1. r.rt = 1 /\ r.d = d
    BY <1>3
  <2> QED BY <2>1
<1>4. CASE r = [rt |-> 0 - 1, d |-> d]
  <2>1. r.rt = 0 - 1 /\ r.d = d
    BY <1>4
  <2> QED BY <2>1
\* The new interval touches node k or not, and the next node or not.
<1>5. CASE s < e /\ d[k].end <= s /\ (next => e <= d[k + 1].start)
  <2>1. CASE s = d[k].end /\ joins /\ r = [rt |-> 0, d |-> one]
    <3>1. NodesJoined(one, d, k)
      BY <1>2, <1>5, <2>1, JoinedNodes
    <3>2. ListOK(one) /\ Adds(one, d, s, e)
      <4> HIDE DEF one
      <4> QED BY <1>2, <2>1, <3>1, Joined
    <3>3. r.rt = 0 /\ r.d = one
      BY <2>1
    <3> QED BY <1>5, <3>2, <3>3
  <2>2. CASE s = d[k].end /\ ~joins /\ r = [rt |-> 0, d |-> longer]
    <3>1. k < Len(d) => e < d[k + 1].start
      BY <1>2, <1>5, <2>2
    <3>2. ListOK(longer) /\ Adds(longer, d, s, e)
      BY <1>2, <1>5, <2>2, <3>1, Lengthened
    <3>3. r.rt = 0 /\ r.d = longer
      BY <2>2
    <3> QED BY <1>5, <3>2, <3>3
  <2>3. CASE s # d[k].end /\ joins /\ r = [rt |-> 0, d |-> lower]
    <3>1. d[k].end < s
      BY <1>2, <1>5, <2>3
    <3>2. ListOK(lower) /\ Adds(lower, d, s, e)
      BY <1>2, <1>5, <2>3, <3>1, LengthenedDown
    <3>3. r.rt = 0 /\ r.d = lower
      BY <2>3
    <3> QED BY <1>5, <3>2, <3>3
  <2>4. CASE s # d[k].end /\ ~joins /\ r = [rt |-> 0, d |-> more]
    <3>1. d[k].end < s /\ (k < Len(d) => e < d[k + 1].start)
      BY <1>2, <1>5, <2>4
    <3>2. ListOK(more) /\ Adds(more, d, s, e)
      BY <1>2, <1>5, <2>4, <3>1, Separate
    <3>3. r.rt = 0 /\ r.d = more
      BY <2>4
    <3> QED BY <1>5, <3>2, <3>3
  <2>5. \/ r = same \/ r = [rt |-> 0 - 1, d |-> d]
        \/ s = d[k].end /\ joins /\ r = [rt |-> 0, d |-> one]
        \/ s = d[k].end /\ ~joins /\ r = [rt |-> 0, d |-> longer]
        \/ s # d[k].end /\ joins /\ r = [rt |-> 0, d |-> lower]
        \/ s # d[k].end /\ ~joins /\ r = [rt |-> 0, d |-> more]
    <3> HIDE DEF one, longer, lower, more, same, joins, next
    <3> QED BY <1>1
  <2> QED BY <1>3, <1>4, <2>1, <2>2, <2>3, <2>4, <2>5
<1>6. CASE ~(s < e /\ d[k].end <= s /\ (next => e <= d[k + 1].start))
  <2>1. s >= e \/ s < d[k].end \/ (next /\ e > d[k + 1].start)
    BY <1>2, <1>6
  <2>2. r = same
    <3> HIDE DEF one, longer, lower, more, same, joins, next
    <3> QED BY <1>1, <2>1
  <2> QED BY <1>3, <2>2
<1> QED BY <1>5, <1>6
-----------------------------------------------------------------------------
(* The steps.                                                               *)

\* What the sender cuts the stream into.
LEMMA SegmentIs ==
  ASSUME NEW m \in Segment
  PROVE  m.seq \in Cut /\ m.end \in Cut
<1>1. PICK s \in Cut \ {Total} : m = [seq |-> s, end |-> End(s)]
  BY DEF Segment
<1>2. m.seq = s /\ m.end = End(s)
  BY <1>1
<1>3. PICK n \in Nat : \A x \in Cut : x <= n
  BY FiniteIsBounded, CutIs
<1>4. Total \in Cut /\ \A x \in Cut : Total >= x
  <2>1. Cut \in SUBSET (0 .. n) /\ Cut # {}
    BY <1>3, CutIs
  <2> QED BY <2>1, MaxIs DEF Total
<1> DEFINE L == {c \in Cut : c > s}
<1>5. L \in SUBSET Nat /\ L # {}
  <2>1. Total > s
    BY <1>4, CutIs
  <2> QED BY <1>4, <2>1, CutIs
<1>6. Min(L) \in L
  <2> HIDE DEF L
  <2> QED BY <1>5, MinIs
<1>7. End(s) \in Cut
  BY <1>6 DEF End
<1> QED BY <1>2, <1>7

\* The list that do_net_recv_stream() starts with, and leaves when it ends.
LEMMA EmptyList == ListOK(<<Cleared>>)
<1>1. Cleared \in Node /\ Cleared.start = 0
  BY CutIs DEF Cleared, Node
<1>2. <<Cleared>> \in Seq(Node) /\ Len(<<Cleared>>) = 1 /\ <<Cleared>>[1] = Cleared
  BY <1>1
<1>3. \A j \in 1 .. 1 : j = 1
  OBVIOUS
<1> DEFINE g == <<Cleared>>
<1>4. g \in Seq(Node) /\ Len(g) = 1 /\ g[1] = Cleared
  BY <1>2
<1> HIDE DEF g
<1>5. /\ Len(g) > 0 /\ g[1].start = 0
      /\ \A j \in 1 .. Len(g) : j > 1 => g[j].start < g[j].end
      /\ \A j, m \in 1 .. Len(g) : j < m => g[j].end < g[m].start
  BY <1>1, <1>3, <1>4
<1>6. ListOK(g)
  BY <1>4, <1>5, IsList
<1> QED BY <1>6 DEF g

\* The end of what is there without a gap.
LEMMA LfrIs ==
  ASSUME ListOK(dlist)
  PROVE  lfr \in Cut /\ lfr \in Nat
  BY ListFacts DEF lfr

\* The initial state.
LEMMA InitSound ==
  ASSUME Init
  PROVE  GntpInv
<1>1. /\ pc = "poll" /\ dlist = <<Cleared>> /\ buf = [i \in Bytes |-> Nothing]
      /\ time = 0 /\ seq_max = 0 /\ ring = <<>> /\ net = {} /\ back = {}
  BY DEF Init
<1>2. ListOK(dlist)
  BY <1>1, EmptyList
<1>3. TypeOK
  BY <1>1, CutIs DEF TypeOK
<1>4. \A i \in Bytes : ~Has(dlist, i)
  <2>1. Len(dlist) = 1 /\ dlist[1] = Cleared
    BY <1>1
  <2>2. dlist[1].end = 0
    BY <2>1 DEF Cleared
  <2>3. \A i \in Bytes, k \in 1 .. 1 : k = 1 /\ ~(i < 0)
    BY DEF Bytes
  <2> QED BY <2>1, <2>2, <2>3 DEF Has, In
<1>5. BufferOK
  BY <1>1, <1>4 DEF BufferOK
<1> QED BY <1>1, <1>2, <1>3, <1>5 DEF GntpInv

\* A segment is copied to the buffer if dlist_insert() takes it, and its bytes then
\* are those that the list gains.
LEMMA PacketKeeps ==
  ASSUME GntpInv, Packet
  PROVE  GntpInv'
<1> DEFINE m == ring[1]
           complete(r) == r.rt = 0 /\ r.d[1].end >= len
<1>1. m \in Segment /\ Tail(ring) \in Seq(Segment)
  BY DEF Packet, GntpInv, TypeOK
<1>2. m.seq \in Cut /\ m.end \in Cut /\ m.seq \in Nat /\ m.end \in Nat
  <2> HIDE DEF m
  <2> QED BY <1>1, SegmentIs, CutIs
<1>3. PICK r \in dlist_insert(dlist, m.seq, m.end) :
        /\ dlist' = IF r.rt = 0 - 1 \/ complete(r) THEN <<Cleared>> ELSE r.d
        /\ buf' = IF r.rt = 0 THEN [i \in Bytes |-> IF i \in m.seq .. m.end - 1 THEN i ELSE buf[i]]
                  ELSE buf
        /\ time' = IF r.rt = 0 THEN 0 ELSE time
        /\ seq_max' = Max({seq_max, m.seq})
        /\ IF complete(r) THEN pc' = "done" /\ reply("ACK", r.d[1].end)
           ELSE pc' = (IF r.rt = 0 - 1 THEN "failed" ELSE pc) /\ UNCHANGED back
  BY DEF Packet
<1>4. pc = "poll" /\ ring' = Tail(ring) /\ net' = net
  BY DEF Packet
<1> HIDE DEF m
<1>5. /\ r.rt \in {0, 1, 0 - 1} /\ ListOK(r.d)
      /\ r.rt # 0 => r.d = dlist
      /\ r.rt = 0 => m.seq < m.end /\ Adds(r.d, dlist, m.seq, m.end)
  BY <1>2, InsertSound DEF GntpInv
<1>6. r.d[1].end \in Cut /\ r.d[1].end \in Nat /\ r.d[1].start = 0 /\ 1 \in 1 .. Len(r.d)
  BY <1>5, ListFacts
<1>7. ListOK(dlist')
  BY <1>3, <1>5, EmptyList
<1>8. TypeOK'
  <2>1. /\ pc \in {"poll", "blocked", "done", "failed"} /\ buf \in [Bytes -> Bytes \cup {Nothing}]
        /\ time \in 0 .. 2 * GNTP_TIMEOUT + 1 /\ seq_max \in Cut /\ net \subseteq Segment
        /\ back \subseteq Replies
    BY DEF GntpInv, TypeOK
  <2>2. pc' \in {"poll", "blocked", "done", "failed"}
    BY <1>3, <2>1
  <2>3. buf' \in [Bytes -> Bytes \cup {Nothing}]
    <3>1. [i \in Bytes |-> IF i \in m.seq .. m.end - 1 THEN i ELSE buf[i]]
            \in [Bytes -> Bytes \cup {Nothing}]
      BY <2>1
    <3> QED BY <1>3, <2>1, <3>1
  <2>4. time' \in 0 .. 2 * GNTP_TIMEOUT + 1
    BY <1>3, <2>1, CutIs
  <2>5. seq_max' \in Cut
    <3>1. \A x, y \in Nat : Max({x, y}) \in {x, y}
      <4> SUFFICES ASSUME NEW x \in Nat, NEW y \in Nat PROVE Max({x, y}) \in {x, y}
        OBVIOUS
      <4>1. \E z \in {x, y} : \A w \in {x, y} : z >= w
        OBVIOUS
      <4> QED BY <4>1 DEF Max
    <3>2. seq_max \in Nat
      BY <2>1, CutIs
    <3> QED BY <1>2, <1>3, <2>1, <3>1, <3>2
  <2>6. back' \subseteq Replies
    <3>1. [type |-> "ACK", seq |-> r.d[1].end] \in Replies
      BY <1>6 DEF Replies
    <3>2. back' = back \cup {[type |-> "ACK", seq |-> r.d[1].end]} \/ back' = back
      BY <1>3 DEF reply
    <3> QED BY <2>1, <3>1, <3>2
  <2> QED BY <1>1, <1>4, <2>1, <2>2, <2>3, <2>4, <2>5, <2>6 DEF TypeOK
<1>9. BufferOK'
  <2>1. \A i \in Bytes : i \in Nat /\ buf[i] = IF Has(dlist, i) THEN i ELSE Nothing
    BY <1>4 DEF GntpInv, BufferOK, Receiving, Bytes
  <2>2. \A i \in Bytes : buf'[i] = IF Has(r.d, i) THEN i ELSE Nothing
    <3> SUFFICES ASSUME NEW i \in Bytes PROVE buf'[i] = IF Has(r.d, i) THEN i ELSE Nothing
      OBVIOUS
    <3>1. CASE r.rt = 0
      <4>1. buf'[i] = IF i \in m.seq .. m.end - 1 THEN i ELSE buf[i]
        BY <1>3, <3>1
      <4>2. i \in m.seq .. m.end - 1 <=> m.seq <= i /\ i < m.end
        BY <1>2, <2>1
      <4>3. Has(r.d, i) <=> Has(dlist, i) \/ (m.seq <= i /\ i < m.end)
        BY <1>5, <2>1, <3>1 DEF Adds
      <4> QED BY <2>1, <4>1, <4>2, <4>3
    <3>2. CASE r.rt # 0
      BY <1>3, <1>5, <2>1, <3>2
    <3> QED BY <3>1, <3>2
  <2>3. CASE complete(r)
    <3>1. pc' = "done"
      BY <1>3, <2>3
    <3>2. ASSUME NEW i \in Bytes
          PROVE  Has(r.d, i)
      <4>1. i \in Nat /\ i < len /\ len \in Nat
        BY CutIs DEF Bytes
      <4>2. In(r.d, 1, i)
        BY <1>6, <2>3, <4>1 DEF In
      <4> QED BY <1>6, <4>2 DEF Has
    <3>3. \A i \in Bytes : buf'[i] = i
      BY <2>2, <3>2
    <3> QED BY <3>1, <3>3 DEF BufferOK, Receiving
  <2>4. CASE ~complete(r) /\ r.rt = 0 - 1
    <3>1. pc' = "failed"
      BY <1>3, <2>4
    <3> QED BY <3>1 DEF BufferOK, Receiving
  <2>5. CASE ~complete(r) /\ r.rt # 0 - 1
    <3>1. pc' = "poll" /\ dlist' = r.d
      BY <1>3, <1>4, <2>5
    <3> QED BY <2>2, <3>1 DEF BufferOK, Receiving
  <2> QED BY <2>3, <2>4, <2>5
<1>10. pc' # "blocked"
  BY <1>3, <1>4
<1> QED BY <1>7, <1>8, <1>9, <1>10 DEF GntpInv

\* A turn of the loop without a segment asks again or acknowledges, and blocks.
LEMMA IdleKeeps ==
  ASSUME GntpInv, Idle
  PROVE  GntpInv'
<1> DEFINE rsd == time > GNTP_TIMEOUT /\ (seq_max > lfr \/ time > 2 * GNTP_TIMEOUT)
           ack == lfr > 0 /\ time = 0
<1>1. /\ pc = "poll" /\ pc' = "blocked" /\ dlist' = dlist /\ buf' = buf /\ seq_max' = seq_max
      /\ ring' = ring /\ net' = net
      /\ back' = back \cup {m \in {[type |-> "ACK", seq |-> lfr]} : ack}
                      \cup {m \in {[type |-> "RSD", seq |-> lfr]} : rsd}
      /\ time' = IF rsd THEN 0 ELSE time
  BY DEF Idle
<1>2. /\ ListOK(dlist) /\ time \in 0 .. 2 * GNTP_TIMEOUT + 1 /\ back \subseteq Replies
      /\ lfr \in Cut
  BY LfrIs DEF GntpInv, TypeOK
<1>3. time' \in 0 .. 2 * GNTP_TIMEOUT
  BY <1>1, <1>2, CutIs
<1>4. back' \subseteq Replies
  <2>1. [type |-> "ACK", seq |-> lfr] \in Replies /\ [type |-> "RSD", seq |-> lfr] \in Replies
    BY <1>2 DEF Replies
  <2> HIDE DEF rsd, ack
  <2> QED BY <1>1, <1>2, <2>1
<1>5. TypeOK'
  BY <1>1, <1>3, <1>4, CutIs DEF GntpInv, TypeOK
<1>6. BufferOK'
  BY <1>1 DEF GntpInv, BufferOK, Receiving
<1>7. ListOK(dlist')
  BY <1>1, <1>2
<1>8. time' <= 2 * GNTP_TIMEOUT
  BY <1>3
<1> QED BY <1>5, <1>6, <1>7, <1>8 DEF GntpInv

\* The timer or an interrupt ends the wait.
LEMMA WakeKeeps ==
  ASSUME GntpInv, Wake
  PROVE  GntpInv'
<1>1. /\ pc = "blocked" /\ pc' = "poll" /\ dlist' = dlist /\ buf' = buf /\ seq_max' = seq_max
      /\ ring' = ring /\ net' = net /\ back' = back /\ time' \in {time, time + 1}
  BY DEF Wake
<1>2. time \in 0 .. 2 * GNTP_TIMEOUT
  BY <1>1 DEF GntpInv, TypeOK
<1>3. time' \in 0 .. 2 * GNTP_TIMEOUT + 1
  BY <1>1, <1>2, CutIs
<1>4. TypeOK'
  BY <1>1, <1>3 DEF GntpInv, TypeOK
<1>5. BufferOK'
  BY <1>1 DEF GntpInv, BufferOK, Receiving
<1> QED BY <1>1, <1>4, <1>5 DEF GntpInv

\* The network and the sender change nothing but the frames and answers in flight.
LEMMA OutsideKeeps ==
  ASSUME GntpInv, UNCHANGED rvars, ring' \in Seq(Segment), net' \subseteq Segment,
         back' \subseteq Replies
  PROVE  GntpInv'
<1>1. pc' = pc /\ dlist' = dlist /\ buf' = buf /\ time' = time /\ seq_max' = seq_max
  BY DEF rvars
<1>2. TypeOK'
  BY <1>1 DEF GntpInv, TypeOK
<1>3. BufferOK'
  BY <1>1 DEF GntpInv, BufferOK, Receiving
<1> QED BY <1>1, <1>2, <1>3 DEF GntpInv

\* Every step of the receiver, the network and the sender keeps the invariant.
LEMMA GntpStep ==
  ASSUME GntpInv, [Next]_vars
  PROVE  GntpInv'
<1>0. ring \in Seq(Segment) /\ net \subseteq Segment /\ back \subseteq Replies
  BY DEF GntpInv, TypeOK
<1>1. ASSUME NEW m \in Segment, Deliver(m) \/ Duplicate(m)
      PROVE  GntpInv'
  <2>1. UNCHANGED rvars /\ ring' = Append(ring, m) /\ net' \subseteq net /\ back' = back
    BY <1>1 DEF Deliver, Duplicate, Arrive
  <2>2. ring' \in Seq(Segment)
    BY <1>0, <2>1
  <2> QED BY <1>0, <2>1, <2>2, OutsideKeeps
<1>2. ASSUME NEW m \in Segment, Send(m)
      PROVE  GntpInv'
  <2>1. UNCHANGED rvars /\ ring' = ring /\ net' = net \cup {m} /\ back' = back
    BY <1>2 DEF Send
  <2> QED BY <1>0, <2>1, OutsideKeeps
<1>3. ASSUME NEW r \in back, Answered(r)
      PROVE  GntpInv'
  <2>1. UNCHANGED rvars /\ ring' = ring /\ net' \subseteq net \cup Segment /\ back' \subseteq back
    BY <1>3 DEF Answered
  <2> QED BY <1>0, <2>1, OutsideKeeps
<1>4. CASE Lose
  <2>1. UNCHANGED rvars /\ ring' = ring /\ net' \subseteq net /\ back' \subseteq back
    BY <1>4 DEF Lose
  <2> QED BY <1>0, <2>1, OutsideKeeps
<1>5. CASE UNCHANGED vars
  <2>1. UNCHANGED rvars /\ ring' = ring /\ net' = net /\ back' = back
    BY <1>5 DEF vars, rvars
  <2> QED BY <1>0, <2>1, OutsideKeeps
<1> QED BY <1>1, <1>2, <1>3, <1>4, <1>5, PacketKeeps, IdleKeeps, WakeKeeps DEF Next

\* The invariant of the runs follows.
LEMMA GntpInvDelivers == GntpInv => DeliveredAsSent
<1> SUFFICES ASSUME GntpInv PROVE DeliveredAsSent
  OBVIOUS
<1>1. \A k \in 1 .. Len(dlist) - 1 : dlist[k].end < dlist[k + 1].start
  <2>1. Len(dlist) \in Nat /\ \A j, m \in 1 .. Len(dlist) : j < m => dlist[j].end < dlist[m].start
    BY ListFacts DEF GntpInv
  <2>2. \A k \in 1 .. Len(dlist) - 1 : k \in 1 .. Len(dlist) /\ k + 1 \in 1 .. Len(dlist) /\ k < k + 1
    BY <2>1
  <2> QED BY <2>1, <2>2
<1> QED BY <1>1 DEF GntpInv, BufferOK, Has, In, DeliveredAsSent

\* GntpInv is an invariant: the list of do_net_recv_stream() and its buffer agree
\* whatever arrives.
THEOREM StreamInvariant == Spec => []GntpInv
<1>1. Init => GntpInv
  BY InitSound
<1>2. GntpInv /\ [Next]_vars => GntpInv'
  BY GntpStep
<1> QED BY <1>1, <1>2, PTL DEF Spec

\* The program gets the stream as it was sent: whatever frames are lost, doubled,
\* reordered or overlapping, do_net_recv_stream() returns success only with every
\* byte of the buffer in its place, and its interval list never covers a byte that
\* was not copied.
THEOREM StreamIsDeliveredAsSent == Spec => []DeliveredAsSent
<1>1. GntpInv => DeliveredAsSent
  BY GntpInvDelivers
<1> QED BY <1>1, StreamInvariant, PTL
=============================================================================
