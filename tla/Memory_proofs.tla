---------------------------- MODULE Memory_proofs ----------------------------
(* Proofs about Memory, for any number of harts, processes, frames, swap    *)
(* pages and shared memory keys: frames and swap pages are accounted for    *)
(* and no check of the bookkeeping panics, no TLB keeps a frame its process *)
(* lost, and every process reads back what was stored.                      *)
EXTENDS Memory, FiniteSetTheorems, NaturalsInduction, WellFoundedInduction, TLAPS

Pte == [at : {"none", "mem", "disk"}, n : Nat, a : BOOLEAN, w : BOOLEAN,
        cow : BOOLEAN, shm : BOOLEAN]
Entry == [n : 0 .. NPF, w : BOOLEAN]
Pair == Proc \X Page

PteMap == [Proc -> [Page -> Pte]]
CharMap == [Frame -> Proc \cup {Free, Shared}]
SwapMap == [Slot -> Proc \cup {Free}]
TlbMap == [Cpu -> [Page -> Entry]]
Halts == {"no", "no victim", "swap full"}
MemType ==
  [pte : PteMap, charmap : CharMap, uva : [Frame -> Nat],
   ffree : 0 .. NPF, clock_pt : Frame,
   scharmap : SwapMap, sffree : 0 .. NPSWAP,
   page : [Frame -> Values], disk : [Slot -> Values],
   tlb : TlbMap, got : Frame, halt : Halts]
ShmType == [Keys -> [nproc : Nat, pgidx : Frame, opid : SUBSET Proc]]

\* A PTE is empty, or maps a frame, or names the swap page of a private page.
PteOk(e) ==
  /\ e.at = "none" => e = NoPte
  /\ e.at = "mem" => e.n \in Frame /\ ~(e.cow /\ e.shm)
  /\ e.at = "disk" => e.n \in Slot /\ e.w /\ ~e.cow /\ ~e.shm
Ptes(P) == \A p \in Proc, v \in Page : PteOk(P[p][v])

\* Who uses frame f according to the maps C (pg_charmap[]) and A (pg_uva[]).
CowUsers(P, f) ==
  /\ \A u \in Users(P, f) : P[u[1]][u[2]].cow /\ ~P[u[1]][u[2]].w /\ ~P[u[1]][u[2]].shm
  /\ \A u, t \in Users(P, f) : u[2] = t[2]
ShmUsers(P, f) == \A u \in Users(P, f) : P[u[1]][u[2]].shm
FrameOk(P, C, A, f) ==
  /\ C[f] = Free => Users(P, f) = {}
  /\ C[f] = Shared => /\ Cardinality(Users(P, f)) = A[f] /\ A[f] > 0
                      /\ CowUsers(P, f) \/ ShmUsers(P, f)
  /\ C[f] \in Proc => /\ Users(P, f) = {<<C[f], A[f]>>} /\ A[f] \in Page
                      /\ LET e == P[C[f]][A[f]] IN e.w /\ ~e.cow /\ ~e.shm

\* All frames are accounted for but those in X, which alloc_page() has given out
\* and nobody has mapped yet.
Frames(P, C, A, X) ==
  /\ \A f \in Frame \ X : FrameOk(P, C, A, f)
  /\ \A f \in X : Users(P, f) = {} /\ C[f] \in Proc

\* Every swap page but those in Y is free and unused, or in use once.
SlotOk(P, SC, s) ==
  /\ SC[s] = Free => Swapped(P, s) = {}
  /\ SC[s] # Free => \E u \in Pair : Swapped(P, s) = {u}
Slots(P, SC) == \A s \in Slot : SlotOk(P, SC, s)

\* i is the first free index of map, or n.
IsFirst(map, i, n) ==
  i \in 0 .. n /\ (i < n => map[i] = Free) /\ \A j \in 0 .. n - 1 : j < i => map[j] # Free

\* shm_ctrl[] says who uses the frames of the keys, each process once; o is the
\* key of each shared memory page.
Shm(P, C, A, sh, o) ==
  /\ \A k \in Keys : sh[k].nproc > 0 =>
       LET f == sh[k].pgidx IN
       /\ C[f] = Shared /\ A[f] = sh[k].nproc /\ ShmUsers(P, f)
       /\ \A p \in Proc : p \in sh[k].opid <=> \E v \in Page : <<p, v>> \in Users(P, f)
       /\ \A u, t \in Users(P, f) : u[1] = t[1] => u = t
  /\ \A k, l \in Keys : sh[k].nproc > 0 /\ sh[l].nproc > 0 /\ sh[k].pgidx = sh[l].pgidx => k = l
  /\ \A p \in Proc, v \in Page : P[p][v].shm =>
       o[p][v] \in Keys /\ sh[o[p][v]].nproc > 0 /\ sh[o[p][v]].pgidx = P[p][v].n

\* What the pages hold: want[p][v] is what process p must read in page v.
Reads(P, pg, dk, want) ==
  \A p \in Proc, v \in Page :
    /\ P[p][v].at = "mem" => pg[P[p][v].n] = want[p][v]
    /\ P[p][v].at = "disk" => dk[P[p][v].n] = want[p][v]

\* No hart keeps a translation that its process has lost.
TlbOk(P, tl, cur) ==
  \A c \in Cpu, v \in Page : tl[c][v] # NoEntry =>
    cur[c] \in Proc /\ P[cur[c]][v].at = "mem" /\ P[cur[c]][v].n = tl[c][v].n

\* A process runs on one hart at a time.
OneHart(cur) ==
  /\ cur \in [Cpu -> Proc \cup {Idle}]
  /\ \A c, d \in Cpu : cur[c] = cur[d] /\ cur[c] \in Proc => c = d

\* The tables and pages of memory m, of which the frames in X are not mapped yet.
Sound(m, sh, X, o, want) ==
  /\ m \in MemType /\ m.halt = "no" /\ sh \in ShmType
  /\ Ptes(m.pte) /\ Frames(m.pte, m.charmap, m.uva, X) /\ Slots(m.pte, m.scharmap)
  /\ IsFirst(m.charmap, m.ffree, NPF) /\ IsFirst(m.scharmap, m.sffree, NPSWAP)
  /\ Shm(m.pte, m.charmap, m.uva, sh, o)
  /\ Reads(m.pte, m.page, m.disk, want)

\* The keys the ghost names are those of shared memory pages.
Keyed(P, o) == \A p \in Proc, v \in Page : o[p][v] \in Keys => P[p][v].shm
\* Nothing is mapped past the end of a segment, and only processes run.
Within(P, se, cur) ==
  /\ se \in [Proc -> 0 .. UsegPages]
  /\ \A p \in Proc, v \in Page : v > se[p] => P[p][v] = NoPte
  /\ \A c \in Cpu : cur[c] \in Proc => se[cur[c]] > 0

Wanted == [p \in Proc |-> [v \in Page |-> Seen(p, v)]]
Working ==
  /\ Sound(mem, shm, {}, own, Wanted) /\ TlbOk(mem.pte, mem.tlb, current)
  /\ Keyed(mem.pte, own) /\ Within(mem.pte, seg_end, current)
Ghosts == own \in [Proc -> [Page -> Values \cup Keys]] /\ common \in [Keys -> Values]

\* The inductive invariant: once the kernel has stopped, nothing is left to do
\* but to look at what it leaves.
MemInv ==
  /\ OneHart(current) /\ Ghosts
  /\ mem.halt = "no" => Working
  /\ FramesAccounted /\ TlbMapsOwnFrames /\ OwnMemory
-----------------------------------------------------------------------------
(* The free hints.                                                         *)

\* A set of numbers that is not empty has a minimum.
LEMMA MinOf ==
  ASSUME NEW S \in SUBSET Nat, S # {}
  PROVE  Min(S) \in S /\ \A y \in S : Min(S) <= y
<1>1. PICK x \in S : \A y \in S : <<y, x>> \notin OpToRel(<, Nat)
  BY NatLessThanWellFounded, WFMin
<1>2. \A y \in S : x <= y
  <2> SUFFICES ASSUME NEW y \in S, y < x PROVE FALSE
    OBVIOUS
  <2>1. <<y, x>> \in OpToRel(<, Nat)
    BY DEF OpToRel
  <2> QED BY <1>1, <2>1
<1>3. \E z \in S : \A y \in S : z <= y
  BY <1>2
<1> QED BY <1>3 DEF Min

\* A search that starts at or before the first free index finds it.
LEMMA FirstFreeIs ==
  ASSUME NEW n \in Nat, NEW map, NEW i \in 0 .. n,
         \A j \in 0 .. n - 1 : j < i => map[j] # Free
  PROVE  IsFirst(map, FirstFree(map, i, n), n)
<1> DEFINE S == {j \in i .. n - 1 : map[j] = Free} \cup {n}
           r == Min(S)
<1>1. S \in SUBSET Nat /\ S # {}
  OBVIOUS
<1>2. r \in S /\ \A y \in S : r <= y
  BY <1>1, MinOf
<1>3. FirstFree(map, i, n) = r
  BY DEF FirstFree
<1> HIDE DEF r
<1>4. r \in 0 .. n /\ (r < n => map[r] = Free)
  BY <1>2
<1>5. ASSUME NEW j \in 0 .. n - 1, j < r PROVE map[j] # Free
  BY <1>2, <1>5
<1> QED BY <1>3, <1>4, <1>5 DEF IsFirst

\* The hint is what the search from the start finds.
LEMMA HintIs ==
  ASSUME NEW n \in Nat, NEW map, NEW i, IsFirst(map, i, n)
  PROVE  i = FirstFree(map, 0, n)
<1>1. IsFirst(map, FirstFree(map, 0, n), n)
  BY FirstFreeIs
<1> DEFINE r == FirstFree(map, 0, n)
<1> HIDE DEF r
<1>2. IsFirst(map, r, n)
  BY <1>1 DEF r
<1>3. i = r
  BY <1>2 DEF IsFirst
<1> QED BY <1>3 DEF r

\* Taking the free index of the hint, and searching on from there.
LEMMA HintAfterTake ==
  ASSUME NEW n \in Nat, NEW T, NEW map \in [0 .. n - 1 -> T], NEW i, IsFirst(map, i, n), i < n,
         NEW x \in T, x # Free
  PROVE  LET m == [map EXCEPT ![i] = x] IN IsFirst(m, FirstFree(m, i, n), n)
<1> DEFINE m == [map EXCEPT ![i] = x]
<1>1. i \in 0 .. n /\ i \in 0 .. n - 1
  BY DEF IsFirst
<1>2. \A j \in 0 .. n - 1 : j < i => m[j] # Free
  BY DEF IsFirst
<1> HIDE DEF m
<1>3. IsFirst(m, FirstFree(m, i, n), n)
  BY <1>1, <1>2, FirstFreeIs
<1> QED BY <1>3 DEF m

\* Freeing index f.
LEMMA HintAfterFree ==
  ASSUME NEW n \in Nat, NEW T, NEW map \in [0 .. n - 1 -> T], NEW i, IsFirst(map, i, n),
         NEW f \in 0 .. n - 1
  PROVE  IsFirst([map EXCEPT ![f] = Free], Min({f, i}), n)
<1>1. i \in 0 .. n /\ {f, i} \in SUBSET Nat /\ {f, i} # {}
  BY DEF IsFirst
<1>2. Min({f, i}) \in {f, i} /\ \A y \in {f, i} : Min({f, i}) <= y
  BY <1>1, MinOf
<1> DEFINE r == Min({f, i})
<1> HIDE DEF r
<1>3. (r = f \/ r = i) /\ r <= f /\ r <= i
  BY <1>2 DEF r
<1>4. IsFirst([map EXCEPT ![f] = Free], r, n)
  BY <1>1, <1>3 DEF IsFirst
<1> QED BY <1>4 DEF r

\* Changing the owner of an index in use.
LEMMA HintStays ==
  ASSUME NEW n \in Nat, NEW T, NEW map \in [0 .. n - 1 -> T], NEW i, IsFirst(map, i, n),
         NEW f \in 0 .. n - 1, map[f] # Free, NEW x, x # Free
  PROVE  IsFirst([map EXCEPT ![f] = x], i, n)
BY DEF IsFirst

-----------------------------------------------------------------------------
(* Who maps a frame.                                                       *)

\* The constants' assumptions in the form the provers need.
LEMMA Constants ==
  /\ NPF \in Nat /\ NPF > 0 /\ NPSWAP \in Nat /\ UsegPages \in Nat /\ UsegPages > 0
  /\ ImgPages \in Nat /\ ImgPages > 0 /\ ImgPages <= UsegPages /\ ImgPages <= NPF
  /\ Zero \in Values /\ Keys \cap Values = {}
  /\ Idle \notin Proc /\ Free \notin Proc /\ Shared \notin Proc /\ Free # Shared
BY MemoryAssumption DEF Free, Shared

\* A table in which the PTE of page v of p becomes e.
Put(P, p, v, e) == [P EXCEPT ![p] = [P[p] EXCEPT ![v] = e]]

\* A changed table is a table, and differs in the one PTE.
LEMMA PutIs ==
  ASSUME NEW P \in PteMap, NEW p \in Proc, NEW v \in Page, NEW e \in Pte
  PROVE  /\ Put(P, p, v, e) \in PteMap
         /\ Put(P, p, v, e)[p][v] = e
         /\ \A q \in Proc, u \in Page : Put(P, p, v, e)[q][u] = IF q = p /\ u = v THEN e ELSE P[q][u]
BY DEF Put, PteMap

\* A page maps a frame, or points to a swap page, when its PTE says so.
LEMMA UsersIs ==
  ASSUME NEW P, NEW f, NEW q \in Proc, NEW u \in Page
  PROVE  /\ <<q, u>> \in Users(P, f) <=> P[q][u].at = "mem" /\ P[q][u].n = f
         /\ <<q, u>> \in Swapped(P, f) <=> P[q][u].at = "disk" /\ P[q][u].n = f
BY DEF Users, Swapped

\* The users of a frame are pages of processes, finitely many.
LEMMA UsersArePairs ==
  ASSUME NEW P, NEW f
  PROVE  /\ \A u \in Users(P, f) : u[1] \in Proc /\ u[2] \in Page /\ u = <<u[1], u[2]>>
         /\ \A u \in Swapped(P, f) : u[1] \in Proc /\ u[2] \in Page /\ u = <<u[1], u[2]>>
         /\ Users(P, f) \subseteq Pair /\ IsFiniteSet(Users(P, f))
<1>1. IsFiniteSet(Page)
  BY Constants, FS_Interval DEF Page
<1>2. IsFiniteSet(Pair)
  BY <1>1, MemoryAssumption, FS_Product DEF Pair
<1>3. Users(P, f) \subseteq Pair
  BY DEF Users, Pair
<1>4. IsFiniteSet(Users(P, f))
  BY <1>2, <1>3, FS_Subset
<1> QED BY <1>3, <1>4 DEF Users, Swapped

\* One PTE changes.
LEMMA UsersPut ==
  ASSUME NEW P \in PteMap, NEW p \in Proc, NEW v \in Page, NEW e \in Pte, NEW f
  PROVE  /\ Users(Put(P, p, v, e), f) =
              IF e.at = "mem" /\ e.n = f THEN Users(P, f) \cup {<<p, v>>} ELSE Users(P, f) \ {<<p, v>>}
         /\ Swapped(Put(P, p, v, e), f) =
              IF e.at = "disk" /\ e.n = f THEN Swapped(P, f) \cup {<<p, v>>}
              ELSE Swapped(P, f) \ {<<p, v>>}
<1> DEFINE P2 == Put(P, p, v, e)
<1>1. \A q \in Proc, u \in Page : P2[q][u] = IF q = p /\ u = v THEN e ELSE P[q][u]
  BY PutIs
<1> HIDE DEF P2
<1>2. ASSUME NEW q \in Proc, NEW u \in Page
      PROVE  /\ <<q, u>> \in Users(P2, f) <=>
                  IF q = p /\ u = v THEN e.at = "mem" /\ e.n = f ELSE <<q, u>> \in Users(P, f)
             /\ <<q, u>> \in Swapped(P2, f) <=>
                  IF q = p /\ u = v THEN e.at = "disk" /\ e.n = f ELSE <<q, u>> \in Swapped(P, f)
  <2>1. /\ <<q, u>> \in Users(P2, f) <=> P2[q][u].at = "mem" /\ P2[q][u].n = f
        /\ <<q, u>> \in Swapped(P2, f) <=> P2[q][u].at = "disk" /\ P2[q][u].n = f
    BY UsersIs
  <2>2. /\ <<q, u>> \in Users(P, f) <=> P[q][u].at = "mem" /\ P[q][u].n = f
        /\ <<q, u>> \in Swapped(P, f) <=> P[q][u].at = "disk" /\ P[q][u].n = f
    BY UsersIs
  <2>3. CASE q = p /\ u = v
    BY <2>1, <2>3, <1>1
  <2>4. CASE ~(q = p /\ u = v)
    BY <2>1, <2>2, <2>4, <1>1
  <2> QED BY <2>3, <2>4
<1>3. Users(P2, f) = IF e.at = "mem" /\ e.n = f THEN Users(P, f) \cup {<<p, v>>} ELSE Users(P, f) \ {<<p, v>>}
  <2>1. ASSUME NEW t PROVE t \in Users(P2, f) <=> t \in (IF e.at = "mem" /\ e.n = f THEN Users(P, f) \cup {<<p, v>>} ELSE Users(P, f) \ {<<p, v>>})
    <3>1. CASE t \in Pair
      <4>1. PICK q \in Proc, u \in Page : t = <<q, u>>
        BY <3>1 DEF Pair
      <4> QED BY <4>1, <1>2
    <3>2. CASE t \notin Pair
      BY <3>2, UsersArePairs DEF Pair
    <3> QED BY <3>1, <3>2
  <2> QED BY <2>1
<1>4. Swapped(P2, f) = IF e.at = "disk" /\ e.n = f THEN Swapped(P, f) \cup {<<p, v>>} ELSE Swapped(P, f) \ {<<p, v>>}
  <2>1. ASSUME NEW t PROVE t \in Swapped(P2, f) <=> t \in (IF e.at = "disk" /\ e.n = f THEN Swapped(P, f) \cup {<<p, v>>} ELSE Swapped(P, f) \ {<<p, v>>})
    <3>1. CASE t \in Pair
      <4>1. PICK q \in Proc, u \in Page : t = <<q, u>>
        BY <3>1 DEF Pair
      <4> QED BY <4>1, <1>2
    <3>2. CASE t \notin Pair
      BY <3>2, UsersArePairs DEF Pair
    <3> QED BY <3>1, <3>2
  <2> QED BY <2>1
<1> QED BY <1>3, <1>4 DEF P2

\* A frame whose users keep their rights is accounted for as before.
LEMMA FrameStays ==
  ASSUME NEW P, NEW P2, NEW f, NEW C, NEW A, NEW C2, NEW A2,
         C2[f] = C[f], A2[f] = A[f], FrameOk(P, C, A, f),
         Users(P2, f) = Users(P, f),
         \A q \in Proc, u \in Page : <<q, u>> \in Users(P, f) =>
           P2[q][u].w = P[q][u].w /\ P2[q][u].cow = P[q][u].cow /\ P2[q][u].shm = P[q][u].shm
  PROVE  FrameOk(P2, C2, A2, f)
<1> DEFINE U == Users(P, f)
<1>1. \A t \in U : t[1] \in Proc /\ t[2] \in Page /\ t = <<t[1], t[2]>>
  BY UsersArePairs
<1>2. \A t \in U : /\ P2[t[1]][t[2]].w = P[t[1]][t[2]].w
                   /\ P2[t[1]][t[2]].cow = P[t[1]][t[2]].cow
                   /\ P2[t[1]][t[2]].shm = P[t[1]][t[2]].shm
  BY <1>1
<1>3. CowUsers(P, f) => CowUsers(P2, f)
  BY <1>2 DEF CowUsers
<1>4. ShmUsers(P, f) => ShmUsers(P2, f)
  BY <1>2 DEF ShmUsers
<1>5. ASSUME C[f] \in Proc PROVE LET e == P2[C[f]][A[f]] IN e.w /\ ~e.cow /\ ~e.shm
  <2>1. /\ Users(P, f) = {<<C[f], A[f]>>} /\ A[f] \in Page
        /\ P[C[f]][A[f]].w /\ ~P[C[f]][A[f]].cow /\ ~P[C[f]][A[f]].shm
    BY <1>5 DEF FrameOk
  <2> QED BY <2>1, <1>5
<1> QED BY <1>3, <1>4, <1>5 DEF FrameOk

\* The frames that the changed PTE has nothing to do with.
LEMMA FrameElse ==
  ASSUME NEW P \in PteMap, NEW p \in Proc, NEW v \in Page, NEW e \in Pte, NEW f,
         NEW C, NEW A, NEW C2, NEW A2, C2[f] = C[f], A2[f] = A[f], FrameOk(P, C, A, f),
         <<p, v>> \notin Users(P, f), ~(e.at = "mem" /\ e.n = f)
  PROVE  FrameOk(Put(P, p, v, e), C2, A2, f) /\ Users(Put(P, p, v, e), f) = Users(P, f)
<1> DEFINE P2 == Put(P, p, v, e)
<1>1. \A q \in Proc, u \in Page : P2[q][u] = IF q = p /\ u = v THEN e ELSE P[q][u]
  BY PutIs
<1>2. Users(P2, f) = Users(P, f)
  <2>1. Users(P2, f) = Users(P, f) \ {<<p, v>>}
    BY UsersPut
  <2> QED BY <2>1
<1> HIDE DEF P2
<1>3. FrameOk(P2, C2, A2, f)
  BY <1>1, <1>2, FrameStays
<1> QED BY <1>2, <1>3 DEF P2

\* The swap pages that the changed PTE has nothing to do with.
LEMMA SlotElse ==
  ASSUME NEW P \in PteMap, NEW p \in Proc, NEW v \in Page, NEW e \in Pte, NEW s,
         NEW SC, NEW SC2, SC2[s] = SC[s], SlotOk(P, SC, s),
         <<p, v>> \notin Swapped(P, s), ~(e.at = "disk" /\ e.n = s)
  PROVE  SlotOk(Put(P, p, v, e), SC2, s)
<1>1. Swapped(Put(P, p, v, e), s) = Swapped(P, s)
  BY UsersPut
<1> QED BY <1>1 DEF SlotOk

\* Shared memory is as before when its PTEs and frames are.
ShmKept(P, C, A, P2, C2, A2) ==
  /\ \A q \in Proc, u \in Page : P2[q][u].shm => P[q][u].shm /\ P2[q][u].n = P[q][u].n
  /\ \A f \in Frame : C[f] = Shared /\ ShmUsers(P, f) =>
       /\ C2[f] = Shared /\ A2[f] = A[f] /\ Users(P2, f) = Users(P, f)
       /\ ShmUsers(P2, f)

\* Shared memory whose PTEs and frames are kept stays accounted for.
LEMMA ShmStays ==
  ASSUME NEW P, NEW P2, NEW C, NEW A, NEW C2, NEW A2, NEW sh \in ShmType, NEW o,
         Shm(P, C, A, sh, o), ShmKept(P, C, A, P2, C2, A2)
  PROVE  Shm(P2, C2, A2, sh, o)
<1> USE DEF ShmKept
<1>1. ASSUME NEW k \in Keys, sh[k].nproc > 0
      PROVE  LET f == sh[k].pgidx IN
             /\ C2[f] = Shared /\ A2[f] = sh[k].nproc /\ ShmUsers(P2, f)
             /\ \A p \in Proc : p \in sh[k].opid <=> \E v \in Page : <<p, v>> \in Users(P2, f)
             /\ \A u, t \in Users(P2, f) : u[1] = t[1] => u = t
  <2> DEFINE f == sh[k].pgidx
  <2>1. f \in Frame
    BY DEF ShmType
  <2>2. /\ C[f] = Shared /\ A[f] = sh[k].nproc /\ ShmUsers(P, f)
        /\ \A p \in Proc : p \in sh[k].opid <=> \E v \in Page : <<p, v>> \in Users(P, f)
        /\ \A u, t \in Users(P, f) : u[1] = t[1] => u = t
    BY <1>1 DEF Shm
  <2>3. /\ C2[f] = Shared /\ A2[f] = A[f] /\ Users(P2, f) = Users(P, f) /\ ShmUsers(P2, f)
    BY <2>1, <2>2
  <2> HIDE DEF f
  <2>4. /\ C2[f] = Shared /\ A2[f] = sh[k].nproc /\ ShmUsers(P2, f)
        /\ \A p \in Proc : p \in sh[k].opid <=> \E v \in Page : <<p, v>> \in Users(P2, f)
        /\ \A u, t \in Users(P2, f) : u[1] = t[1] => u = t
    BY <2>2, <2>3
  <2> QED BY <2>4 DEF f
<1>2. ASSUME NEW p \in Proc, NEW v \in Page, P2[p][v].shm
      PROVE  o[p][v] \in Keys /\ sh[o[p][v]].nproc > 0 /\ sh[o[p][v]].pgidx = P2[p][v].n
  BY <1>2 DEF Shm
<1>3. \A k, l \in Keys : sh[k].nproc > 0 /\ sh[l].nproc > 0 /\ sh[k].pgidx = sh[l].pgidx => k = l
  BY DEF Shm
<1> QED BY <1>1, <1>2, <1>3 DEF Shm

\* The pages are read as before, but for the one whose PTE changes.
LEMMA ReadsPut ==
  ASSUME NEW P \in PteMap, NEW p \in Proc, NEW v \in Page, NEW e \in Pte,
         NEW pg, NEW dk, NEW want, NEW pg2, NEW dk2, NEW want2, Reads(P, pg, dk, want),
         \A q \in Proc, u \in Page : ~(q = p /\ u = v) =>
           /\ want2[q][u] = want[q][u]
           /\ P[q][u].at = "mem" => pg2[P[q][u].n] = pg[P[q][u].n]
           /\ P[q][u].at = "disk" => dk2[P[q][u].n] = dk[P[q][u].n],
         e.at = "mem" => pg2[e.n] = want2[p][v], e.at = "disk" => dk2[e.n] = want2[p][v]
  PROVE  Reads(Put(P, p, v, e), pg2, dk2, want2)
<1> DEFINE P2 == Put(P, p, v, e)
<1>1. \A q \in Proc, u \in Page : P2[q][u] = IF q = p /\ u = v THEN e ELSE P[q][u]
  BY PutIs
<1> HIDE DEF P2
<1>2. ASSUME NEW q \in Proc, NEW u \in Page
      PROVE  /\ P2[q][u].at = "mem" => pg2[P2[q][u].n] = want2[q][u]
             /\ P2[q][u].at = "disk" => dk2[P2[q][u].n] = want2[q][u]
  <2>1. CASE q = p /\ u = v
    BY <1>1, <2>1
  <2>2. CASE ~(q = p /\ u = v)
    <3>1. P2[q][u] = P[q][u]
      BY <1>1, <2>2
    <3>2. /\ P[q][u].at = "mem" => pg[P[q][u].n] = want[q][u]
          /\ P[q][u].at = "disk" => dk[P[q][u].n] = want[q][u]
      BY DEF Reads
    <3> QED BY <2>2, <3>1, <3>2
  <2> QED BY <2>1, <2>2
<1>3. Reads(P2, pg2, dk2, want2)
  BY <1>2 DEF Reads
<1> QED BY <1>3 DEF P2

\* The TLBs keep what they had, or less, and have nothing old of the changed page.
LEMMA TlbPut ==
  ASSUME NEW P \in PteMap, NEW p \in Proc, NEW v \in Page, NEW e \in Pte,
         NEW tl, NEW tl2, NEW cur, TlbOk(P, tl, cur),
         \A c \in Cpu, u \in Page : tl2[c][u] = tl[c][u] \/ tl2[c][u] = NoEntry,
         \A c \in Cpu : cur[c] = p /\ tl2[c][v] # NoEntry => e.at = "mem" /\ e.n = tl2[c][v].n
  PROVE  TlbOk(Put(P, p, v, e), tl2, cur)
<1> DEFINE P2 == Put(P, p, v, e)
<1>1. \A q \in Proc, u \in Page : P2[q][u] = IF q = p /\ u = v THEN e ELSE P[q][u]
  BY PutIs
<1> HIDE DEF P2
<1>2. ASSUME NEW c \in Cpu, NEW u \in Page, tl2[c][u] # NoEntry
      PROVE  cur[c] \in Proc /\ P2[cur[c]][u].at = "mem" /\ P2[cur[c]][u].n = tl2[c][u].n
  <2>1. tl2[c][u] = tl[c][u]
    BY <1>2
  <2>2. cur[c] \in Proc /\ P[cur[c]][u].at = "mem" /\ P[cur[c]][u].n = tl[c][u].n
    BY <1>2, <2>1 DEF TlbOk
  <2>3. CASE cur[c] = p /\ u = v
    BY <1>1, <1>2, <2>2, <2>3
  <2>4. CASE ~(cur[c] = p /\ u = v)
    <3>1. P2[cur[c]][u] = P[cur[c]][u]
      BY <1>1, <2>2, <2>4
    <3> QED BY <2>1, <2>2, <3>1
  <2> QED BY <2>3, <2>4
<1>3. TlbOk(P2, tl2, cur)
  BY <1>2 DEF TlbOk
<1> QED BY <1>3 DEF P2

\* A table stays well-formed when a well-formed PTE enters it.
LEMMA PtesPut ==
  ASSUME NEW P \in PteMap, NEW p \in Proc, NEW v \in Page, NEW e \in Pte, Ptes(P), PteOk(e)
  PROVE  Ptes(Put(P, p, v, e))
BY PutIs DEF Ptes

\* Clearing and setting accessed bits changes nothing else.
LEMMA AccessedOnly ==
  ASSUME NEW P \in PteMap, NEW P2 \in PteMap,
         \A q \in Proc, u \in Page :
           \/ P2[q][u] = P[q][u]
           \/ P[q][u].at = "mem" /\ \E b \in BOOLEAN : P2[q][u] = [P[q][u] EXCEPT !.a = b]
  PROVE  /\ Ptes(P) => Ptes(P2)
         /\ \A f : Users(P2, f) = Users(P, f) /\ Swapped(P2, f) = Swapped(P, f)
         /\ \A C, A, f : FrameOk(P, C, A, f) => FrameOk(P2, C, A, f)
         /\ \A C, A, X : Frames(P, C, A, X) => Frames(P2, C, A, X)
         /\ \A SC : Slots(P, SC) => Slots(P2, SC)
         /\ \A C, A, o : \A sh \in ShmType : Shm(P, C, A, sh, o) => Shm(P2, C, A, sh, o)
         /\ \A pg, dk, want : Reads(P, pg, dk, want) => Reads(P2, pg, dk, want)
         /\ \A tl, cur : TlbOk(P, tl, cur) => TlbOk(P2, tl, cur)
         /\ \A q \in Proc, u \in Page : /\ (P2[q][u] = NoPte <=> P[q][u] = NoPte)
                                        /\ P2[q][u].shm = P[q][u].shm
<1>1. ASSUME NEW q \in Proc, NEW u \in Page
      PROVE  /\ P2[q][u].at = P[q][u].at /\ P2[q][u].n = P[q][u].n /\ P2[q][u].w = P[q][u].w
             /\ P2[q][u].cow = P[q][u].cow /\ P2[q][u].shm = P[q][u].shm
             /\ (P2[q][u] = NoPte <=> P[q][u] = NoPte)
  <2>1. P[q][u] \in Pte
    BY DEF PteMap
  <2>2. NoPte.at = "none"
    BY DEF NoPte
  <2>3. CASE P2[q][u] = P[q][u]
    BY <2>3
  <2>4. ASSUME P[q][u].at = "mem", NEW b \in BOOLEAN, P2[q][u] = [P[q][u] EXCEPT !.a = b]
        PROVE  /\ P2[q][u].at = P[q][u].at /\ P2[q][u].n = P[q][u].n /\ P2[q][u].w = P[q][u].w
               /\ P2[q][u].cow = P[q][u].cow /\ P2[q][u].shm = P[q][u].shm
               /\ (P2[q][u] = NoPte <=> P[q][u] = NoPte)
    <3>1. /\ P2[q][u].at = P[q][u].at /\ P2[q][u].n = P[q][u].n /\ P2[q][u].w = P[q][u].w
          /\ P2[q][u].cow = P[q][u].cow /\ P2[q][u].shm = P[q][u].shm
      BY <2>1, <2>4 DEF Pte
    <3> QED BY <2>2, <2>4, <3>1
  <2> QED BY <2>3, <2>4
<1>2. Ptes(P) => Ptes(P2)
  <2> SUFFICES ASSUME Ptes(P), NEW q \in Proc, NEW u \in Page PROVE PteOk(P2[q][u])
    BY DEF Ptes
  <2>1. PteOk(P[q][u])
    BY DEF Ptes
  <2> QED BY <1>1, <2>1 DEF PteOk
<1>3. ASSUME NEW f PROVE Users(P2, f) = Users(P, f) /\ Swapped(P2, f) = Swapped(P, f)
  <2>1. \A t \in Pair : /\ P2[t[1]][t[2]].at = P[t[1]][t[2]].at
                        /\ P2[t[1]][t[2]].n = P[t[1]][t[2]].n
    BY <1>1 DEF Pair
  <2> QED BY <2>1 DEF Users, Swapped, Pair
<1>4. ASSUME NEW C, NEW A, NEW f, FrameOk(P, C, A, f) PROVE FrameOk(P2, C, A, f)
  BY <1>1, <1>3, <1>4, FrameStays
<1>5. ASSUME NEW C, NEW A, NEW X, Frames(P, C, A, X) PROVE Frames(P2, C, A, X)
  BY <1>3, <1>4, <1>5 DEF Frames
<1>6. ASSUME NEW SC, Slots(P, SC) PROVE Slots(P2, SC)
  BY <1>3, <1>6 DEF Slots, SlotOk
<1>7. ASSUME NEW C, NEW A, NEW o, NEW sh \in ShmType, Shm(P, C, A, sh, o) PROVE Shm(P2, C, A, sh, o)
  <2>1. ASSUME NEW f, ShmUsers(P, f) PROVE ShmUsers(P2, f)
    <3>1. \A t \in Users(P2, f) : t[1] \in Proc /\ t[2] \in Page
      BY UsersArePairs
    <3> QED BY <1>1, <1>3, <2>1, <3>1 DEF ShmUsers
  <2>2. ShmKept(P, C, A, P2, C, A)
    BY <1>1, <1>3, <2>1 DEF ShmKept
  <2> QED BY <1>7, <2>2, ShmStays
<1>8. ASSUME NEW pg, NEW dk, NEW want, Reads(P, pg, dk, want) PROVE Reads(P2, pg, dk, want)
  BY <1>1, <1>8 DEF Reads
<1>9. ASSUME NEW tl, NEW cur, TlbOk(P, tl, cur) PROVE TlbOk(P2, tl, cur)
  BY <1>1, <1>9 DEF TlbOk
<1> HIDE DEF PteMap
<1> QED BY <1>1, <1>2, <1>3, <1>4, <1>5, <1>6, <1>7, <1>8, <1>9

\* Shared memory has nothing to do with a PTE that is no shared memory page.
LEMMA ShmPut ==
  ASSUME NEW P \in PteMap, NEW p \in Proc, NEW v \in Page, NEW e \in Pte,
         NEW C, NEW A, NEW C2, NEW A2, ~P[p][v].shm, ~e.shm,
         \A f \in Frame : C[f] = Shared /\ ShmUsers(P, f) =>
           C2[f] = Shared /\ A2[f] = A[f] /\ ~(e.at = "mem" /\ e.n = f)
  PROVE  ShmKept(P, C, A, Put(P, p, v, e), C2, A2)
<1> DEFINE P2 == Put(P, p, v, e)
<1>1. \A q \in Proc, u \in Page : P2[q][u] = IF q = p /\ u = v THEN e ELSE P[q][u]
  BY PutIs
<1>2. ASSUME NEW f \in Frame, C[f] = Shared, ShmUsers(P, f)
      PROVE  /\ C2[f] = Shared /\ A2[f] = A[f] /\ Users(P2, f) = Users(P, f)
             /\ ShmUsers(P2, f)
  <2>1. <<p, v>> \notin Users(P, f)
    BY <1>2 DEF ShmUsers
  <2>2. Users(P2, f) = Users(P, f) \ {<<p, v>>}
    BY <1>2, UsersPut
  <2>3. Users(P2, f) = Users(P, f)
    BY <2>1, <2>2
  <2> HIDE DEF P2
  <2>4. ASSUME NEW t \in Users(P2, f) PROVE P2[t[1]][t[2]].shm
    <3>1. t \in Users(P, f) /\ t[1] \in Proc /\ t[2] \in Page /\ t = <<t[1], t[2]>>
      BY <2>3, UsersArePairs
    <3>2. ~(t[1] = p /\ t[2] = v)
      BY <2>1, <3>1
    <3>3. P2[t[1]][t[2]] = P[t[1]][t[2]]
      BY <1>1, <3>1, <3>2
    <3> QED BY <1>2, <3>1, <3>3 DEF ShmUsers
  <2> QED BY <1>2, <2>3, <2>4 DEF ShmUsers
<1> HIDE DEF P2
<1>3. \A q \in Proc, u \in Page : P2[q][u].shm => P[q][u].shm /\ P2[q][u].n = P[q][u].n
  BY <1>1
<1>4. ShmKept(P, C, A, P2, C2, A2)
  BY <1>2, <1>3 DEF ShmKept
<1> QED BY <1>4 DEF P2

\* The frame of a mapped page is a frame in use, and its PTE says in which way.
LEMMA FrameOf ==
  ASSUME NEW P \in PteMap, NEW C \in CharMap, NEW A, NEW X, Ptes(P), Frames(P, C, A, X),
         NEW p \in Proc, NEW v \in Page, P[p][v].at = "mem"
  PROVE  LET e == P[p][v]  f == e.n IN
         /\ f \in Frame /\ f \notin X /\ C[f] # Free /\ <<p, v>> \in Users(P, f)
         /\ FrameOk(P, C, A, f)
         /\ ~e.cow /\ ~e.shm => C[f] = p /\ A[f] = v /\ Users(P, f) = {<<p, v>>} /\ e.w
         /\ e.cow => C[f] = Shared /\ CowUsers(P, f) /\ ~ShmUsers(P, f) /\ ~e.w /\ ~e.shm
         /\ e.shm => C[f] = Shared /\ ShmUsers(P, f) /\ ~CowUsers(P, f) /\ ~e.cow
<1> DEFINE e == P[p][v]
           f == e.n
<1>1. f \in Frame /\ ~(e.cow /\ e.shm)
  BY DEF Ptes, PteOk
<1>2. <<p, v>> \in Users(P, f)
  BY UsersIs
<1>3. f \notin X
  BY <1>1, <1>2 DEF Frames
<1>4. FrameOk(P, C, A, f)
  BY <1>1, <1>3 DEF Frames
<1>5. C[f] # Free /\ C[f] \in Proc \cup {Free, Shared}
  BY <1>1, <1>2, <1>4 DEF FrameOk, CharMap
<1>6. CASE C[f] = Shared
  <2>1. CowUsers(P, f) \/ ShmUsers(P, f)
    BY <1>4, <1>6 DEF FrameOk
  <2>2. CowUsers(P, f) => e.cow /\ ~e.w /\ ~e.shm
    BY <1>2 DEF CowUsers
  <2>3. ShmUsers(P, f) => e.shm
    BY <1>2 DEF ShmUsers
  <2> QED BY <1>1, <1>2, <1>3, <1>4, <1>5, <1>6, <2>1, <2>2, <2>3
<1>7. CASE C[f] \in Proc
  <2>1. Users(P, f) = {<<C[f], A[f]>>} /\ A[f] \in Page
        /\ P[C[f]][A[f]].w /\ ~P[C[f]][A[f]].cow /\ ~P[C[f]][A[f]].shm
    BY <1>4, <1>7 DEF FrameOk
  <2>2. C[f] = p /\ A[f] = v
    BY <1>2, <2>1
  <2> QED BY <1>1, <1>2, <1>3, <1>4, <1>5, <1>7, <2>1, <2>2
<1> QED BY <1>5, <1>6, <1>7

\* A change between two PTEs that are not on the disk leaves the swap area as it is.
LEMMA SlotsPut ==
  ASSUME NEW P \in PteMap, NEW p \in Proc, NEW v \in Page, NEW e \in Pte, NEW SC,
         Slots(P, SC), P[p][v].at # "disk", e.at # "disk"
  PROVE  Slots(Put(P, p, v, e), SC)
<1> SUFFICES ASSUME NEW s \in Slot PROVE SlotOk(Put(P, p, v, e), SC, s)
  BY DEF Slots
<1>1. <<p, v>> \notin Swapped(P, s)
  BY UsersIs
<1>2. SlotOk(P, SC, s)
  BY DEF Slots
<1> QED BY <1>1, <1>2, SlotElse

\* The parts of a memory.
LEMMA SoundTypes ==
  ASSUME NEW m, NEW sh, NEW X, NEW o, NEW want, Sound(m, sh, X, o, want)
  PROVE  /\ m \in MemType /\ sh \in ShmType /\ m.halt = "no" /\ Ok(m)
         /\ m.pte \in PteMap /\ m.charmap \in CharMap /\ m.uva \in [Frame -> Nat]
         /\ m.ffree \in 0 .. NPF /\ m.clock_pt \in Frame
         /\ m.scharmap \in SwapMap /\ m.sffree \in 0 .. NPSWAP
         /\ m.page \in [Frame -> Values] /\ m.disk \in [Slot -> Values]
         /\ m.tlb \in TlbMap /\ m.got \in Frame
         /\ Ptes(m.pte) /\ Frames(m.pte, m.charmap, m.uva, X) /\ Slots(m.pte, m.scharmap)
         /\ IsFirst(m.charmap, m.ffree, NPF) /\ IsFirst(m.scharmap, m.sffree, NPSWAP)
         /\ Shm(m.pte, m.charmap, m.uva, sh, o)
         /\ Reads(m.pte, m.page, m.disk, want)
BY DEF Sound, MemType, Ok

\* The empty PTE.
LEMMA NoPteIs == NoPte \in Pte /\ PteOk(NoPte) /\ NoPte.at = "none" /\ NoPte.n = 0
                 /\ ~NoPte.shm /\ ~NoPte.cow
BY DEF NoPte, Pte, PteOk

\* A private page is the only user of its frame.
LEMMA PrivateOf ==
  ASSUME NEW P \in PteMap, NEW C \in CharMap, NEW A, NEW X, Ptes(P), Frames(P, C, A, X),
         NEW p \in Proc, NEW v \in Page,
         P[p][v].at = "mem", ~P[p][v].cow, ~P[p][v].shm
  PROVE  /\ P[p][v].n \in Frame /\ C[P[p][v].n] = p
         /\ Users(P, P[p][v].n) = {<<p, v>>} /\ P[p][v].w
<1> DEFINE e == P[p][v]
<1>1. LET f == e.n IN
      /\ f \in Frame
      /\ ~e.cow /\ ~e.shm => C[f] = p /\ A[f] = v /\ Users(P, f) = {<<p, v>>} /\ e.w
  BY FrameOf
<1> QED BY <1>1

\* free_pages_of_proc() gives a private page back with free_page().
LEMMA FreePrivate ==
  ASSUME NEW m, NEW sh, NEW o, NEW want, Sound(m, sh, {}, o, want),
         NEW p \in Proc, NEW v \in Page,
         m.pte[p][v].at = "mem", ~m.pte[p][v].cow, ~m.pte[p][v].shm
  PROVE  LET r == FreePage([m EXCEPT !.pte[p][v] = NoPte], m.pte[p][v].n) IN
         /\ Sound(r, sh, {}, o, want)
         /\ r.pte = Put(m.pte, p, v, NoPte) /\ r.tlb = m.tlb
<1> DEFINE P == m.pte
           C == m.charmap
           A == m.uva
           e == P[p][v]
           f == e.n
           C2 == [C EXCEPT ![f] = Free]
           P2 == Put(P, p, v, NoPte)
           i == Min({f, m.ffree})
           r == FreePage([m EXCEPT !.pte[p][v] = NoPte], f)
<1>0. P \in PteMap /\ C \in CharMap /\ Frames(P, C, A, {}) /\ Ptes(P) /\ e \in Pte
  BY SoundTypes DEF PteMap
<1>1. /\ f \in Frame /\ C[f] # Free /\ <<p, v>> \in Users(P, f)
      /\ C[f] = p /\ Users(P, f) = {<<p, v>>}
  BY <1>0, FrameOf
<1>2. P2 \in PteMap
  BY <1>0, NoPteIs, PutIs
<1>3. r = [m EXCEPT !.pte = P2, !.charmap = C2, !.ffree = i]
  BY <1>1, SoundTypes DEF FreePage, Ok, Put, MemType
<1>4. IsFirst(C2, i, NPF)
  <2>1. IsFirst(C, m.ffree, NPF) /\ C \in [0 .. NPF - 1 -> Proc \cup {Free, Shared}]
    BY <1>0, SoundTypes DEF CharMap, Frame
  <2>2. IsFirst([C EXCEPT ![f] = Free], Min({f, m.ffree}), NPF)
    BY <1>1, <2>1, Constants, HintAfterFree DEF Frame
  <2> QED BY <2>2
<1> HIDE DEF r, i, P2
<1>5. /\ r \in MemType /\ r.pte = P2 /\ r.charmap = C2 /\ r.uva = A /\ r.ffree = i
      /\ r.scharmap = m.scharmap /\ r.sffree = m.sffree /\ r.page = m.page /\ r.disk = m.disk
      /\ r.tlb = m.tlb /\ r.halt = "no"
  <2>1. C2 \in CharMap /\ i \in 0 .. NPF
    BY <1>0, <1>4 DEF CharMap, IsFirst
  <2> HIDE DEF C2
  <2>2. m \in MemType /\ m.halt = "no"
    BY SoundTypes
  <2>3. /\ r.pte = P2 /\ r.charmap = C2 /\ r.uva = A /\ r.ffree = i
        /\ r.scharmap = m.scharmap /\ r.sffree = m.sffree /\ r.page = m.page /\ r.disk = m.disk
        /\ r.tlb = m.tlb /\ r.halt = "no"
    BY <1>3, <2>2 DEF MemType
  <2>4. r \in MemType
    BY <1>2, <1>3, <2>1, <2>2 DEF MemType
  <2> QED BY <2>3, <2>4
<1>6. Frames(P2, C2, A, {})
  <2> SUFFICES ASSUME NEW g \in Frame PROVE FrameOk(P2, C2, A, g)
    BY DEF Frames
  <2>1. CASE g = f
    <3>1. C2[g] = Free
      BY <1>0, <1>1, <2>1 DEF CharMap
    <3>2. Users(P2, g) = {}
      BY <1>0, <1>1, <2>1, NoPteIs, UsersPut DEF P2
    <3> QED BY <3>1, <3>2, Constants DEF FrameOk
  <2>2. CASE g # f
    <3>1. C2[g] = C[g] /\ FrameOk(P, C, A, g)
      BY <1>0, <2>2 DEF Frames, CharMap
    <3>2. <<p, v>> \notin Users(P, g)
      <4>1. <<p, v>> \in Users(P, g) <=> P[p][v].at = "mem" /\ P[p][v].n = g
        BY UsersIs
      <4> QED BY <2>2, <4>1
    <3> HIDE DEF C2
    <3> QED BY <1>0, <3>1, <3>2, NoPteIs, FrameElse DEF P2
  <2> QED BY <2>1, <2>2
<1>7. Ptes(P2) /\ Slots(P2, m.scharmap)
  BY <1>0, SoundTypes, NoPteIs, PtesPut, SlotsPut DEF P2
<1>8. Shm(P2, C2, A, sh, o)
  <2>1. ASSUME NEW g \in Frame, C[g] = Shared PROVE C2[g] = Shared
    BY <1>1, <2>1, Constants
  <2> HIDE DEF C2
  <2>2. ShmKept(P, C, A, P2, C2, A)
    BY <1>0, <2>1, NoPteIs, ShmPut DEF P2
  <2> QED BY <2>2, ShmStays, SoundTypes
<1>9. Reads(P2, m.page, m.disk, want)
  BY <1>0, SoundTypes, NoPteIs, ReadsPut DEF P2
<1> QED BY <1>4, <1>5, <1>6, <1>7, <1>8, <1>9, SoundTypes DEF Sound, P2, r

\* A page that is not in a frame leaves all other frames as they are.
LEMMA FramesElse ==
  ASSUME NEW P \in PteMap, NEW p \in Proc, NEW v \in Page, NEW e \in Pte,
         NEW C \in CharMap, NEW A, NEW C2, NEW A2, NEW X, Frames(P, C, A, X),
         NEW f \in Frame, f \notin X, C2[f] = C[f], A2[f] = A[f],
         P[p][v].at = "mem" => P[p][v].n # f,
         e.at = "mem" => e.n # f
  PROVE  FrameOk(Put(P, p, v, e), C2, A2, f)
<1>1. FrameOk(P, C, A, f)
  BY DEF Frames
<1>2. <<p, v>> \in Users(P, f) <=> P[p][v].at = "mem" /\ P[p][v].n = f
  BY DEF Users
<1> QED BY <1>1, <1>2, FrameElse

\* The swap page of a page on the disk is that page's.
LEMMA SlotOf ==
  ASSUME NEW P \in PteMap, NEW SC \in SwapMap, Ptes(P), Slots(P, SC),
         NEW p \in Proc, NEW v \in Page, P[p][v].at = "disk"
  PROVE  LET s == P[p][v].n IN
         /\ s \in Slot /\ SC[s] # Free /\ Swapped(P, s) = {<<p, v>>}
         /\ P[p][v].w /\ ~P[p][v].cow /\ ~P[p][v].shm
<1> DEFINE s == P[p][v].n
<1>1. s \in Slot /\ P[p][v].w /\ ~P[p][v].cow /\ ~P[p][v].shm
  BY DEF Ptes, PteOk
<1>2. <<p, v>> \in Swapped(P, s)
  <2>1. \A x : <<p, v>> \in Swapped(P, x) <=> P[p][v].at = "disk" /\ P[p][v].n = x
    BY UsersIs
  <2> QED BY <2>1
<1>3. SlotOk(P, SC, s)
  BY <1>1 DEF Slots
<1> HIDE DEF s
<1>4. SC[s] # Free
  BY <1>2, <1>3 DEF SlotOk
<1>5. Swapped(P, s) = {<<p, v>>}
  BY <1>2, <1>3, <1>4 DEF SlotOk
<1> QED BY <1>1, <1>4, <1>5 DEF s

\* When the page leaves the disk, its swap page can be free.
LEMMA SlotsFree ==
  ASSUME NEW P \in PteMap, NEW SC \in SwapMap, Ptes(P), Slots(P, SC),
         NEW p \in Proc, NEW v \in Page, P[p][v].at = "disk",
         NEW e \in Pte, e.at # "disk"
  PROVE  Slots(Put(P, p, v, e), [SC EXCEPT ![P[p][v].n] = Free])
<1> DEFINE s == P[p][v].n
           SC2 == [SC EXCEPT ![s] = Free]
<1>1. s \in Slot /\ Swapped(P, s) = {<<p, v>>}
  BY SlotOf
<1> HIDE DEF s
<1>2. ASSUME NEW x \in Slot PROVE SlotOk(Put(P, p, v, e), SC2, x)
  <2>1. CASE x = s
    <3>1. SC2[x] = Free
      BY <1>1, <2>1 DEF SwapMap
    <3>2. Swapped(Put(P, p, v, e), x) = {}
      BY <1>1, <2>1, UsersPut
    <3> QED BY <3>1, <3>2 DEF SlotOk
  <2>2. CASE x # s
    <3>1. SC2[x] = SC[x] /\ SlotOk(P, SC, x)
      BY <2>2 DEF Slots, SwapMap
    <3>2. <<p, v>> \in Swapped(P, x) <=> P[p][v].at = "disk" /\ P[p][v].n = x
      BY UsersIs
    <3>3. <<p, v>> \notin Swapped(P, x)
      BY <2>2, <3>2 DEF s
    <3> HIDE DEF SC2
    <3> QED BY <3>1, <3>3, SlotElse
  <2> QED BY <2>1, <2>2
<1>3. Slots(Put(P, p, v, e), SC2)
  BY <1>2 DEF Slots
<1> QED BY <1>3 DEF SC2, s

\* free_pages_of_proc() gives a swap page back with free_swap_page().
LEMMA FreeSwapped ==
  ASSUME NEW m, NEW sh, NEW o, NEW want, Sound(m, sh, {}, o, want),
         NEW p \in Proc, NEW v \in Page, m.pte[p][v].at = "disk"
  PROVE  LET r == FreeSwapPage([m EXCEPT !.pte[p][v] = NoPte], m.pte[p][v].n) IN
         /\ Sound(r, sh, {}, o, want)
         /\ r.pte = Put(m.pte, p, v, NoPte) /\ r.tlb = m.tlb
<1> DEFINE P == m.pte
           SC == m.scharmap
           s == P[p][v].n
           SC2 == [SC EXCEPT ![s] = Free]
           P2 == Put(P, p, v, NoPte)
           i == Min({s, m.sffree})
           r == FreeSwapPage([m EXCEPT !.pte[p][v] = NoPte], s)
<1>0. P \in PteMap /\ SC \in SwapMap /\ Ptes(P) /\ Slots(P, SC)
  BY SoundTypes
<1>1. s \in Slot /\ SC[s] # Free /\ Swapped(P, s) = {<<p, v>>} /\ ~P[p][v].shm
  BY <1>0, SlotOf
<1>2. P2 \in PteMap
  BY <1>0, NoPteIs, PutIs
<1>3. r = [m EXCEPT !.pte = P2, !.scharmap = SC2, !.sffree = i]
  BY <1>1, SoundTypes DEF FreeSwapPage, Ok, Put, MemType
<1>4. IsFirst(SC2, i, NPSWAP)
  <2>1. IsFirst(SC, m.sffree, NPSWAP) /\ SC \in [0 .. NPSWAP - 1 -> Proc \cup {Free}]
    BY <1>0, SoundTypes DEF SwapMap, Slot
  <2>2. IsFirst([SC EXCEPT ![s] = Free], Min({s, m.sffree}), NPSWAP)
    BY <1>1, <2>1, Constants, HintAfterFree DEF Slot
  <2> QED BY <2>2
<1>7. Slots(P2, SC2)
  BY <1>0, NoPteIs, SlotsFree
<1> HIDE DEF r, i, P2
<1>5. /\ r \in MemType /\ r.pte = P2 /\ r.charmap = m.charmap /\ r.uva = m.uva /\ r.ffree = m.ffree
      /\ r.scharmap = SC2 /\ r.sffree = i /\ r.page = m.page /\ r.disk = m.disk
      /\ r.tlb = m.tlb /\ r.halt = "no"
  <2>1. SC2 \in SwapMap /\ i \in 0 .. NPSWAP
    BY <1>0, <1>4 DEF SwapMap, IsFirst
  <2> HIDE DEF SC2
  <2>2. m \in MemType /\ m.halt = "no"
    BY SoundTypes
  <2>3. /\ r.pte = P2 /\ r.charmap = m.charmap /\ r.uva = m.uva /\ r.ffree = m.ffree
        /\ r.scharmap = SC2 /\ r.sffree = i /\ r.page = m.page /\ r.disk = m.disk
        /\ r.tlb = m.tlb /\ r.halt = "no"
    BY <1>3, <2>2 DEF MemType
  <2>4. r \in MemType
    BY <1>2, <1>3, <2>1, <2>2 DEF MemType
  <2> QED BY <2>3, <2>4
<1>6. Frames(P2, m.charmap, m.uva, {})
  <2> SUFFICES ASSUME NEW g \in Frame PROVE FrameOk(P2, m.charmap, m.uva, g)
    BY DEF Frames
  <2>1. FrameOk(P, m.charmap, m.uva, g)
    BY SoundTypes DEF Frames
  <2>2. <<p, v>> \in Users(P, g) <=> P[p][v].at = "mem" /\ P[p][v].n = g
    BY UsersIs
  <2> QED BY <1>0, <2>1, <2>2, NoPteIs, FrameElse DEF P2
<1>8. Ptes(P2)
  BY <1>0, NoPteIs, PtesPut DEF P2
<1>9. Shm(P2, m.charmap, m.uva, sh, o)
  <2>1. ShmKept(P, m.charmap, m.uva, P2, m.charmap, m.uva)
    BY <1>0, <1>1, NoPteIs, ShmPut DEF P2
  <2> QED BY <2>1, ShmStays, SoundTypes
<1>10. Reads(P2, m.page, m.disk, want)
  BY <1>0, SoundTypes, NoPteIs, ReadsPut DEF P2
<1> QED BY <1>4, <1>5, <1>6, <1>7, <1>8, <1>9, <1>10, SoundTypes DEF Sound, P2, r

\* What DropCow makes of the two maps of frames.
Dropped(C, A, f) == IF A[f] = 1 THEN [C EXCEPT ![f] = Free] ELSE C

\* A copy-on-write frame with one user fewer; with the last one it is free.
LEMMA CowLeaves ==
  ASSUME NEW P \in PteMap, NEW p \in Proc, NEW v \in Page, NEW e \in Pte,
         NEW C \in CharMap, NEW A \in [Frame -> Nat], NEW X, Ptes(P), Frames(P, C, A, X),
         P[p][v].at = "mem", P[p][v].cow, e.at = "mem" => e.n # P[p][v].n
  PROVE  LET f == P[p][v].n IN
         /\ A[f] > 0 /\ f \in Frame
         /\ FrameOk(Put(P, p, v, e), Dropped(C, A, f), [A EXCEPT ![f] = A[f] - 1], f)
<1> DEFINE f == P[p][v].n
           C2 == Dropped(C, A, f)
           A2 == [A EXCEPT ![f] = A[f] - 1]
           P2 == Put(P, p, v, e)
           U == Users(P, f)
<1>1. /\ f \in Frame /\ <<p, v>> \in U /\ FrameOk(P, C, A, f)
      /\ C[f] = Shared /\ CowUsers(P, f)
  BY FrameOf
<1>2. Cardinality(U) = A[f] /\ A[f] \in Nat /\ A[f] > 0 /\ IsFiniteSet(U)
  BY <1>1, UsersArePairs DEF FrameOk
<1>3. Users(P2, f) = U \ {<<p, v>>}
  BY UsersPut
<1>4. Cardinality(U \ {<<p, v>>}) = A[f] - 1 /\ IsFiniteSet(U \ {<<p, v>>})
  BY <1>1, <1>2, FS_RemoveElement
<1>5. A2[f] = A[f] - 1
  BY <1>1
<1>6. \A q \in Proc, u \in Page : P2[q][u] = IF q = p /\ u = v THEN e ELSE P[q][u]
  BY PutIs
<1> HIDE DEF f, P2, U, A2
<1>7. CASE A[f] = 1
  <2>1. Users(P2, f) = {}
    BY <1>3, <1>4, <1>7, FS_EmptySet
  <2>2. C2[f] = Free
    BY <1>1, <1>7 DEF Dropped, CharMap
  <2> HIDE DEF C2
  <2> QED BY <1>1, <1>2, <2>1, <2>2, Constants DEF FrameOk, f, P2, A2, C2
<1>8. CASE A[f] # 1
  <2>1. C2[f] = Shared
    BY <1>1, <1>8 DEF Dropped
  <2>2. CowUsers(P2, f)
    <3>1. ASSUME NEW t \in Users(P2, f)
          PROVE  t \in U /\ P2[t[1]][t[2]] = P[t[1]][t[2]]
      <4>1. t \in U /\ t # <<p, v>> /\ t[1] \in Proc /\ t[2] \in Page /\ t = <<t[1], t[2]>>
        BY <1>3, UsersArePairs DEF U
      <4> QED BY <1>6, <4>1
    <3> QED BY <1>1, <3>1 DEF CowUsers, U
  <2>3. Cardinality(Users(P2, f)) = A2[f] /\ A2[f] > 0
    BY <1>2, <1>3, <1>4, <1>5, <1>8
  <2> HIDE DEF C2
  <2> QED BY <1>1, <1>2, <2>1, <2>2, <2>3, Constants DEF FrameOk, f, P2, A2, C2
<1> QED BY <1>7, <1>8

\* DropCow() of the frame of a page that is not mapped to it any more.
LEMMA DropCowIs ==
  ASSUME NEW m \in MemType, m.halt = "no", NEW f \in Frame,
         m.charmap[f] = Shared, m.uva[f] > 0, m.ffree \in 0 .. NPF
  PROVE  DropCow(m, f) =
           [m EXCEPT !.charmap = Dropped(m.charmap, m.uva, f),
                     !.uva = [m.uva EXCEPT ![f] = m.uva[f] - 1],
                     !.ffree = IF m.uva[f] = 1 THEN Min({f, m.ffree}) ELSE m.ffree]
<1>0. Ok(m) /\ m.uva \in [Frame -> Nat] /\ m.uva[f] \in Nat /\ m.charmap \in CharMap /\ Shared # Free
  BY Constants DEF Ok, MemType
<1>1. CASE m.uva[f] = 1
  <2> DEFINE n == [m EXCEPT !.uva[f] = 0]
  <2>1. n.halt = "no" /\ n.charmap = m.charmap /\ n.ffree = m.ffree /\ n \in MemType
        /\ n.uva = [m.uva EXCEPT ![f] = 0]
    BY <1>0 DEF MemType
  <2>2. DropCow(m, f) = FreePage(n, f)
    BY <1>0, <1>1 DEF DropCow
  <2> HIDE DEF n
  <2>3. FreePage(n, f) = [n EXCEPT !.charmap = [m.charmap EXCEPT ![f] = Free], !.ffree = Min({f, m.ffree})]
    BY <1>0, <2>1 DEF FreePage, Ok, MemType
  <2>4. n = [m EXCEPT !.uva = [m.uva EXCEPT ![f] = 0]]
    BY <1>0 DEF n, MemType
  <2>5. /\ m.uva[f] - 1 = 0
        /\ Dropped(m.charmap, m.uva, f) = [m.charmap EXCEPT ![f] = Free]
        /\ (IF m.uva[f] = 1 THEN Min({f, m.ffree}) ELSE m.ffree) = Min({f, m.ffree})
    BY <1>1 DEF Dropped
  <2> DEFINE C2 == [m.charmap EXCEPT ![f] = Free]
             A2 == [m.uva EXCEPT ![f] = 0]
             i == Min({f, m.ffree})
  <2>6. DropCow(m, f) = [n EXCEPT !.charmap = C2, !.ffree = i] /\ n = [m EXCEPT !.uva = A2]
    BY <2>2, <2>3, <2>4
  <2> HIDE DEF C2, A2, i
  <2>7. DropCow(m, f) = [m EXCEPT !.charmap = C2, !.uva = A2, !.ffree = i]
    BY <2>6 DEF MemType
  <2> QED BY <2>5, <2>7 DEF C2, A2, i
<1>2. CASE m.uva[f] # 1
  <2>1. DropCow(m, f) = [m EXCEPT !.uva[f] = @ - 1]
    <3>1. ~(m.charmap[f] # Shared \/ m.uva[f] = 0)
      BY <1>0
    <3> QED BY <1>0, <1>2, <3>1 DEF DropCow
  <2> QED BY <1>0, <1>2, <2>1 DEF Dropped, MemType
<1> QED BY <1>1, <1>2

\* ffree, after DropCow, is again the first free frame.
LEMMA DroppedFirst ==
  ASSUME NEW C \in CharMap, NEW A \in [Frame -> Nat], NEW f \in Frame, NEW i,
         IsFirst(C, i, NPF), C[f] = Shared
  PROVE  /\ Dropped(C, A, f) \in CharMap
         /\ IsFirst(Dropped(C, A, f), IF A[f] = 1 THEN Min({f, i}) ELSE i, NPF)
         /\ (IF A[f] = 1 THEN Min({f, i}) ELSE i) \in 0 .. NPF
<1>1. C \in [0 .. NPF - 1 -> Proc \cup {Free, Shared}]
  BY DEF CharMap, Frame
<1>2. IsFirst([C EXCEPT ![f] = Free], Min({f, i}), NPF)
  BY <1>1, Constants, HintAfterFree DEF Frame
<1>3. [C EXCEPT ![f] = Free] \in CharMap
  BY DEF CharMap
<1> QED BY <1>2, <1>3 DEF Dropped, IsFirst

\* Memory m with new page tables, frames and TLBs.
With(m, P, C, A, i, pg, tl) ==
  [m EXCEPT !.pte = P, !.charmap = C, !.uva = A, !.ffree = i, !.page = pg, !.tlb = tl]

\* The fields of a memory that With makes.
LEMMA WithIs ==
  ASSUME NEW m \in MemType, NEW P \in PteMap, NEW C \in CharMap, NEW A \in [Frame -> Nat],
         NEW i \in 0 .. NPF, NEW pg \in [Frame -> Values], NEW tl \in TlbMap
  PROVE  LET r == With(m, P, C, A, i, pg, tl) IN
         /\ r \in MemType /\ r.pte = P /\ r.charmap = C /\ r.uva = A /\ r.ffree = i
         /\ r.page = pg /\ r.tlb = tl
         /\ r.clock_pt = m.clock_pt /\ r.scharmap = m.scharmap /\ r.sffree = m.sffree
         /\ r.disk = m.disk /\ r.got = m.got /\ r.halt = m.halt
<1> DEFINE r == With(m, P, C, A, i, pg, tl)
<1>1. r = [m EXCEPT !.pte = P, !.charmap = C, !.uva = A, !.ffree = i, !.page = pg, !.tlb = tl]
  BY DEF With
<1> HIDE DEF r
<1>2. /\ r.pte = P /\ r.charmap = C /\ r.uva = A /\ r.ffree = i /\ r.page = pg /\ r.tlb = tl
      /\ r.clock_pt = m.clock_pt /\ r.scharmap = m.scharmap /\ r.sffree = m.sffree
      /\ r.disk = m.disk /\ r.got = m.got /\ r.halt = m.halt
  BY <1>1 DEF MemType
<1>3. r \in MemType
  BY <1>1 DEF MemType
<1> QED BY <1>2, <1>3 DEF r

\* A memory with new tables is sound when the new tables are.
LEMMA SoundWith ==
  ASSUME NEW m, NEW sh, NEW X, NEW o, NEW want, Sound(m, sh, X, o, want),
         NEW P \in PteMap, NEW C \in CharMap, NEW A \in [Frame -> Nat],
         NEW i, NEW pg \in [Frame -> Values], NEW tl \in TlbMap,
         NEW sh2 \in ShmType, NEW X2, NEW o2, NEW want2,
         Ptes(P), Frames(P, C, A, X2), Slots(P, m.scharmap), IsFirst(C, i, NPF),
         Shm(P, C, A, sh2, o2), Reads(P, pg, m.disk, want2)
  PROVE  Sound(With(m, P, C, A, i, pg, tl), sh2, X2, o2, want2)
<1> DEFINE r == With(m, P, C, A, i, pg, tl)
<1>1. i \in 0 .. NPF /\ m \in MemType /\ m.halt = "no" /\ IsFirst(m.scharmap, m.sffree, NPSWAP)
  BY SoundTypes DEF IsFirst
<1>2. /\ r \in MemType /\ r.pte = P /\ r.charmap = C /\ r.uva = A /\ r.ffree = i
      /\ r.page = pg /\ r.tlb = tl /\ r.scharmap = m.scharmap /\ r.sffree = m.sffree
      /\ r.disk = m.disk /\ r.halt = m.halt
  BY <1>1, WithIs
<1> HIDE DEF r
<1>3. Sound(r, sh2, X2, o2, want2)
  BY <1>1, <1>2 DEF Sound
<1> QED BY <1>3 DEF r

\* When a page leaves its copy-on-write frame, for no frame or for the one that
\* has just been allocated, all frames are accounted for.
LEMMA CowDrops ==
  ASSUME NEW P \in PteMap, NEW p \in Proc, NEW v \in Page, NEW e \in Pte,
         NEW C \in CharMap, NEW A \in [Frame -> Nat], NEW X, NEW sh \in ShmType, NEW o,
         Ptes(P), Frames(P, C, A, X), Shm(P, C, A, sh, o),
         P[p][v].at = "mem", P[p][v].cow, e.at # "disk", ~e.shm, PteOk(e),
         e.at = "none" => X = {},
         e.at = "mem" => X = {e.n} /\ C[e.n] = p /\ A[e.n] = v /\ e.w /\ ~e.cow
  PROVE  LET f == P[p][v].n
             P2 == Put(P, p, v, e)
             C2 == Dropped(C, A, f)
             A2 == [A EXCEPT ![f] = A[f] - 1] IN
         /\ f \in Frame /\ C[f] = Shared /\ A[f] > 0
         /\ Frames(P2, C2, A2, {}) /\ Shm(P2, C2, A2, sh, o)
<1> DEFINE f == P[p][v].n
           P2 == Put(P, p, v, e)
           C2 == Dropped(C, A, f)
           A2 == [A EXCEPT ![f] = A[f] - 1]
<1>1. /\ f \in Frame /\ f \notin X /\ C[f] = Shared /\ <<p, v>> \in Users(P, f)
      /\ ~ShmUsers(P, f) /\ ~P[p][v].shm
  BY FrameOf
<1>2. e.at = "mem" => e.n \in Frame /\ e.n # f /\ Users(P, e.n) = {} /\ C[e.n] \in Proc
  BY <1>1 DEF PteOk, Frames
<1>3. A[f] > 0 /\ FrameOk(P2, C2, A2, f)
  BY <1>1, <1>2, CowLeaves
<1>4. \A g \in Frame : g # f => C2[g] = C[g] /\ A2[g] = A[g]
  BY <1>1 DEF Dropped, CharMap
<1> HIDE DEF C2, A2, P2
<1>5. ASSUME NEW g \in Frame PROVE FrameOk(P2, C2, A2, g)
  <2>1. CASE g = f
    BY <1>3, <2>1
  <2>2. CASE e.at = "mem" /\ g = e.n
    <3>1. C2[g] = p /\ A2[g] = v
      BY <1>2, <1>4, <2>2
    <3>2. Users(P2, g) = {<<p, v>>}
      <4>1. Users(P2, g) = Users(P, g) \cup {<<p, v>>}
        BY <2>2, UsersPut DEF P2
      <4> QED BY <1>2, <2>2, <4>1
    <3>3. P2[p][v] = e
      BY PutIs DEF P2
    <3> QED BY <2>2, <3>1, <3>2, <3>3, Constants DEF FrameOk
  <2>3. CASE g # f /\ ~(e.at = "mem" /\ g = e.n)
    <3>1. g \notin X
      BY <2>3 DEF Pte
    <3> QED BY <1>4, <2>3, <3>1, FramesElse DEF P2
  <2> QED BY <2>1, <2>2, <2>3
<1>6. Frames(P2, C2, A2, {})
  BY <1>5 DEF Frames
<1>7. ShmKept(P, C, A, P2, C2, A2)
  <2>1. ASSUME NEW g \in Frame, C[g] = Shared, ShmUsers(P, g)
        PROVE  C2[g] = Shared /\ A2[g] = A[g] /\ ~(e.at = "mem" /\ e.n = g)
    <3>1. g # f
      BY <1>1, <2>1
    <3>2. e.at = "mem" => C[e.n] # Shared
      BY Constants
    <3> QED BY <1>4, <2>1, <3>1, <3>2
  <2> QED BY <1>1, <2>1, ShmPut DEF P2
<1>8. Shm(P2, C2, A2, sh, o)
  BY <1>7, ShmStays
<1> QED BY <1>1, <1>3, <1>6, <1>8 DEF P2, C2, A2

\* free_pages_of_proc() gives a copy-on-write page back.
LEMMA FreeCow ==
  ASSUME NEW m, NEW sh, NEW o, NEW want, Sound(m, sh, {}, o, want),
         NEW p \in Proc, NEW v \in Page, m.pte[p][v].at = "mem", m.pte[p][v].cow
  PROVE  LET r == DropCow([m EXCEPT !.pte[p][v] = NoPte], m.pte[p][v].n) IN
         /\ Sound(r, sh, {}, o, want)
         /\ r.pte = Put(m.pte, p, v, NoPte) /\ r.tlb = m.tlb
<1> DEFINE P == m.pte
           C == m.charmap
           A == m.uva
           f == P[p][v].n
           P2 == Put(P, p, v, NoPte)
           C2 == Dropped(C, A, f)
           A2 == [A EXCEPT ![f] = A[f] - 1]
           i == IF A[f] = 1 THEN Min({f, m.ffree}) ELSE m.ffree
           n == [m EXCEPT !.pte[p][v] = NoPte]
           r == DropCow(n, f)
<1>1. /\ P \in PteMap /\ C \in CharMap /\ A \in [Frame -> Nat] /\ sh \in ShmType
      /\ Ptes(P) /\ Frames(P, C, A, {}) /\ Shm(P, C, A, sh, o) /\ m \in MemType
      /\ IsFirst(C, m.ffree, NPF) /\ m.halt = "no"
  BY SoundTypes
<1>2. /\ f \in Frame /\ C[f] = Shared /\ A[f] > 0
      /\ Frames(P2, C2, A2, {}) /\ Shm(P2, C2, A2, sh, o)
  BY <1>1, NoPteIs, CowDrops
<1>3. C2 \in CharMap /\ IsFirst(C2, i, NPF) /\ i \in 0 .. NPF
  BY <1>1, <1>2, DroppedFirst
<1>4. P2 \in PteMap /\ Ptes(P2) /\ Slots(P2, m.scharmap) /\ Reads(P2, m.page, m.disk, want)
  BY <1>1, SoundTypes, NoPteIs, PutIs, PtesPut, SlotsPut, ReadsPut
<1>5. n = [m EXCEPT !.pte = P2]
  BY DEF Put
<1> HIDE DEF n, P2
<1>6. n \in MemType /\ n.halt = "no" /\ n.charmap = C /\ n.uva = A /\ n.ffree = m.ffree
  <2>1. m \in MemType /\ m.halt = "no" /\ P2 \in PteMap
    BY <1>1, <1>4
  <2>2. n.halt = "no" /\ n.charmap = C /\ n.uva = A /\ n.ffree = m.ffree
    BY <1>5, <2>1 DEF MemType
  <2>3. n \in MemType
    BY <1>5, <2>1 DEF MemType
  <2> QED BY <2>2, <2>3
<1>7. A2 \in [Frame -> Nat]
  BY <1>1, <1>2
<1>8. r = [n EXCEPT !.charmap = C2, !.uva = A2, !.ffree = i]
  <2>1. n.charmap[f] = Shared /\ n.uva[f] > 0 /\ n.ffree \in 0 .. NPF
    BY <1>1, <1>2, <1>6 DEF IsFirst
  <2>2. DropCow(n, f) = [n EXCEPT !.charmap = Dropped(n.charmap, n.uva, f),
                     !.uva = [n.uva EXCEPT ![f] = n.uva[f] - 1],
                     !.ffree = IF n.uva[f] = 1 THEN Min({f, n.ffree}) ELSE n.ffree]
    BY <1>2, <1>6, <2>1, DropCowIs
  <2> QED BY <1>6, <2>2
<1> HIDE DEF r, C2, A2, i
<1>9. r = With(m, P2, C2, A2, i, m.page, m.tlb)
  BY <1>1, <1>5, <1>8 DEF With, MemType
<1>10. m.page \in [Frame -> Values] /\ m.tlb \in TlbMap
  BY SoundTypes
<1>11. r.pte = P2 /\ r.tlb = m.tlb
  BY <1>1, <1>3, <1>4, <1>7, <1>9, <1>10, WithIs
<1>12. Sound(r, sh, {}, o, want)
  BY <1>1, <1>2, <1>3, <1>4, <1>7, <1>9, <1>10, SoundWith
<1> QED BY <1>11, <1>12 DEF r, n, P2

\* The key of a shared memory page, and who else uses its frame.
KeyUse(P, C, A, sh, p, v, f, k) ==
  /\ P[p][v].at = "mem" /\ f \in Frame /\ <<p, v>> \in Users(P, f)
  /\ k \in Keys /\ sh[k].nproc > 0 /\ sh[k].pgidx = f
  /\ C[f] = Shared /\ A[f] = sh[k].nproc /\ ShmUsers(P, f)
  /\ \A q \in Proc : q \in sh[k].opid <=> \E u \in Page : <<q, u>> \in Users(P, f)
  /\ \A u, t \in Users(P, f) : u[1] = t[1] => u = t
  /\ \A l \in Keys : sh[l].nproc > 0 /\ sh[l].pgidx = f => l = k

\* shm_ctrl[] has the key of every shared memory page.
LEMMA KeyOf ==
  ASSUME NEW P \in PteMap, NEW C \in CharMap, NEW A, NEW sh \in ShmType, NEW o,
         Ptes(P), Shm(P, C, A, sh, o), NEW p \in Proc, NEW v \in Page, P[p][v].shm
  PROVE  KeyUse(P, C, A, sh, p, v, P[p][v].n, o[p][v])
<1> DEFINE f == P[p][v].n
           k == o[p][v]
<1>1. PteOk(P[p][v]) /\ P[p][v] \in Pte
  BY DEF Ptes, PteMap
<1>2. P[p][v].at = "mem" /\ f \in Frame
  BY <1>1, NoPteIs DEF PteOk, Pte
<1>3. <<p, v>> \in Users(P, f)
  BY <1>2, UsersIs
<1>4. k \in Keys /\ sh[k].nproc > 0 /\ sh[k].pgidx = f
  BY DEF Shm
<1>5. /\ C[sh[k].pgidx] = Shared /\ A[sh[k].pgidx] = sh[k].nproc /\ ShmUsers(P, sh[k].pgidx)
      /\ \A q \in Proc : q \in sh[k].opid <=> \E u \in Page : <<q, u>> \in Users(P, sh[k].pgidx)
      /\ \A u, t \in Users(P, sh[k].pgidx) : u[1] = t[1] => u = t
  BY <1>4 DEF Shm
<1>6. \A l \in Keys : sh[l].nproc > 0 /\ sh[l].pgidx = f => l = k
  BY <1>4 DEF Shm
<1> QED BY <1>2, <1>3, <1>4, <1>5, <1>6 DEF KeyUse

\* A page leaves the frame of its key, and with the last one the frame is free.
LEMMA ShmLeaves ==
  ASSUME NEW P \in PteMap, NEW p \in Proc, NEW v \in Page,
         NEW C \in CharMap, NEW A \in [Frame -> Nat], NEW sh \in ShmType, NEW o,
         Ptes(P), Frames(P, C, A, {}), Shm(P, C, A, sh, o), P[p][v].shm
  PROVE  LET f == P[p][v].n
             k == o[p][v]
             P2 == Put(P, p, v, NoPte)
             C2 == Dropped(C, A, f)
             A2 == [A EXCEPT ![f] = A[f] - 1]
             sh2 == [sh EXCEPT ![k].nproc = @ - 1, ![k].opid = @ \ {p}] IN
         Frames(P2, C2, A2, {}) /\ Shm(P2, C2, A2, sh2, o) /\ sh2 \in ShmType
<1> DEFINE f == P[p][v].n
           k == o[p][v]
           P2 == Put(P, p, v, NoPte)
           C2 == Dropped(C, A, f)
           A2 == [A EXCEPT ![f] = A[f] - 1]
           sh2 == [sh EXCEPT ![k].nproc = @ - 1, ![k].opid = @ \ {p}]
           U == Users(P, f)
<1>1. /\ f \in Frame /\ <<p, v>> \in U /\ P[p][v].at = "mem"
      /\ k \in Keys /\ sh[k].nproc > 0 /\ sh[k].pgidx = f
      /\ C[f] = Shared /\ A[f] = sh[k].nproc /\ ShmUsers(P, f)
      /\ \A q \in Proc : q \in sh[k].opid <=> \E u \in Page : <<q, u>> \in U
      /\ \A u, t \in U : u[1] = t[1] => u = t
      /\ \A l \in Keys : sh[l].nproc > 0 /\ sh[l].pgidx = f => l = k
  <2>1. KeyUse(P, C, A, sh, p, v, f, k)
    BY KeyOf
  <2> QED BY <2>1 DEF KeyUse
<1>2. FrameOk(P, C, A, f) /\ A[f] \in Nat /\ A[f] > 0
  BY <1>1 DEF Frames, ShmType
<1>3. Cardinality(U) = A[f] /\ IsFiniteSet(U)
  BY <1>1, <1>2, UsersArePairs DEF FrameOk
<1>4. Cardinality(U \ {<<p, v>>}) = A[f] - 1 /\ IsFiniteSet(U \ {<<p, v>>})
  <2> HIDE DEF U
  <2>1. <<p, v>> \in U /\ IsFiniteSet(U) /\ Cardinality(U) = A[f]
    BY <1>1, <1>3
  <2> QED BY <2>1, FS_RemoveElement
<1>5. \A g \in Frame : /\ g # f => C2[g] = C[g] /\ A2[g] = A[g]
                       /\ A2[f] = A[f] - 1
                       /\ A[f] = 1 => C2[f] = Free
                       /\ A[f] # 1 => C2[f] = Shared
  BY <1>1 DEF Dropped, CharMap
<1>6. Users(P2, f) = U \ {<<p, v>>} /\ \A g \in Frame : g # f => Users(P2, g) = Users(P, g)
  <2>1. \A g : Users(P2, g) = Users(P, g) \ {<<p, v>>}
    BY UsersPut, NoPteIs
  <2>2. \A g \in Frame : g # f => <<p, v>> \notin Users(P, g)
    BY DEF Users
  <2> QED BY <2>1, <2>2
<1>7. \A q \in Proc, u \in Page : P2[q][u] = IF q = p /\ u = v THEN NoPte ELSE P[q][u]
  BY PutIs, NoPteIs
<1>8. /\ sh2 \in ShmType
      /\ sh2[k].nproc = sh[k].nproc - 1 /\ sh2[k].opid = sh[k].opid \ {p} /\ sh2[k].pgidx = f
      /\ \A l \in Keys : l # k => sh2[l] = sh[l]
  BY <1>1 DEF ShmType
<1> HIDE DEF f, k, P2, C2, A2, sh2, U
<1>9. ASSUME NEW g \in Frame, ShmUsers(P, g) PROVE ShmUsers(P2, g)
  <2> SUFFICES ASSUME NEW t \in Users(P2, g) PROVE P2[t[1]][t[2]].shm
    BY DEF ShmUsers
  <2>1. t \in Users(P, g) /\ t # <<p, v>>
    <3>1. CASE g = f
      BY <1>6, <3>1 DEF U
    <3>2. CASE g # f
      <4>1. <<p, v>> \notin Users(P, g)
        BY <3>2 DEF Users, f
      <4> QED BY <1>6, <3>2, <4>1
    <3> QED BY <3>1, <3>2
  <2>2. t[1] \in Proc /\ t[2] \in Page /\ t = <<t[1], t[2]>>
    BY <2>1, UsersArePairs
  <2> QED BY <1>7, <1>9, <2>1, <2>2 DEF ShmUsers
<1>10. FrameOk(P2, C2, A2, f)
  <2>1. CASE A[f] = 1
    <3>1. Users(P2, f) = {}
      BY <1>4, <1>6, <2>1, FS_EmptySet
    <3> QED BY <1>1, <1>5, <2>1, <3>1, Constants DEF FrameOk
  <2>2. CASE A[f] # 1
    <3>1. C2[f] = Shared /\ Cardinality(Users(P2, f)) = A2[f] /\ A2[f] > 0 /\ ShmUsers(P2, f)
      BY <1>1, <1>2, <1>4, <1>5, <1>6, <1>9, <2>2
    <3> QED BY <3>1, Constants DEF FrameOk
  <2> QED BY <2>1, <2>2
<1>11. Frames(P2, C2, A2, {})
  <2> SUFFICES ASSUME NEW g \in Frame, g # f PROVE FrameOk(P2, C2, A2, g)
    BY <1>10 DEF Frames
  <2>1. C2[g] = C[g] /\ A2[g] = A[g]
    BY <1>5
  <2> QED BY <2>1, NoPteIs, FramesElse DEF P2, f
<1>12. \A l \in Keys : sh2[l].nproc > 0 =>
         sh[l].nproc > 0 /\ sh2[l].pgidx = sh[l].pgidx
  BY <1>1, <1>8
<1>13. ASSUME NEW l \in Keys, sh2[l].nproc > 0
       PROVE  LET g == sh2[l].pgidx IN
              /\ C2[g] = Shared /\ A2[g] = sh2[l].nproc /\ ShmUsers(P2, g)
              /\ \A q \in Proc : q \in sh2[l].opid <=> \E u \in Page : <<q, u>> \in Users(P2, g)
              /\ \A u, t \in Users(P2, g) : u[1] = t[1] => u = t
  <2>1. CASE l = k
    <3>1. sh2[l].pgidx = f /\ A2[f] = sh2[l].nproc /\ C2[f] = Shared /\ ShmUsers(P2, f)
      BY <1>1, <1>2, <1>5, <1>8, <1>9, <1>13, <2>1
    <3>2. ASSUME NEW q \in Proc
          PROVE  q \in sh2[l].opid <=> \E u \in Page : <<q, u>> \in Users(P2, f)
      <4>1. CASE q = p
        <5>1. q \notin sh2[l].opid
          BY <1>8, <2>1, <4>1
        <5>2. ASSUME NEW u \in Page, <<q, u>> \in Users(P2, f) PROVE FALSE
          <6>1. <<p, u>> \in U /\ <<p, u>> # <<p, v>>
            BY <1>6, <4>1, <5>2
          <6> QED BY <1>1, <6>1
        <5> QED BY <5>1, <5>2
      <4>2. CASE q # p
        <5>1. q \in sh2[l].opid <=> q \in sh[k].opid
          BY <1>8, <2>1, <4>2
        <5>2. \A u \in Page : <<q, u>> \in Users(P2, f) <=> <<q, u>> \in U
          BY <1>6, <4>2
        <5> QED BY <1>1, <5>1, <5>2
      <4> QED BY <4>1, <4>2
    <3>3. \A u, t \in Users(P2, f) : u[1] = t[1] => u = t
      BY <1>1, <1>6
    <3> QED BY <3>1, <3>2, <3>3
  <2>2. CASE l # k
    <3> DEFINE g == sh[l].pgidx
    <3>1. sh2[l] = sh[l] /\ sh[l].nproc > 0 /\ g \in Frame
      BY <1>8, <1>13, <2>2 DEF ShmType
    <3>2. /\ C[g] = Shared /\ A[g] = sh[l].nproc /\ ShmUsers(P, g)
          /\ \A q \in Proc : q \in sh[l].opid <=> \E u \in Page : <<q, u>> \in Users(P, g)
          /\ \A u, t \in Users(P, g) : u[1] = t[1] => u = t
      BY <3>1 DEF Shm
    <3> HIDE DEF g
    <3>3. g # f
      BY <1>1, <2>2, <3>1 DEF g
    <3>4. Users(P2, g) = Users(P, g) /\ C2[g] = C[g] /\ A2[g] = A[g] /\ ShmUsers(P2, g)
      BY <1>5, <1>6, <1>9, <3>1, <3>2, <3>3
    <3>5. /\ C2[g] = Shared /\ A2[g] = sh2[l].nproc /\ ShmUsers(P2, g)
          /\ \A q \in Proc : q \in sh2[l].opid <=> \E u \in Page : <<q, u>> \in Users(P2, g)
          /\ \A u, t \in Users(P2, g) : u[1] = t[1] => u = t
      BY <3>1, <3>2, <3>4
    <3> QED BY <3>1, <3>5 DEF g
  <2> QED BY <2>1, <2>2
<1>14. \A l, j \in Keys : sh2[l].nproc > 0 /\ sh2[j].nproc > 0 /\ sh2[l].pgidx = sh2[j].pgidx => l = j
  <2>1. \A l, j \in Keys : sh[l].nproc > 0 /\ sh[j].nproc > 0 /\ sh[l].pgidx = sh[j].pgidx => l = j
    BY DEF Shm
  <2> QED BY <1>12, <2>1
<1>15. ASSUME NEW q \in Proc, NEW u \in Page, P2[q][u].shm
       PROVE  o[q][u] \in Keys /\ sh2[o[q][u]].nproc > 0 /\ sh2[o[q][u]].pgidx = P2[q][u].n
  <2>1. ~(q = p /\ u = v) /\ P2[q][u] = P[q][u]
    BY <1>7, <1>15, NoPteIs
  <2>2. /\ o[q][u] \in Keys /\ sh[o[q][u]].nproc > 0 /\ sh[o[q][u]].pgidx = P[q][u].n
        /\ <<q, u>> \in Users(P, P[q][u].n)
    <3>1. KeyUse(P, C, A, sh, q, u, P[q][u].n, o[q][u])
      BY <1>15, <2>1, KeyOf
    <3> QED BY <3>1 DEF KeyUse
  <2>3. CASE o[q][u] # k
    BY <1>8, <2>1, <2>2, <2>3
  <2>4. CASE o[q][u] = k
    <3>1. <<q, u>> \in U \ {<<p, v>>}
      BY <1>1, <2>1, <2>2, <2>4 DEF U
    <3>2. A[f] - 1 # 0
      BY <1>4, <3>1, FS_EmptySet
    <3>3. sh2[k].nproc > 0
      BY <1>1, <1>2, <1>8, <3>2
    <3> QED BY <1>1, <1>8, <2>1, <2>2, <2>4, <3>3
  <2> QED BY <2>3, <2>4
<1>16. Shm(P2, C2, A2, sh2, o)
  BY <1>13, <1>14, <1>15 DEF Shm
<1> QED BY <1>8, <1>11, <1>16 DEF f, k, P2, C2, A2, sh2

\* shm_page_dt() passes its checks, and everything is accounted for afterwards.
LEMMA DetachIs ==
  ASSUME NEW m, NEW sh, NEW o, NEW want, Sound(m, sh, {}, o, want),
         NEW p \in Proc, NEW v \in Page, m.pte[p][v].shm
  PROVE  LET d == Detach(m, sh, p, v) IN
         /\ Sound(d.m, d.shm, {}, o, want)
         /\ d.m.pte = Put(m.pte, p, v, NoPte) /\ d.m.tlb = m.tlb
<1> DEFINE P == m.pte
           C == m.charmap
           A == m.uva
           f == P[p][v].n
           k == o[p][v]
           P2 == Put(P, p, v, NoPte)
           C2 == Dropped(C, A, f)
           A2 == [A EXCEPT ![f] = A[f] - 1]
           i == IF A[f] = 1 THEN Min({f, m.ffree}) ELSE m.ffree
           sh2 == [sh EXCEPT ![k].nproc = @ - 1, ![k].opid = @ \ {p}]
           ks == {l \in Keys : sh[l].nproc > 0 /\ sh[l].pgidx = f}
           m1 == [m EXCEPT !.pte[p][v] = NoPte, !.uva[f] = @ - 1]
           d == Detach(m, sh, p, v)
<1>1. /\ P \in PteMap /\ C \in CharMap /\ A \in [Frame -> Nat] /\ sh \in ShmType
      /\ Ptes(P) /\ Frames(P, C, A, {}) /\ Shm(P, C, A, sh, o) /\ m \in MemType
      /\ IsFirst(C, m.ffree, NPF) /\ m.halt = "no"
  BY SoundTypes
<1>2. /\ f \in Frame /\ <<p, v>> \in Users(P, f) /\ P[p][v].at = "mem"
      /\ k \in Keys /\ sh[k].nproc > 0 /\ sh[k].pgidx = f
      /\ C[f] = Shared /\ A[f] = sh[k].nproc
      /\ \A q \in Proc : q \in sh[k].opid <=> \E u \in Page : <<q, u>> \in Users(P, f)
      /\ \A l \in Keys : sh[l].nproc > 0 /\ sh[l].pgidx = f => l = k
  <2>1. KeyUse(P, C, A, sh, p, v, f, k)
    BY <1>1, KeyOf
  <2> QED BY <2>1 DEF KeyUse
<1>3. Frames(P2, C2, A2, {}) /\ Shm(P2, C2, A2, sh2, o) /\ sh2 \in ShmType
  BY <1>1, ShmLeaves
<1>4. ks = {k} /\ (CHOOSE l \in ks : TRUE) = k /\ p \in sh[k].opid /\ A[f] > 0
  BY <1>1, <1>2 DEF ShmType
<1>5. C2 \in CharMap /\ IsFirst(C2, i, NPF) /\ i \in 0 .. NPF
  BY <1>1, <1>2, DroppedFirst
<1>6. P2 \in PteMap /\ Ptes(P2) /\ Slots(P2, m.scharmap) /\ Reads(P2, m.page, m.disk, want)
  BY <1>1, <1>2, SoundTypes, NoPteIs, PutIs, PtesPut, SlotsPut, ReadsPut
<1>7. A2 \in [Frame -> Nat]
  BY <1>1, <1>2, <1>4
<1>8. d = [m |-> IF sh[k].nproc = 1 THEN FreePage(m1, f) ELSE m1, shm |-> sh2]
  <2> DEFINE j == CHOOSE l \in ks : TRUE
  <2>1. d = IF \/ m.pte[p][v].at # "mem" \/ ks = {}
            THEN [m |-> [m EXCEPT !.halt = "shm not found"], shm |-> sh]
            ELSE IF p \notin sh[j].opid \/ m.uva[f] # sh[j].nproc
            THEN [m |-> [m EXCEPT !.halt = "shm count"], shm |-> sh]
            ELSE [m |-> IF sh[j].nproc = 1 THEN FreePage(m1, f) ELSE m1,
                  shm |-> [sh EXCEPT ![j].nproc = @ - 1, ![j].opid = @ \ {p}]]
    BY DEF Detach
  <2>2. j = k /\ ks # {}
    BY <1>4
  <2> HIDE DEF ks, k, m1, j, d
  <2> QED BY <1>2, <1>4, <2>1, <2>2
<1>9. m1 = [m EXCEPT !.pte = P2, !.uva = A2]
  BY <1>1 DEF Put, MemType
<1> HIDE DEF m1, P2, A2, sh2, d
<1>10. m1 \in MemType /\ m1.halt = "no" /\ m1.charmap = C /\ m1.ffree = m.ffree
  BY <1>1, <1>6, <1>7, <1>9 DEF MemType
<1>11. d.shm = sh2 /\ d.m = [m1 EXCEPT !.charmap = C2, !.ffree = i]
  <2>1. CASE A[f] = 1
    <3>1. FreePage(m1, f) = [m1 EXCEPT !.charmap = C2, !.ffree = i]
      <4>1. FreePage(m1, f) = [m1 EXCEPT !.charmap[f] = Free, !.ffree = Min({f, m1.ffree})]
        BY <1>2, <1>10, Constants DEF FreePage, Ok
      <4> QED BY <1>10, <2>1, <4>1 DEF Dropped, MemType
    <3> HIDE DEF C2, i
    <3> QED BY <1>2, <1>8, <2>1, <3>1
  <2>2. CASE A[f] # 1
    <3>1. C2 = C /\ i = m.ffree
      BY <2>2 DEF Dropped
    <3> HIDE DEF C2, i
    <3>2. m1 = [m1 EXCEPT !.charmap = C2, !.ffree = i]
      BY <1>10, <3>1 DEF MemType
    <3> QED BY <1>2, <1>8, <2>2, <3>2
  <2> QED BY <2>1, <2>2
<1> HIDE DEF C2, i
<1>12. d.m = With(m, P2, C2, A2, i, m.page, m.tlb)
  BY <1>1, <1>9, <1>11 DEF With, MemType
<1>13. m.page \in [Frame -> Values] /\ m.tlb \in TlbMap
  BY SoundTypes
<1>14. d.m.pte = P2 /\ d.m.tlb = m.tlb
  BY <1>1, <1>5, <1>6, <1>7, <1>12, <1>13, WithIs
<1>15. Sound(d.m, d.shm, {}, o, want)
  BY <1>1, <1>3, <1>5, <1>6, <1>7, <1>11, <1>12, <1>13, SoundWith
<1> QED BY <1>14, <1>15 DEF d, P2

\* A page is mapped to the frame that has been allocated for it.
LEMMA MapsIt ==
  ASSUME NEW P \in PteMap, NEW p \in Proc, NEW v \in Page, NEW e \in Pte,
         NEW C \in CharMap, NEW A, NEW g \in Frame, NEW sh \in ShmType, NEW o,
         Ptes(P), Frames(P, C, A, {g}), Shm(P, C, A, sh, o), P[p][v].at # "mem",
         e.at = "mem", e.n = g, e.w, ~e.cow, ~e.shm, C[g] = p, A[g] = v
  PROVE  LET P2 == Put(P, p, v, e) IN
         P2 \in PteMap /\ Ptes(P2) /\ Frames(P2, C, A, {}) /\ Shm(P2, C, A, sh, o)
<1> DEFINE P2 == Put(P, p, v, e)
<1>1. P2 \in PteMap /\ P2[p][v] = e
  BY PutIs
<1>2. Ptes(P2)
  <2>1. PteOk(e)
    BY DEF PteOk
  <2> QED BY <2>1, PtesPut
<1>3. FrameOk(P2, C, A, g)
  <2>1. Users(P2, g) = Users(P, g) \cup {<<p, v>>} /\ Users(P, g) = {}
    BY UsersPut DEF Frames
  <2> HIDE DEF P2
  <2> QED BY <1>1, <2>1, Constants DEF FrameOk
<1>4. ASSUME NEW f \in Frame, f # g PROVE FrameOk(P2, C, A, f)
  <2>1. f \notin {g} /\ (P[p][v].at = "mem" => P[p][v].n # f) /\ (e.at = "mem" => e.n # f)
    BY <1>4
  <2> QED BY <2>1, FramesElse
<1>5. Shm(P2, C, A, sh, o)
  <2>1. ~P[p][v].shm
    <3>1. P[p][v].shm => KeyUse(P, C, A, sh, p, v, P[p][v].n, o[p][v])
      BY KeyOf
    <3> QED BY <3>1 DEF KeyUse
  <2>2. C[g] # Shared
    BY Constants
  <2>3. ShmKept(P, C, A, P2, C, A)
    BY <2>1, <2>2, ShmPut
  <2> HIDE DEF P2
  <2> QED BY <2>3, ShmStays
<1> HIDE DEF P2
<1>6. Frames(P2, C, A, {})
  BY <1>3, <1>4 DEF Frames
<1> QED BY <1>1, <1>2, <1>5, <1>6 DEF P2

\* The frame of a page that goes to the disk is out of use.
LEMMA VictimLeaves ==
  ASSUME NEW P \in PteMap, NEW q \in Proc, NEW u \in Page, NEW e \in Pte,
         NEW C \in CharMap, NEW A \in [Frame -> Nat], NEW SC \in SwapMap,
         NEW pg, NEW dk \in [Slot -> Values], NEW want,
         NEW sh \in ShmType, NEW o, NEW f \in Frame, NEW s \in Slot,
         NEW p \in Proc, NEW v \in Page,
         Ptes(P), Frames(P, C, A, {}), Slots(P, SC), Shm(P, C, A, sh, o), Reads(P, pg, dk, want),
         C[f] = q, A[f] = u, SC[s] = Free,
         e.at = "disk", e.n = s, e.w, ~e.cow, ~e.shm
  PROVE  LET P2 == Put(P, q, u, e)
             C2 == [C EXCEPT ![f] = p]
             A2 == [A EXCEPT ![f] = v] IN
         /\ P2 \in PteMap /\ Ptes(P2) /\ Frames(P2, C2, A2, {f})
         /\ Slots(P2, [SC EXCEPT ![s] = q])
         /\ Shm(P2, C2, A2, sh, o) /\ Reads(P2, pg, [dk EXCEPT ![s] = pg[f]], want)
<1> DEFINE P2 == Put(P, q, u, e)
           C2 == [C EXCEPT ![f] = p]
           A2 == [A EXCEPT ![f] = v]
           SC2 == [SC EXCEPT ![s] = q]
           dk2 == [dk EXCEPT ![s] = pg[f]]
<1>1. /\ Users(P, f) = {<<q, u>>} /\ P[q][u].at = "mem" /\ P[q][u].n = f
      /\ ~P[q][u].cow /\ ~P[q][u].shm
  <2>1. FrameOk(P, C, A, f)
    BY DEF Frames
  <2>2. Users(P, f) = {<<q, u>>} /\ ~P[q][u].cow /\ ~P[q][u].shm
    BY <2>1 DEF FrameOk
  <2>3. <<q, u>> \in Users(P, f) <=> P[q][u].at = "mem" /\ P[q][u].n = f
    BY DEF Users
  <2> QED BY <2>2, <2>3
<1>2. P2 \in PteMap /\ Ptes(P2)
  <2>1. PteOk(e)
    BY DEF PteOk
  <2> QED BY <2>1, PutIs, PtesPut
<1>3. /\ C2[f] = p /\ A2[f] = v /\ \A g \in Frame : g # f => C2[g] = C[g] /\ A2[g] = A[g]
      /\ C[f] # Shared
  BY Constants DEF CharMap
<1> HIDE DEF C2, A2
<1>4. Frames(P2, C2, A2, {f})
  <2>1. Users(P2, f) = {}
    BY <1>1, UsersPut
  <2>2. ASSUME NEW g \in Frame, g # f PROVE FrameOk(P2, C2, A2, g)
    <3>1. C2[g] = C[g] /\ A2[g] = A[g] /\ g \notin {}
      BY <1>3, <2>2
    <3> HIDE DEF P2
    <3> QED BY <1>1, <2>2, <3>1, FramesElse DEF P2
  <2> HIDE DEF P2
  <2> QED BY <1>3, <2>1, <2>2 DEF Frames
<1>5. ASSUME NEW t \in Slot PROVE SlotOk(P2, SC2, t)
  <2>1. SlotOk(P, SC, t) /\ <<q, u>> \notin Swapped(P, t)
    BY <1>1 DEF Slots, Swapped
  <2>2. CASE t = s
    <3>1. SC2[t] = q /\ Swapped(P, t) = {}
      BY <2>1, <2>2 DEF SlotOk, SwapMap
    <3>2. Swapped(P2, t) = {<<q, u>>}
      BY <2>2, <3>1, UsersPut
    <3>3. <<q, u>> \in Pair
      BY DEF Pair
    <3> HIDE DEF SC2, P2
    <3> QED BY <3>1, <3>2, <3>3, Constants DEF SlotOk
  <2>3. CASE t # s
    <3>1. SC2[t] = SC[t]
      BY <2>3 DEF SwapMap
    <3> HIDE DEF SC2
    <3> QED BY <2>1, <2>3, <3>1, SlotElse
  <2> QED BY <2>2, <2>3
<1>6. Slots(P2, SC2)
  BY <1>5 DEF Slots
<1>7. Shm(P2, C2, A2, sh, o)
  <2>1. ASSUME NEW g \in Frame, C[g] = Shared
        PROVE  C2[g] = Shared /\ A2[g] = A[g] /\ ~(e.at = "mem" /\ e.n = g)
    BY <1>3, <2>1
  <2>2. ShmKept(P, C, A, P2, C2, A2)
    BY <1>1, <2>1, ShmPut
  <2> HIDE DEF P2
  <2> QED BY <2>2, ShmStays
<1>8. Reads(P2, pg, dk2, want)
  <2>1. dk2[s] = pg[f] /\ \A t \in Slot : t # s => dk2[t] = dk[t]
    OBVIOUS
  <2>2. pg[f] = want[q][u]
    BY <1>1 DEF Reads
  <2>3. ASSUME NEW x \in Proc, NEW y \in Page, P[x][y].at = "disk"
        PROVE  dk2[P[x][y].n] = dk[P[x][y].n]
    <3>1. P[x][y].n \in Slot /\ SC[P[x][y].n] # Free
      BY <2>3, SlotOf
    <3> QED BY <2>1, <3>1
  <2> HIDE DEF dk2
  <2> QED BY <2>1, <2>2, <2>3, ReadsPut
<1> QED BY <1>2, <1>4, <1>6, <1>7, <1>8 DEF P2, C2, A2
-----------------------------------------------------------------------------
(* alloc_page().                                                           *)

\* Table P2 is P with some accessed bits cleared.
Cleared(P, P2) ==
  \A q \in Proc, u \in Page :
    \/ P2[q][u] = P[q][u]
    \/ P[q][u].at = "mem" /\ \E b \in BOOLEAN : P2[q][u] = [P[q][u] EXCEPT !.a = b]

\* Memory m after hart c has written page u of q in frame f to the swap area.
OnDisk(P, q, u, s) == [P[q][u] EXCEPT !.at = "disk", !.n = s, !.a = FALSE]
SwappedOut(m, c, f, q, u, P1, ck) ==
  LET s == m.sffree
      SC == [m.scharmap EXCEPT ![s] = q] IN
  [m EXCEPT !.pte = Put(P1, q, u, OnDisk(m.pte, q, u, s)),
            !.scharmap = SC, !.sffree = FirstFree(SC, s, NPSWAP),
            !.disk = [m.disk EXCEPT ![s] = m.page[f]], !.clock_pt = ck,
            !.tlb = [m.tlb EXCEPT ![c] = [m.tlb[c] EXCEPT ![u] = NoEntry]],
            !.ffree = f]
Exhausted(m) == m.halt \in {"no victim", "swap full"}

\* swap_to_disk(), when no frame is free, finds a private page of a process that
\* runs on no other hart, or gives up.
LEMMA SwapToDiskIs ==
  ASSUME NEW m, NEW sh, NEW o, NEW want, Sound(m, sh, {}, o, want), NEW c \in Cpu,
         \A f \in Frame : m.charmap[f] # Free
  PROVE  LET r == SwapToDisk(m, c) IN
         \/ Exhausted(r)
         \/ \E f \in Frame, q \in Proc, u \in Page, P1 \in PteMap, ck \in Frame :
              /\ m.charmap[f] = q /\ m.uva[f] = u /\ m.sffree < NPSWAP
              /\ \A d \in Cpu \ {c} : current[d] # q
              /\ Cleared(m.pte, P1)
              /\ r = SwappedOut(m, c, f, q, u, P1, ck)
<1> DEFINE P == m.pte
           at(j) == (m.clock_pt + j) % NPF
           pid(j) == m.charmap[at(j)]
           cand == {j \in Frame : Evictable(m, c, at(j))}
           old  == {j \in cand : ~P[pid(j)][m.uva[at(j)]].a}
           k    == Min(IF old # {} THEN old ELSE cand)
           seen == {<<pid(j), m.uva[at(j)]>> : j \in IF old # {} THEN {j \in cand : j < k} ELSE cand}
           p == pid(k)
           v == m.uva[at(k)]
           s == m.sffree
           P1 == [q \in Proc |-> [u \in Page |-> IF <<q, u>> \in seen THEN [P[q][u] EXCEPT !.a = FALSE] ELSE P[q][u]]]
           P2 == [q \in Proc |-> [u \in Page |->
                       IF <<q, u>> = <<p, v>>
                       THEN [P[q][u] EXCEPT !.at = "disk", !.n = s, !.a = FALSE]
                       ELSE IF <<q, u>> \in seen THEN [P[q][u] EXCEPT !.a = FALSE]
                       ELSE P[q][u]]]
           r == SwapToDisk(m, c)
<1>1. /\ P \in PteMap /\ m.charmap \in CharMap /\ m.uva \in [Frame -> Nat] /\ m \in MemType
      /\ Ptes(P) /\ Frames(P, m.charmap, m.uva, {}) /\ m.clock_pt \in Frame
      /\ s \in 0 .. NPSWAP /\ m.tlb \in TlbMap /\ m.halt = "no"
  BY SoundTypes
<1>2. \A j \in Frame : at(j) \in Frame
  BY <1>1, Constants DEF Frame
<1>3. ASSUME NEW j \in cand
      PROVE  /\ pid(j) \in Proc /\ m.uva[at(j)] \in Page /\ P[pid(j)][m.uva[at(j)]].at = "mem"
             /\ \A d \in Cpu \ {c} : current[d] # pid(j)
  <2> DEFINE f == at(j)
  <2>1. f \in Frame /\ m.charmap[f] # Shared /\ \A d \in Cpu \ {c} : current[d] # m.charmap[f]
    BY <1>2 DEF Evictable
  <2> HIDE DEF f
  <2>2. m.charmap[f] \in Proc
    BY <1>1, <2>1 DEF CharMap
  <2>3. FrameOk(P, m.charmap, m.uva, f)
    BY <1>1, <2>1 DEF Frames
  <2>4. m.uva[f] \in Page /\ <<m.charmap[f], m.uva[f]>> \in Users(P, f)
    BY <2>2, <2>3 DEF FrameOk
  <2>5. P[m.charmap[f]][m.uva[f]].at = "mem"
    BY <2>4 DEF Users
  <2> QED BY <2>1, <2>2, <2>4, <2>5 DEF f
<1>4. CASE cand = {}
  <2>1. ~\E j \in cand : pid(j) \notin Proc \/ P[pid(j)][m.uva[at(j)]].at # "mem"
    BY <1>4
  <2>2. r = [m EXCEPT !.halt = "no victim"]
    BY <1>4, <2>1 DEF SwapToDisk
  <2> HIDE DEF r
  <2>3. r.halt = "no victim"
    BY <1>1, <2>2 DEF MemType
  <2> QED BY <2>3 DEF r, Exhausted
<1>5. CASE cand # {} /\ s >= NPSWAP
  <2>1. ~\E j \in cand : pid(j) \notin Proc \/ P[pid(j)][m.uva[at(j)]].at # "mem"
    BY <1>3
  <2>2. r = [m EXCEPT !.halt = "swap full"]
    BY <1>5, <2>1 DEF SwapToDisk
  <2> HIDE DEF r
  <2>3. r.halt = "swap full"
    BY <1>1, <2>2 DEF MemType
  <2> QED BY <2>3 DEF r, Exhausted
<1>6. CASE cand # {} /\ ~(s >= NPSWAP)
  <2>1. ~\E j \in cand : pid(j) \notin Proc \/ P[pid(j)][m.uva[at(j)]].at # "mem"
    BY <1>3
  <2>2. r = [m EXCEPT
            !.pte = P2,
            !.scharmap[s] = p, !.sffree = FirstFree([m.scharmap EXCEPT ![s] = p], s, NPSWAP),
            !.disk[s] = m.page[at(k)], !.clock_pt = (at(k) + 1) % NPF,
            !.tlb[c][v] = NoEntry, !.ffree = at(k)]
    BY <1>6, <2>1 DEF SwapToDisk
  <2>3. k \in cand
    <3>1. (IF old # {} THEN old ELSE cand) \in SUBSET Nat /\ (IF old # {} THEN old ELSE cand) # {}
      <4>1. cand \subseteq Frame /\ old \subseteq cand
        BY Zenon
      <4>2. Frame \subseteq Nat
        BY Constants DEF Frame
      <4> HIDE DEF cand, old
      <4> QED BY <1>6, <4>1, <4>2
    <3>2. k \in (IF old # {} THEN old ELSE cand)
      BY <3>1, MinOf
    <3> QED BY <3>2
  <2>4. \A t \in seen : t[1] \in Proc /\ t[2] \in Page /\ P[t[1]][t[2]].at = "mem"
    <3> SUFFICES ASSUME NEW j \in cand, NEW t, t = <<pid(j), m.uva[at(j)]>>
                 PROVE  t[1] \in Proc /\ t[2] \in Page /\ P[t[1]][t[2]].at = "mem"
      OBVIOUS
    <3> HIDE DEF cand, at, pid
    <3> QED BY <1>3
  <2>5. /\ p \in Proc /\ v \in Page /\ at(k) \in Frame /\ (at(k) + 1) % NPF \in Frame
        /\ P[p][v].at = "mem" /\ \A d \in Cpu \ {c} : current[d] # p
    <3>1. p \in Proc /\ v \in Page /\ P[p][v].at = "mem" /\ \A d \in Cpu \ {c} : current[d] # p
      BY <1>3, <2>3
    <3>2. at(k) \in Frame
      BY <1>2, <2>3
    <3> HIDE DEF at, k
    <3>3. (at(k) + 1) % NPF \in Frame
      BY <3>2, Constants DEF Frame
    <3> QED BY <3>1, <3>2, <3>3
  <2> DEFINE f == at(k)
             ck == (f + 1) % NPF
  <2> HIDE DEF at, k, seen, cand, old, pid
  <2>6. P1 \in PteMap /\ Cleared(P, P1)
    <3>1. \A q \in Proc, u \in Page : P[q][u] \in Pte
      BY <1>1 DEF PteMap
    <3>2. \A q \in Proc, u \in Page : [P[q][u] EXCEPT !.a = FALSE] \in Pte
      BY <3>1 DEF Pte
    <3>3. P1 \in PteMap
      BY <3>1, <3>2 DEF PteMap
    <3>4. ASSUME NEW q \in Proc, NEW u \in Page
          PROVE  \/ P1[q][u] = P[q][u]
                 \/ P[q][u].at = "mem" /\ \E b \in BOOLEAN : P1[q][u] = [P[q][u] EXCEPT !.a = b]
      <4>1. P1[q][u] = IF <<q, u>> \in seen THEN [P[q][u] EXCEPT !.a = FALSE] ELSE P[q][u]
        OBVIOUS
      <4>2. <<q, u>> \in seen => P[q][u].at = "mem"
        BY <2>4
      <4> QED BY <4>1, <4>2
    <3> HIDE DEF P1
    <3> QED BY <3>3, <3>4 DEF Cleared
  <2>7. P2 = Put(P1, p, v, OnDisk(P, p, v, s))
    BY <2>5 DEF Put, OnDisk
  <2> HIDE DEF P1, P2, p, v, f, ck, r
  <2>8. r = SwappedOut(m, c, f, p, v, P1, ck)
    <3> DEFINE SC == [m.scharmap EXCEPT ![s] = p]
               sf == FirstFree(SC, s, NPSWAP)
               dk == [m.disk EXCEPT ![s] = m.page[f]]
               tl == [m.tlb EXCEPT ![c] = [m.tlb[c] EXCEPT ![v] = NoEntry]]
    <3>1. r = [m EXCEPT !.pte = P2, !.scharmap = SC, !.sffree = sf, !.disk = dk, !.clock_pt = ck,
                        !.tlb = tl, !.ffree = f]
      BY <2>2 DEF p, v, f, ck
    <3> HIDE DEF SC, sf, dk, tl
    <3>2. SwappedOut(m, c, f, p, v, P1, ck) =
            [m EXCEPT !.pte = Put(P1, p, v, OnDisk(P, p, v, s)), !.scharmap = SC, !.sffree = sf,
                      !.disk = dk, !.clock_pt = ck, !.tlb = tl, !.ffree = f]
      BY DEF SwappedOut, SC, sf, dk, tl
    <3> QED BY <2>7, <3>1, <3>2
  <2>9. m.charmap[f] = p /\ m.uva[f] = v /\ s < NPSWAP
    BY <1>1, <1>6, Constants DEF p, v, f, pid
  <2>10. f \in Frame /\ ck \in Frame
    BY <2>5 DEF f, ck
  <2>11. \E x \in Frame, q \in Proc, u \in Page, P3 \in PteMap, ck2 \in Frame :
              /\ m.charmap[x] = q /\ m.uva[x] = u /\ m.sffree < NPSWAP
              /\ \A d \in Cpu \ {c} : current[d] # q
              /\ Cleared(m.pte, P3)
              /\ r = SwappedOut(m, c, x, q, u, P3, ck2)
    BY <2>5, <2>6, <2>8, <2>9, <2>10
  <2> QED BY <2>11 DEF r
<1> QED BY <1>4, <1>5, <1>6

\* What alloc_page() does to PTEs: a private page may go to the disk, accessed
\* bits may be cleared.
KeptPtes(P, P2) ==
  \A q \in Proc, u \in Page :
    LET e == P[q][u]   d == P2[q][u] IN
    /\ e.at # "mem" => d = e
    /\ e.at = "mem" => d.at # "none"
    /\ d.shm = e.shm /\ d.cow = e.cow /\ d.w = e.w
    /\ e.at = "mem" /\ (e.shm \/ e.cow) => d.at = "mem" /\ d.n = e.n

\* Memory r is m with a frame allocated for page v of p.
Allocated(m, r, p, v) ==
  /\ r.charmap[r.got] = p /\ r.uva[r.got] = v /\ r.page = m.page
  /\ KeptPtes(m.pte, r.pte)
  /\ TlbOk(m.pte, m.tlb, current) => TlbOk(r.pte, r.tlb, current)

\* A frame that swap_to_disk() has emptied is given out.
LEMMA ClaimSwapped ==
  ASSUME NEW m, NEW sh, NEW o, NEW want, Sound(m, sh, {}, o, want), NEW c \in Cpu,
         NEW p \in Proc, NEW v \in Page, \A g \in Frame : m.charmap[g] # Free,
         NEW f \in Frame, NEW q \in Proc, NEW u \in Page, NEW P1 \in PteMap, NEW ck \in Frame,
         m.charmap[f] = q, m.uva[f] = u, m.sffree < NPSWAP,
         \A d \in Cpu \ {c} : current[d] # q, Cleared(m.pte, P1)
  PROVE  LET r == Claim(SwappedOut(m, c, f, q, u, P1, ck), TRUE, p, v) IN
         Sound(r, sh, {r.got}, o, want) /\ Allocated(m, r, p, v)
<1> DEFINE P == m.pte
           C == m.charmap
           A == m.uva
           s == m.sffree
           e == OnDisk(P, q, u, s)
           P2 == Put(P1, q, u, e)
           C2 == [C EXCEPT ![f] = p]
           A2 == [A EXCEPT ![f] = v]
           SC2 == [m.scharmap EXCEPT ![s] = q]
           sf == FirstFree(SC2, s, NPSWAP)
           dk == [m.disk EXCEPT ![s] = m.page[f]]
           tl == [m.tlb EXCEPT ![c] = [m.tlb[c] EXCEPT ![u] = NoEntry]]
           m1 == SwappedOut(m, c, f, q, u, P1, ck)
           r == Claim(m1, TRUE, p, v)
<1>1. /\ P \in PteMap /\ C \in CharMap /\ A \in [Frame -> Nat] /\ sh \in ShmType
      /\ m.scharmap \in SwapMap /\ m.disk \in [Slot -> Values] /\ m.page \in [Frame -> Values]
      /\ Ptes(P) /\ Frames(P, C, A, {}) /\ Slots(P, m.scharmap) /\ Shm(P, C, A, sh, o)
      /\ Reads(P, m.page, m.disk, want) /\ IsFirst(m.scharmap, s, NPSWAP)
      /\ m \in MemType /\ m.halt = "no" /\ m.tlb \in TlbMap
  BY SoundTypes
<1>2. /\ Ptes(P1) /\ Frames(P1, C, A, {}) /\ Slots(P1, m.scharmap) /\ Shm(P1, C, A, sh, o)
      /\ Reads(P1, m.page, m.disk, want)
      /\ TlbOk(P, m.tlb, current) => TlbOk(P1, m.tlb, current)
  BY <1>1, AccessedOnly DEF Cleared
<1>3. /\ P[q][u] \in Pte /\ P[q][u].at = "mem" /\ P[q][u].w /\ ~P[q][u].cow /\ ~P[q][u].shm
  <2>1. FrameOk(P, C, A, f)
    BY <1>1 DEF Frames
  <2>2. Users(P, f) = {<<q, u>>} /\ P[q][u].w /\ ~P[q][u].cow /\ ~P[q][u].shm
    BY <2>1 DEF FrameOk
  <2>3. P[q][u].at = "mem"
    <3>1. <<q, u>> \in Users(P, f)
      BY <2>2
    <3> QED BY <3>1, <1>1 DEF Users
  <2>4. P[q][u] \in Pte
    BY <1>1 DEF PteMap
  <2> QED BY <2>2, <2>3, <2>4
<1>4. s \in Slot /\ s \in Nat /\ s < NPSWAP /\ m.scharmap[s] = Free
  BY <1>1, Constants DEF IsFirst, Slot
<1>5. /\ e \in Pte /\ e.at = "disk" /\ e.n = s /\ e.w = P[q][u].w /\ e.cow = P[q][u].cow
      /\ e.shm = P[q][u].shm
  BY <1>3, <1>4 DEF OnDisk, Pte
<1> HIDE DEF e
<1>6. /\ P2 \in PteMap /\ Ptes(P2) /\ Frames(P2, C2, A2, {f}) /\ Slots(P2, SC2)
      /\ Shm(P2, C2, A2, sh, o) /\ Reads(P2, m.page, dk, want)
  BY <1>1, <1>2, <1>3, <1>4, <1>5, VictimLeaves
<1>7. IsFirst(SC2, sf, NPSWAP) /\ sf \in 0 .. NPSWAP
  <2>1. m.scharmap \in [0 .. NPSWAP - 1 -> Proc \cup {Free}] /\ q \in Proc \cup {Free} /\ q # Free
    BY <1>1, Constants DEF SwapMap, Slot
  <2>2. IsFirst(SC2, sf, NPSWAP)
    BY <1>1, <1>4, <2>1, Constants, HintAfterTake
  <2> QED BY <2>2 DEF IsFirst
<1>8. IsFirst(C2, NPF, NPF)
  <2>1. \A j \in Frame : C2[j] # Free
    BY <1>1, Constants DEF CharMap
  <2> QED BY <2>1, Constants DEF IsFirst, Frame
<1>9. /\ C2 \in CharMap /\ A2 \in [Frame -> Nat] /\ SC2 \in SwapMap /\ dk \in [Slot -> Values]
      /\ C2[f] = p /\ A2[f] = v
  <2>1. C2 \in CharMap /\ C2[f] = p
    BY <1>1 DEF CharMap
  <2>2. A2 \in [Frame -> Nat] /\ A2[f] = v
    BY <1>1 DEF Page
  <2>3. SC2 \in SwapMap
    BY <1>1 DEF SwapMap
  <2>4. dk \in [Slot -> Values]
    BY <1>1
  <2> QED BY <2>1, <2>2, <2>3, <2>4
<1>10. tl \in TlbMap
  BY <1>1, Constants DEF TlbMap, Entry, NoEntry
<1>11. TlbOk(P, m.tlb, current) => TlbOk(P2, tl, current)
  <2>1. \A d \in Cpu, y \in Page : tl[d][y] = IF d = c /\ y = u THEN NoEntry ELSE m.tlb[d][y]
    BY <1>1 DEF TlbMap
  <2> HIDE DEF tl
  <2>2. \A d \in Cpu : current[d] = q => tl[d][u] = NoEntry
    BY <2>1
  <2> QED BY <1>2, <1>5, <2>1, <2>2, TlbPut
<1>12. KeptPtes(P, P2)
  <2> SUFFICES ASSUME NEW x \in Proc, NEW y \in Page
               PROVE  LET g == P[x][y]   d == P2[x][y] IN
                      /\ g.at # "mem" => d = g
                      /\ g.at = "mem" => d.at # "none"
                      /\ d.shm = g.shm /\ d.cow = g.cow /\ d.w = g.w
                      /\ g.at = "mem" /\ (g.shm \/ g.cow) => d.at = "mem" /\ d.n = g.n
    BY DEF KeptPtes
  <2>1. P2[x][y] = IF x = q /\ y = u THEN e ELSE P1[x][y]
    BY <1>5, PutIs
  <2>2. P[x][y] \in Pte
    BY <1>1 DEF PteMap
  <2>3. CASE x = q /\ y = u
    BY <1>3, <1>5, <2>1, <2>3
  <2>4. CASE ~(x = q /\ y = u)
    <3>1. P2[x][y] = P1[x][y]
      BY <2>1, <2>4
    <3>2. CASE P1[x][y] = P[x][y]
      BY <3>1, <3>2
    <3>3. ASSUME P[x][y].at = "mem", NEW b \in BOOLEAN, P1[x][y] = [P[x][y] EXCEPT !.a = b]
          PROVE  LET g == P[x][y]   d == P2[x][y] IN
                 g.at = "mem" /\ d.at = "mem" /\ d.shm = g.shm /\ d.cow = g.cow /\ d.w = g.w /\ d.n = g.n
      BY <2>2, <3>1, <3>3 DEF Pte
    <3>4. P1[x][y] = P[x][y] \/ (P[x][y].at = "mem" /\ \E b \in BOOLEAN : P1[x][y] = [P[x][y] EXCEPT !.a = b])
      BY DEF Cleared
    <3> HIDE DEF P2
    <3> QED BY <3>2, <3>3, <3>4
  <2> QED BY <2>3, <2>4
<1> HIDE DEF P2, SC2, sf, dk, tl, r, m1
<1>13. m1 = [m EXCEPT !.pte = P2, !.scharmap = SC2, !.sffree = sf, !.disk = dk, !.clock_pt = ck,
                      !.tlb = tl, !.ffree = f]
  BY DEF m1, SwappedOut, P2, SC2, sf, dk, tl, e
<1>14. m1.ffree = f /\ m1.charmap = C /\ m1.uva = A /\ Ok(m1)
  BY <1>1, <1>13 DEF MemType, Ok
<1>15. r = [m1 EXCEPT !.charmap = C2, !.uva = A2, !.got = f, !.ffree = NPF]
  <2>1. r = [m1 EXCEPT !.charmap = [m1.charmap EXCEPT ![m1.ffree] = p], !.uva[m1.ffree] = v,
                       !.got = m1.ffree, !.ffree = NPF]
    BY <1>14 DEF r, Claim
  <2>2. r = [m1 EXCEPT !.charmap = C2, !.uva[f] = v, !.got = f, !.ffree = NPF]
    BY <1>14, <2>1
  <2>3. [m1 EXCEPT !.uva[f] = v] = [m1 EXCEPT !.uva = A2]
    BY <1>14
  <2> HIDE DEF C2
  <2> QED BY <1>14, <2>2, <2>3
<1> HIDE DEF C2, A2
<1>16. /\ r.pte = P2 /\ r.charmap = C2 /\ r.uva = A2 /\ r.ffree = NPF /\ r.got = f
       /\ r.scharmap = SC2 /\ r.sffree = sf /\ r.page = m.page /\ r.disk = dk /\ r.tlb = tl
       /\ r.halt = "no"
  BY <1>1, <1>13, <1>15 DEF MemType
<1>17. r \in MemType
  <2>1. NPF \in 0 .. NPF
    BY Constants
  <2> QED BY <1>1, <1>6, <1>7, <1>9, <1>10, <1>13, <1>15, <2>1 DEF MemType
<1>18. Sound(r, sh, {f}, o, want)
  BY <1>1, <1>6, <1>7, <1>8, <1>16, <1>17 DEF Sound
<1>19. Allocated(m, r, p, v)
  BY <1>9, <1>11, <1>12, <1>16 DEF Allocated
<1> QED BY <1>16, <1>18, <1>19 DEF r, m1

\* A free frame is given out.
LEMMA ClaimFree ==
  ASSUME NEW m, NEW sh, NEW o, NEW want, Sound(m, sh, {}, o, want),
         NEW p \in Proc, NEW v \in Page, m.ffree < NPF
  PROVE  LET r == Claim(m, FALSE, p, v) IN
         Sound(r, sh, {r.got}, o, want) /\ Allocated(m, r, p, v)
<1> DEFINE P == m.pte
           C == m.charmap
           A == m.uva
           f == m.ffree
           C2 == [C EXCEPT ![f] = p]
           A2 == [A EXCEPT ![f] = v]
           i == FirstFree(C2, f, NPF)
           r == Claim(m, FALSE, p, v)
<1>1. /\ P \in PteMap /\ C \in CharMap /\ A \in [Frame -> Nat] /\ sh \in ShmType
      /\ Ptes(P) /\ Frames(P, C, A, {}) /\ Shm(P, C, A, sh, o)
      /\ Slots(P, m.scharmap) /\ Reads(P, m.page, m.disk, want)
      /\ m \in MemType /\ m.halt = "no" /\ IsFirst(C, f, NPF) /\ IsFirst(m.scharmap, m.sffree, NPSWAP)
  BY SoundTypes
<1>2. f \in Frame /\ f \in Nat /\ C[f] = Free
  BY <1>1, Constants DEF IsFirst, Frame
<1>3. Users(P, f) = {}
  <2>1. FrameOk(P, C, A, f)
    BY <1>1, <1>2 DEF Frames
  <2> QED BY <1>2, <2>1 DEF FrameOk
<1>4. /\ C2 \in CharMap /\ A2 \in [Frame -> Nat] /\ C2[f] = p /\ A2[f] = v
      /\ \A g \in Frame : g # f => C2[g] = C[g] /\ A2[g] = A[g]
  BY <1>1, <1>2, Constants DEF CharMap, Page
<1>5. IsFirst(C2, i, NPF) /\ i \in 0 .. NPF
  <2>1. C \in [0 .. NPF - 1 -> Proc \cup {Free, Shared}] /\ p \in Proc \cup {Free, Shared} /\ p # Free
    BY <1>1, Constants DEF CharMap, Frame
  <2>2. IsFirst(C2, i, NPF)
    BY <1>1, <1>2, <2>1, Constants, HintAfterTake
  <2> QED BY <2>2 DEF IsFirst
<1>6. Frames(P, C2, A2, {f})
  <2>1. ASSUME NEW g \in Frame, g # f PROVE FrameOk(P, C2, A2, g)
    <3>1. C2[g] = C[g] /\ A2[g] = A[g] /\ FrameOk(P, C, A, g)
      BY <1>1, <1>4, <2>1 DEF Frames
    <3> HIDE DEF C2, A2
    <3> QED BY <3>1 DEF FrameOk
  <2> QED BY <1>3, <1>4, <2>1 DEF Frames
<1>7. Shm(P, C2, A2, sh, o)
  <2>1. ASSUME NEW g \in Frame, C[g] = Shared PROVE C2[g] = Shared /\ A2[g] = A[g]
    BY <1>2, <1>4, <2>1, Constants
  <2>2. ShmKept(P, C, A, P, C2, A2)
    BY <2>1 DEF ShmKept
  <2> HIDE DEF C2, A2
  <2> QED BY <1>1, <2>2, ShmStays
<1>8. KeptPtes(P, P)
  BY DEF KeptPtes
<1> HIDE DEF i
<1>9. r = [m EXCEPT !.charmap = C2, !.uva = A2, !.got = f, !.ffree = i]
  <2>1. r = [m EXCEPT !.charmap = C2, !.uva[f] = v, !.got = f, !.ffree = i]
    BY <1>1 DEF Claim, Ok, i
  <2> QED BY <2>1
<1> HIDE DEF C2, A2, r
<1>10. /\ r.pte = P /\ r.charmap = C2 /\ r.uva = A2 /\ r.ffree = i /\ r.got = f
       /\ r.scharmap = m.scharmap /\ r.sffree = m.sffree /\ r.page = m.page /\ r.disk = m.disk
       /\ r.tlb = m.tlb /\ r.halt = "no"
  BY <1>1, <1>9 DEF MemType
<1>11. r \in MemType
  BY <1>1, <1>2, <1>4, <1>5, <1>9 DEF MemType
<1>12. Sound(r, sh, {f}, o, want)
  BY <1>1, <1>5, <1>6, <1>7, <1>10, <1>11 DEF Sound
<1>13. Allocated(m, r, p, v)
  BY <1>4, <1>8, <1>10 DEF Allocated
<1> QED BY <1>10, <1>12, <1>13 DEF r

\* alloc_page() gives out a frame or finds the memory exhausted.
LEMMA AllocPageIs ==
  ASSUME NEW m, NEW sh, NEW o, NEW want, Sound(m, sh, {}, o, want), NEW c \in Cpu,
         NEW p \in Proc, NEW v \in Page
  PROVE  LET r == AllocPage(m, c, p, v) IN
         \/ Exhausted(r)
         \/ Sound(r, sh, {r.got}, o, want) /\ Allocated(m, r, p, v)
<1>1. m.ffree \in 0 .. NPF /\ IsFirst(m.charmap, m.ffree, NPF) /\ NPF \in Nat
  BY SoundTypes, Constants
<1>2. CASE m.ffree < NPF
  <2>1. AllocPage(m, c, p, v) = Claim(m, FALSE, p, v)
    <3>1. (m.ffree >= NPF) = FALSE
      BY <1>1, <1>2
    <3> QED BY <3>1 DEF AllocPage
  <2> QED BY <1>2, <2>1, ClaimFree
<1>3. CASE m.ffree >= NPF
  <2>1. \A f \in Frame : m.charmap[f] # Free
    BY <1>1, <1>3 DEF IsFirst, Frame
  <2> DEFINE n == SwapToDisk(m, c)
             r == AllocPage(m, c, p, v)
  <2>2. r = Claim(n, TRUE, p, v)
    <3>1. (m.ffree >= NPF) = TRUE
      BY <1>1, <1>3
    <3> QED BY <3>1 DEF AllocPage
  <2> HIDE DEF n, r
  <2>3. CASE Exhausted(n)
    <3>1. r = n
      BY <2>2, <2>3 DEF Claim, Ok, Exhausted
    <3> QED BY <2>3, <3>1 DEF r
  <2>4. ASSUME NEW f \in Frame, NEW q \in Proc, NEW u \in Page, NEW P1 \in PteMap, NEW ck \in Frame,
               m.charmap[f] = q, m.uva[f] = u, m.sffree < NPSWAP,
               \A d \in Cpu \ {c} : current[d] # q, Cleared(m.pte, P1),
               n = SwappedOut(m, c, f, q, u, P1, ck)
        PROVE  Sound(r, sh, {r.got}, o, want) /\ Allocated(m, r, p, v)
    BY <2>1, <2>2, <2>4, ClaimSwapped
  <2>5. \/ Exhausted(n)
        \/ \E f \in Frame, q \in Proc, u \in Page, P1 \in PteMap, ck \in Frame :
              /\ m.charmap[f] = q /\ m.uva[f] = u /\ m.sffree < NPSWAP
              /\ \A d \in Cpu \ {c} : current[d] # q
              /\ Cleared(m.pte, P1)
              /\ n = SwappedOut(m, c, f, q, u, P1, ck)
    BY <2>1, SwapToDiskIs DEF n
  <2> QED BY <2>3, <2>4, <2>5 DEF r
<1> QED BY <1>1, <1>2, <1>3
-----------------------------------------------------------------------------
(* Mapping frames.                                                         *)

\* Page u of q is mapped or not in table P2 as in P.
Alike(P, P2, q, u) == (P2[q][u] = NoPte <=> P[q][u] = NoPte) /\ P2[q][u].shm = P[q][u].shm
AlikeBut(P, P2, p, v) == \A q \in Proc, u \in Page : ~(q = p /\ u = v) => Alike(P, P2, q, u)

\* A page that went to the disk, or that did not change, is still mapped.
LEMMA KeptAreAlike ==
  ASSUME NEW P, NEW P2, KeptPtes(P, P2)
  PROVE  \A q \in Proc, u \in Page : Alike(P, P2, q, u)
<1> SUFFICES ASSUME NEW q \in Proc, NEW u \in Page PROVE Alike(P, P2, q, u)
  OBVIOUS
<1>1. /\ P[q][u].at # "mem" => P2[q][u] = P[q][u]
      /\ P[q][u].at = "mem" => P2[q][u].at # "none"
      /\ P2[q][u].shm = P[q][u].shm
  BY DEF KeptPtes
<1> QED BY <1>1, NoPteIs DEF Alike

\* A changed PTE leaves all other pages mapped as they were.
LEMMA PutIsAlike ==
  ASSUME NEW P, NEW P2 \in PteMap, NEW p \in Proc, NEW v \in Page, NEW e \in Pte,
         \A q \in Proc, u \in Page : Alike(P, P2, q, u)
  PROVE  AlikeBut(P, Put(P2, p, v, e), p, v)
BY PutIs DEF AlikeBut, Alike

\* The new frame, with content x, becomes page v of p.
LEMMA MapFresh ==
  ASSUME NEW m, NEW n, NEW sh, NEW o, NEW want, NEW p \in Proc, NEW v \in Page,
         Sound(n, sh, {n.got}, o, want), Allocated(m, n, p, v), m.pte[p][v] = NoPte,
         NEW x \in Values, want[p][v] = x
  PROVE  LET P2 == Put(n.pte, p, v, UserPte(n.got))
             r == With(n, P2, n.charmap, n.uva, n.ffree, [n.page EXCEPT ![n.got] = x], n.tlb) IN
         /\ Sound(r, sh, {}, o, want) /\ AlikeBut(m.pte, r.pte, p, v)
         /\ TlbOk(m.pte, m.tlb, current) => TlbOk(r.pte, r.tlb, current)
         /\ r.pte = P2 /\ r.got = n.got /\ r.page[r.got] = x
<1> DEFINE P == n.pte
           g == n.got
           e == UserPte(g)
           P2 == Put(P, p, v, e)
           pg == [n.page EXCEPT ![g] = x]
           r == With(n, P2, n.charmap, n.uva, n.ffree, pg, n.tlb)
<1>1. /\ P \in PteMap /\ n.charmap \in CharMap /\ n.uva \in [Frame -> Nat] /\ sh \in ShmType
      /\ Ptes(P) /\ Frames(P, n.charmap, n.uva, {g}) /\ Shm(P, n.charmap, n.uva, sh, o)
      /\ Slots(P, n.scharmap) /\ Reads(P, n.page, n.disk, want) /\ g \in Frame
      /\ n \in MemType /\ IsFirst(n.charmap, n.ffree, NPF) /\ n.page \in [Frame -> Values]
      /\ n.tlb \in TlbMap /\ n.ffree \in 0 .. NPF
  BY SoundTypes
<1>2. /\ n.charmap[g] = p /\ n.uva[g] = v /\ KeptPtes(m.pte, P)
      /\ TlbOk(m.pte, m.tlb, current) => TlbOk(P, n.tlb, current)
  BY DEF Allocated
<1>3. P[p][v] = NoPte
  BY <1>2, NoPteIs DEF KeptPtes
<1>4. e \in Pte /\ e.at = "mem" /\ e.n = g /\ e.w /\ ~e.cow /\ ~e.shm
  BY <1>1, Constants DEF UserPte, Pte, Frame
<1> HIDE DEF e
<1>5. /\ P2 \in PteMap /\ Ptes(P2) /\ Frames(P2, n.charmap, n.uva, {})
      /\ Shm(P2, n.charmap, n.uva, sh, o)
  BY <1>1, <1>2, <1>3, <1>4, NoPteIs, MapsIt
<1>6. Slots(P2, n.scharmap)
  BY <1>1, <1>3, <1>4, NoPteIs, SlotsPut
<1>7. pg \in [Frame -> Values] /\ pg[g] = x /\ \A f \in Frame : f # g => pg[f] = n.page[f]
  BY <1>1
<1> HIDE DEF pg, P2
<1>8. Reads(P2, pg, n.disk, want)
  <2>1. ASSUME NEW q \in Proc, NEW u \in Page, P[q][u].at = "mem"
        PROVE  pg[P[q][u].n] = n.page[P[q][u].n]
    <3>1. P[q][u].n \in Frame /\ P[q][u].n # g
      <4> DEFINE X == {g}
                 C == n.charmap
                 A == n.uva
      <4>1. Frames(P, C, A, X) /\ P \in PteMap /\ C \in CharMap /\ Ptes(P)
        BY <1>1
      <4> HIDE DEF X, P, C, A
      <4>2. P[q][u].n \in Frame /\ P[q][u].n \notin X
        BY <2>1, <4>1, FrameOf
      <4> QED BY <4>2 DEF X
    <3> QED BY <1>7, <3>1
  <2> QED BY <1>1, <1>4, <1>7, <2>1, ReadsPut DEF P2
<1>9. TlbOk(P, n.tlb, current) => TlbOk(P2, n.tlb, current)
  <2>1. ASSUME TlbOk(P, n.tlb, current), NEW d \in Cpu, current[d] = p, n.tlb[d][v] # NoEntry
        PROVE  FALSE
    BY <1>3, <2>1, NoPteIs DEF TlbOk
  <2> QED BY <1>1, <1>4, <2>1, TlbPut DEF P2
<1>10. AlikeBut(m.pte, P2, p, v)
  BY <1>1, <1>2, <1>4, KeptAreAlike, PutIsAlike DEF P2
<1>11. r.pte = P2 /\ r.tlb = n.tlb /\ r.got = g /\ r.page = pg
  BY <1>1, <1>5, <1>7, WithIs
<1>12. Sound(r, sh, {}, o, want)
  BY <1>1, <1>5, <1>6, <1>7, <1>8, SoundWith
<1> HIDE DEF r
<1>13. r.page[r.got] = x
  BY <1>7, <1>11
<1> QED BY <1>2, <1>9, <1>10, <1>11, <1>12, <1>13 DEF r, P2, pg, e

\* A page that was not mapped gets a frame with content x, or the memory is
\* exhausted.
NewPage(m, r, sh, o, want, p, v) ==
  \/ Exhausted(r)
  \/ /\ Sound(r, sh, {}, o, want) /\ AlikeBut(m.pte, r.pte, p, v)
     /\ TlbOk(m.pte, m.tlb, current) => TlbOk(r.pte, r.tlb, current)
     /\ r.pte[p][v] # NoPte /\ ~r.pte[p][v].shm /\ r.pte[p][v] = UserPte(r.got)

\* The PTE of a frame that has been given out.
LEMMA UserPteIs ==
  ASSUME NEW g \in Frame
  PROVE  UserPte(g) \in Pte /\ UserPte(g) # NoPte /\ ~UserPte(g).shm /\ UserPte(g).n = g
BY Constants DEF UserPte, NoPte, Pte, Frame

\* alloc_page_helper(): the process is to read what is in the frame.
LEMMA AllocPageHelperIs ==
  ASSUME NEW m, NEW sh, NEW o, NEW want, Sound(m, sh, {}, o, want), NEW c \in Cpu,
         NEW p \in Proc, NEW v \in Page, m.pte[p][v] = NoPte
  PROVE  LET r == AllocPageHelper(m, c, p, v) IN
         /\ Ok(r) /\ want[p][v] = r.page[r.got] => NewPage(m, r, sh, o, want, p, v)
         /\ Ok(r) \/ Exhausted(r)
         /\ want[p][v] = Zero => NewPage(m, Fill(r), sh, o, want, p, v)
<1> DEFINE n == AllocPage(m, c, p, v)
           r == AllocPageHelper(m, c, p, v)
<1>1. r = MapPage(n, p, v)
  BY DEF AllocPageHelper
<1>2. Exhausted(n) \/ (Sound(n, sh, {n.got}, o, want) /\ Allocated(m, n, p, v))
  BY AllocPageIs
<1> HIDE DEF n, r
<1>3. CASE Exhausted(n)
  <2>1. r = n /\ ~Ok(r) /\ Fill(r) = r
    <3>1. ~Ok(n)
      BY <1>3 DEF Ok, Exhausted
    <3>2. r = n
      BY <1>1, <3>1 DEF MapPage
    <3>3. Fill(n) = n
      BY <3>1 DEF Fill
    <3> QED BY <3>1, <3>2, <3>3
  <2> QED BY <1>3, <2>1 DEF r, NewPage
<1>4. CASE Sound(n, sh, {n.got}, o, want) /\ Allocated(m, n, p, v)
  <2> DEFINE g == n.got
             P2 == Put(n.pte, p, v, UserPte(g))
  <2>1. n.pte \in PteMap /\ n \in MemType /\ n.halt = "no" /\ g \in Frame /\ n.page \in [Frame -> Values]
    BY <1>4, SoundTypes
  <2>2. n.pte[p][v] = NoPte
    BY <1>4, NoPteIs DEF Allocated, KeptPtes
  <2>3. r = [n EXCEPT !.pte = P2]
    <3>1. r = [n EXCEPT !.pte[p][v] = UserPte(n.got)]
      BY <1>1, <2>1, <2>2 DEF MapPage, Ok
    <3> QED BY <3>1 DEF Put
  <2>4. P2 \in PteMap /\ P2[p][v] # NoPte /\ ~P2[p][v].shm /\ P2[p][v] = UserPte(g)
    BY <2>1, UserPteIs, PutIs
  <2> HIDE DEF P2
  <2>5. r \in MemType /\ r.page = n.page /\ r.got = g /\ Ok(r)
    BY <2>1, <2>3, <2>4 DEF MemType, Ok
  <2>6. ASSUME want[p][v] = r.page[r.got] PROVE NewPage(m, r, sh, o, want, p, v)
    <3>1. r = With(n, P2, n.charmap, n.uva, n.ffree, [n.page EXCEPT ![g] = n.page[g]], n.tlb)
      <4>1. [n.page EXCEPT ![g] = n.page[g]] = n.page
        BY <2>1
      <4> QED BY <2>1, <2>3, <4>1 DEF With, MemType
    <3>2. n.page[g] \in Values /\ want[p][v] = n.page[g]
      BY <2>1, <2>5, <2>6
    <3>3. /\ Sound(r, sh, {}, o, want) /\ AlikeBut(m.pte, r.pte, p, v)
          /\ TlbOk(m.pte, m.tlb, current) => TlbOk(r.pte, r.tlb, current)
          /\ r.pte = P2 /\ r.got = g
      BY <1>4, <3>1, <3>2, MapFresh DEF P2
    <3> QED BY <2>4, <3>3 DEF NewPage
  <2>7. ASSUME want[p][v] = Zero PROVE NewPage(m, Fill(r), sh, o, want, p, v)
    <3> DEFINE k == Fill(r)
               pg == [n.page EXCEPT ![g] = Zero]
    <3>1. k = With(n, P2, n.charmap, n.uva, n.ffree, pg, n.tlb)
      <4>1. k = [r EXCEPT !.page = pg]
        BY <2>5 DEF Fill
      <4> HIDE DEF pg, k
      <4> QED BY <2>1, <2>3, <4>1 DEF With, MemType
    <3> HIDE DEF k
    <3>2. /\ Sound(k, sh, {}, o, want) /\ AlikeBut(m.pte, k.pte, p, v)
          /\ TlbOk(m.pte, m.tlb, current) => TlbOk(k.pte, k.tlb, current)
          /\ k.pte = P2 /\ k.got = g
      BY <1>4, <2>7, <3>1, Constants, MapFresh DEF P2
    <3> QED BY <2>4, <3>2 DEF NewPage, k
  <2> QED BY <2>5, <2>6, <2>7 DEF r
<1> QED BY <1>2, <1>3, <1>4

\* No page is in a frame that has just been given out.
LEMMA FreshUnread ==
  ASSUME NEW P \in PteMap, NEW C \in CharMap, NEW A, NEW g, Ptes(P), Frames(P, C, A, {g})
  PROVE  \A q \in Proc, u \in Page : P[q][u].at = "mem" => P[q][u].n \in Frame /\ P[q][u].n # g
<1> DEFINE X == {g}
<1>1. Frames(P, C, A, X)
  OBVIOUS
<1> HIDE DEF X
<1> SUFFICES ASSUME NEW q \in Proc, NEW u \in Page, P[q][u].at = "mem"
             PROVE  P[q][u].n \in Frame /\ P[q][u].n # g
  OBVIOUS
<1>2. P[q][u].n \in Frame /\ P[q][u].n \notin X
  BY <1>1, FrameOf
<1> QED BY <1>2 DEF X

\* After the step from memory m to r, unless that one is exhausted, page v of p
\* is in memory and everything else is as it was.
Resident(m, r, sh, o, want, p, v) ==
  \/ Exhausted(r)
  \/ /\ Sound(r, sh, {}, o, want) /\ \A q \in Proc, u \in Page : Alike(m.pte, r.pte, q, u)
     /\ TlbOk(m.pte, m.tlb, current) => TlbOk(r.pte, r.tlb, current)
     /\ r.pte[p][v].at = "mem"

\* swap_from_disk()
LEMMA SwapFromDiskIs ==
  ASSUME NEW m, NEW sh, NEW o, NEW want, Sound(m, sh, {}, o, want), NEW c \in Cpu,
         NEW p \in Proc, NEW v \in Page, m.pte[p][v].at = "disk"
  PROVE  Resident(m, SwapFromDisk(m, c, p, v), sh, o, want, p, v)
<1> DEFINE s == m.pte[p][v].n
           n == AllocPage(m, c, p, v)
           k == ReadSwap(n, p, v, s)
           r == SwapFromDisk(m, c, p, v)
<1>1. r = FreeSwapPage(k, s)
  BY DEF SwapFromDisk
<1>2. Exhausted(n) \/ (Sound(n, sh, {n.got}, o, want) /\ Allocated(m, n, p, v))
  BY AllocPageIs
<1> HIDE DEF n, r
<1>3. CASE Exhausted(n)
  <2>1. ~Ok(n)
    BY <1>3 DEF Ok, Exhausted
  <2>2. k = n
    BY <2>1 DEF ReadSwap
  <2>3. r = n
    BY <1>1, <2>1, <2>2 DEF FreeSwapPage
  <2> QED BY <1>3, <2>3 DEF r, Resident
<1>4. CASE Sound(n, sh, {n.got}, o, want) /\ Allocated(m, n, p, v)
  <2> DEFINE P == n.pte
             g == n.got
             e == [P[p][v] EXCEPT !.at = "mem", !.n = g, !.a = TRUE]
             P2 == Put(P, p, v, e)
             SC2 == [n.scharmap EXCEPT ![s] = Free]
             j == Min({s, n.sffree})
             pg == [n.page EXCEPT ![g] = n.disk[s]]
  <2>1. /\ P \in PteMap /\ n.charmap \in CharMap /\ n.uva \in [Frame -> Nat] /\ sh \in ShmType
        /\ Ptes(P) /\ Frames(P, n.charmap, n.uva, {g}) /\ Shm(P, n.charmap, n.uva, sh, o)
        /\ Slots(P, n.scharmap) /\ Reads(P, n.page, n.disk, want) /\ g \in Frame
        /\ n \in MemType /\ IsFirst(n.charmap, n.ffree, NPF) /\ n.page \in [Frame -> Values]
        /\ n.tlb \in TlbMap /\ n.disk \in [Slot -> Values] /\ n.scharmap \in SwapMap
        /\ IsFirst(n.scharmap, n.sffree, NPSWAP) /\ n.halt = "no"
    BY <1>4, SoundTypes
  <2>2. /\ n.charmap[g] = p /\ n.uva[g] = v /\ KeptPtes(m.pte, P)
        /\ TlbOk(m.pte, m.tlb, current) => TlbOk(P, n.tlb, current)
    BY <1>4 DEF Allocated
  <2>3. P[p][v] = m.pte[p][v] /\ P[p][v].at = "disk" /\ P[p][v].n = s /\ P[p][v] \in Pte
    BY <2>1, <2>2 DEF KeptPtes, PteMap
  <2>4. /\ s \in Slot /\ n.scharmap[s] # Free
        /\ P[p][v].w /\ ~P[p][v].cow /\ ~P[p][v].shm
    BY <2>1, <2>3, SlotOf
  <2>5. /\ e \in Pte /\ e.at = "mem" /\ e.n = g /\ e.w /\ ~e.cow /\ ~e.shm
    <3> DEFINE b == P[p][v]
    <3>1. g \in Nat /\ b \in Pte /\ b.at \in {"mem", "disk"} /\ (b.at = "disk" => b.w) /\ ~b.shm
      BY <2>1, <2>3, <2>4, Constants DEF Frame
    <3>2. e = [b EXCEPT !.at = "mem", !.n = g, !.w = TRUE, !.cow = FALSE, !.a = TRUE]
      BY <2>3, <2>4 DEF Pte
    <3> HIDE DEF b, g
    <3> QED BY <3>1, <3>2 DEF Pte
  <2> HIDE DEF e
  <2>6. /\ P2 \in PteMap /\ Ptes(P2) /\ Frames(P2, n.charmap, n.uva, {})
        /\ Shm(P2, n.charmap, n.uva, sh, o)
    BY <2>1, <2>2, <2>3, <2>5, MapsIt
  <2>7. Slots(P2, SC2)
    BY <2>1, <2>3, <2>5, SlotsFree
  <2>8. IsFirst(SC2, j, NPSWAP) /\ j \in 0 .. NPSWAP /\ SC2 \in SwapMap
    <3>1. n.scharmap \in [0 .. NPSWAP - 1 -> Proc \cup {Free}]
      BY <2>1 DEF SwapMap, Slot
    <3>2. IsFirst(SC2, j, NPSWAP)
      BY <2>1, <2>4, <3>1, Constants, HintAfterFree DEF Slot
    <3>3. SC2 \in SwapMap
      BY <2>1 DEF SwapMap
    <3> QED BY <3>2, <3>3 DEF IsFirst
  <2>9. /\ pg \in [Frame -> Values] /\ pg[g] = n.disk[s]
        /\ \A f \in Frame : f # g => pg[f] = n.page[f]
    BY <2>1, <2>4
  <2> HIDE DEF pg, P2, SC2, j
  <2>10. Reads(P2, pg, n.disk, want)
    <3>1. n.disk[s] = want[p][v]
      BY <2>1, <2>3 DEF Reads
    <3>2. \A q \in Proc, u \in Page : P[q][u].at = "mem" => pg[P[q][u].n] = n.page[P[q][u].n]
      <4>1. \A q \in Proc, u \in Page : P[q][u].at = "mem" => P[q][u].n \in Frame /\ P[q][u].n # g
        <5> DEFINE C == n.charmap
                   A == n.uva
        <5>1. C \in CharMap /\ Frames(P, C, A, {g}) /\ P \in PteMap /\ Ptes(P)
          BY <2>1
        <5> HIDE DEF P, g, C, A
        <5> QED BY <5>1, FreshUnread
      <4> QED BY <2>9, <4>1
    <3> QED BY <2>1, <2>5, <2>9, <3>1, <3>2, ReadsPut DEF P2
  <2>11. TlbOk(P, n.tlb, current) => TlbOk(P2, n.tlb, current)
    <3>1. ASSUME TlbOk(P, n.tlb, current), NEW d \in Cpu, current[d] = p, n.tlb[d][v] # NoEntry
          PROVE  FALSE
      BY <2>3, <3>1 DEF TlbOk
    <3> QED BY <2>1, <2>5, <3>1, TlbPut DEF P2
  <2>12. \A q \in Proc, u \in Page : Alike(m.pte, P2, q, u)
    <3>1. \A q \in Proc, u \in Page : Alike(m.pte, P, q, u)
      BY <2>2, KeptAreAlike
    <3>2. \A q \in Proc, u \in Page : P2[q][u] = IF q = p /\ u = v THEN e ELSE P[q][u]
      BY <2>1, <2>5, PutIs DEF P2
    <3>3. Alike(m.pte, P2, p, v)
      <4>1. P2[p][v] = e /\ m.pte[p][v].at = "disk" /\ ~m.pte[p][v].shm
        BY <2>3, <2>4, <3>2
      <4>2. m.pte[p][v].shm = FALSE /\ e.shm = FALSE
        BY <2>3, <2>4, <2>5 DEF Pte
      <4> HIDE DEF P2
      <4> QED BY <2>5, <4>1, <4>2, NoPteIs DEF Alike
    <3> QED BY <3>1, <3>2, <3>3 DEF Alike
  <2>13. k = [n EXCEPT !.page = pg, !.pte = P2]
    BY <2>1 DEF ReadSwap, Ok, pg, P2, e, Put
  <2>14. Ok(k) /\ k.scharmap = n.scharmap /\ k.sffree = n.sffree /\ k \in MemType
    BY <2>1, <2>6, <2>9, <2>13 DEF MemType, Ok
  <2>15. r = [k EXCEPT !.scharmap = SC2, !.sffree = j]
    <3> HIDE DEF k, s
    <3> QED BY <1>1, <2>4, <2>14 DEF FreeSwapPage, SC2, j
  <2> HIDE DEF k
  <2>16. /\ r.pte = P2 /\ r.charmap = n.charmap /\ r.uva = n.uva /\ r.ffree = n.ffree
         /\ r.scharmap = SC2 /\ r.sffree = j /\ r.page = pg /\ r.disk = n.disk /\ r.tlb = n.tlb
         /\ r.halt = "no"
    BY <2>1, <2>13, <2>15 DEF MemType
  <2>17. r \in MemType
    BY <2>8, <2>14, <2>15 DEF MemType
  <2>18. Sound(r, sh, {}, o, want)
    BY <2>1, <2>6, <2>7, <2>8, <2>10, <2>16, <2>17 DEF Sound
  <2>19. r.pte[p][v].at = "mem"
    BY <2>1, <2>5, <2>16, PutIs DEF P2
  <2> QED BY <2>2, <2>11, <2>12, <2>16, <2>18, <2>19 DEF Resident, r
<1> QED BY <1>2, <1>3, <1>4

\* The copy-on-write part of handle_pagefault()
LEMMA CopyOnWriteIs ==
  ASSUME NEW m, NEW sh, NEW o, NEW want, Sound(m, sh, {}, o, want), NEW c \in Cpu,
         NEW p \in Proc, NEW v \in Page, m.pte[p][v].at = "mem", m.pte[p][v].cow,
         OneHart(current), current[c] = p
  PROVE  Resident(m, CopyOnWrite(m, c, p, v), sh, o, want, p, v)
<1> DEFINE f == m.pte[p][v].n
           n == AllocPage(m, c, p, v)
           k == CopyFrame(n, c, p, v, f)
           r == CopyOnWrite(m, c, p, v)
<1>1. r = DropCow(k, f)
  BY DEF CopyOnWrite
<1>2. Exhausted(n) \/ (Sound(n, sh, {n.got}, o, want) /\ Allocated(m, n, p, v))
  BY AllocPageIs
<1> HIDE DEF n, r
<1>3. CASE Exhausted(n)
  <2>1. ~Ok(n)
    BY <1>3 DEF Ok, Exhausted
  <2>2. k = n
    BY <2>1 DEF CopyFrame
  <2>3. r = n
    BY <1>1, <2>1, <2>2 DEF DropCow
  <2> QED BY <1>3, <2>3 DEF r, Resident
<1>4. CASE Sound(n, sh, {n.got}, o, want) /\ Allocated(m, n, p, v)
  <2> DEFINE P == n.pte
             g == n.got
             C == n.charmap
             A == n.uva
             e == [P[p][v] EXCEPT !.n = g, !.w = TRUE, !.cow = FALSE, !.a = TRUE]
             P2 == Put(P, p, v, e)
             C2 == Dropped(C, A, f)
             A2 == [A EXCEPT ![f] = A[f] - 1]
             i == IF A[f] = 1 THEN Min({f, n.ffree}) ELSE n.ffree
             pg == [n.page EXCEPT ![g] = n.page[f]]
             tl == [n.tlb EXCEPT ![c] = [n.tlb[c] EXCEPT ![v] = NoEntry]]
  <2>1. /\ P \in PteMap /\ C \in CharMap /\ A \in [Frame -> Nat] /\ sh \in ShmType
        /\ Ptes(P) /\ Frames(P, C, A, {g}) /\ Shm(P, C, A, sh, o)
        /\ Slots(P, n.scharmap) /\ Reads(P, n.page, n.disk, want) /\ g \in Frame
        /\ n \in MemType /\ IsFirst(C, n.ffree, NPF) /\ n.page \in [Frame -> Values]
        /\ n.tlb \in TlbMap /\ n.halt = "no"
    BY <1>4, SoundTypes
  <2>2. /\ C[g] = p /\ A[g] = v /\ KeptPtes(m.pte, P)
        /\ TlbOk(m.pte, m.tlb, current) => TlbOk(P, n.tlb, current)
    BY <1>4 DEF Allocated
  <2>3. P[p][v].at = "mem" /\ P[p][v].n = f /\ P[p][v].cow /\ P[p][v] \in Pte
    BY <2>1, <2>2 DEF KeptPtes, PteMap
  <2>4. ~P[p][v].shm /\ ~m.pte[p][v].shm
    BY <2>1, <2>2, <2>3 DEF Ptes, PteOk, KeptPtes
  <2>5. /\ e \in Pte /\ e.at = "mem" /\ e.n = g /\ e.w /\ ~e.cow /\ ~e.shm
    <3> DEFINE b == P[p][v]
    <3>1. g \in Nat /\ b \in Pte /\ b.at \in {"mem", "disk"} /\ (b.at = "disk" => b.w) /\ ~b.shm
      BY <2>1, <2>3, <2>4, Constants DEF Frame
    <3>2. e = [b EXCEPT !.at = "mem", !.n = g, !.w = TRUE, !.cow = FALSE, !.a = TRUE]
      BY <2>3, <2>4 DEF Pte
    <3> HIDE DEF b, g
    <3> QED BY <3>1, <3>2 DEF Pte
  <2> HIDE DEF e
  <2>6. PteOk(e)
    BY <2>1, <2>5 DEF PteOk
  <2>7. /\ f \in Frame /\ C[f] = Shared /\ A[f] > 0
        /\ Frames(P2, C2, A2, {}) /\ Shm(P2, C2, A2, sh, o)
    <3> DEFINE X == {g}
    <3>1. Frames(P, C, A, X) /\ X = {e.n}
      BY <2>1, <2>5
    <3> HIDE DEF X
    <3>2. e.at # "disk" /\ ~e.shm /\ ~e.cow /\ e.w /\ C[e.n] = p /\ A[e.n] = v /\ e.at # "none"
      BY <2>2, <2>5
    <3> HIDE DEF P, C, A, f
    <3>3. P[p][v].n \in Frame /\ C[P[p][v].n] = Shared /\ A[P[p][v].n] > 0
      BY <2>1, <2>3, <2>5, <2>6, <3>1, <3>2, CowDrops
    <3>4. Frames(Put(P, p, v, e), Dropped(C, A, P[p][v].n), [A EXCEPT ![P[p][v].n] = A[P[p][v].n] - 1], {})
      BY <2>1, <2>3, <2>5, <2>6, <3>1, <3>2, CowDrops
    <3>5. Shm(Put(P, p, v, e), Dropped(C, A, P[p][v].n), [A EXCEPT ![P[p][v].n] = A[P[p][v].n] - 1], sh, o)
      BY <2>1, <2>3, <2>5, <2>6, <3>1, <3>2, CowDrops
    <3> QED BY <2>3, <3>3, <3>4, <3>5
  <2>8. P2 \in PteMap /\ Ptes(P2) /\ Slots(P2, n.scharmap)
    BY <2>1, <2>3, <2>5, <2>6, PutIs, PtesPut, SlotsPut
  <2>9. C2 \in CharMap /\ IsFirst(C2, i, NPF) /\ i \in 0 .. NPF
    BY <2>1, <2>7, DroppedFirst
  <2>10. /\ pg \in [Frame -> Values] /\ pg[g] = n.page[f] /\ A2 \in [Frame -> Nat]
         /\ \A x \in Frame : x # g => pg[x] = n.page[x]
    <3> HIDE DEF A, f, g
    <3>1. A2 \in [Frame -> Nat]
      BY <2>1, <2>7
    <3> QED BY <2>1, <2>7, <3>1
  <2>11. /\ tl \in TlbMap
         /\ \A d \in Cpu, u \in Page : tl[d][u] = IF d = c /\ u = v THEN NoEntry ELSE n.tlb[d][u]
    BY <2>1, Constants DEF TlbMap, Entry, NoEntry
  <2> HIDE DEF pg, P2, C2, A2, i, tl
  <2>12. Reads(P2, pg, n.disk, want)
    <3>1. n.page[f] = want[p][v]
      BY <2>1, <2>3 DEF Reads
    <3>2. \A q \in Proc, u \in Page : P[q][u].at = "mem" => pg[P[q][u].n] = n.page[P[q][u].n]
      <4>1. \A q \in Proc, u \in Page : P[q][u].at = "mem" => P[q][u].n \in Frame /\ P[q][u].n # g
        <5>1. C \in CharMap /\ Frames(P, C, A, {g}) /\ P \in PteMap /\ Ptes(P)
          BY <2>1
        <5> HIDE DEF P, g, C, A
        <5> QED BY <5>1, FreshUnread
      <4> QED BY <2>10, <4>1
    <3> QED BY <2>1, <2>5, <2>10, <3>1, <3>2, ReadsPut DEF P2
  <2>13. TlbOk(P, n.tlb, current) => TlbOk(P2, tl, current)
    <3>1. \A d \in Cpu : current[d] = p => d = c
      BY DEF OneHart
    <3>2. \A d \in Cpu : current[d] = p => tl[d][v] = NoEntry
      BY <2>11, <3>1
    <3> QED BY <2>1, <2>5, <2>11, <3>2, TlbPut DEF P2
  <2>14. \A q \in Proc, u \in Page : Alike(m.pte, P2, q, u)
    <3>1. \A q \in Proc, u \in Page : Alike(m.pte, P, q, u)
      BY <2>2, KeptAreAlike
    <3>2. \A q \in Proc, u \in Page : P2[q][u] = IF q = p /\ u = v THEN e ELSE P[q][u]
      BY <2>1, <2>5, PutIs DEF P2
    <3>3. Alike(m.pte, P2, p, v)
      <4>1. P2[p][v] = e
        BY <3>2
      <4>2. m.pte[p][v] \in Pte
        BY SoundTypes DEF PteMap
      <4>3. m.pte[p][v].shm = FALSE /\ e.shm = FALSE
        BY <2>4, <2>5, <4>2 DEF Pte
      <4> QED BY <2>5, <4>1, <4>3, NoPteIs DEF Alike
    <3> QED BY <3>1, <3>2, <3>3 DEF Alike
  <2>15. k = [n EXCEPT !.page = pg, !.pte = P2, !.tlb = tl]
    <3>1. Ok(n)
      BY <2>1 DEF Ok
    <3> DEFINE new == [n EXCEPT !.page[n.got] = n.page[f],
                                !.pte[p][v] = [@ EXCEPT !.n = n.got, !.w = TRUE, !.cow = FALSE, !.a = TRUE],
                                !.tlb[c][v] = NoEntry]
    <3>2. CopyFrame(n, c, p, v, f) = new
      BY <3>1 DEF CopyFrame
    <3>3. new = [n EXCEPT !.page = pg, !.pte = P2, !.tlb = tl]
      BY DEF pg, P2, e, tl, Put
    <3> HIDE DEF new, pg, P2, tl
    <3> QED BY <3>2, <3>3
  <2>16. k \in MemType /\ k.halt = "no" /\ k.charmap = C /\ k.uva = A /\ k.ffree = n.ffree
    BY <2>1, <2>8, <2>10, <2>11, <2>15 DEF MemType
  <2>17. r = [k EXCEPT !.charmap = C2, !.uva = A2, !.ffree = i]
    <3> HIDE DEF k
    <3>1. k.charmap[f] = Shared /\ k.uva[f] > 0 /\ k.ffree \in 0 .. NPF
      BY <2>1, <2>7, <2>16 DEF IsFirst
    <3>2. DropCow(k, f) = [k EXCEPT !.charmap = Dropped(k.charmap, k.uva, f),
                     !.uva = [k.uva EXCEPT ![f] = k.uva[f] - 1],
                     !.ffree = IF k.uva[f] = 1 THEN Min({f, k.ffree}) ELSE k.ffree]
      BY <2>7, <2>16, <3>1, DropCowIs
    <3> QED BY <1>1, <2>16, <3>2 DEF C2, A2, i
  <2> HIDE DEF k
  <2>18. r = With(n, P2, C2, A2, i, pg, tl)
    BY <2>1, <2>15, <2>17 DEF With, MemType
  <2>19. r.pte = P2 /\ r.tlb = tl
    BY <2>1, <2>8, <2>9, <2>10, <2>11, <2>18, WithIs
  <2>20. Sound(r, sh, {}, o, want)
    BY <1>4, <2>1, <2>7, <2>8, <2>9, <2>10, <2>11, <2>12, <2>18, SoundWith
  <2>21. r.pte[p][v].at = "mem"
    BY <2>1, <2>5, <2>19, PutIs DEF P2
  <2> QED BY <2>2, <2>13, <2>14, <2>19, <2>20, <2>21 DEF Resident, r
<1> QED BY <1>2, <1>3, <1>4
-----------------------------------------------------------------------------
(* do_fork().                                                              *)

\* Page v of process q, which was not mapped, is what q inherits, unless the
\* memory is exhausted.
Forked(m, r, sh, o, want, q, v) ==
  \/ Exhausted(r)
  \/ /\ Sound(r, sh, {}, o, want) /\ AlikeBut(m.pte, r.pte, q, v)
     /\ TlbOk(m.pte, m.tlb, current) => TlbOk(r.pte, r.tlb, current)
     /\ r.pte[q][v] # NoPte /\ ~r.pte[q][v].shm

\* A shared memory page is copied.
LEMMA ForkShm ==
  ASSUME NEW m, NEW sh, NEW o, NEW want, Sound(m, sh, {}, o, want), NEW c \in Cpu,
         NEW p \in Proc, NEW q \in Proc, NEW v \in Page, m.pte[p][v].shm,
         m.pte[q][v] = NoPte, want[q][v] = want[p][v]
  PROVE  Forked(m, ShareFrame(m, c, p, q, v), sh, o, want, q, v)
<1> DEFINE f == m.pte[p][v].n
           n == AllocPage(m, c, q, v)
           r == ShareFrame(m, c, p, q, v)
<1>1. r = CopyShm(n, q, v, f)
  BY SoundTypes DEF ShareFrame
<1>2. m.pte[p][v].at = "mem" /\ f \in Frame
  <2> DEFINE P == m.pte
             C == m.charmap
             A == m.uva
             k == o[p][v]
  <2>1. P \in PteMap /\ C \in CharMap /\ sh \in ShmType /\ Ptes(P) /\ Shm(P, C, A, sh, o) /\ P[p][v].shm
    BY SoundTypes
  <2> HIDE DEF P, C, A, k
  <2>2. KeyUse(P, C, A, sh, p, v, P[p][v].n, k)
    BY <2>1, KeyOf DEF k
  <2> QED BY <2>2 DEF KeyUse, P
<1>3. m.page[f] = want[q][v]
  BY <1>2, SoundTypes DEF Reads
<1>4. Exhausted(n) \/ (Sound(n, sh, {n.got}, o, want) /\ Allocated(m, n, q, v))
  BY AllocPageIs
<1> HIDE DEF n, r, f
<1>5. CASE Exhausted(n)
  <2>1. r = n
    BY <1>1, <1>5 DEF CopyShm, Ok, Exhausted
  <2> QED BY <1>5, <2>1 DEF r, Forked
<1>6. CASE Sound(n, sh, {n.got}, o, want) /\ Allocated(m, n, q, v)
  <2> DEFINE P2 == Put(n.pte, q, v, UserPte(n.got))
             pg == [n.page EXCEPT ![n.got] = n.page[f]]
  <2>1. n \in MemType /\ Ok(n) /\ n.got \in Frame /\ n.page \in [Frame -> Values] /\ n.pte \in PteMap
    BY <1>6, SoundTypes
  <2>2. r = [n EXCEPT !.page = pg, !.pte = P2]
    <3>1. r = [n EXCEPT !.page[n.got] = n.page[f], !.pte[q][v] = UserPte(n.got)]
      BY <1>1, <2>1 DEF CopyShm
    <3> QED BY <3>1 DEF Put
  <2>3. n.page[f] \in Values /\ want[q][v] = n.page[f]
    <3>1. n.page = m.page
      BY <1>6 DEF Allocated
    <3> QED BY <1>2, <1>3, <2>1, <3>1
  <2>4. P2[q][v] # NoPte /\ ~P2[q][v].shm
    BY <2>1, UserPteIs, PutIs
  <2> HIDE DEF P2, pg
  <2>5. r = With(n, P2, n.charmap, n.uva, n.ffree, pg, n.tlb)
    BY <2>1, <2>2 DEF With, MemType
  <2>6. /\ Sound(r, sh, {}, o, want) /\ AlikeBut(m.pte, r.pte, q, v)
        /\ TlbOk(m.pte, m.tlb, current) => TlbOk(r.pte, r.tlb, current)
        /\ r.pte = P2
    BY <1>6, <2>3, <2>5, MapFresh DEF P2, pg
  <2> QED BY <2>4, <2>6 DEF Forked, r
<1> QED BY <1>4, <1>5, <1>6

\* A page that is copy-on-write already has a user more.
LEMMA ForkCow ==
  ASSUME NEW m, NEW sh, NEW o, NEW want, Sound(m, sh, {}, o, want), NEW c \in Cpu,
         NEW p \in Proc, NEW q \in Proc, NEW v \in Page,
         m.pte[p][v].at = "mem", ~m.pte[p][v].shm, m.pte[p][v].cow,
         m.pte[q][v] = NoPte, want[q][v] = want[p][v]
  PROVE  Forked(m, ShareFrame(m, c, p, q, v), sh, o, want, q, v)
<1> DEFINE P == m.pte
           C == m.charmap
           A == m.uva
           e == P[p][v]
           f == e.n
           P2 == Put(P, q, v, e)
           A2 == [A EXCEPT ![f] = A[f] + 1]
           U == Users(P, f)
           r == ShareFrame(m, c, p, q, v)
<1>1. /\ P \in PteMap /\ C \in CharMap /\ A \in [Frame -> Nat] /\ sh \in ShmType
      /\ Ptes(P) /\ Frames(P, C, A, {}) /\ Shm(P, C, A, sh, o)
      /\ Slots(P, m.scharmap) /\ Reads(P, m.page, m.disk, want)
      /\ m \in MemType /\ IsFirst(C, m.ffree, NPF) /\ m.page \in [Frame -> Values]
      /\ m.tlb \in TlbMap /\ m.halt = "no" /\ Ok(m)
  BY SoundTypes
<1> HIDE DEF P, C, A
<1>2. e \in Pte /\ PteOk(e)
  BY <1>1 DEF PteMap, Ptes
<1>3. e.at = "mem" /\ ~e.shm /\ e.cow /\ P[q][v] = NoPte
  BY DEF P
<1>4. /\ f \in Frame /\ <<p, v>> \in U /\ FrameOk(P, C, A, f)
      /\ C[f] = Shared /\ CowUsers(P, f) /\ ~ShmUsers(P, f) /\ ~e.w
  BY <1>1, <1>3, FrameOf
<1>5. Cardinality(U) = A[f] /\ A[f] \in Nat /\ A[f] > 0 /\ IsFiniteSet(U) /\ <<q, v>> \notin U
  <2>1. IsFiniteSet(U)
    BY UsersArePairs
  <2>2. <<q, v>> \notin U
    BY <1>3, NoPteIs DEF Users
  <2> QED BY <1>1, <1>4, <2>1, <2>2 DEF FrameOk
<1>6. Cardinality(U \cup {<<q, v>>}) = A[f] + 1
  <2> HIDE DEF U, f
  <2>1. IsFiniteSet(U) /\ <<q, v>> \notin U
    BY <1>5
  <2>2. Cardinality(U \cup {<<q, v>>}) = Cardinality(U) + 1
    BY <2>1, FS_AddElement
  <2> QED BY <1>5, <2>2
<1>7. /\ A2 \in [Frame -> Nat] /\ A2[f] = A[f] + 1
      /\ \A g \in Frame : g # f => A2[g] = A[g]
  BY <1>1, <1>4, <1>5
<1>8. P2 \in PteMap /\ \A x \in Proc, u \in Page : P2[x][u] = IF x = q /\ u = v THEN e ELSE P[x][u]
  BY <1>1, <1>2, PutIs
<1>9. Users(P2, f) = U \cup {<<q, v>>}
  BY <1>1, <1>2, <1>3, UsersPut
<1> HIDE DEF A2, P2, e, U, r
<1>10. FrameOk(P2, C, A2, f)
  <2>1. ASSUME NEW t \in Users(P2, f)
        PROVE  /\ P2[t[1]][t[2]].cow /\ ~P2[t[1]][t[2]].w /\ ~P2[t[1]][t[2]].shm
               /\ t[2] = v
    <3>1. CASE t = <<q, v>>
      BY <1>3, <1>4, <1>8, <3>1
    <3>2. CASE t # <<q, v>>
      <4>1. t \in U /\ t[1] \in Proc /\ t[2] \in Page /\ t = <<t[1], t[2]>>
        BY <1>9, <3>2, UsersArePairs DEF U
      <4>2. P2[t[1]][t[2]] = P[t[1]][t[2]]
        BY <1>8, <3>2, <4>1
      <4>3. t[2] = <<p, v>>[2]
        BY <1>4, <4>1 DEF CowUsers, U
      <4> QED BY <1>4, <4>1, <4>2, <4>3 DEF CowUsers, U
    <3> QED BY <3>1, <3>2
  <2>2. CowUsers(P2, f)
    BY <2>1 DEF CowUsers
  <2>3. Cardinality(Users(P2, f)) = A2[f] /\ A2[f] > 0
    BY <1>5, <1>6, <1>7, <1>9
  <2> QED BY <1>4, <2>2, <2>3, Constants DEF FrameOk
<1>11. Frames(P2, C, A2, {})
  <2>1. ASSUME NEW g \in Frame, g # f PROVE FrameOk(P2, C, A2, g)
    <3>1. A2[g] = A[g] /\ P[q][v].at # "mem" /\ g \notin {} /\ e.n # g
      BY <1>3, <1>7, <2>1, NoPteIs
    <3> QED BY <1>1, <1>2, <2>1, <3>1, FramesElse DEF P2
  <2> QED BY <1>10, <2>1 DEF Frames
<1>12. Shm(P2, C, A2, sh, o)
  <2>1. ASSUME NEW g \in Frame, C[g] = Shared, ShmUsers(P, g)
        PROVE  C[g] = Shared /\ A2[g] = A[g] /\ ~(e.at = "mem" /\ e.n = g)
    BY <1>4, <1>7, <2>1
  <2>2. ~P[q][v].shm /\ ~e.shm
    BY <1>3, NoPteIs
  <2>3. ShmKept(P, C, A, P2, C, A2)
    BY <1>1, <1>2, <2>1, <2>2, ShmPut DEF P2
  <2> QED BY <1>1, <2>3, ShmStays
<1>13. Ptes(P2) /\ Slots(P2, m.scharmap)
  <2>1. P[q][v].at # "disk" /\ e.at # "disk"
    BY <1>3, NoPteIs
  <2> QED BY <1>1, <1>2, <2>1, PtesPut, SlotsPut DEF P2
<1>14. Reads(P2, m.page, m.disk, want)
  <2>1. m.page[e.n] = want[q][v]
    BY <1>1, <1>3 DEF Reads, e
  <2> QED BY <1>1, <1>2, <1>3, <2>1, ReadsPut DEF P2
<1>15. TlbOk(P, m.tlb, current) => TlbOk(P2, m.tlb, current)
  <2>1. ASSUME TlbOk(P, m.tlb, current), NEW d \in Cpu, current[d] = q, m.tlb[d][v] # NoEntry
        PROVE  FALSE
    BY <1>3, <2>1, NoPteIs DEF TlbOk
  <2> QED BY <1>1, <1>2, <2>1, TlbPut DEF P2
<1>16. AlikeBut(P, P2, q, v)
  BY <1>8 DEF AlikeBut, Alike
<1>17. P2[q][v] # NoPte /\ ~P2[q][v].shm
  BY <1>3, <1>8, NoPteIs
<1>18. r = With(m, P2, C, A2, m.ffree, m.page, m.tlb)
  <2>1. r = [m EXCEPT !.pte[q][v] = e, !.uva[f] = @ + 1, !.halt = "no"]
    BY <1>1, <1>4 DEF r, ShareFrame, e, P, C
  <2>2. [m EXCEPT !.pte[q][v] = e] = [m EXCEPT !.pte = P2]
    BY DEF P2, P, Put
  <2>3. [m EXCEPT !.uva[f] = @ + 1] = [m EXCEPT !.uva = A2]
    BY DEF A2, A
  <2>4. r = [m EXCEPT !.pte = P2, !.uva = A2, !.halt = "no"]
    BY <2>1 DEF P2, A2, P, A, Put
  <2> QED BY <1>1, <2>4 DEF With, MemType, C
<1>19. r.pte = P2 /\ r.tlb = m.tlb
  BY <1>1, <1>7, <1>8, <1>18, WithIs DEF IsFirst
<1>20. Sound(r, sh, {}, o, want)
  BY <1>1, <1>7, <1>8, <1>11, <1>12, <1>13, <1>14, <1>18, SoundWith
<1> QED BY <1>15, <1>16, <1>17, <1>19, <1>20 DEF Forked, r, P

\* A private page becomes copy-on-write for both processes.
LEMMA ForkPrivate ==
  ASSUME NEW m, NEW sh, NEW o, NEW want, Sound(m, sh, {}, o, want), NEW c \in Cpu,
         NEW p \in Proc, NEW q \in Proc, NEW v \in Page, p # q,
         m.pte[p][v].at = "mem", ~m.pte[p][v].shm, ~m.pte[p][v].cow,
         m.pte[q][v] = NoPte, want[q][v] = want[p][v]
  PROVE  Forked(m, ShareFrame(m, c, p, q, v), sh, o, want, q, v)
<1> DEFINE P == m.pte
           C == m.charmap
           A == m.uva
           e == P[p][v]
           f == e.n
           ro == [e EXCEPT !.cow = TRUE, !.w = FALSE]
           P1 == Put(P, p, v, ro)
           P2 == Put(P1, q, v, ro)
           C2 == [C EXCEPT ![f] = Shared]
           A2 == [A EXCEPT ![f] = 2]
           r == ShareFrame(m, c, p, q, v)
<1>1. /\ P \in PteMap /\ C \in CharMap /\ A \in [Frame -> Nat] /\ sh \in ShmType
      /\ Ptes(P) /\ Frames(P, C, A, {}) /\ Shm(P, C, A, sh, o)
      /\ Slots(P, m.scharmap) /\ Reads(P, m.page, m.disk, want)
      /\ m \in MemType /\ IsFirst(C, m.ffree, NPF) /\ m.page \in [Frame -> Values]
      /\ m.tlb \in TlbMap /\ m.halt = "no" /\ Ok(m)
  BY SoundTypes
<1> HIDE DEF P, C, A
<1>2. e \in Pte /\ PteOk(e)
  BY <1>1 DEF PteMap, Ptes
<1>3. e.at = "mem" /\ ~e.shm /\ ~e.cow /\ P[q][v] = NoPte
  BY DEF P
<1>4. f \in Frame /\ Users(P, f) = {<<p, v>>} /\ C[f] = p
  <2>1. P[p][v].at = "mem" /\ ~P[p][v].cow /\ ~P[p][v].shm
    BY <1>3
  <2>2. P \in PteMap /\ C \in CharMap /\ Ptes(P) /\ Frames(P, C, A, {})
    BY <1>1
  <2> QED BY <2>1, <2>2, PrivateOf
<1>5. ro \in Pte /\ ro.at = "mem" /\ ro.n = f /\ ro.shm = e.shm /\ ro.cow /\ ~ro.w /\ PteOk(ro)
  <2> HIDE DEF e
  <2>1. ro \in Pte /\ ro.at = "mem" /\ ro.n = f /\ ro.shm = e.shm /\ ro.cow /\ ~ro.w
    BY <1>2, <1>3 DEF Pte
  <2> HIDE DEF ro
  <2> QED BY <1>2, <1>3, <2>1 DEF PteOk
<1> HIDE DEF ro, P1
<1>6. P1 \in PteMap /\ \A x \in Proc, u \in Page : P1[x][u] = IF x = p /\ u = v THEN ro ELSE P[x][u]
  BY <1>1, <1>5, PutIs DEF P1
<1>7. P2 \in PteMap /\ \A x \in Proc, u \in Page :
        P2[x][u] = IF (x = p \/ x = q) /\ u = v THEN ro ELSE P[x][u]
  <2>1. P2 \in PteMap /\ \A x \in Proc, u \in Page : P2[x][u] = IF x = q /\ u = v THEN ro ELSE P1[x][u]
    BY <1>5, <1>6, PutIs
  <2> HIDE DEF P2
  <2> QED BY <1>6, <2>1
<1>8. /\ C2 \in CharMap /\ A2 \in [Frame -> Nat] /\ C2[f] = Shared /\ A2[f] = 2
      /\ \A g \in Frame : g # f => C2[g] = C[g] /\ A2[g] = A[g]
  <2> HIDE DEF f
  <2>1. C2 \in CharMap /\ C2[f] = Shared /\ \A g \in Frame : g # f => C2[g] = C[g]
    BY <1>1, <1>4 DEF CharMap
  <2>2. A2 \in [Frame -> Nat] /\ A2[f] = 2 /\ \A g \in Frame : g # f => A2[g] = A[g]
    BY <1>1, <1>4
  <2> QED BY <2>1, <2>2
<1> HIDE DEF C2, A2
<1>9. Users(P1, f) = {<<p, v>>} /\ Users(P2, f) = {<<p, v>>, <<q, v>>}
  <2>1. Users(P1, f) = Users(P, f) \cup {<<p, v>>}
    BY <1>1, <1>5, UsersPut DEF P1
  <2>2. Users(P2, f) = Users(P1, f) \cup {<<q, v>>}
    BY <1>5, <1>6, UsersPut
  <2> QED BY <1>4, <2>1, <2>2
<1> HIDE DEF P2, e, r
<1>10. P[q][v].at = "none" /\ P1[q][v] = NoPte
  BY <1>3, <1>6, NoPteIs
<1>11. FrameOk(P2, C2, A2, f)
  <2>1. CowUsers(P2, f)
    <3>1. ASSUME NEW t \in Users(P2, f)
          PROVE  /\ P2[t[1]][t[2]].cow /\ ~P2[t[1]][t[2]].w /\ ~P2[t[1]][t[2]].shm
                 /\ t[2] = v
      <4>1. P2[t[1]][t[2]] = ro /\ t[2] = v
        BY <1>7, <1>9
      <4> QED BY <1>3, <1>5, <4>1
    <3> QED BY <3>1 DEF CowUsers
  <2>2. Cardinality(Users(P2, f)) = 2
    <3>1. <<p, v>> # <<q, v>>
      OBVIOUS
    <3>2. IsFiniteSet({<<p, v>>}) /\ Cardinality({<<p, v>>}) = 1
      BY FS_Singleton
    <3>3. Cardinality({<<p, v>>} \cup {<<q, v>>}) = Cardinality({<<p, v>>}) + 1
      <4> DEFINE S == {<<p, v>>}
                 y == <<q, v>>
      <4>1. IsFiniteSet(S) /\ y \notin S
        BY <3>1, <3>2
      <4> HIDE DEF S, y
      <4>2. Cardinality(S \cup {y}) = Cardinality(S) + 1
        BY <4>1, FS_AddElement
      <4> QED BY <4>2 DEF S, y
    <3>4. Users(P2, f) = {<<p, v>>} \cup {<<q, v>>}
      BY <1>9
    <3> QED BY <3>2, <3>3, <3>4
  <2> QED BY <1>8, <2>1, <2>2, Constants DEF FrameOk
<1>12. ASSUME NEW g \in Frame, g # f PROVE FrameOk(P2, C2, A2, g)
  <2>1. C2[g] = C[g] /\ A2[g] = A[g] /\ g \notin {}
    BY <1>8, <1>12
  <2>2. (P[p][v].at = "mem" => P[p][v].n # g) /\ (ro.at = "mem" => ro.n # g)
    BY <1>5, <1>12 DEF e
  <2>3. FrameOk(P1, C2, A2, g)
    BY <1>1, <1>5, <2>1, <2>2, FramesElse DEF P1
  <2>4. <<q, v>> \notin Users(P1, g)
    BY <1>10, NoPteIs DEF Users
  <2> QED BY <1>5, <1>6, <2>2, <2>3, <2>4, FrameElse DEF P2
<1>13. Frames(P2, C2, A2, {})
  BY <1>11, <1>12 DEF Frames
<1>14. Shm(P2, C2, A2, sh, o)
  <2>1. ASSUME NEW g \in Frame, C[g] = Shared PROVE g # f
    BY <1>4, <2>1, Constants
  <2>2. ASSUME NEW g \in Frame, C[g] = Shared, ShmUsers(P, g)
        PROVE  C2[g] = Shared /\ A2[g] = A[g] /\ ~(ro.at = "mem" /\ ro.n = g)
    BY <1>5, <1>8, <2>1, <2>2
  <2>3. ShmKept(P, C, A, P1, C2, A2)
    BY <1>1, <1>3, <1>5, <2>2, ShmPut DEF P1, e
  <2>4. Shm(P1, C2, A2, sh, o)
    BY <1>1, <2>3, ShmStays
  <2>5. ~ShmUsers(P1, f)
    <3>1. <<p, v>> \in Users(P1, f) /\ P1[p][v] = ro
      BY <1>6, <1>9
    <3> QED BY <1>3, <1>5, <3>1 DEF ShmUsers
  <2>6. ASSUME NEW g \in Frame, C2[g] = Shared, ShmUsers(P1, g)
        PROVE  C2[g] = Shared /\ A2[g] = A2[g] /\ ~(ro.at = "mem" /\ ro.n = g)
    BY <1>5, <2>5, <2>6
  <2>7. ShmKept(P1, C2, A2, P2, C2, A2)
    BY <1>3, <1>5, <1>6, <1>10, <2>6, NoPteIs, ShmPut DEF P2
  <2>8. sh \in ShmType
    BY <1>1
  <2> QED BY <2>4, <2>7, <2>8, ShmStays
<1>15. Ptes(P2) /\ Slots(P2, m.scharmap)
  <2>1. P[p][v].at # "disk" /\ P1[q][v].at # "disk" /\ ro.at # "disk"
    BY <1>3, <1>5, <1>10, NoPteIs DEF e
  <2>2. Ptes(P1) /\ Slots(P1, m.scharmap)
    BY <1>1, <1>5, <2>1, PtesPut, SlotsPut DEF P1
  <2> QED BY <1>5, <1>6, <2>1, <2>2, PtesPut, SlotsPut DEF P2
<1>16. Reads(P2, m.page, m.disk, want)
  <2>1. m.page[f] = want[p][v]
    BY <1>1, <1>3 DEF Reads, e
  <2>2. Reads(P1, m.page, m.disk, want)
    BY <1>1, <1>5, <2>1, ReadsPut DEF P1
  <2>3. m.page[ro.n] = want[q][v]
    BY <1>5, <2>1
  <2> QED BY <1>5, <1>6, <2>2, <2>3, ReadsPut DEF P2
<1>17. TlbOk(P, m.tlb, current) => TlbOk(P2, m.tlb, current)
  <2> SUFFICES ASSUME TlbOk(P, m.tlb, current) PROVE TlbOk(P2, m.tlb, current)
    OBVIOUS
  <2>1. ASSUME NEW d \in Cpu, current[d] = p, m.tlb[d][v] # NoEntry PROVE ro.at = "mem" /\ ro.n = m.tlb[d][v].n
    BY <1>5, <2>1 DEF TlbOk, e
  <2>2. TlbOk(P1, m.tlb, current)
    BY <1>1, <1>5, <2>1, TlbPut DEF P1
  <2>3. ASSUME NEW d \in Cpu, current[d] = q, m.tlb[d][v] # NoEntry PROVE FALSE
    BY <1>10, <2>2, <2>3, NoPteIs DEF TlbOk
  <2> QED BY <1>5, <1>6, <2>2, <2>3, TlbPut DEF P2
<1>18. AlikeBut(P, P2, q, v)
  <2>1. e # NoPte /\ ro # NoPte
    BY <1>3, <1>5, NoPteIs
  <2> QED BY <1>5, <1>7, <2>1 DEF AlikeBut, Alike, e
<1>19. P2[q][v] # NoPte /\ ~P2[q][v].shm
  BY <1>3, <1>5, <1>7, NoPteIs
<1>20. IsFirst(C2, m.ffree, NPF)
  <2>1. C \in [0 .. NPF - 1 -> Proc \cup {Free, Shared}] /\ C[f] # Free /\ f \in 0 .. NPF - 1
    BY <1>1, <1>4, Constants DEF CharMap, Frame
  <2> HIDE DEF f
  <2> QED BY <1>1, <2>1, Constants, HintStays DEF C2
<1>21. r = With(m, P2, C2, A2, m.ffree, m.page, m.tlb)
  <2>1. r = [m EXCEPT !.pte[p][v] = ro, !.pte[q][v] = ro, !.charmap[f] = Shared, !.uva[f] = 2]
    <3>1. Ok(m) /\ ~m.pte[p][v].shm /\ ~m.pte[p][v].cow
      BY <1>1 DEF Ok
    <3> QED BY <3>1 DEF r, ShareFrame, e, P, ro, f
  <2>2. P2 = [[P EXCEPT ![p][v] = ro] EXCEPT ![q][v] = ro]
    BY DEF P2, P1, Put
  <2>3. r = [m EXCEPT !.pte = [[m.pte EXCEPT ![p][v] = ro] EXCEPT ![q][v] = ro],
                      !.charmap = [m.charmap EXCEPT ![f] = Shared],
                      !.uva = [m.uva EXCEPT ![f] = 2]]
    BY <2>1
  <2>4. r = [m EXCEPT !.pte = P2, !.charmap = C2, !.uva = A2]
    BY <2>2, <2>3 DEF C2, A2, P, C, A
  <2> QED BY <1>1, <2>4 DEF With, MemType
<1>22. r.pte = P2 /\ r.tlb = m.tlb
  BY <1>1, <1>7, <1>8, <1>21, WithIs DEF IsFirst
<1>23. Sound(r, sh, {}, o, want)
  BY <1>1, <1>7, <1>8, <1>13, <1>14, <1>15, <1>16, <1>20, <1>21, SoundWith
<1> QED BY <1>17, <1>18, <1>19, <1>22, <1>23 DEF Forked, r, P

\* do_fork() of a page that is in memory: shared memory, copy-on-write, private.
LEMMA ShareFrameIs ==
  ASSUME NEW m, NEW sh, NEW o, NEW want, Sound(m, sh, {}, o, want), NEW c \in Cpu,
         NEW p \in Proc, NEW q \in Proc, NEW v \in Page, p # q,
         m.pte[p][v].at = "mem", m.pte[q][v] = NoPte, want[q][v] = want[p][v]
  PROVE  Forked(m, ShareFrame(m, c, p, q, v), sh, o, want, q, v)
BY ForkShm, ForkCow, ForkPrivate

\* do_fork() of a page that is mapped.
LEMMA ForkPageIs ==
  ASSUME NEW m, NEW sh, NEW o, NEW want, Sound(m, sh, {}, o, want), NEW c \in Cpu,
         NEW p \in Proc, NEW q \in Proc, NEW v \in Page, p # q,
         m.pte[p][v] # NoPte, m.pte[q][v] = NoPte, want[q][v] = want[p][v]
  PROVE  Forked(m, ForkPage(m, c, p, q, v), sh, o, want, q, v)
<1>1. m.pte[p][v] \in Pte /\ PteOk(m.pte[p][v]) /\ Ok(m)
  BY SoundTypes DEF PteMap, Ptes
<1>2. m.pte[p][v].at \in {"mem", "disk"}
  BY <1>1 DEF Pte, PteOk
<1>3. CASE m.pte[p][v].at = "mem"
  <2>1. ForkPage(m, c, p, q, v) = ShareFrame(m, c, p, q, v)
    BY <1>1, <1>3 DEF ForkPage
  <2> QED BY <1>3, <2>1, ShareFrameIs
<1>4. CASE m.pte[p][v].at = "disk"
  <2> DEFINE n == SwapFromDisk(m, c, p, v)
             r == ShareFrame(n, c, p, q, v)
  <2>1. ForkPage(m, c, p, q, v) = r
    BY <1>1, <1>4 DEF ForkPage
  <2>2. Resident(m, n, sh, o, want, p, v)
    BY <1>4, SwapFromDiskIs
  <2> HIDE DEF n
  <2>3. CASE Exhausted(n)
    <3>1. r = n
      BY <2>3 DEF ShareFrame, Ok, Exhausted
    <3> QED BY <2>1, <2>3, <3>1 DEF Forked
  <2>4. CASE ~Exhausted(n)
    <3>1. /\ Sound(n, sh, {}, o, want) /\ \A x \in Proc, u \in Page : Alike(m.pte, n.pte, x, u)
          /\ TlbOk(m.pte, m.tlb, current) => TlbOk(n.pte, n.tlb, current)
          /\ n.pte[p][v].at = "mem"
      BY <2>2, <2>4 DEF Resident
    <3>2. n.pte[q][v] = NoPte
      BY <3>1 DEF Alike
    <3>3. Forked(n, r, sh, o, want, q, v)
      BY <3>1, <3>2, ShareFrameIs
    <3> HIDE DEF r
    <3>4. AlikeBut(n.pte, r.pte, q, v) => AlikeBut(m.pte, r.pte, q, v)
      BY <3>1 DEF AlikeBut, Alike
    <3>5. Forked(m, r, sh, o, want, q, v)
      BY <3>1, <3>3, <3>4 DEF Forked
    <3> QED BY <2>1, <3>5
  <2> QED BY <2>3, <2>4
<1> QED BY <1>2, <1>3, <1>4
-----------------------------------------------------------------------------
(* The loops over the pages of a process.                                  *)

\* Induction on the natural numbers, over a set.
LEMMA SetInduction ==
  ASSUME NEW T, 0 \in T, \A k \in Nat : k \in T => k + 1 \in T
  PROVE  Nat \subseteq T
<1> SUFFICES ASSUME Nat \ T # {} PROVE FALSE
  OBVIOUS
<1>1. PICK x \in Nat \ T : \A y \in Nat \ T : <<y, x>> \notin OpToRel(<, Nat)
  BY NatLessThanWellFounded, WFMin
<1>2. x # 0 /\ x - 1 \in Nat
  OBVIOUS
<1>3. x - 1 \in Nat \ T
  BY <1>2
<1>4. <<x - 1, x>> \in OpToRel(<, Nat)
  BY <1>2 DEF OpToRel
<1> QED BY <1>1, <1>3, <1>4

\* The largest of some of the numbers up to k + 1 is that one, if it is there.
LEMMA LastOne ==
  ASSUME NEW k \in Nat, NEW s \in SUBSET (1 .. k + 1), k + 1 \in s
  PROVE  Max(s) = k + 1 /\ s \ {k + 1} \in SUBSET (1 .. k)
<1>1. \A x \in s : x \in Int /\ k + 1 >= x
  OBVIOUS
<1>2. Max(s) \in s /\ \A y \in s : Max(s) >= y
  BY <1>1 DEF Max
<1>3. Max(s) \in Int /\ Max(s) >= k + 1 /\ k + 1 >= Max(s)
  BY <1>1, <1>2
<1>4. Max(s) = k + 1
  BY <1>3
<1>5. s \ {k + 1} \in SUBSET (1 .. k)
  OBVIOUS
<1> QED BY <1>4, <1>5

\* The largest of some numbers is one of them.
LEMMA MaxIn ==
  ASSUME NEW n \in Nat, NEW s \in SUBSET (1 .. n), s # {}
  PROVE  Max(s) \in s
<1> DEFINE T == {k \in Nat : \A r \in SUBSET (1 .. k) : r # {} => Max(r) \in r}
<1>1. 0 \in T
  <2>1. \A r \in SUBSET (1 .. 0) : r = {}
    OBVIOUS
  <2> QED BY <2>1
<1>2. ASSUME NEW k \in Nat, k \in T PROVE k + 1 \in T
  <2>1. ASSUME NEW r \in SUBSET (1 .. k + 1), r # {} PROVE Max(r) \in r
    <3>1. CASE k + 1 \in r
      BY <3>1, LastOne
    <3>2. CASE k + 1 \notin r
      <4>1. \A x \in r : x \in 1 .. k + 1 /\ x # k + 1
        BY <3>2
      <4>2. \A x \in r : x \in 1 .. k
        BY <4>1
      <4> QED BY <1>2, <2>1, <4>2
    <3> QED BY <3>1, <3>2
  <2> QED BY <2>1
<1>3. n \in T
  BY <1>1, <1>2, SetInduction
<1> QED BY <1>3

\* One turn of each loop: in do_fork(), load_task_img() and free_pages_of_proc().
Load(m, c, q, v) == IF Ok(m) THEN Fill(AllocPageHelper(m, c, q, v)) ELSE m
Turn(loop, c, p, q, t, v) ==
  IF loop = "fork" THEN ForkPage(t, c, p, q, v)
  ELSE IF loop = "load" THEN Load(t, c, q, v) ELSE FreeOne(t, p, v)

\* g says what any part of the loop makes of b.
IsLoop(loop, c, p, q, b, n, g) ==
  g = [s \in SUBSET (1 .. n) |->
         IF s = {} THEN b ELSE Turn(loop, c, p, q, g[s \ {Max(s)}], Max(s))]

\* Every loop has such a function: by induction on its turns.
LEMMA LoopExists ==
  ASSUME NEW loop, NEW c, NEW p, NEW q, NEW b, NEW n \in Nat
  PROVE  \E g : IsLoop(loop, c, p, q, b, n, g)
<1> DEFINE T == {k \in Nat : \E g : IsLoop(loop, c, p, q, b, k, g)}
<1>1. 0 \in T
  <2> DEFINE g == [s \in SUBSET (1 .. 0) |-> b]
  <2>1. SUBSET (1 .. 0) = {{}}
    OBVIOUS
  <2>2. IsLoop(loop, c, p, q, b, 0, g)
    BY <2>1 DEF IsLoop
  <2> QED BY <2>2
<1>2. ASSUME NEW k \in Nat, k \in T PROVE k + 1 \in T
  <2>1. PICK g : IsLoop(loop, c, p, q, b, k, g)
    BY <1>2
  <2> DEFINE h == [s \in SUBSET (1 .. k + 1) |->
                     IF k + 1 \in s THEN Turn(loop, c, p, q, g[s \ {k + 1}], k + 1) ELSE g[s]]
  <2>2. \A s \in SUBSET (1 .. k) : s \in SUBSET (1 .. k + 1) /\ h[s] = g[s]
    OBVIOUS
  <2>3. ASSUME NEW s \in SUBSET (1 .. k + 1)
        PROVE  h[s] = IF s = {} THEN b ELSE Turn(loop, c, p, q, h[s \ {Max(s)}], Max(s))
    <3>1. CASE k + 1 \in s
      BY <3>1, <2>2, LastOne
    <3>2. CASE k + 1 \notin s
      <4>1. s \in SUBSET (1 .. k) /\ s \ {Max(s)} \in SUBSET (1 .. k)
        <5>1. \A x \in s : x \in 1 .. k + 1 /\ x # k + 1
          BY <3>2
        <5>2. \A x \in s : x \in 1 .. k
          BY <5>1
        <5> QED BY <5>2
      <4>2. g[s] = IF s = {} THEN b ELSE Turn(loop, c, p, q, g[s \ {Max(s)}], Max(s))
        BY <4>1, <2>1 DEF IsLoop
      <4> QED BY <4>1, <4>2, <2>2
    <3> QED BY <3>1, <3>2
  <2>4. IsLoop(loop, c, p, q, b, k + 1, h)
    BY <2>3 DEF IsLoop
  <2> HIDE DEF h
  <2> QED BY <2>4
<1> QED BY <1>1, <1>2, SetInduction

\* t[k] is what k turns of a loop make of b.
Turns(loop, c, p, q, b, n, t) ==
  t[0] = b /\ \A k \in 1 .. n : t[k] = Turn(loop, c, p, q, t[k - 1], k)

\* The function counts the turns of the loop.
LEMMA LoopTurns ==
  ASSUME NEW loop, NEW c, NEW p, NEW q, NEW b, NEW n \in Nat, NEW g,
         IsLoop(loop, c, p, q, b, n, g)
  PROVE  \E t : Turns(loop, c, p, q, b, n, t) /\ g[1 .. n] = t[n]
<1> DEFINE t == [k \in 0 .. n |-> g[1 .. k]]
<1>1. t[0] = b
  <2>1. 1 .. 0 = {} /\ t[0] = g[1 .. 0]
    OBVIOUS
  <2>2. g[{}] = b
    BY DEF IsLoop
  <2> QED BY <2>1, <2>2
<1>2. ASSUME NEW k \in 1 .. n PROVE t[k] = Turn(loop, c, p, q, t[k - 1], k)
  <2>1. k - 1 \in Nat /\ 1 .. k \in SUBSET (1 .. (k - 1) + 1) /\ (k - 1) + 1 \in 1 .. k
    OBVIOUS
  <2>2. Max(1 .. k) = (k - 1) + 1
    BY <2>1, LastOne
  <2>3. (k - 1) + 1 = k /\ (1 .. k) \ {k} = 1 .. k - 1
    OBVIOUS
  <2>4. 1 .. k # {} /\ 1 .. k \in SUBSET (1 .. n)
    <3>1. k \in 1 .. k
      OBVIOUS
    <3>2. \A i \in 1 .. k : i \in 1 .. n
      OBVIOUS
    <3> QED BY <3>1, <3>2
  <2>5. g[1 .. k] = Turn(loop, c, p, q, g[(1 .. k) \ {Max(1 .. k)}], Max(1 .. k))
    BY <2>4 DEF IsLoop
  <2>6. t[k] = g[1 .. k] /\ t[k - 1] = g[1 .. k - 1]
    OBVIOUS
  <2> QED BY <2>2, <2>3, <2>5, <2>6
<1>3. t[n] = g[1 .. n]
  OBVIOUS
<1> HIDE DEF t
<1>4. Turns(loop, c, p, q, b, n, t)
  BY <1>1, <1>2 DEF Turns
<1> QED BY <1>3, <1>4

\* The loop of do_fork()
Forks(c, p, q, b) == FoldLeft(LAMBDA n, v : ForkPage(n, c, p, q, v), b, [v \in Page |-> v])

\* FoldLeft over the pages is the loop's last turn.
LEMMA ForkTurns ==
  ASSUME NEW c, NEW p, NEW q, NEW b
  PROVE  \E t : Turns("fork", c, p, q, b, UsegPages, t) /\ Forks(c, p, q, b) = t[UsegPages]
<1> DEFINE N == UsegPages
           IsFold(g) == g = [s \in SUBSET Page |->
                               IF s = {} THEN b
                               ELSE ForkPage(g[s \ {Max(s)}], c, p, q, [v \in Page |-> v][Max(s)])]
<1>1. N \in Nat /\ Page = 1 .. N
  BY Constants DEF Page
<1>2. \A s \in SUBSET Page : s # {} => Max(s) \in Page
  BY <1>1, MaxIn
<1>3. ASSUME NEW g PROVE IsFold(g) <=> IsLoop("fork", c, p, q, b, N, g)
  <2>1. \A s \in SUBSET Page : s # {} =>
          Turn("fork", c, p, q, g[s \ {Max(s)}], Max(s))
            = ForkPage(g[s \ {Max(s)}], c, p, q, [v \in Page |-> v][Max(s)])
    BY <1>2 DEF Turn
  <2>2. [s \in SUBSET Page |->
           IF s = {} THEN b ELSE Turn("fork", c, p, q, g[s \ {Max(s)}], Max(s))]
        = [s \in SUBSET Page |->
             IF s = {} THEN b
             ELSE ForkPage(g[s \ {Max(s)}], c, p, q, [v \in Page |-> v][Max(s)])]
    BY <2>1
  <2> QED BY <1>1, <2>2 DEF IsLoop
<1>4. PICK g : IsFold(g) /\ Forks(c, p, q, b) = g[Page]
  <2>1. \E g : IsFold(g)
    <3>1. PICK g : IsLoop("fork", c, p, q, b, N, g)
      BY <1>1, LoopExists
    <3>2. IsFold(g)
      BY <1>3, <3>1
    <3> QED BY <3>2
  <2>2. DOMAIN [v \in Page |-> v] = Page
    OBVIOUS
  <2> QED BY <2>1, <2>2 DEF Forks, FoldLeft, MapThenFoldSet
<1>5. IsLoop("fork", c, p, q, b, N, g) /\ Forks(c, p, q, b) = g[1 .. N]
  BY <1>1, <1>3, <1>4
<1> HIDE DEF IsFold
<1> QED BY <1>1, <1>5, LoopTurns

\* The loop of load_task_img()
Loads(c, q, b) == FoldLeft(LAMBDA m, v : Load(m, c, q, v), b, [v \in 1 .. ImgPages |-> v])

\* FoldLeft over the pages is the loop's last turn.
LEMMA LoadTurns ==
  ASSUME NEW c, NEW q, NEW b
  PROVE  \E t : Turns("load", c, q, q, b, ImgPages, t) /\ Loads(c, q, b) = t[ImgPages]
<1> DEFINE N == ImgPages
           D == 1 .. ImgPages
           IsFold(g) == g = [s \in SUBSET D |->
                               IF s = {} THEN b
                               ELSE Load(g[s \ {Max(s)}], c, q, [v \in D |-> v][Max(s)])]
<1>1. N \in Nat /\ D = 1 .. N
  BY Constants
<1>2. \A s \in SUBSET D : s # {} => Max(s) \in D
  BY <1>1, MaxIn
<1>3. ASSUME NEW g PROVE IsFold(g) <=> IsLoop("load", c, q, q, b, N, g)
  <2>1. \A s \in SUBSET D : s # {} =>
          Turn("load", c, q, q, g[s \ {Max(s)}], Max(s))
            = Load(g[s \ {Max(s)}], c, q, [v \in D |-> v][Max(s)])
    BY <1>2 DEF Turn
  <2>2. [s \in SUBSET D |->
           IF s = {} THEN b ELSE Turn("load", c, q, q, g[s \ {Max(s)}], Max(s))]
        = [s \in SUBSET D |->
             IF s = {} THEN b
             ELSE Load(g[s \ {Max(s)}], c, q, [v \in D |-> v][Max(s)])]
    BY <2>1
  <2> QED BY <1>1, <2>2 DEF IsLoop
<1>4. PICK g : IsFold(g) /\ Loads(c, q, b) = g[D]
  <2>1. \E g : IsFold(g)
    <3>1. PICK g : IsLoop("load", c, q, q, b, N, g)
      BY <1>1, LoopExists
    <3>2. IsFold(g)
      BY <1>3, <3>1
    <3> QED BY <3>2
  <2>2. DOMAIN [v \in D |-> v] = D
    OBVIOUS
  <2> QED BY <2>1, <2>2 DEF Loads, FoldLeft, MapThenFoldSet
<1>5. IsLoop("load", c, q, q, b, N, g) /\ Loads(c, q, b) = g[1 .. N]
  BY <1>1, <1>3, <1>4
<1> HIDE DEF IsFold
<1> QED BY <1>1, <1>5, LoopTurns

\* The loop of free_pages_of_proc()
Frees(p, b) == FoldLeft(LAMBDA t, v : FreeOne(t, p, v), b, [v \in Page |-> v])

\* FoldLeft over the pages is the loop's last turn.
LEMMA FreeTurns ==
  ASSUME NEW p, NEW b
  PROVE  \E t : Turns("free", p, p, p, b, UsegPages, t) /\ Frees(p, b) = t[UsegPages]
<1> DEFINE N == UsegPages
           IsFold(g) == g = [s \in SUBSET Page |->
                               IF s = {} THEN b
                               ELSE FreeOne(g[s \ {Max(s)}], p, [v \in Page |-> v][Max(s)])]
<1>1. N \in Nat /\ Page = 1 .. N
  BY Constants DEF Page
<1>2. \A s \in SUBSET Page : s # {} => Max(s) \in Page
  BY <1>1, MaxIn
<1>3. ASSUME NEW g PROVE IsFold(g) <=> IsLoop("free", p, p, p, b, N, g)
  <2>1. \A s \in SUBSET Page : s # {} =>
          Turn("free", p, p, p, g[s \ {Max(s)}], Max(s))
            = FreeOne(g[s \ {Max(s)}], p, [v \in Page |-> v][Max(s)])
    BY <1>2 DEF Turn
  <2>2. [s \in SUBSET Page |->
           IF s = {} THEN b ELSE Turn("free", p, p, p, g[s \ {Max(s)}], Max(s))]
        = [s \in SUBSET Page |->
             IF s = {} THEN b
             ELSE FreeOne(g[s \ {Max(s)}], p, [v \in Page |-> v][Max(s)])]
    BY <2>1
  <2> QED BY <1>1, <2>2 DEF IsLoop
<1>4. PICK g : IsFold(g) /\ Frees(p, b) = g[Page]
  <2>1. \E g : IsFold(g)
    <3>1. PICK g : IsLoop("free", p, p, p, b, N, g)
      BY <1>1, LoopExists
    <3>2. IsFold(g)
      BY <1>3, <3>1
    <3> QED BY <3>2
  <2>2. DOMAIN [v \in Page |-> v] = Page
    OBVIOUS
  <2> QED BY <2>1, <2>2 DEF Frees, FoldLeft, MapThenFoldSet
<1>5. IsLoop("free", p, p, p, b, N, g) /\ Frees(p, b) = g[1 .. N]
  BY <1>1, <1>3, <1>4
<1> HIDE DEF IsFold
<1> QED BY <1>1, <1>5, LoopTurns

\* What the ghosts say of pages that are not mapped does not matter.
LEMMA SoundGhosts ==
  ASSUME NEW m, NEW sh, NEW X, NEW o, NEW want, Sound(m, sh, X, o, want), NEW o2, NEW want2,
         \A q \in Proc, u \in Page : m.pte[q][u].shm => o2[q][u] = o[q][u],
         \A q \in Proc, u \in Page : m.pte[q][u] # NoPte => want2[q][u] = want[q][u]
  PROVE  Sound(m, sh, X, o2, want2)
<1>1. Shm(m.pte, m.charmap, m.uva, sh, o2)
  BY SoundTypes DEF Shm
<1>2. Reads(m.pte, m.page, m.disk, want2)
  BY SoundTypes, NoPteIs DEF Reads
<1> QED BY <1>1, <1>2 DEF Sound

\* Memory r is m in which q has inherited the pages of p up to page k, unless it
\* is exhausted.
ForkedTo(m, r, sh, o, want, p, q, k) ==
  \/ Exhausted(r)
  \/ /\ Sound(r, sh, {}, o, want)
     /\ TlbOk(m.pte, m.tlb, current) => TlbOk(r.pte, r.tlb, current)
     /\ \A x \in Proc, u \in Page : x # q => Alike(m.pte, r.pte, x, u)
     /\ \A u \in Page : /\ ~r.pte[q][u].shm
                        /\ r.pte[q][u] = NoPte <=> u > k \/ m.pte[p][u] = NoPte

\* One turn of do_fork()'s loop: page k + 1 is inherited too.
LEMMA ForkTurn ==
  ASSUME NEW m, NEW r, NEW sh, NEW o, NEW want, NEW c \in Cpu, NEW p \in Proc, NEW q \in Proc,
         p # q, NEW k \in Nat, k + 1 \in Page, want[q][k + 1] = want[p][k + 1],
         ForkedTo(m, r, sh, o, want, p, q, k)
  PROVE  ForkedTo(m, ForkPage(r, c, p, q, k + 1), sh, o, want, p, q, k + 1)
<1> DEFINE v == k + 1
           n == ForkPage(r, c, p, q, v)
<1>1. v \in Page /\ \A u \in Page : u \in Nat /\ (u > v => u > k) /\ (u > k /\ u # v => u > v) /\ ~(v > v) /\ v > k
  BY DEF Page
<1>2. CASE Exhausted(r)
  BY <1>2 DEF ForkPage, Ok, Exhausted, ForkedTo
<1>3. CASE ~Exhausted(r) /\ r.pte[p][v] = NoPte
  <2>1. n = r
    BY <1>3 DEF ForkPage
  <2>2. m.pte[p][v] = NoPte
    BY <1>1, <1>3 DEF ForkedTo, Alike
  <2> HIDE DEF n
  <2>3. ASSUME NEW u \in Page
        PROVE  r.pte[q][u] = NoPte <=> u > v \/ m.pte[p][u] = NoPte
    <3>1. r.pte[q][u] = NoPte <=> u > k \/ m.pte[p][u] = NoPte
      BY <1>3 DEF ForkedTo
    <3>2. CASE u = v
      BY <1>1, <2>2, <3>1, <3>2
    <3>3. CASE u # v
      <4>1. u > v <=> u > k
        BY <1>1, <3>3
      <4> QED BY <3>1, <4>1
    <3> QED BY <3>2, <3>3
  <2> HIDE DEF v
  <2>4. ForkedTo(m, r, sh, o, want, p, q, v)
    BY <1>3, <2>3 DEF ForkedTo
  <2> QED BY <2>1, <2>4 DEF n, v
<1>4. CASE ~Exhausted(r) /\ r.pte[p][v] # NoPte
  <2>1. /\ Sound(r, sh, {}, o, want)
        /\ TlbOk(m.pte, m.tlb, current) => TlbOk(r.pte, r.tlb, current)
        /\ \A x \in Proc, u \in Page : x # q => Alike(m.pte, r.pte, x, u)
        /\ \A u \in Page : /\ ~r.pte[q][u].shm
                           /\ r.pte[q][u] = NoPte <=> u > k \/ m.pte[p][u] = NoPte
    BY <1>4 DEF ForkedTo
  <2>2. r.pte[q][v] = NoPte
    BY <1>1, <2>1
  <2>3. m.pte[p][v] # NoPte
    BY <1>1, <1>4, <2>1 DEF Alike
  <2>4. Forked(r, n, sh, o, want, q, v)
    BY <1>1, <1>4, <2>1, <2>2, ForkPageIs
  <2> HIDE DEF n
  <2>5. CASE Exhausted(n)
    BY <2>5 DEF ForkedTo, n
  <2>6. CASE ~Exhausted(n)
    <3>1. /\ Sound(n, sh, {}, o, want) /\ AlikeBut(r.pte, n.pte, q, v)
          /\ TlbOk(r.pte, r.tlb, current) => TlbOk(n.pte, n.tlb, current)
          /\ n.pte[q][v] # NoPte /\ ~n.pte[q][v].shm
      BY <2>4, <2>6 DEF Forked
    <3>2. \A x \in Proc, u \in Page : x # q => Alike(m.pte, n.pte, x, u)
      BY <2>1, <3>1 DEF AlikeBut, Alike
    <3>3. ASSUME NEW u \in Page
          PROVE  /\ ~n.pte[q][u].shm
                 /\ n.pte[q][u] = NoPte <=> u > v \/ m.pte[p][u] = NoPte
      <4>1. CASE u = v
        BY <1>1, <2>3, <3>1, <4>1
      <4>2. CASE u # v
        BY <1>1, <2>1, <3>1, <4>2 DEF AlikeBut, Alike
      <4> QED BY <4>1, <4>2
    <3> HIDE DEF v
    <3>4. ForkedTo(m, n, sh, o, want, p, q, v)
      BY <2>1, <3>1, <3>2, <3>3 DEF ForkedTo
    <3> QED BY <3>4 DEF n, v
  <2> QED BY <2>5, <2>6 DEF n
<1> QED BY <1>2, <1>3, <1>4

\* do_fork()'s loop: q inherits every page of p, or the memory is exhausted.
LEMMA ForksAre ==
  ASSUME NEW m, NEW sh, NEW o, NEW want, Sound(m, sh, {}, o, want),
         NEW c \in Cpu, NEW p \in Proc, NEW q \in Proc, p # q,
         \A u \in Page : m.pte[q][u] = NoPte /\ want[q][u] = want[p][u]
  PROVE  ForkedTo(m, Forks(c, p, q, m), sh, o, want, p, q, UsegPages)
<1>1. PICK t : Turns("fork", c, p, q, m, UsegPages, t) /\ Forks(c, p, q, m) = t[UsegPages]
  BY ForkTurns
<1> DEFINE T == {k \in Nat : k <= UsegPages => ForkedTo(m, t[k], sh, o, want, p, q, k)}
<1>2. 0 \in T
  <2>1. t[0] = m
    BY <1>1 DEF Turns
  <2>2. ~m.pte[q][1].shm
    BY NoPteIs, Constants DEF Page
  <2>3. ForkedTo(m, m, sh, o, want, p, q, 0)
    <3>1. \A u \in Page : u > 0 /\ ~m.pte[q][u].shm
      BY NoPteIs DEF Page
    <3>2. \A x \in Proc, u \in Page : Alike(m.pte, m.pte, x, u)
      BY DEF Alike
    <3> QED BY <3>1, <3>2 DEF ForkedTo
  <2> QED BY <2>1, <2>3
<1>3. ASSUME NEW k \in Nat, k \in T PROVE k + 1 \in T
  <2> SUFFICES ASSUME k + 1 <= UsegPages PROVE ForkedTo(m, t[k + 1], sh, o, want, p, q, k + 1)
    OBVIOUS
  <2>1. k + 1 \in Page /\ k + 1 \in 1 .. UsegPages /\ (k + 1) - 1 = k /\ k <= UsegPages
    BY Constants DEF Page
  <2>2. t[k + 1] = ForkPage(t[k], c, p, q, k + 1)
    BY <1>1, <2>1 DEF Turns, Turn
  <2>3. ForkedTo(m, t[k], sh, o, want, p, q, k)
    BY <1>3, <2>1
  <2> QED BY <2>1, <2>2, <2>3, ForkTurn
<1>4. UsegPages \in T
  BY <1>2, <1>3, SetInduction, Constants
<1> QED BY <1>1, <1>4, Constants

\* Memory r is m in which the first k pages of the image are loaded for q,
\* unless it is exhausted.
LoadedTo(m, r, sh, o, want, q, k) ==
  \/ Exhausted(r)
  \/ /\ Sound(r, sh, {}, o, want)
     /\ TlbOk(m.pte, m.tlb, current) => TlbOk(r.pte, r.tlb, current)
     /\ \A x \in Proc, u \in Page : x # q => Alike(m.pte, r.pte, x, u)
     /\ \A u \in Page : /\ ~r.pte[q][u].shm
                        /\ r.pte[q][u] = NoPte <=> u > k

\* One turn of load_task_img()'s loop: page k + 1 is loaded too.
LEMMA LoadTurn ==
  ASSUME NEW m, NEW r, NEW sh, NEW o, NEW want, NEW c \in Cpu, NEW q \in Proc,
         NEW k \in Nat, k + 1 \in Page, want[q][k + 1] = Zero,
         LoadedTo(m, r, sh, o, want, q, k)
  PROVE  LoadedTo(m, Load(r, c, q, k + 1), sh, o, want, q, k + 1)
<1> DEFINE v == k + 1
           n == Load(r, c, q, v)
<1>1. v \in Page /\ \A u \in Page : u \in Nat /\ (u # v => (u > k <=> u > v)) /\ ~(v > v) /\ v > k
  BY DEF Page
<1>2. CASE Exhausted(r)
  BY <1>2 DEF Load, Ok, Exhausted, LoadedTo
<1>3. CASE ~Exhausted(r)
  <2>1. /\ Sound(r, sh, {}, o, want)
        /\ TlbOk(m.pte, m.tlb, current) => TlbOk(r.pte, r.tlb, current)
        /\ \A x \in Proc, u \in Page : x # q => Alike(m.pte, r.pte, x, u)
        /\ \A u \in Page : /\ ~r.pte[q][u].shm
                           /\ r.pte[q][u] = NoPte <=> u > k
    BY <1>3 DEF LoadedTo
  <2>2. r.pte[q][v] = NoPte /\ Ok(r)
    BY <1>1, <2>1, SoundTypes
  <2>3. NewPage(r, n, sh, o, want, q, v)
    <3>1. n = Fill(AllocPageHelper(r, c, q, v))
      BY <2>2 DEF Load
    <3> HIDE DEF n
    <3>2. want[q][v] = Zero
      OBVIOUS
    <3> QED BY <1>1, <2>1, <2>2, <3>1, <3>2, AllocPageHelperIs
  <2> HIDE DEF n
  <2>5. CASE Exhausted(n)
    BY <2>5 DEF LoadedTo, n
  <2>6. CASE ~Exhausted(n)
    <3>1. /\ Sound(n, sh, {}, o, want) /\ AlikeBut(r.pte, n.pte, q, v)
          /\ TlbOk(r.pte, r.tlb, current) => TlbOk(n.pte, n.tlb, current)
          /\ n.pte[q][v] # NoPte /\ ~n.pte[q][v].shm
      BY <2>3, <2>6 DEF NewPage
    <3>2. \A x \in Proc, u \in Page : x # q => Alike(m.pte, n.pte, x, u)
      BY <2>1, <3>1 DEF AlikeBut, Alike
    <3>3. ASSUME NEW u \in Page
          PROVE  ~n.pte[q][u].shm /\ (n.pte[q][u] = NoPte <=> u > v)
      <4>1. CASE u = v
        BY <1>1, <3>1, <4>1
      <4>2. CASE u # v
        BY <1>1, <2>1, <3>1, <4>2 DEF AlikeBut, Alike
      <4> QED BY <4>1, <4>2
    <3> HIDE DEF v
    <3>4. LoadedTo(m, n, sh, o, want, q, v)
      BY <2>1, <3>1, <3>2, <3>3 DEF LoadedTo
    <3> QED BY <3>4 DEF n, v
  <2> QED BY <2>5, <2>6 DEF n
<1> QED BY <1>2, <1>3

\* load_task_img()'s loop: q has the image, or the memory is exhausted.
LEMMA LoadsAre ==
  ASSUME NEW m, NEW sh, NEW o, NEW want, Sound(m, sh, {}, o, want),
         NEW c \in Cpu, NEW q \in Proc, \A u \in Page : m.pte[q][u] = NoPte /\ want[q][u] = Zero
  PROVE  LoadedTo(m, Loads(c, q, m), sh, o, want, q, ImgPages)
<1>1. PICK t : Turns("load", c, q, q, m, ImgPages, t) /\ Loads(c, q, m) = t[ImgPages]
  BY LoadTurns
<1> DEFINE T == {k \in Nat : k <= ImgPages => LoadedTo(m, t[k], sh, o, want, q, k)}
<1>2. 0 \in T
  <2>1. t[0] = m
    BY <1>1 DEF Turns
  <2>2. LoadedTo(m, m, sh, o, want, q, 0)
    <3>1. \A u \in Page : u > 0 /\ ~m.pte[q][u].shm
      BY NoPteIs DEF Page
    <3>2. \A x \in Proc, u \in Page : Alike(m.pte, m.pte, x, u)
      BY DEF Alike
    <3> QED BY <3>1, <3>2 DEF LoadedTo
  <2> QED BY <2>1, <2>2
<1>3. ASSUME NEW k \in Nat, k \in T PROVE k + 1 \in T
  <2> SUFFICES ASSUME k + 1 <= ImgPages PROVE LoadedTo(m, t[k + 1], sh, o, want, q, k + 1)
    OBVIOUS
  <2>1. k + 1 \in Page /\ k + 1 \in 1 .. ImgPages /\ (k + 1) - 1 = k /\ k <= ImgPages
    BY Constants DEF Page
  <2>2. t[k + 1] = Load(t[k], c, q, k + 1)
    BY <1>1, <2>1 DEF Turns, Turn
  <2>3. LoadedTo(m, t[k], sh, o, want, q, k)
    BY <1>3, <2>1
  <2> QED BY <2>1, <2>2, <2>3, LoadTurn
<1>4. ImgPages \in T
  BY <1>2, <1>3, SetInduction, Constants
<1> QED BY <1>1, <1>4, Constants

\* The state s of the loop is m after the first k pages of p are freed.
FreedTo(m, s, o, want, p, k) ==
  /\ s = [m |-> s.m, shm |-> s.shm]
  /\ Sound(s.m, s.shm, {}, o, want) /\ s.m.tlb = m.tlb
  /\ \A x \in Proc, u \in Page :
       s.m.pte[x][u] = IF x = p /\ u <= k THEN NoPte ELSE m.pte[x][u]

\* free_pages_of_proc() of one page passes every check.
LEMMA FreeOneIs ==
  ASSUME NEW s, NEW o, NEW want, s = [m |-> s.m, shm |-> s.shm],
         Sound(s.m, s.shm, {}, o, want), NEW p \in Proc, NEW v \in Page
  PROVE  LET r == FreeOne(s, p, v) IN
         /\ r = [m |-> r.m, shm |-> r.shm]
         /\ Sound(r.m, r.shm, {}, o, want) /\ r.m.tlb = s.m.tlb
         /\ \A x \in Proc, u \in Page : r.m.pte[x][u] = IF x = p /\ u = v THEN NoPte ELSE s.m.pte[x][u]
<1> DEFINE e == s.m.pte[p][v]
           m == s.m
           r == FreeOne(s, p, v)
           gone == [m EXCEPT !.pte[p][v] = NoPte]
<1>1. /\ e \in Pte /\ PteOk(e) /\ Ok(m) /\ m.pte \in PteMap
      /\ \A x \in Proc, u \in Page : Put(m.pte, p, v, NoPte)[x][u] = IF x = p /\ u = v THEN NoPte ELSE m.pte[x][u]
  <2>1. m.pte \in PteMap /\ Ok(m) /\ Ptes(m.pte)
    BY SoundTypes
  <2>2. e \in Pte /\ PteOk(e)
    BY <2>1 DEF PteMap, Ptes
  <2>3. NoPte \in Pte
    BY NoPteIs
  <2> HIDE DEF e
  <2> QED BY <2>1, <2>2, <2>3, PutIs
<1> SUFFICES /\ r = [m |-> r.m, shm |-> r.shm]
             /\ Sound(r.m, r.shm, {}, o, want) /\ r.m.tlb = m.tlb
             /\ r.m.pte = Put(m.pte, p, v, NoPte) \/ (e = NoPte /\ r.m.pte = m.pte)
  <2> HIDE DEF r
  <2> QED BY <1>1 DEF r
<1>2. CASE e = NoPte
  <2>1. r = s
    BY <1>2 DEF FreeOne
  <2> QED BY <1>2, <2>1
<1>3. CASE e.at = "disk"
  <2> DEFINE n == FreeSwapPage(gone, e.n)
  <2>1. r = [m |-> n, shm |-> s.shm]
    <3>1. r = [s EXCEPT !.m = n]
      BY <1>1, <1>3, NoPteIs DEF FreeOne
    <3> HIDE DEF n, r
    <3> QED BY <3>1
  <2>2. Sound(n, s.shm, {}, o, want) /\ n.pte = Put(m.pte, p, v, NoPte) /\ n.tlb = m.tlb
    BY <1>3, FreeSwapped
  <2> HIDE DEF n, r
  <2> QED BY <2>1, <2>2
<1>4. CASE e.at = "mem" /\ e.shm
  <2> DEFINE d == Detach(m, s.shm, p, v)
  <2>1. r = d /\ d = [m |-> d.m, shm |-> d.shm]
    BY <1>1, <1>4, NoPteIs DEF FreeOne, Detach
  <2>2. Sound(d.m, d.shm, {}, o, want) /\ d.m.pte = Put(m.pte, p, v, NoPte) /\ d.m.tlb = m.tlb
    BY <1>4, DetachIs
  <2> HIDE DEF d, r
  <2> QED BY <2>1, <2>2
<1>5. CASE e.at = "mem" /\ ~e.shm /\ e.cow
  <2> DEFINE n == DropCow(gone, e.n)
  <2>1. r = [m |-> n, shm |-> s.shm]
    <3>1. r = [s EXCEPT !.m = n]
      BY <1>1, <1>5, NoPteIs DEF FreeOne
    <3> HIDE DEF n, r
    <3> QED BY <3>1
  <2>2. Sound(n, s.shm, {}, o, want) /\ n.pte = Put(m.pte, p, v, NoPte) /\ n.tlb = m.tlb
    BY <1>5, FreeCow
  <2> HIDE DEF n, r
  <2> QED BY <2>1, <2>2
<1>6. CASE e.at = "mem" /\ ~e.shm /\ ~e.cow
  <2> DEFINE n == FreePage(gone, e.n)
  <2>1. r = [m |-> n, shm |-> s.shm]
    <3>1. r = [s EXCEPT !.m = n]
      BY <1>1, <1>6, NoPteIs DEF FreeOne
    <3> HIDE DEF n, r
    <3> QED BY <3>1
  <2>2. Sound(n, s.shm, {}, o, want) /\ n.pte = Put(m.pte, p, v, NoPte) /\ n.tlb = m.tlb
    BY <1>6, FreePrivate
  <2> HIDE DEF n, r
  <2> QED BY <2>1, <2>2
<1> QED BY <1>1, <1>2, <1>3, <1>4, <1>5, <1>6 DEF Pte, PteOk

\* free_pages_of_proc()'s loop: p has no page any more.
LEMMA FreesAre ==
  ASSUME NEW m, NEW sh, NEW o, NEW want, Sound(m, sh, {}, o, want), NEW p \in Proc
  PROVE  FreedTo(m, Frees(p, [m |-> m, shm |-> sh]), o, want, p, UsegPages)
<1> DEFINE b == [m |-> m, shm |-> sh]
<1>1. PICK t : Turns("free", p, p, p, b, UsegPages, t) /\ Frees(p, b) = t[UsegPages]
  BY FreeTurns
<1> DEFINE T == {k \in Nat : k <= UsegPages => FreedTo(m, t[k], o, want, p, k)}
<1>2. 0 \in T
  <2>1. t[0] = b
    BY <1>1 DEF Turns
  <2>2. \A u \in Page : ~(u <= 0)
    BY DEF Page
  <2>3. FreedTo(m, b, o, want, p, 0)
    BY <2>2 DEF FreedTo
  <2> QED BY <2>1, <2>3
<1>3. ASSUME NEW k \in Nat, k \in T PROVE k + 1 \in T
  <2> SUFFICES ASSUME k + 1 <= UsegPages PROVE FreedTo(m, t[k + 1], o, want, p, k + 1)
    OBVIOUS
  <2>1. k + 1 \in Page /\ k + 1 \in 1 .. UsegPages /\ (k + 1) - 1 = k /\ k <= UsegPages
    BY Constants DEF Page
  <2> DEFINE s == t[k]
             r == FreeOne(s, p, k + 1)
  <2>2. t[k + 1] = r
    BY <1>1, <2>1 DEF Turns, Turn
  <2>3. FreedTo(m, s, o, want, p, k)
    BY <1>3, <2>1
  <2>4. /\ r = [m |-> r.m, shm |-> r.shm]
        /\ Sound(r.m, r.shm, {}, o, want) /\ r.m.tlb = s.m.tlb
        /\ \A x \in Proc, u \in Page : r.m.pte[x][u] = IF x = p /\ u = k + 1 THEN NoPte ELSE s.m.pte[x][u]
    <3> DEFINE v == k + 1
    <3> HIDE DEF s
    <3>1. v \in Page /\ s = [m |-> s.m, shm |-> s.shm] /\ Sound(s.m, s.shm, {}, o, want)
      BY <2>1, <2>3 DEF FreedTo
    <3> HIDE DEF v
    <3>2. LET f == FreeOne(s, p, v) IN
          /\ f = [m |-> f.m, shm |-> f.shm]
          /\ Sound(f.m, f.shm, {}, o, want) /\ f.m.tlb = s.m.tlb
          /\ \A x \in Proc, u \in Page : f.m.pte[x][u] = IF x = p /\ u = v THEN NoPte ELSE s.m.pte[x][u]
      BY <3>1, FreeOneIs
    <3> QED BY <3>2 DEF v
  <2> HIDE DEF r, s
  <2>5. \A u \in Page : u <= k + 1 <=> u = k + 1 \/ u <= k
    BY DEF Page
  <2>6. FreedTo(m, r, o, want, p, k + 1)
    BY <2>3, <2>4, <2>5 DEF FreedTo
  <2> QED BY <2>2, <2>6
<1>4. UsegPages \in T
  BY <1>2, <1>3, SetInduction, Constants
<1> QED BY <1>1, <1>4, Constants
-----------------------------------------------------------------------------
(* shm_page_get().                                                         *)

\* Frame g is that of key k.
KeyFrame(P, C, A, sh, k, g) ==
  /\ sh[k].nproc > 0 /\ sh[k].pgidx = g /\ A[g] = sh[k].nproc /\ C[g] = Shared
  /\ ShmUsers(P, g)
  /\ \A q \in Proc : q \in sh[k].opid <=> \E u \in Page : <<q, u>> \in Users(P, g)
  /\ \A u, t \in Users(P, g) : u[1] = t[1] => u = t

\* Only key k and frame g change.
OnlyKey(C, A, sh, C2, A2, sh2, k, g) ==
  /\ \A l \in Keys : l # k => sh2[l] = sh[l] /\ (sh[l].nproc > 0 => sh[l].pgidx # g)
  /\ \A f \in Frame : f # g => C2[f] = C[f] /\ A2[f] = A[f]
  /\ sh[k].nproc > 0 => sh[k].pgidx = g

\* Page v of p enters the frame of a key.
LEMMA ShmEnters ==
  ASSUME NEW P \in PteMap, NEW C, NEW A, NEW C2, NEW A2, NEW sh \in ShmType, NEW sh2, NEW o,
         Shm(P, C, A, sh, o), NEW p \in Proc, NEW v \in Page, o[p][v] \in Keys,
         NEW s \in Pte, s.at = "mem", s.shm, s.n \in Frame,
         ~P[p][v].shm, P[p][v].at = "mem" => P[p][v].n = s.n,
         OnlyKey(C, A, sh, C2, A2, sh2, o[p][v], s.n),
         KeyFrame(Put(P, p, v, s), C2, A2, sh2, o[p][v], s.n)
  PROVE  Shm(Put(P, p, v, s), C2, A2, sh2, o)
<1> DEFINE k == o[p][v]
           g == s.n
<1> DEFINE P2 == Put(P, p, v, s)
<1>0. k \in Keys /\ g \in Frame /\ OnlyKey(C, A, sh, C2, A2, sh2, k, g) /\ KeyFrame(P2, C2, A2, sh2, k, g)
  OBVIOUS
<1>g. s.n = g
  OBVIOUS
<1>k. o[p][v] = k
  OBVIOUS
<1>1. P2 \in PteMap /\ \A x \in Proc, u \in Page : P2[x][u] = IF x = p /\ u = v THEN s ELSE P[x][u]
  BY PutIs
<1>2. ASSUME NEW f \in Frame, f # g PROVE Users(P2, f) = Users(P, f) /\ (ShmUsers(P, f) => ShmUsers(P2, f))
  <2>1. Users(P2, f) = Users(P, f) \ {<<p, v>>}
    BY <1>2, UsersPut
  <2>2. <<p, v>> \notin Users(P, f)
    BY <1>2 DEF Users
  <2>3. Users(P2, f) = Users(P, f)
    BY <2>1, <2>2
  <2> HIDE DEF P2
  <2>4. ASSUME ShmUsers(P, f), NEW t \in Users(P2, f) PROVE P2[t[1]][t[2]].shm
    <3>1. t \in Users(P, f) /\ t[1] \in Proc /\ t[2] \in Page /\ t = <<t[1], t[2]>>
      BY <2>3, <2>4, UsersArePairs
    <3>2. P2[t[1]][t[2]] = P[t[1]][t[2]]
      BY <1>1, <2>2, <3>1
    <3> QED BY <2>4, <3>1, <3>2 DEF ShmUsers
  <2> QED BY <2>3, <2>4 DEF ShmUsers
<1>3. \A l \in Keys : sh[l].pgidx \in Frame
  BY DEF ShmType
<1> HIDE DEF P2, k, g
<1>4. ASSUME NEW l \in Keys, sh2[l].nproc > 0
      PROVE  LET f == sh2[l].pgidx IN
             /\ C2[f] = Shared /\ A2[f] = sh2[l].nproc /\ ShmUsers(P2, f)
             /\ \A q \in Proc : q \in sh2[l].opid <=> \E u \in Page : <<q, u>> \in Users(P2, f)
             /\ \A u, t \in Users(P2, f) : u[1] = t[1] => u = t
  <2>1. CASE l = k
    BY <1>0, <2>1 DEF KeyFrame
  <2>2. CASE l # k
    <3> DEFINE f == sh[l].pgidx
    <3>1. sh2[l] = sh[l] /\ f \in Frame /\ f # g /\ sh[l].nproc > 0
      BY <1>0, <1>3, <1>4, <2>2 DEF OnlyKey
    <3>2. /\ C[f] = Shared /\ A[f] = sh[l].nproc /\ ShmUsers(P, f)
          /\ \A q \in Proc : q \in sh[l].opid <=> \E u \in Page : <<q, u>> \in Users(P, f)
          /\ \A u, t \in Users(P, f) : u[1] = t[1] => u = t
      BY <3>1 DEF Shm
    <3>3. C2[f] = C[f] /\ A2[f] = A[f] /\ Users(P2, f) = Users(P, f) /\ ShmUsers(P2, f)
      BY <1>0, <1>2, <3>1, <3>2 DEF OnlyKey
    <3> QED BY <3>1, <3>2, <3>3
  <2> QED BY <2>1, <2>2
<1>5. \A l, j \in Keys : sh2[l].nproc > 0 /\ sh2[j].nproc > 0 /\ sh2[l].pgidx = sh2[j].pgidx => l = j
  BY <1>0 DEF Shm, OnlyKey, KeyFrame
<1>6. ASSUME NEW x \in Proc, NEW u \in Page, P2[x][u].shm
      PROVE  o[x][u] \in Keys /\ sh2[o[x][u]].nproc > 0 /\ sh2[o[x][u]].pgidx = P2[x][u].n
  <2>1. CASE x = p /\ u = v
    BY <1>0, <1>1, <1>g, <1>k, <2>1 DEF KeyFrame
  <2>2. CASE ~(x = p /\ u = v)
    <3>1. P2[x][u] = P[x][u] /\ P[x][u].shm
      BY <1>1, <1>6, <2>2
    <3>2. o[x][u] \in Keys /\ sh[o[x][u]].nproc > 0 /\ sh[o[x][u]].pgidx = P[x][u].n
      BY <3>1 DEF Shm
    <3>3. CASE o[x][u] = k
      BY <1>0, <3>1, <3>2, <3>3 DEF OnlyKey, KeyFrame
    <3>4. CASE o[x][u] # k
      BY <1>0, <3>1, <3>2, <3>4 DEF OnlyKey
    <3> QED BY <3>3, <3>4
  <2> QED BY <2>1, <2>2
<1>7. Shm(P2, C2, A2, sh2, o)
  BY <1>4, <1>5, <1>6 DEF Shm
<1> QED BY <1>7 DEF P2

\* Of the TLBs, only entries are dropped.
Dropping(tl, tl2) ==
  tl2 \in TlbMap /\ \A d \in Cpu, u \in Page : tl2[d][u] = tl[d][u] \/ tl2[d][u] = NoEntry

ShmPte(g) == [UserPte(g) EXCEPT !.shm = TRUE]

\* The PTE that shm_page_get() writes.
LEMMA ShmPteIs ==
  ASSUME NEW g \in Frame
  PROVE  /\ ShmPte(g) \in Pte /\ PteOk(ShmPte(g)) /\ ShmPte(g) # NoPte
         /\ ShmPte(g).at = "mem" /\ ShmPte(g).n = g /\ ShmPte(g).shm /\ ~ShmPte(g).cow
<1> DEFINE e == UserPte(g)
<1>1. e \in Pte
  BY UserPteIs
<1>2. e.at = "mem" /\ e.n = g /\ ~e.cow
  BY DEF UserPte
<1> HIDE DEF e
<1> DEFINE s == [e EXCEPT !.shm = TRUE]
<1>3. s \in Pte /\ s.at = "mem" /\ s.n = g /\ s.shm /\ ~s.cow
  BY <1>1, <1>2 DEF Pte
<1> HIDE DEF s
<1>4. s # NoPte /\ PteOk(s)
  BY <1>3, NoPteIs DEF PteOk
<1> QED BY <1>3, <1>4 DEF ShmPte, s, e

\* Memory m has become r, with the page table P2, by a call that shares a page.
Joined(m, r, sh2, o, want, P2) ==
  /\ Sound(r, sh2, {}, o, want) /\ r.pte = P2
  /\ TlbOk(m.pte, m.tlb, current) => TlbOk(r.pte, r.tlb, current)

\* A page of a process alone becomes the first page of key k.
LEMMA FirstShared ==
  ASSUME NEW m, NEW sh, NEW o, NEW want, Sound(m, sh, {}, o, want),
         NEW p \in Proc, NEW v \in Page, NEW g \in Frame, m.pte[p][v] = UserPte(g),
         NEW k \in Keys, o[p][v] = k, sh[k].nproc = 0, NEW tl, Dropping(m.tlb, tl)
  PROVE  LET P2 == Put(m.pte, p, v, ShmPte(g))
             C2 == [m.charmap EXCEPT ![g] = Shared]
             A2 == [m.uva EXCEPT ![g] = 1]
             sh2 == [sh EXCEPT ![k] = [nproc |-> 1, pgidx |-> g, opid |-> {p}]]
             r == With(m, P2, C2, A2, m.ffree, m.page, tl) IN
         Joined(m, r, sh2, o, want, P2)
<1> DEFINE P == m.pte
           C == m.charmap
           A == m.uva
           s == ShmPte(g)
           P2 == Put(P, p, v, s)
           C2 == [C EXCEPT ![g] = Shared]
           A2 == [A EXCEPT ![g] = 1]
           sh2 == [sh EXCEPT ![k] = [nproc |-> 1, pgidx |-> g, opid |-> {p}]]
           r == With(m, P2, C2, A2, m.ffree, m.page, tl)
<1>1. /\ P \in PteMap /\ C \in CharMap /\ A \in [Frame -> Nat] /\ sh \in ShmType
      /\ Ptes(P) /\ Frames(P, C, A, {}) /\ Shm(P, C, A, sh, o)
      /\ Slots(P, m.scharmap) /\ Reads(P, m.page, m.disk, want)
      /\ m \in MemType /\ IsFirst(C, m.ffree, NPF) /\ m.page \in [Frame -> Values]
      /\ m.tlb \in TlbMap /\ m.halt = "no"
  BY SoundTypes
<1> HIDE DEF P, C, A
<1>2. P[p][v].at = "mem" /\ P[p][v].n = g /\ ~P[p][v].cow /\ ~P[p][v].shm
  BY DEF P, UserPte
<1>3. Users(P, g) = {<<p, v>>} /\ C[g] = p
  BY <1>1, <1>2, PrivateOf
<1>4. s \in Pte /\ PteOk(s) /\ s # NoPte /\ s.at = "mem" /\ s.n = g /\ s.shm /\ ~s.cow
  BY ShmPteIs
<1> HIDE DEF s
<1>5. P2 \in PteMap /\ \A x \in Proc, u \in Page : P2[x][u] = IF x = p /\ u = v THEN s ELSE P[x][u]
  BY <1>1, <1>4, PutIs
<1>6. /\ C2 \in CharMap /\ A2 \in [Frame -> Nat] /\ C2[g] = Shared /\ A2[g] = 1
      /\ \A f \in Frame : f # g => C2[f] = C[f] /\ A2[f] = A[f]
  BY <1>1 DEF CharMap
<1>7. /\ sh2 \in ShmType /\ sh2[k].nproc = 1 /\ sh2[k].pgidx = g /\ sh2[k].opid = {p}
      /\ \A l \in Keys : l # k => sh2[l] = sh[l]
  BY <1>1 DEF ShmType
<1>8. Users(P2, g) = {<<p, v>>}
  <2>1. Users(P2, g) = Users(P, g) \cup {<<p, v>>}
    BY <1>1, <1>4, UsersPut
  <2> QED BY <1>3, <2>1
<1>9. ShmUsers(P2, g)
  BY <1>4, <1>5, <1>8 DEF ShmUsers
<1>10. Frames(P2, C2, A2, {})
  <2>1. Cardinality(Users(P2, g)) = 1
    BY <1>8, FS_Singleton
  <2>2. FrameOk(P2, C2, A2, g)
    BY <1>6, <1>9, <2>1, Constants DEF FrameOk
  <2>3. ASSUME NEW f \in Frame, f # g PROVE FrameOk(P2, C2, A2, f)
    <3>1. C2[f] = C[f] /\ A2[f] = A[f] /\ f \notin {}
      BY <1>6, <2>3
    <3>2. (P[p][v].at = "mem" => P[p][v].n # f) /\ (s.at = "mem" => s.n # f)
      BY <1>2, <1>4, <2>3
    <3> HIDE DEF C2, A2
    <3> QED BY <1>1, <1>4, <3>1, <3>2, FramesElse
  <2> HIDE DEF P2, C2, A2
  <2> QED BY <2>2, <2>3 DEF Frames
<1>11. ASSUME NEW l \in Keys, sh[l].nproc > 0 PROVE sh[l].pgidx # g
  <2>1. C[sh[l].pgidx] = Shared
    BY <1>1, <1>11 DEF Shm
  <2> QED BY <1>3, <2>1, Constants
<1> HIDE DEF C2, A2, sh2
<1>12. Shm(P2, C2, A2, sh2, o)
  <2>1. \A q \in Proc : q \in sh2[k].opid <=> \E u \in Page : <<q, u>> \in Users(P2, g)
    BY <1>7, <1>8
  <2>2. \A u, t \in Users(P2, g) : u[1] = t[1] => u = t
    BY <1>8
  <2>3. OnlyKey(C, A, sh, C2, A2, sh2, k, g)
    BY <1>6, <1>7, <1>11 DEF OnlyKey
  <2>4. KeyFrame(P2, C2, A2, sh2, k, g)
    BY <1>6, <1>7, <1>9, <2>1, <2>2 DEF KeyFrame
  <2>5. o[p][v] = k /\ s.n = g
    BY <1>4
  <2> QED BY <1>1, <1>2, <1>4, <2>3, <2>4, <2>5, ShmEnters
<1>13. Ptes(P2) /\ Slots(P2, m.scharmap)
  <2>1. P[p][v].at # "disk" /\ s.at # "disk"
    BY <1>2, <1>4
  <2> QED BY <1>1, <1>4, <2>1, PtesPut, SlotsPut
<1>14. Reads(P2, m.page, m.disk, want)
  <2>1. m.page[s.n] = want[p][v]
    BY <1>1, <1>2, <1>4 DEF Reads
  <2> QED BY <1>1, <1>4, <2>1, ReadsPut
<1>15. TlbOk(P, m.tlb, current) => TlbOk(P2, tl, current)
  <2> SUFFICES ASSUME TlbOk(P, m.tlb, current) PROVE TlbOk(P2, tl, current)
    OBVIOUS
  <2>1. \A d \in Cpu, u \in Page : tl[d][u] = m.tlb[d][u] \/ tl[d][u] = NoEntry
    BY DEF Dropping
  <2>2. \A d \in Cpu : current[d] = p /\ tl[d][v] # NoEntry => s.at = "mem" /\ s.n = tl[d][v].n
    BY <1>2, <1>4, <2>1 DEF TlbOk
  <2> QED BY <1>1, <1>4, <2>1, <2>2, TlbPut
<1>16. IsFirst(C2, m.ffree, NPF)
  <2>1. C \in [0 .. NPF - 1 -> Proc \cup {Free, Shared}] /\ C[g] # Free /\ g \in 0 .. NPF - 1
    BY <1>1, <1>3, Constants DEF CharMap, Frame
  <2> QED BY <1>1, <2>1, Constants, HintStays DEF C2
<1>17. tl \in TlbMap
  BY DEF Dropping
<1> HIDE DEF P2
<1>18. r.pte = P2 /\ r.tlb = tl
  BY <1>1, <1>5, <1>6, <1>16, <1>17, WithIs DEF IsFirst
<1>19. Sound(r, sh2, {}, o, want)
  BY <1>1, <1>5, <1>6, <1>7, <1>10, <1>12, <1>13, <1>14, <1>16, <1>17, SoundWith
<1> HIDE DEF r
<1>20. TlbOk(m.pte, m.tlb, current) => TlbOk(r.pte, r.tlb, current)
  BY <1>15, <1>18 DEF P
<1>21. Joined(m, r, sh2, o, want, P2)
  BY <1>18, <1>19, <1>20 DEF Joined
<1> QED BY <1>21 DEF r, P2, C2, A2, sh2, P, C, A, s

\* A page that is not mapped joins the frame of key k.
LEMMA JoinsShared ==
  ASSUME NEW m, NEW sh, NEW o, NEW want, Sound(m, sh, {}, o, want),
         NEW p \in Proc, NEW v \in Page, m.pte[p][v] = NoPte,
         NEW k \in Keys, o[p][v] = k, sh[k].nproc > 0, p \notin sh[k].opid,
         \A x \in Proc, u \in Page : m.pte[x][u].shm /\ o[x][u] = k => want[x][u] = want[p][v],
         NEW tl, Dropping(m.tlb, tl)
  PROVE  LET g == sh[k].pgidx
             P2 == Put(m.pte, p, v, ShmPte(g))
             A2 == [m.uva EXCEPT ![g] = m.uva[g] + 1]
             sh2 == [sh EXCEPT ![k] = [nproc |-> sh[k].nproc + 1, pgidx |-> g, opid |-> sh[k].opid \cup {p}]]
             r == With(m, P2, m.charmap, A2, m.ffree, m.page, tl) IN
         Joined(m, r, sh2, o, want, P2)
<1> DEFINE g == sh[k].pgidx
           P == m.pte
           C == m.charmap
           A == m.uva
           s == ShmPte(g)
           P2 == Put(P, p, v, s)
           A2 == [A EXCEPT ![g] = A[g] + 1]
           sh2 == [sh EXCEPT ![k] = [nproc |-> sh[k].nproc + 1, pgidx |-> g, opid |-> sh[k].opid \cup {p}]]
           r == With(m, P2, C, A2, m.ffree, m.page, tl)
           U == Users(P, g)
<1>1. /\ P \in PteMap /\ C \in CharMap /\ A \in [Frame -> Nat] /\ sh \in ShmType
      /\ Ptes(P) /\ Frames(P, C, A, {}) /\ Shm(P, C, A, sh, o)
      /\ Slots(P, m.scharmap) /\ Reads(P, m.page, m.disk, want)
      /\ m \in MemType /\ IsFirst(C, m.ffree, NPF) /\ m.page \in [Frame -> Values]
      /\ m.tlb \in TlbMap /\ m.halt = "no"
  BY SoundTypes
<1> HIDE DEF P, C, A
<1>2. g \in Frame /\ sh[k].nproc \in Nat /\ sh[k].opid \in SUBSET Proc
  BY <1>1 DEF ShmType
<1>3. /\ C[g] = Shared /\ A[g] = sh[k].nproc /\ ShmUsers(P, g)
      /\ \A q \in Proc : q \in sh[k].opid <=> \E u \in Page : <<q, u>> \in U
      /\ \A u, t \in U : u[1] = t[1] => u = t
      /\ \A l \in Keys : sh[l].nproc > 0 /\ sh[l].pgidx = g => l = k
  BY <1>1 DEF Shm
<1>4. s \in Pte /\ PteOk(s) /\ s # NoPte /\ s.at = "mem" /\ s.n = g /\ s.shm /\ ~s.cow
  BY <1>2, ShmPteIs
<1> HIDE DEF s
<1>5. P[p][v] = NoPte /\ P[p][v].at = "none" /\ ~P[p][v].shm
  BY NoPteIs DEF P
<1>6. P2 \in PteMap /\ \A x \in Proc, u \in Page : P2[x][u] = IF x = p /\ u = v THEN s ELSE P[x][u]
  BY <1>1, <1>4, PutIs
<1>7. /\ A2 \in [Frame -> Nat] /\ A2[g] = A[g] + 1 /\ A2[g] = sh[k].nproc + 1
      /\ \A f \in Frame : f # g => A2[f] = A[f]
  BY <1>1, <1>2, <1>3
<1>8. /\ sh2 \in ShmType /\ sh2[k].nproc = sh[k].nproc + 1 /\ sh2[k].pgidx = g
      /\ sh2[k].opid = sh[k].opid \cup {p}
      /\ \A l \in Keys : l # k => sh2[l] = sh[l]
  <2> HIDE DEF g
  <2>1. [nproc |-> sh[k].nproc + 1, pgidx |-> g, opid |-> sh[k].opid \cup {p}]
          \in [nproc : Nat, pgidx : Frame, opid : SUBSET Proc]
    BY <1>2
  <2> QED BY <1>1, <2>1 DEF ShmType
<1>9. Users(P2, g) = U \cup {<<p, v>>}
  BY <1>1, <1>4, UsersPut
<1>10. \A t \in U : t[1] \in Proc /\ t[2] \in Page /\ t = <<t[1], t[2]>> /\ t[1] # p
  <2> SUFFICES ASSUME NEW t \in U
               PROVE  t[1] \in Proc /\ t[2] \in Page /\ t = <<t[1], t[2]>> /\ t[1] # p
    OBVIOUS
  <2>1. t[1] \in Proc /\ t[2] \in Page /\ t = <<t[1], t[2]>>
    BY UsersArePairs
  <2>2. t[1] \in sh[k].opid
    BY <1>3, <2>1
  <2> QED BY <2>1, <2>2
<1> HIDE DEF A2, sh2, P2, U, g
<1>11. ShmUsers(P2, g)
  <2> SUFFICES ASSUME NEW t \in Users(P2, g) PROVE P2[t[1]][t[2]].shm
    BY DEF ShmUsers
  <2>1. CASE t = <<p, v>>
    BY <1>4, <1>6, <2>1
  <2>2. CASE t # <<p, v>>
    <3>1. t \in U /\ t[1] \in Proc /\ t[2] \in Page /\ t[1] # p
      BY <1>9, <1>10, <2>2
    <3>2. P2[t[1]][t[2]] = P[t[1]][t[2]]
      BY <1>6, <3>1
    <3> QED BY <1>3, <3>1, <3>2 DEF ShmUsers, U
  <2> QED BY <2>1, <2>2
<1>12. Cardinality(U \cup {<<p, v>>}) = A[g] + 1 /\ U # {}
  <2>1. FrameOk(P, C, A, g)
    BY <1>1, <1>2 DEF Frames
  <2>2. Cardinality(U) = A[g]
    BY <1>3, <2>1, Constants DEF FrameOk, U
  <2>3. IsFiniteSet(U)
    BY UsersArePairs DEF U
  <2>4. <<p, v>> \notin U
    BY <1>10
  <2>5. Cardinality(U \cup {<<p, v>>}) = Cardinality(U) + 1
    BY <2>3, <2>4, FS_AddElement
  <2>6. A[g] # 0
    BY <1>2, <1>3 DEF g
  <2>7. U # {}
    BY <2>2, <2>6, FS_EmptySet
  <2> QED BY <2>2, <2>5, <2>7
<1>13. Frames(P2, C, A2, {})
  <2>1. Cardinality(Users(P2, g)) = A2[g] /\ A2[g] > 0
    BY <1>2, <1>7, <1>9, <1>12
  <2>2. FrameOk(P2, C, A2, g)
    BY <1>3, <1>11, <2>1, Constants DEF FrameOk
  <2>3. ASSUME NEW f \in Frame, f # g PROVE FrameOk(P2, C, A2, f)
    <3>1. A2[f] = A[f] /\ f \notin {}
      BY <1>7, <2>3
    <3>2. (P[p][v].at = "mem" => P[p][v].n # f) /\ (s.at = "mem" => s.n # f)
      BY <1>4, <1>5, <2>3
    <3> QED BY <1>1, <1>4, <3>1, <3>2, FramesElse DEF P2
  <2> QED BY <2>2, <2>3 DEF Frames
<1>14. Shm(P2, C, A2, sh2, o)
  <2>1. ASSUME NEW q \in Proc PROVE q \in sh2[k].opid <=> \E u \in Page : <<q, u>> \in Users(P2, g)
    <3>1. CASE q = p
      BY <1>8, <1>9, <3>1
    <3>2. CASE q # p
      <4>1. \A u \in Page : <<q, u>> \in Users(P2, g) <=> <<q, u>> \in U
        BY <1>9, <3>2
      <4> QED BY <1>3, <1>8, <3>2, <4>1 DEF U, g
    <3> QED BY <3>1, <3>2
  <2>2. ASSUME NEW u \in Users(P2, g), NEW t \in Users(P2, g), u[1] = t[1] PROVE u = t
    <3>1. (u \in U \/ u = <<p, v>>) /\ (t \in U \/ t = <<p, v>>) /\ <<p, v>>[1] = p
      BY <1>9
    <3> QED BY <1>3, <1>10, <2>2, <3>1 DEF U, g
  <2>3. OnlyKey(C, A, sh, C, A2, sh2, k, g)
    <3>1. \A l \in Keys : l # k => sh2[l] = sh[l] /\ (sh[l].nproc > 0 => sh[l].pgidx # g)
      BY <1>3, <1>8 DEF g
    <3>2. sh[k].nproc > 0 => sh[k].pgidx = g
      BY DEF g
    <3> QED BY <1>7, <3>1, <3>2 DEF OnlyKey
  <2>4. KeyFrame(P2, C, A2, sh2, k, g)
    <3>1. sh2[k].nproc > 0 /\ sh2[k].pgidx = g /\ A2[g] = sh2[k].nproc /\ C[g] = Shared
      BY <1>2, <1>3, <1>7, <1>8 DEF g
    <3> QED BY <1>11, <2>1, <2>2, <3>1 DEF KeyFrame
  <2>5. o[p][v] = k /\ s.n = g /\ s.n \in Frame
    BY <1>2, <1>4
  <2> QED BY <1>1, <1>4, <1>5, <2>3, <2>4, <2>5, ShmEnters DEF P2
<1>15. Ptes(P2) /\ Slots(P2, m.scharmap)
  <2>1. P[p][v].at # "disk" /\ s.at # "disk"
    BY <1>4, <1>5
  <2> QED BY <1>1, <1>4, <2>1, PtesPut, SlotsPut DEF P2
<1>16. Reads(P2, m.page, m.disk, want)
  <2>1. U # {}
    BY <1>12
  <2>2. PICK t \in U : TRUE
    BY <2>1
  <2> DEFINE x == t[1]
             u == t[2]
  <2>3. x \in Proc /\ u \in Page /\ t = <<x, u>>
    BY <1>10, <2>2
  <2>4. P[x][u].at = "mem" /\ P[x][u].n = g
    BY <2>2 DEF U, Users
  <2>5. P[x][u].shm
    BY <1>3, <2>2 DEF ShmUsers, U, g
  <2> HIDE DEF x, u
  <2>6. o[x][u] = k
    BY <1>1, <1>3, <2>3, <2>4, <2>5 DEF Shm, g
  <2>7. want[x][u] = want[p][v]
    BY <2>3, <2>5, <2>6 DEF P
  <2>8. m.page[s.n] = want[p][v]
    BY <1>1, <1>4, <2>3, <2>4, <2>7 DEF Reads
  <2> QED BY <1>1, <1>4, <2>8, ReadsPut DEF P2
<1>17. TlbOk(P, m.tlb, current) => TlbOk(P2, tl, current)
  <2> SUFFICES ASSUME TlbOk(P, m.tlb, current) PROVE TlbOk(P2, tl, current)
    OBVIOUS
  <2>1. \A d \in Cpu, u \in Page : tl[d][u] = m.tlb[d][u] \/ tl[d][u] = NoEntry
    BY DEF Dropping
  <2>2. \A d \in Cpu : current[d] = p /\ tl[d][v] # NoEntry => s.at = "mem" /\ s.n = tl[d][v].n
    BY <1>5, <2>1 DEF TlbOk
  <2> QED BY <1>1, <1>4, <2>1, <2>2, TlbPut DEF P2
<1>18. tl \in TlbMap
  BY DEF Dropping
<1>19. r.pte = P2 /\ r.tlb = tl
  BY <1>1, <1>6, <1>7, <1>18, WithIs DEF IsFirst
<1>20. Sound(r, sh2, {}, o, want)
  BY <1>1, <1>6, <1>7, <1>8, <1>13, <1>14, <1>15, <1>16, <1>18, SoundWith
<1> HIDE DEF r
<1>21. TlbOk(m.pte, m.tlb, current) => TlbOk(r.pte, r.tlb, current)
  BY <1>17, <1>19 DEF P
<1>22. Joined(m, r, sh2, o, want, P2)
  BY <1>19, <1>20, <1>21 DEF Joined
<1> QED BY <1>22 DEF r, P2, A2, sh2, P, C, A, s, g
-----------------------------------------------------------------------------
(* The properties follow from the tables being sound.                      *)

\* What FramesAccounted says of the frames
Account(P, C, A, sh) ==
  \A f \in Frame :
    CASE C[f] = Free   -> Users(P, f) = {}
      [] C[f] = Shared ->
           /\ Cardinality(Users(P, f)) = A[f] /\ A[f] > 0
           /\ \/ \A u \in Users(P, f) : LET e == P[u[1]][u[2]] IN e.cow /\ ~e.w /\ ~e.shm
              \/ \E k \in Keys : /\ sh[k].pgidx = f /\ sh[k].nproc = A[f]
                                  /\ {u[1] : u \in Users(P, f)} = sh[k].opid
                                  /\ \A u \in Users(P, f) : P[u[1]][u[2]].shm
      [] OTHER -> /\ Users(P, f) = {<<C[f], A[f]>>}
                  /\ LET e == P[C[f]][A[f]] IN e.w /\ ~e.cow /\ ~e.shm

\* Sound tables account for every frame and swap page.
LEMMA FramesFollow == Working => FramesAccounted
<1> SUFFICES ASSUME Working PROVE FramesAccounted
  OBVIOUS
<1> DEFINE P == mem.pte
           C == mem.charmap
           A == mem.uva
<1>1. /\ P \in PteMap /\ C \in CharMap /\ A \in [Frame -> Nat] /\ shm \in ShmType
      /\ Ptes(P) /\ Frames(P, C, A, {}) /\ Shm(P, C, A, shm, own)
      /\ Slots(P, mem.scharmap) /\ mem.halt = "no" /\ mem.scharmap \in SwapMap
      /\ IsFirst(C, mem.ffree, NPF) /\ IsFirst(mem.scharmap, mem.sffree, NPSWAP)
  BY SoundTypes DEF Working
<1> HIDE DEF P, C, A
<1>2. ASSUME NEW f \in Frame
      PROVE
  CASE C[f] = Free   -> Users(P, f) = {}
    [] C[f] = Shared ->
         /\ Cardinality(Users(P, f)) = A[f] /\ A[f] > 0
         /\ \/ \A u \in Users(P, f) : LET e == P[u[1]][u[2]] IN e.cow /\ ~e.w /\ ~e.shm
            \/ \E k \in Keys : /\ shm[k].pgidx = f /\ shm[k].nproc = A[f]
                                /\ {u[1] : u \in Users(P, f)} = shm[k].opid
                                /\ \A u \in Users(P, f) : P[u[1]][u[2]].shm
    [] OTHER -> /\ Users(P, f) = {<<C[f], A[f]>>}
                /\ LET e == P[C[f]][A[f]] IN e.w /\ ~e.cow /\ ~e.shm
  <2>1. FrameOk(P, C, A, f)
    BY <1>1 DEF Frames
  <2>2. CASE C[f] = Free
    BY <2>1, <2>2, Constants DEF FrameOk
  <2>3. CASE C[f] = Shared
    <3>1. Cardinality(Users(P, f)) = A[f] /\ A[f] > 0 /\ (CowUsers(P, f) \/ ShmUsers(P, f))
      BY <2>1, <2>3 DEF FrameOk
    <3>2. ASSUME ShmUsers(P, f)
          PROVE  \E k \in Keys : /\ shm[k].pgidx = f /\ shm[k].nproc = A[f]
                                 /\ {u[1] : u \in Users(P, f)} = shm[k].opid
                                 /\ \A u \in Users(P, f) : P[u[1]][u[2]].shm
      <4> DEFINE U == Users(P, f)
      <4>1. U # {}
        <5>1. A[f] # 0
          BY <3>1
        <5> QED BY <3>1, <5>1, FS_EmptySet
      <4>2. PICK t \in U : TRUE
        BY <4>1
      <4>3. t[1] \in Proc /\ t[2] \in Page
        BY <4>2, UsersArePairs
      <4>4. P[t[1]][t[2]].shm /\ P[t[1]][t[2]].n = f
        BY <3>2, <4>2 DEF ShmUsers, Users
      <4> DEFINE k == own[t[1]][t[2]]
      <4>5. KeyUse(P, C, A, shm, t[1], t[2], f, k)
        <5>1. KeyUse(P, C, A, shm, t[1], t[2], P[t[1]][t[2]].n, k)
          BY <1>1, <4>3, <4>4, KeyOf
        <5> QED BY <4>4, <5>1
      <4> HIDE DEF k, U
      <4>6. /\ k \in Keys /\ shm[k].pgidx = f /\ A[f] = shm[k].nproc
            /\ \A q \in Proc : q \in shm[k].opid <=> \E u \in Page : <<q, u>> \in U
        BY <4>5 DEF KeyUse, U
      <4>7. shm[k].opid \in SUBSET Proc
        BY <1>1, <4>6 DEF ShmType
      <4>8. \A u \in U : u[1] \in Proc /\ u[2] \in Page /\ u = <<u[1], u[2]>>
        BY UsersArePairs DEF U
      <4>9. \A q \in {u[1] : u \in U} : q \in shm[k].opid
        BY <4>6, <4>8
      <4>10. ASSUME NEW q \in shm[k].opid PROVE q \in {u[1] : u \in U}
        <5>1. PICK u \in Page : <<q, u>> \in U
          BY <4>6, <4>7
        <5>2. <<q, u>>[1] = q
          OBVIOUS
        <5> QED BY <5>1, <5>2
      <4>11. {u[1] : u \in U} = shm[k].opid
        BY <4>9, <4>10
      <4> QED BY <3>2, <4>6, <4>11 DEF U, ShmUsers
    <3>3. C[f] # Free
      BY <2>3, Constants
    <3> QED BY <2>3, <3>1, <3>2, <3>3 DEF CowUsers
  <2>4. CASE C[f] # Free /\ C[f] # Shared
    <3>1. C[f] \in Proc
      BY <1>1, <2>4 DEF CharMap
    <3> QED BY <2>1, <2>4, <3>1 DEF FrameOk
  <2> QED BY <2>2, <2>3, <2>4
<1>3. ASSUME NEW s \in Slot
      PROVE  Cardinality(Swapped(P, s)) = IF mem.scharmap[s] = Free THEN 0 ELSE 1
  <2>1. SlotOk(P, mem.scharmap, s)
    BY <1>1 DEF Slots
  <2>2. CASE mem.scharmap[s] = Free
    BY <2>1, <2>2, FS_EmptySet DEF SlotOk
  <2>3. CASE mem.scharmap[s] # Free
    <3>1. PICK u \in Pair : Swapped(P, s) = {u}
      BY <2>1, <2>3 DEF SlotOk
    <3>2. Cardinality(Swapped(P, s)) = 1
      BY <3>1, FS_Singleton
    <3> QED BY <2>3, <3>2
  <2> QED BY <2>2, <2>3
<1>4. mem.ffree = FirstFree(C, 0, NPF) /\ mem.sffree = FirstFree(mem.scharmap, 0, NPSWAP)
  BY <1>1, Constants, HintIs DEF CharMap, SwapMap, Frame, Slot
<1>5. NoPanic
  BY <1>1 DEF NoPanic
<1>6. Account(P, C, A, shm)
  BY <1>2 DEF Account
<1> QED BY <1>3, <1>4, <1>5, <1>6 DEF FramesAccounted, Account, P, C, A

\* TLBs that only hold what is mapped keep no frame a process lost.
LEMMA TlbFollows == Working => TlbMapsOwnFrames
BY DEF Working, TlbOk, TlbMapsOwnFrames

\* Pages that hold what is wanted are read back.
LEMMA OwnFollows == Working => OwnMemory
<1> SUFFICES ASSUME Working, NEW p \in Proc, NEW v \in Page
             PROVE  LET e == mem.pte[p][v] IN
                    CASE e.at = "mem"  -> mem.page[e.n] = Seen(p, v)
                      [] e.at = "disk" -> mem.disk[e.n] = Seen(p, v)
                      [] OTHER -> TRUE
  BY DEF OwnMemory
<1>1. Reads(mem.pte, mem.page, mem.disk, Wanted) /\ Wanted[p][v] = Seen(p, v)
  BY SoundTypes DEF Working, Wanted
<1> HIDE DEF Wanted
<1>2. /\ mem.pte[p][v].at = "mem" => mem.page[mem.pte[p][v].n] = Seen(p, v)
      /\ mem.pte[p][v].at = "disk" => mem.disk[mem.pte[p][v].n] = Seen(p, v)
  BY <1>1 DEF Reads
<1>3. CASE mem.pte[p][v].at = "mem"
  BY <1>2, <1>3
<1>4. CASE mem.pte[p][v].at = "disk"
  BY <1>2, <1>4
<1>5. CASE mem.pte[p][v].at # "mem" /\ mem.pte[p][v].at # "disk"
  BY <1>5
<1> QED BY <1>3, <1>4, <1>5

\* The memory of a step that succeeds.
LEMMA GotIs ==
  ASSUME NEW m, NEW sh, NEW o, NEW want, Sound(m, sh, {}, o, want)
  PROVE  LET r == [m EXCEPT !.got = 0] IN
         Sound(r, sh, {}, o, want) /\ r.pte = m.pte /\ r.tlb = m.tlb /\ r.halt = "no" /\ r.page = m.page
<1> DEFINE r == [m EXCEPT !.got = 0]
<1>1. m \in MemType /\ m.halt = "no" /\ 0 \in Frame
  BY SoundTypes, Constants DEF Frame
<1>2. r \in MemType
  BY <1>1 DEF MemType
<1>3. /\ r.pte = m.pte /\ r.charmap = m.charmap /\ r.uva = m.uva /\ r.ffree = m.ffree
      /\ r.page = m.page /\ r.tlb = m.tlb /\ r.scharmap = m.scharmap /\ r.sffree = m.sffree
      /\ r.disk = m.disk /\ r.halt = m.halt
  BY <1>1 DEF MemType
<1> HIDE DEF r
<1>4. Sound(r, sh, {}, o, want)
  BY <1>1, <1>2, <1>3 DEF Sound
<1> QED BY <1>1, <1>3, <1>4 DEF r

\* A step after which the kernel works and the tables are sound.
LEMMA Worked ==
  ASSUME (OneHart(current))', Ghosts', Working'
  PROVE  MemInv'
<1>1. (Working => FramesAccounted)'
  BY FramesFollow, PTL
<1>2. (Working => TlbMapsOwnFrames)'
  BY TlbFollows, PTL
<1>3. (Working => OwnMemory)'
  BY OwnFollows, PTL
<1> QED BY <1>1, <1>2, <1>3 DEF MemInv

\* A step that leaves sound memory m.
LEMMA Became ==
  ASSUME NEW m, Becomes(m), Sound(m, shm', {}, own', Wanted'), TlbOk(m.pte, m.tlb, current'),
         Keyed(m.pte, own'), Within(m.pte, seg_end', current'), (OneHart(current))', Ghosts'
  PROVE  MemInv'
<1>1. mem' = [m EXCEPT !.got = 0]
  BY SoundTypes DEF Becomes
<1>2. /\ Sound(mem', shm', {}, own', Wanted') /\ mem'.pte = m.pte /\ mem'.tlb = m.tlb
  BY <1>1, GotIs
<1>3. Working'
  BY <1>2 DEF Working
<1> QED BY <1>3, Worked

\* A step that exhausts the memory leaves everything to look at as it was.
LEMMA Stopped ==
  ASSUME MemInv, Ok(mem), NEW m, Becomes(m), Exhausted(m), UNCHANGED <<shm, current>>, Ghosts',
         \A p \in Proc, v \in Page : mem.pte[p][v] # NoPte => Seen(p, v)' = Seen(p, v)
  PROVE  MemInv'
<1>1. mem.halt = "no" /\ Working /\ mem \in MemType
  BY SoundTypes DEF MemInv, Ok, Working
<1>2. mem' = [mem EXCEPT !.halt = m.halt]
  BY DEF Becomes, Exhausted, Ok
<1>3. /\ mem'.pte = mem.pte /\ mem'.charmap = mem.charmap /\ mem'.uva = mem.uva
      /\ mem'.ffree = mem.ffree /\ mem'.page = mem.page /\ mem'.tlb = mem.tlb
      /\ mem'.scharmap = mem.scharmap /\ mem'.sffree = mem.sffree /\ mem'.disk = mem.disk
      /\ mem'.halt = m.halt
  BY <1>1, <1>2 DEF MemType
<1>4. FramesAccounted'
  <2>1. NoPanic'
    BY <1>3 DEF NoPanic, Exhausted
  <2>2. FramesAccounted /\ shm' = shm
    BY DEF MemInv
  <2>3. /\ \A s \in Slot : Cardinality(Swapped(mem'.pte, s)) = IF mem'.scharmap[s] = Free THEN 0 ELSE 1
        /\ mem'.ffree = FirstFree(mem'.charmap, 0, NPF)
        /\ mem'.sffree = FirstFree(mem'.scharmap, 0, NPSWAP)
    BY <1>3, <2>2 DEF FramesAccounted
  <2>4. Account(mem.pte, mem.charmap, mem.uva, shm)
    BY <2>2 DEF FramesAccounted, Account
  <2>5. Account(mem'.pte, mem'.charmap, mem'.uva, shm')
    BY <1>3, <2>2, <2>4
  <2> QED BY <2>1, <2>3, <2>5 DEF FramesAccounted, Account
<1>5. TlbMapsOwnFrames'
  BY <1>3 DEF MemInv, TlbMapsOwnFrames
<1>6. OwnMemory'
  <2> SUFFICES ASSUME NEW p \in Proc, NEW v \in Page
               PROVE  LET e == mem'.pte[p][v] IN
                      CASE e.at = "mem"  -> mem'.page[e.n] = Seen(p, v)'
                        [] e.at = "disk" -> mem'.disk[e.n] = Seen(p, v)'
                        [] OTHER -> TRUE
    BY DEF OwnMemory
  <2>1. CASE mem.pte[p][v] = NoPte
    BY <1>3, <2>1, NoPteIs
  <2>2. CASE mem.pte[p][v] # NoPte
    BY <1>3, <2>2 DEF MemInv, OwnMemory
  <2> QED BY <2>1, <2>2
<1>7. mem'.halt # "no"
  BY <1>3 DEF Exhausted
<1>8. (OneHart(current))'
  BY DEF MemInv, OneHart
<1> QED BY <1>4, <1>5, <1>6, <1>7, <1>8 DEF MemInv
-----------------------------------------------------------------------------
(* The steps.                                                              *)

\* What holds while the kernel works.
LEMMA Here ==
  ASSUME MemInv, Ok(mem)
  PROVE  /\ Sound(mem, shm, {}, own, Wanted) /\ TlbOk(mem.pte, mem.tlb, current)
         /\ Keyed(mem.pte, own) /\ Within(mem.pte, seg_end, current)
         /\ OneHart(current) /\ Ghosts /\ mem.halt = "no"
BY DEF MemInv, Working, Ok

\* What a process reads in a page is one of the values.
LEMMA SeenIs ==
  ASSUME Ghosts
  PROVE  /\ \A p \in Proc, v \in Page : Seen(p, v) \in Values /\ Seen(p, v) \notin Keys
         /\ \A p \in Proc, v \in Page : Wanted[p][v] = Seen(p, v)
         /\ \A p \in Proc, v \in Page : own[p][v] \in Values \cup Keys
BY Constants DEF Ghosts, Seen, Wanted

\* The page walk of the hart's load or store
LEMMA WalkStep ==
  ASSUME MemInv, NEW c \in Cpu, NEW v \in Page, Walk(c, v)
  PROVE  MemInv'
<1> DEFINE p == current[c]
           e == mem.pte[p][v]
           t == [n |-> e.n, w |-> e.w]
           tl == [mem.tlb EXCEPT ![c] = [mem.tlb[c] EXCEPT ![v] = t]]
<1>1. /\ Sound(mem, shm, {}, own, Wanted) /\ TlbOk(mem.pte, mem.tlb, current)
      /\ Keyed(mem.pte, own) /\ Within(mem.pte, seg_end, current)
      /\ OneHart(current) /\ Ghosts
  BY Here DEF Walk, Running
<1>2. /\ p \in Proc /\ e.at = "mem" /\ UNCHANGED <<shm, seg_end, current, own, common>>
      /\ mem' = [mem EXCEPT !.tlb = tl]
  BY DEF Walk, Running
<1>3. /\ mem.pte \in PteMap /\ mem.charmap \in CharMap /\ mem.uva \in [Frame -> Nat] /\ mem \in MemType
      /\ mem.page \in [Frame -> Values] /\ mem.tlb \in TlbMap /\ shm \in ShmType
      /\ Ptes(mem.pte) /\ Frames(mem.pte, mem.charmap, mem.uva, {}) /\ Slots(mem.pte, mem.scharmap)
      /\ IsFirst(mem.charmap, mem.ffree, NPF) /\ Shm(mem.pte, mem.charmap, mem.uva, shm, own)
      /\ Reads(mem.pte, mem.page, mem.disk, Wanted)
  BY <1>1, SoundTypes
<1>4. t \in Entry /\ t.n = e.n
  <2>1. e \in Pte /\ PteOk(e)
    BY <1>2, <1>3 DEF PteMap, Ptes
  <2>2. e.n \in 0 .. NPF /\ e.w \in BOOLEAN
    BY <1>2, <2>1, Constants DEF PteOk, Frame, Pte
  <2> QED BY <2>2 DEF Entry
<1> HIDE DEF t
<1>5. tl \in TlbMap /\ \A d \in Cpu, u \in Page :
        tl[d][u] = IF d = c /\ u = v THEN t ELSE mem.tlb[d][u]
  BY <1>3, <1>4 DEF TlbMap
<1> HIDE DEF tl
<1>6. TlbOk(mem.pte, tl, current)
  BY <1>1, <1>2, <1>4, <1>5 DEF TlbOk
<1>7. Sound(mem', shm, {}, own, Wanted) /\ mem'.pte = mem.pte /\ mem'.tlb = tl
  <2>1. mem' = With(mem, mem.pte, mem.charmap, mem.uva, mem.ffree, mem.page, tl)
    BY <1>2, <1>3 DEF With, MemType
  <2>2. Sound(With(mem, mem.pte, mem.charmap, mem.uva, mem.ffree, mem.page, tl), shm, {}, own, Wanted)
    BY <1>1, <1>3, <1>5, SoundWith
  <2>3. mem'.pte = mem.pte /\ mem'.tlb = tl
    BY <1>2, <1>3 DEF MemType
  <2> QED BY <2>1, <2>2, <2>3
<1>8. Wanted' = Wanted /\ Ghosts' /\ (OneHart(current))'
  BY <1>1, <1>2 DEF Wanted, Seen, Ghosts, OneHart
<1>9. Working'
  BY <1>1, <1>2, <1>6, <1>7, <1>8 DEF Working
<1> QED BY <1>8, <1>9, Worked

\* do_sbrk()
LEMMA SbrkStep ==
  ASSUME MemInv, NEW c \in Cpu, Sbrk(c)
  PROVE  MemInv'
<1> DEFINE p == current[c]
<1>1. /\ Working /\ OneHart(current) /\ Ghosts
  BY DEF Sbrk, Running, MemInv, Ok
<1>2. /\ p \in Proc /\ UNCHANGED <<mem, shm, current, own, common>> /\ seg_end[p] < UsegPages
      /\ seg_end' = [seg_end EXCEPT ![p] = @ + 1]
  BY DEF Sbrk, Running
<1> HIDE DEF p
<1>3. Within(mem.pte, seg_end', current)
  <2>1. Within(mem.pte, seg_end, current)
    BY <1>1 DEF Working
  <2>2. \A q \in Proc : seg_end[q] \in 0 .. UsegPages
    BY <2>1 DEF Within
  <2>3. seg_end[p] + 1 \in 0 .. UsegPages
    BY <1>2, <2>2, Constants
  <2>4. /\ seg_end' \in [Proc -> 0 .. UsegPages]
        /\ \A q \in Proc : seg_end'[q] = IF q = p THEN seg_end[p] + 1 ELSE seg_end[q]
    BY <1>2, <2>1, <2>3 DEF Within
  <2>5. \A q \in Proc, v \in Page : v > seg_end'[q] => v > seg_end[q]
    BY <2>2, <2>4 DEF Page
  <2>6. \A q \in Proc : seg_end[q] > 0 => seg_end'[q] > 0
    BY <2>2, <2>4
  <2> QED BY <2>1, <2>4, <2>5, <2>6 DEF Within
<1>4. Wanted' = Wanted /\ Ghosts' /\ (OneHart(current))'
  BY <1>1, <1>2 DEF Wanted, Seen, Ghosts, OneHart
<1>5. Working'
  BY <1>1, <1>2, <1>3, <1>4 DEF Working
<1> QED BY <1>4, <1>5, Worked

\* switch_to() from do_scheduler()
LEMMA SwitchStep ==
  ASSUME MemInv, NEW c \in Cpu, NEW p \in Proc \cup {Idle}, SwitchTo(c, p)
  PROVE  MemInv'
<1> DEFINE tl == [mem.tlb EXCEPT ![c] = FlushedTlb]
<1>1. /\ Sound(mem, shm, {}, own, Wanted) /\ TlbOk(mem.pte, mem.tlb, current)
      /\ Keyed(mem.pte, own) /\ Within(mem.pte, seg_end, current)
      /\ OneHart(current) /\ Ghosts
  BY Here DEF SwitchTo
<1>2. /\ UNCHANGED <<shm, seg_end, own, common>> /\ current' = [current EXCEPT ![c] = p]
      /\ p \in Proc => seg_end[p] > 0 /\ \A d \in Cpu : current[d] # p
      /\ mem' = [mem EXCEPT !.tlb = tl]
  BY Constants DEF SwitchTo
<1>3. /\ mem.pte \in PteMap /\ mem.charmap \in CharMap /\ mem.uva \in [Frame -> Nat] /\ mem \in MemType
      /\ mem.page \in [Frame -> Values] /\ mem.tlb \in TlbMap /\ shm \in ShmType
      /\ Ptes(mem.pte) /\ Frames(mem.pte, mem.charmap, mem.uva, {}) /\ Slots(mem.pte, mem.scharmap)
      /\ IsFirst(mem.charmap, mem.ffree, NPF) /\ Shm(mem.pte, mem.charmap, mem.uva, shm, own)
      /\ Reads(mem.pte, mem.page, mem.disk, Wanted)
  BY <1>1, SoundTypes
<1>4. FlushedTlb \in [Page -> Entry] /\ \A u \in Page : FlushedTlb[u] = NoEntry
  BY Constants DEF FlushedTlb, NoEntry, Entry
<1>5. tl \in TlbMap /\ \A d \in Cpu : tl[d] = IF d = c THEN FlushedTlb ELSE mem.tlb[d]
  BY <1>3, <1>4 DEF TlbMap
<1> HIDE DEF tl
<1>6. /\ current' \in [Cpu -> Proc \cup {Idle}]
      /\ \A d \in Cpu : current'[d] = IF d = c THEN p ELSE current[d]
  BY <1>1, <1>2 DEF OneHart
<1>7. (OneHart(current))'
  BY <1>1, <1>2, <1>6 DEF OneHart
<1>8. TlbOk(mem.pte, tl, current')
  BY <1>1, <1>4, <1>5, <1>6 DEF TlbOk
<1>9. Within(mem.pte, seg_end, current')
  BY <1>1, <1>2, <1>6 DEF Within
<1>10. Sound(mem', shm, {}, own, Wanted) /\ mem'.pte = mem.pte /\ mem'.tlb = tl
  <2>1. mem' = With(mem, mem.pte, mem.charmap, mem.uva, mem.ffree, mem.page, tl)
    BY <1>2, <1>3 DEF With, MemType
  <2>2. Sound(With(mem, mem.pte, mem.charmap, mem.uva, mem.ffree, mem.page, tl), shm, {}, own, Wanted)
    BY <1>1, <1>3, <1>5, SoundWith
  <2>3. mem'.pte = mem.pte /\ mem'.tlb = tl
    BY <1>2, <1>3 DEF MemType
  <2> QED BY <2>1, <2>2, <2>3
<1>11. Wanted' = Wanted /\ Ghosts'
  BY <1>1, <1>2 DEF Wanted, Seen, Ghosts
<1>12. Working'
  BY <1>1, <1>2, <1>8, <1>9, <1>10, <1>11 DEF Working
<1> QED BY <1>7, <1>11, <1>12, Worked

\* A fault of a page that was never touched
LEMMA FreshStep ==
  ASSUME MemInv, NEW c \in Cpu, NEW v \in Page, NEW p, p = current[c], Running(c, p),
         mem.pte[p][v] = NoPte, v <= seg_end[p], Becomes(AllocPageHelper(mem, c, p, v)),
         own' = [own EXCEPT ![p][v] = Content(mem', p, v)],
         UNCHANGED <<shm, seg_end, current, common>>
  PROVE  MemInv'
<1> DEFINE n == AllocPageHelper(mem, c, p, v)
           x == Content(mem', p, v)
           want == [q \in Proc |-> [u \in Page |-> IF q = p /\ u = v THEN n.page[n.got] ELSE Wanted[q][u]]]
<1>1. /\ Sound(mem, shm, {}, own, Wanted) /\ TlbOk(mem.pte, mem.tlb, current)
      /\ Keyed(mem.pte, own) /\ Within(mem.pte, seg_end, current)
      /\ OneHart(current) /\ Ghosts /\ Ok(mem) /\ p \in Proc
  BY Here DEF Running
<1>2. \A q \in Proc, u \in Page : want[q][u] = IF q = p /\ u = v THEN n.page[n.got] ELSE Wanted[q][u]
  OBVIOUS
<1> HIDE DEF want, n, x
<1>3. /\ \A q \in Proc, u \in Page : own'[q][u] = IF q = p /\ u = v THEN x ELSE own[q][u]
      /\ x \in Values => own' \in [Proc -> [Page -> Values \cup Keys]]
  BY <1>1 DEF Ghosts, x
<1>4. \A q \in Proc, u \in Page : mem.pte[q][u] # NoPte => own'[q][u] = own[q][u] /\ Seen(q, u)' = Seen(q, u)
  BY <1>3 DEF Seen
<1>5. Sound(mem, shm, {}, own', want)
  <2>1. \A q \in Proc, u \in Page : mem.pte[q][u].shm => own'[q][u] = own[q][u]
    BY <1>4, NoPteIs
  <2>2. \A q \in Proc, u \in Page : mem.pte[q][u] # NoPte => want[q][u] = Wanted[q][u]
    BY <1>2
  <2> DEFINE o == own'
  <2> HIDE DEF o
  <2>3. \A q \in Proc, u \in Page : mem.pte[q][u].shm => o[q][u] = own[q][u]
    BY <2>1 DEF o
  <2>4. Sound(mem, shm, {}, o, want)
    BY <1>1, <2>2, <2>3, SoundGhosts
  <2> QED BY <2>4 DEF o
<1>6. /\ Ok(n) => NewPage(mem, n, shm, own', want, p, v)
      /\ Ok(n) \/ Exhausted(n)
  BY <1>1, <1>2, <1>5, AllocPageHelperIs DEF n
<1>7. CASE Exhausted(n)
  <2>1. x = Zero
    <3>1. mem' = [mem EXCEPT !.halt = n.halt]
      BY <1>7 DEF Becomes, n, Ok, Exhausted
    <3>2. mem \in MemType
      BY <1>1, SoundTypes
    <3>3. ~Ok(mem')
      BY <1>7, <3>1, <3>2 DEF MemType, Ok, Exhausted
    <3> QED BY <3>3 DEF x, Content
  <2>2. Ghosts'
    BY <1>1, <1>3, <2>1, Constants DEF Ghosts
  <2> QED BY <1>1, <1>4, <1>7, <2>2, Stopped DEF n
<1>8. CASE ~Exhausted(n)
  <2>1. /\ Sound(n, shm, {}, own', want) /\ AlikeBut(mem.pte, n.pte, p, v)
        /\ TlbOk(n.pte, n.tlb, current)
        /\ n.pte[p][v] = UserPte(n.got) /\ Ok(n)
    BY <1>1, <1>6, <1>8 DEF NewPage
  <2>2. n.got \in Frame /\ n.page \in [Frame -> Values] /\ n.pte \in PteMap
    BY <2>1, SoundTypes
  <2>3. x = n.page[n.got] /\ x \in Values
    <3>1. mem' = [n EXCEPT !.got = 0]
      BY <2>1 DEF Becomes, n
    <3>2. mem'.page = n.page /\ mem'.pte = n.pte /\ mem'.halt = "no"
      BY <2>1, <3>1, GotIs
    <3>3. x = n.page[n.pte[p][v].n]
      BY <3>2 DEF x, Content, Ok
    <3> QED BY <2>1, <2>2, <3>3, UserPteIs
  <2>4. Ghosts'
    BY <1>1, <1>3, <2>3 DEF Ghosts
  <2>5. \A q \in Proc, u \in Page : Wanted'[q][u] = want[q][u]
    BY <1>1, <1>2, <1>3, <2>3, Constants DEF Wanted, Seen
  <2>6. Sound(n, shm, {}, own', Wanted')
    BY <2>1, <2>5, SoundGhosts
  <2>7. Keyed(n.pte, own')
    <3> SUFFICES ASSUME NEW q \in Proc, NEW u \in Page, own'[q][u] \in Keys PROVE n.pte[q][u].shm
      BY DEF Keyed
    <3>1. ~(q = p /\ u = v) /\ own[q][u] \in Keys
      BY <1>3, <2>3, Constants
    <3> QED BY <1>1, <2>1, <3>1 DEF Keyed, AlikeBut, Alike
  <2>8. Within(n.pte, seg_end, current)
    <3>1. seg_end[p] \in 0 .. UsegPages
      BY <1>1 DEF Within
    <3>2. ASSUME NEW q \in Proc, NEW u \in Page, u > seg_end[q] PROVE n.pte[q][u] = NoPte
      <4>1. ~(q = p /\ u = v)
        BY <3>1, <3>2 DEF Page
      <4> QED BY <1>1, <2>1, <3>2, <4>1 DEF Within, AlikeBut, Alike
    <3> QED BY <1>1, <3>2 DEF Within
  <2>9. (OneHart(current))'
    BY <1>1 DEF OneHart
  <2>10. Becomes(n) /\ shm' = shm /\ seg_end' = seg_end /\ current' = current
    BY DEF n
  <2> QED BY <2>1, <2>4, <2>6, <2>7, <2>8, <2>9, <2>10, Became
<1> QED BY <1>7, <1>8

\* A fault of a page that is brought in, or copied
LEMMA ResidentStep ==
  ASSUME MemInv, NEW n, NEW p, NEW v, Ok(mem), Resident(mem, n, shm, own, Wanted, p, v),
         Becomes(n), UNCHANGED <<shm, seg_end, current, own, common>>
  PROVE  MemInv'
<1>1. /\ TlbOk(mem.pte, mem.tlb, current)
      /\ Keyed(mem.pte, own) /\ Within(mem.pte, seg_end, current)
      /\ OneHart(current) /\ Ghosts
  BY Here
<1>2. Wanted' = Wanted /\ Ghosts' /\ (OneHart(current))'
  BY <1>1 DEF Wanted, Seen, Ghosts, OneHart
<1>3. CASE Exhausted(n)
  <2>1. \A q \in Proc, u \in Page : Seen(q, u)' = Seen(q, u)
    BY DEF Seen
  <2> QED BY <1>2, <1>3, <2>1, Stopped
<1>4. CASE ~Exhausted(n)
  <2>1. /\ Sound(n, shm, {}, own, Wanted) /\ TlbOk(n.pte, n.tlb, current)
        /\ \A q \in Proc, u \in Page : Alike(mem.pte, n.pte, q, u)
    BY <1>1, <1>4 DEF Resident
  <2>2. Keyed(n.pte, own) /\ Within(n.pte, seg_end, current)
    BY <1>1, <2>1 DEF Keyed, Within, Alike
  <2> QED BY <1>2, <2>1, <2>2, Became
<1> QED BY <1>3, <1>4

\* handle_pagefault()
LEMMA FaultStep ==
  ASSUME MemInv, NEW c \in Cpu, NEW v \in Page, NEW store \in BOOLEAN, PageFault(c, v, store)
  PROVE  MemInv'
<1> DEFINE p == current[c]
           e == mem.pte[p][v]
           P2 == Put(mem.pte, p, v, [e EXCEPT !.a = TRUE])
           tl == [mem.tlb EXCEPT ![c] = [mem.tlb[c] EXCEPT ![v] = NoEntry]]
           n == [mem EXCEPT !.pte[p][v].a = TRUE, !.tlb[c][v] = NoEntry]
<1>1. /\ Sound(mem, shm, {}, own, Wanted) /\ TlbOk(mem.pte, mem.tlb, current)
      /\ Keyed(mem.pte, own) /\ Within(mem.pte, seg_end, current)
      /\ OneHart(current) /\ Ghosts /\ Ok(mem) /\ p \in Proc
  BY Here DEF PageFault, Running
<1>2. /\ mem.pte \in PteMap /\ mem.charmap \in CharMap /\ mem.uva \in [Frame -> Nat] /\ mem \in MemType
      /\ mem.page \in [Frame -> Values] /\ mem.tlb \in TlbMap /\ shm \in ShmType
      /\ Ptes(mem.pte) /\ Frames(mem.pte, mem.charmap, mem.uva, {}) /\ Slots(mem.pte, mem.scharmap)
      /\ IsFirst(mem.charmap, mem.ffree, NPF) /\ Shm(mem.pte, mem.charmap, mem.uva, shm, own)
      /\ Reads(mem.pte, mem.page, mem.disk, Wanted)
  BY <1>1, SoundTypes
<1>3. e \in Pte /\ PteOk(e)
  BY <1>1, <1>2 DEF PteMap, Ptes
<1>4. Running(c, p) /\ v <= seg_end[p] /\ UNCHANGED <<shm, seg_end, current, common>>
  BY DEF PageFault
<1>5. CASE e = NoPte
  <2>1. /\ Becomes(AllocPageHelper(mem, c, p, v))
        /\ own' = [own EXCEPT ![p][v] = Content(mem', p, v)]
    BY <1>5 DEF PageFault, NoPte
  <2> QED BY <1>4, <1>5, <2>1, FreshStep
<1>6. CASE e.at = "disk"
  <2>1. e # NoPte /\ ~e.cow
    BY <1>3, <1>6, NoPteIs DEF PteOk
  <2>2. Becomes(SwapFromDisk(mem, c, p, v)) /\ own' = own
    BY <1>6, <2>1 DEF PageFault
  <2>3. Resident(mem, SwapFromDisk(mem, c, p, v), shm, own, Wanted, p, v)
    BY <1>1, <1>6, SwapFromDiskIs
  <2> QED BY <1>1, <1>4, <2>2, <2>3, ResidentStep
<1>7. CASE e.at = "mem" /\ e.cow /\ store
  <2>1. e # NoPte /\ e.at # "disk"
    BY <1>7, NoPteIs
  <2>2. Becomes(CopyOnWrite(mem, c, p, v)) /\ own' = own
    BY <1>7, <2>1 DEF PageFault
  <2>3. Resident(mem, CopyOnWrite(mem, c, p, v), shm, own, Wanted, p, v)
    BY <1>1, <1>7, CopyOnWriteIs
  <2> QED BY <1>1, <1>4, <2>2, <2>3, ResidentStep
<1>8. CASE e.at = "mem" /\ ~(e.cow /\ store)
  <2>1. e # NoPte /\ e.at # "disk"
    BY <1>8, NoPteIs
  <2>2. Becomes(n) /\ own' = own
    BY <1>8, <2>1 DEF PageFault
  <2>3. n = With(mem, P2, mem.charmap, mem.uva, mem.ffree, mem.page, tl)
    <3>1. n = [mem EXCEPT !.pte = P2, !.tlb = tl]
      BY DEF Put
    <3> HIDE DEF P2, tl, n
    <3> QED BY <1>2, <3>1 DEF With, MemType
  <2>4. [e EXCEPT !.a = TRUE] \in Pte
    <3> HIDE DEF e
    <3> QED BY <1>3 DEF Pte
  <2>5. P2 \in PteMap /\ \A q \in Proc, u \in Page :
          P2[q][u] = IF q = p /\ u = v THEN [e EXCEPT !.a = TRUE] ELSE mem.pte[q][u]
    <3> DEFINE d == [e EXCEPT !.a = TRUE]
    <3>1. d \in Pte
      BY <2>4
    <3> HIDE DEF d
    <3>2. /\ Put(mem.pte, p, v, d) \in PteMap
          /\ \A q \in Proc, u \in Page :
               Put(mem.pte, p, v, d)[q][u] = IF q = p /\ u = v THEN d ELSE mem.pte[q][u]
      BY <1>1, <1>2, <3>1, PutIs
    <3> QED BY <3>2 DEF d
  <2>6. NoEntry \in Entry
    BY Constants DEF NoEntry, Entry
  <2>7. tl \in TlbMap /\ \A d \in Cpu, u \in Page : tl[d][u] = mem.tlb[d][u] \/ tl[d][u] = NoEntry
    BY <1>2, <2>6 DEF TlbMap
  <2> HIDE DEF P2, tl, n
  <2>8. \A q \in Proc, u \in Page :
          \/ P2[q][u] = mem.pte[q][u]
          \/ mem.pte[q][u].at = "mem" /\ \E b \in BOOLEAN : P2[q][u] = [mem.pte[q][u] EXCEPT !.a = b]
    BY <1>8, <2>5
  <2>9. /\ Ptes(P2) /\ Frames(P2, mem.charmap, mem.uva, {}) /\ Slots(P2, mem.scharmap)
        /\ Shm(P2, mem.charmap, mem.uva, shm, own) /\ Reads(P2, mem.page, mem.disk, Wanted)
        /\ TlbOk(P2, mem.tlb, current)
        /\ \A q \in Proc, u \in Page : Alike(mem.pte, P2, q, u)
    BY <1>1, <1>2, <2>5, <2>8, AccessedOnly DEF Alike
  <2>10. TlbOk(P2, tl, current)
    BY <2>7, <2>9 DEF TlbOk
  <2>11. Sound(n, shm, {}, own, Wanted)
    BY <1>1, <1>2, <2>3, <2>5, <2>7, <2>9, SoundWith
  <2>12. n.pte = P2 /\ n.tlb = tl
    BY <1>2, <2>3, <2>5, <2>7, WithIs DEF IsFirst
  <2>13. n.pte[p][v].at = "mem"
    BY <1>1, <1>8, <2>5, <2>12, <1>3 DEF Pte
  <2>14. Resident(mem, n, shm, own, Wanted, p, v)
    BY <2>9, <2>10, <2>11, <2>12, <2>13 DEF Resident
  <2> QED BY <1>1, <1>4, <2>2, <2>14, ResidentStep
<1> QED BY <1>3, <1>5, <1>6, <1>7, <1>8 DEF Pte, PteOk

\* A store is seen by the users of the frame, and by nobody else.
LEMMA StoreStep ==
  ASSUME MemInv, NEW c \in Cpu, NEW v \in Page, NEW x \in Values, Store(c, v, x)
  PROVE  MemInv'
<1> DEFINE p == current[c]
           P == mem.pte
           C == mem.charmap
           A == mem.uva
           f == mem.tlb[c][v].n
           e == P[p][v]
           k == own[p][v]
           hit == {q \in Proc \ {p} : ~e.w /\ P[q][v].at = "mem" /\ P[q][v].n = f}
           pg == [mem.page EXCEPT ![f] = x]
           U == Users(P, f)
<1>1. /\ Sound(mem, shm, {}, own, Wanted) /\ TlbOk(P, mem.tlb, current)
      /\ Keyed(P, own) /\ Within(P, seg_end, current)
      /\ OneHart(current) /\ Ghosts /\ p \in Proc
  BY Here DEF Store, Running
<1>2. /\ P \in PteMap /\ C \in CharMap /\ A \in [Frame -> Nat] /\ mem \in MemType
      /\ mem.page \in [Frame -> Values] /\ mem.tlb \in TlbMap /\ shm \in ShmType
      /\ Ptes(P) /\ Frames(P, C, A, {}) /\ Slots(P, mem.scharmap)
      /\ IsFirst(C, mem.ffree, NPF) /\ Shm(P, C, A, shm, own)
      /\ Reads(P, mem.page, mem.disk, Wanted)
  BY <1>1, SoundTypes
<1>3. /\ mem' = [mem EXCEPT !.page = pg] /\ UNCHANGED <<shm, seg_end, current>>
      /\ IF k \in Keys
         THEN common' = [common EXCEPT ![k] = x] /\ own' = own
         ELSE /\ own' = [q \in Proc |-> IF q \in {p} \cup hit THEN [own[q] EXCEPT ![v] = x] ELSE own[q]]
              /\ common' = common
      /\ mem.tlb[c][v] # NoEntry
  BY DEF Store
<1> HIDE DEF P, C, A
<1>4. e.at = "mem" /\ e.n = f
  BY <1>1, <1>3 DEF TlbOk, P
<1>5. f \in Frame /\ <<p, v>> \in U /\ FrameOk(P, C, A, f)
  <2>1. LET d == P[p][v]  g == d.n IN
        g \in Frame /\ <<p, v>> \in Users(P, g) /\ FrameOk(P, C, A, g)
    BY <1>1, <1>2, <1>4, FrameOf
  <2> QED BY <1>4, <2>1
<1>6. \A q \in Proc, u \in Page : <<q, u>> \in U <=> P[q][u].at = "mem" /\ P[q][u].n = f
  BY DEF U, Users
<1>7. pg \in [Frame -> Values] /\ pg[f] = x /\ \A g \in Frame : g # f => pg[g] = mem.page[g]
  BY <1>2, <1>5
<1> HIDE DEF pg, U, f, p
<1>8. ASSUME k \in Keys
      PROVE  /\ Ghosts' /\ own' = own
             /\ \A q \in Proc, u \in Page : Seen(q, u)' = IF <<q, u>> \in U THEN x ELSE Seen(q, u)
  <2>1. common' = [common EXCEPT ![k] = x] /\ own' = own
    BY <1>3, <1>8
  <2>2. Ghosts'
    BY <1>1, <2>1 DEF Ghosts
  <2>3. ASSUME NEW q \in Proc, NEW u \in Page PROVE own[q][u] = k <=> <<q, u>> \in U
    <3>1. e.shm
      BY <1>1, <1>8 DEF Keyed
    <3>2. KeyUse(P, C, A, shm, p, v, f, k)
      <4>1. KeyUse(P, C, A, shm, p, v, P[p][v].n, own[p][v])
        BY <1>1, <1>2, <3>1, KeyOf
      <4> QED BY <1>4, <4>1
    <3>3. ASSUME own[q][u] = k PROVE <<q, u>> \in U
      <4>1. P[q][u].shm
        BY <1>1, <1>8, <3>3 DEF Keyed
      <4>2. KeyUse(P, C, A, shm, q, u, P[q][u].n, own[q][u])
        BY <1>2, <4>1, KeyOf
      <4>3. P[q][u].at = "mem" /\ shm[k].pgidx = P[q][u].n /\ shm[k].pgidx = f
        BY <3>2, <3>3, <4>2 DEF KeyUse
      <4> QED BY <1>6, <4>3
    <3>4. ASSUME <<q, u>> \in U PROVE own[q][u] = k
      <4>1. <<q, u>>[1] = q /\ <<q, u>>[2] = u
        OBVIOUS
      <4>2. P[q][u].shm /\ P[q][u].n = f
        BY <1>6, <3>2, <3>4, <4>1 DEF KeyUse, ShmUsers, U
      <4>3. KeyUse(P, C, A, shm, q, u, P[q][u].n, own[q][u])
        BY <1>2, <4>2, KeyOf
      <4> QED BY <3>2, <4>2, <4>3 DEF KeyUse
    <3> QED BY <3>3, <3>4
  <2>4. \A l \in Keys : common'[l] = IF l = k THEN x ELSE common[l]
    BY <1>1, <2>1 DEF Ghosts
  <2>5. \A q \in Proc, u \in Page : Seen(q, u)' = IF <<q, u>> \in U THEN x ELSE Seen(q, u)
    BY <1>8, <2>1, <2>3, <2>4 DEF Seen
  <2> QED BY <2>1, <2>2, <2>5
<1>9. ASSUME k \notin Keys
      PROVE  /\ Ghosts'
             /\ \A q \in Proc, u \in Page : /\ P[q][u].shm => own'[q][u] = own[q][u]
                                            /\ own'[q][u] = own[q][u] \/ own'[q][u] \notin Keys
             /\ \A q \in Proc, u \in Page : Seen(q, u)' = IF <<q, u>> \in U THEN x ELSE Seen(q, u)
  <2>1. /\ own' = [q \in Proc |-> IF q \in {p} \cup hit THEN [own[q] EXCEPT ![v] = x] ELSE own[q]]
        /\ common' = common
    BY <1>3, <1>9
  <2>2. /\ Ghosts'
        /\ \A q \in Proc, u \in Page :
             own'[q][u] = IF q \in {p} \cup hit /\ u = v THEN x ELSE own[q][u]
    <3>1. x \in Values \cup Keys /\ own \in [Proc -> [Page -> Values \cup Keys]] /\ common \in [Keys -> Values]
      BY <1>1 DEF Ghosts
    <3> HIDE DEF hit
    <3> QED BY <2>1, <3>1 DEF Ghosts
  <2>3. ~e.shm
    BY <1>1, <1>2, <1>9 DEF Shm
  <2>4. ASSUME NEW q \in Proc, NEW u \in Page
        PROVE  (q \in {p} \cup hit /\ u = v) <=> <<q, u>> \in U
    <3>1. ASSUME e.cow PROVE (q \in {p} \cup hit /\ u = v) <=> <<q, u>> \in U
      <4>1. LET d == P[p][v]  g == d.n IN CowUsers(P, g) /\ ~d.w
        BY <1>1, <1>2, <1>4, <3>1, FrameOf
      <4>2. CowUsers(P, f) /\ ~e.w
        BY <1>4, <4>1
      <4>3. <<q, u>> \in U => u = v
        <5>1. <<q, u>>[2] = u /\ <<p, v>>[2] = v
          OBVIOUS
        <5> QED BY <1>5, <4>2, <5>1 DEF CowUsers, U
      <4>4. <<q, v>> \in U <=> q \in {p} \cup hit
        BY <1>4, <1>5, <1>6, <4>2
      <4> QED BY <4>3, <4>4
    <3>2. ASSUME ~e.cow PROVE (q \in {p} \cup hit /\ u = v) <=> <<q, u>> \in U
      <4>1. Users(P, P[p][v].n) = {<<p, v>>} /\ P[p][v].w
        BY <1>1, <1>2, <1>4, <2>3, <3>2, PrivateOf
      <4>2. U = {<<p, v>>} /\ e.w
        BY <1>4, <4>1 DEF U
      <4> QED BY <4>2
    <3> QED BY <3>1, <3>2
  <2> HIDE DEF hit
  <2>5. \A q \in Proc, u \in Page : own'[q][u] = IF <<q, u>> \in U THEN x ELSE own[q][u]
    BY <2>2, <2>4
  <2>6. ASSUME NEW q \in Proc, NEW u \in Page, <<q, u>> \in U PROVE ~P[q][u].shm
    <3>1. ASSUME P[q][u].shm PROVE FALSE
      <4>1. KeyUse(P, C, A, shm, q, u, P[q][u].n, own[q][u]) /\ P[q][u].n = f
        BY <1>2, <1>6, <2>6, <3>1, KeyOf
      <4>2. ShmUsers(P, f) /\ <<p, v>>[1] = p /\ <<p, v>>[2] = v
        BY <4>1 DEF KeyUse
      <4> QED BY <1>5, <2>3, <4>2 DEF ShmUsers, U
    <3> QED BY <3>1
  <2>7. x \notin Keys
    BY Constants
  <2>8. \A q \in Proc, u \in Page : Seen(q, u)' = IF <<q, u>> \in U THEN x ELSE Seen(q, u)
    <3> SUFFICES ASSUME NEW q \in Proc, NEW u \in Page
                 PROVE  Seen(q, u)' = IF <<q, u>> \in U THEN x ELSE Seen(q, u)
      OBVIOUS
    <3>1. own'[q][u] = IF <<q, u>> \in U THEN x ELSE own[q][u]
      BY <2>5
    <3>2. Seen(q, u)' = IF own'[q][u] \in Keys THEN common[own'[q][u]] ELSE own'[q][u]
      BY <2>1 DEF Seen
    <3>3. CASE <<q, u>> \in U
      BY <2>7, <3>1, <3>2, <3>3
    <3>4. CASE <<q, u>> \notin U
      BY <3>1, <3>2, <3>4 DEF Seen
    <3> QED BY <3>3, <3>4
  <2> QED BY <2>2, <2>5, <2>6, <2>7, <2>8
<1>10. /\ Ghosts'
       /\ \A q \in Proc, u \in Page : /\ P[q][u].shm => own'[q][u] = own[q][u]
                                      /\ own'[q][u] = own[q][u] \/ own'[q][u] \notin Keys
       /\ \A q \in Proc, u \in Page : Seen(q, u)' = IF <<q, u>> \in U THEN x ELSE Seen(q, u)
  BY <1>8, <1>9
<1>11. Reads(P, pg, mem.disk, Wanted')
  <2> SUFFICES ASSUME NEW q \in Proc, NEW u \in Page
               PROVE  /\ P[q][u].at = "mem" => pg[P[q][u].n] = Wanted'[q][u]
                      /\ P[q][u].at = "disk" => mem.disk[P[q][u].n] = Wanted'[q][u]
    BY DEF Reads
  <2>1. /\ Wanted'[q][u] = IF <<q, u>> \in U THEN x ELSE Seen(q, u)
        /\ Wanted[q][u] = Seen(q, u)
    BY <1>10 DEF Wanted
  <2> HIDE DEF Wanted
  <2>2. /\ P[q][u].at = "mem" => mem.page[P[q][u].n] = Wanted[q][u] /\ P[q][u].n \in Frame
        /\ P[q][u].at = "disk" => mem.disk[P[q][u].n] = Wanted[q][u]
    BY <1>2 DEF Reads, Ptes, PteOk
  <2>3. CASE <<q, u>> \in U
    BY <1>6, <1>7, <2>1, <2>3
  <2>4. CASE <<q, u>> \notin U
    BY <1>6, <1>7, <2>1, <2>2, <2>4
  <2> QED BY <2>3, <2>4
<1>12. Shm(P, C, A, shm, own')
  BY <1>2, <1>10 DEF Shm
<1>13. Keyed(P, own')
  BY <1>1, <1>10 DEF Keyed
<1>14. Sound(mem', shm, {}, own', Wanted') /\ mem'.pte = P /\ mem'.tlb = mem.tlb
  <2>1. mem' = With(mem, P, C, A, mem.ffree, pg, mem.tlb)
    BY <1>2, <1>3 DEF With, MemType, P, C, A
  <2>2. Sound(With(mem, P, C, A, mem.ffree, pg, mem.tlb), shm, {}, own', Wanted')
    BY <1>1, <1>2, <1>7, <1>11, <1>12, SoundWith
  <2>3. mem'.pte = P /\ mem'.tlb = mem.tlb
    BY <1>2, <1>3 DEF MemType, P
  <2> QED BY <2>1, <2>2, <2>3
<1>15. (OneHart(current))'
  BY <1>1, <1>3 DEF OneHart
<1>16. Working'
  BY <1>1, <1>3, <1>13, <1>14 DEF Working
<1> QED BY <1>10, <1>15, <1>16, Worked

\* do_shm_page_dt()
LEMMA DetachStep ==
  ASSUME MemInv, NEW c \in Cpu, NEW v \in Page, ShmDt(c, v)
  PROVE  MemInv'
<1> DEFINE p == current[c]
           P == mem.pte
           d == Detach(mem, shm, p, v)
           n == [d.m EXCEPT !.tlb[c][v] = NoEntry]
           tl == [mem.tlb EXCEPT ![c] = [mem.tlb[c] EXCEPT ![v] = NoEntry]]
           P2 == Put(P, p, v, NoPte)
<1>1. /\ Sound(mem, shm, {}, own, Wanted) /\ TlbOk(P, mem.tlb, current)
      /\ Keyed(P, own) /\ Within(P, seg_end, current)
      /\ OneHart(current) /\ Ghosts /\ p \in Proc
  BY Here DEF ShmDt, Running
<1>2. /\ P[p][v].shm /\ Becomes(n) /\ shm' = d.shm /\ own' = [own EXCEPT ![p][v] = Zero]
      /\ UNCHANGED <<seg_end, current, common>>
  BY DEF ShmDt
<1>3. Sound(d.m, d.shm, {}, own, Wanted) /\ d.m.pte = P2 /\ d.m.tlb = mem.tlb
  BY <1>1, <1>2, DetachIs
<1>4. P \in PteMap /\ mem.tlb \in TlbMap /\ NoEntry \in Entry
  BY <1>1, SoundTypes, Constants DEF NoEntry, Entry
<1>5. P2 \in PteMap /\ \A q \in Proc, u \in Page : P2[q][u] = IF q = p /\ u = v THEN NoPte ELSE P[q][u]
  BY <1>1, <1>4, NoPteIs, PutIs
<1> HIDE DEF d, P2
<1>6. tl \in TlbMap /\ \A h \in Cpu, u \in Page : tl[h][u] = IF h = c /\ u = v THEN NoEntry ELSE mem.tlb[h][u]
  BY <1>4 DEF TlbMap
<1>7. /\ d.m \in MemType /\ d.m.charmap \in CharMap /\ d.m.uva \in [Frame -> Nat]
      /\ d.m.page \in [Frame -> Values] /\ d.shm \in ShmType /\ Ptes(P2)
      /\ Frames(P2, d.m.charmap, d.m.uva, {}) /\ Slots(P2, d.m.scharmap)
      /\ IsFirst(d.m.charmap, d.m.ffree, NPF) /\ Shm(P2, d.m.charmap, d.m.uva, d.shm, own)
      /\ Reads(P2, d.m.page, d.m.disk, Wanted)
  BY <1>3, SoundTypes
<1>8. n = With(d.m, P2, d.m.charmap, d.m.uva, d.m.ffree, d.m.page, tl)
  <2>1. n = [d.m EXCEPT !.tlb = tl]
    BY <1>3
  <2> HIDE DEF n, tl
  <2> QED BY <1>3, <1>7, <2>1 DEF With, MemType
<1> HIDE DEF n, tl
<1>9. Sound(n, d.shm, {}, own, Wanted) /\ n.pte = P2 /\ n.tlb = tl
  <2>1. Sound(n, d.shm, {}, own, Wanted)
    BY <1>3, <1>5, <1>6, <1>7, <1>8, SoundWith
  <2>2. n.pte = P2 /\ n.tlb = tl
    BY <1>5, <1>6, <1>7, <1>8, WithIs DEF IsFirst
  <2> QED BY <2>1, <2>2
<1>10. TlbOk(P2, tl, current)
  BY <1>1, <1>5, <1>6 DEF TlbOk, OneHart
<1>11. /\ \A q \in Proc, u \in Page : own'[q][u] = IF q = p /\ u = v THEN Zero ELSE own[q][u]
       /\ Ghosts'
  BY <1>1, <1>2, Constants DEF Ghosts
<1>12. \A q \in Proc, u \in Page : ~(q = p /\ u = v) => Wanted'[q][u] = Wanted[q][u]
  BY <1>2, <1>11 DEF Wanted, Seen
<1>13. Sound(n, shm', {}, own', Wanted')
  <2> DEFINE o == own'
             want == Wanted'
             sh == d.shm
  <2>1. \A q \in Proc, u \in Page : n.pte[q][u].shm => o[q][u] = own[q][u]
    BY <1>5, <1>9, <1>11, NoPteIs
  <2>2. \A q \in Proc, u \in Page : n.pte[q][u] # NoPte => want[q][u] = Wanted[q][u]
    BY <1>5, <1>9, <1>12
  <2>3. Sound(n, sh, {}, own, Wanted)
    BY <1>9
  <2>4. shm' = sh
    BY <1>2
  <2> HIDE DEF o, want, sh
  <2>5. Sound(n, sh, {}, o, want)
    BY <2>1, <2>2, <2>3, SoundGhosts
  <2> QED BY <2>4, <2>5 DEF o, want
<1>14. Keyed(P2, own')
  BY <1>1, <1>5, <1>11, Constants DEF Keyed
<1>15. Within(P2, seg_end, current)
  BY <1>1, <1>5 DEF Within
<1>16. (OneHart(current))'
  BY <1>1, <1>2 DEF OneHart
<1> QED BY <1>2, <1>9, <1>10, <1>11, <1>13, <1>14, <1>15, <1>16, Became

\* The process is gone, with its pages.
LEMMA ExitStep ==
  ASSUME MemInv, NEW p \in Proc, Exit(p)
  PROVE  MemInv'
<1> DEFINE P == mem.pte
           s == Frees(p, [m |-> mem, shm |-> shm])
           tl == [c \in Cpu |-> IF current[c] = p THEN FlushedTlb ELSE mem.tlb[c]]
           n == [s.m EXCEPT !.tlb = [c \in Cpu |-> IF current[c] = p THEN FlushedTlb ELSE s.m.tlb[c]]]
<1>1. /\ Sound(mem, shm, {}, own, Wanted) /\ TlbOk(P, mem.tlb, current)
      /\ Keyed(P, own) /\ Within(P, seg_end, current)
      /\ OneHart(current) /\ Ghosts
  BY Here DEF Exit
<1>2. /\ Becomes(n) /\ shm' = s.shm /\ own' = [own EXCEPT ![p] = [v \in Page |-> Zero]]
      /\ seg_end' = [seg_end EXCEPT ![p] = 0]
      /\ current' = [c \in Cpu |-> IF current[c] = p THEN Idle ELSE current[c]]
      /\ common' = common
  BY DEF Exit, Frees
<1>3. FreedTo(mem, s, own, Wanted, p, UsegPages)
  BY <1>1, FreesAre
<1> HIDE DEF s
<1>4. /\ Sound(s.m, s.shm, {}, own, Wanted) /\ s.m.tlb = mem.tlb
      /\ \A x \in Proc, u \in Page : s.m.pte[x][u] = IF x = p THEN NoPte ELSE P[x][u]
  BY <1>3 DEF FreedTo, Page
<1>5. FlushedTlb \in [Page -> Entry] /\ \A u \in Page : FlushedTlb[u] = NoEntry
  BY Constants DEF FlushedTlb, NoEntry, Entry
<1>6. mem.tlb \in TlbMap
  BY <1>1, SoundTypes
<1>7. tl \in TlbMap /\ \A c \in Cpu : tl[c] = IF current[c] = p THEN FlushedTlb ELSE mem.tlb[c]
  BY <1>5, <1>6 DEF TlbMap
<1>8. /\ s.m \in MemType /\ s.m.pte \in PteMap /\ s.m.charmap \in CharMap /\ s.m.uva \in [Frame -> Nat]
      /\ s.m.page \in [Frame -> Values] /\ s.shm \in ShmType /\ Ptes(s.m.pte)
      /\ Frames(s.m.pte, s.m.charmap, s.m.uva, {}) /\ Slots(s.m.pte, s.m.scharmap)
      /\ IsFirst(s.m.charmap, s.m.ffree, NPF) /\ Shm(s.m.pte, s.m.charmap, s.m.uva, s.shm, own)
      /\ Reads(s.m.pte, s.m.page, s.m.disk, Wanted)
  BY <1>4, SoundTypes
<1>9. n = With(s.m, s.m.pte, s.m.charmap, s.m.uva, s.m.ffree, s.m.page, tl)
  <2>1. n = [s.m EXCEPT !.tlb = tl]
    BY <1>4
  <2> HIDE DEF n, tl
  <2> QED BY <1>8, <2>1 DEF With, MemType
<1> HIDE DEF n, tl
<1>10. Sound(n, s.shm, {}, own, Wanted) /\ n.pte = s.m.pte /\ n.tlb = tl
  <2>1. Sound(n, s.shm, {}, own, Wanted)
    BY <1>4, <1>7, <1>8, <1>9, SoundWith
  <2>2. n.pte = s.m.pte /\ n.tlb = tl
    BY <1>7, <1>8, <1>9, WithIs DEF IsFirst
  <2> QED BY <2>1, <2>2
<1>11. /\ \A q \in Proc, u \in Page : own'[q][u] = IF q = p THEN Zero ELSE own[q][u]
       /\ Ghosts'
  BY <1>1, <1>2, Constants DEF Ghosts
<1>12. \A q \in Proc, u \in Page : q # p => Wanted'[q][u] = Wanted[q][u]
  BY <1>2, <1>11 DEF Wanted, Seen
<1>13. Sound(n, shm', {}, own', Wanted')
  <2> DEFINE o == own'
             want == Wanted'
             sh == s.shm
  <2>1. \A q \in Proc, u \in Page : n.pte[q][u].shm => o[q][u] = own[q][u]
    BY <1>4, <1>10, <1>11, NoPteIs
  <2>2. \A q \in Proc, u \in Page : n.pte[q][u] # NoPte => want[q][u] = Wanted[q][u]
    BY <1>4, <1>10, <1>12
  <2>3. Sound(n, sh, {}, own, Wanted)
    BY <1>10
  <2>4. shm' = sh
    BY <1>2
  <2> HIDE DEF o, want, sh
  <2>5. Sound(n, sh, {}, o, want)
    BY <2>1, <2>2, <2>3, SoundGhosts
  <2> QED BY <2>4, <2>5 DEF o, want
<1>14. Keyed(n.pte, own')
  BY <1>1, <1>4, <1>10, <1>11, Constants DEF Keyed
<1>15. /\ current' \in [Cpu -> Proc \cup {Idle}]
       /\ \A c \in Cpu : current'[c] = IF current[c] = p THEN Idle ELSE current[c]
  BY <1>1, <1>2 DEF OneHart
<1>16. TlbOk(n.pte, tl, current')
  <2> SUFFICES ASSUME NEW c \in Cpu, NEW u \in Page, tl[c][u] # NoEntry
               PROVE  /\ current'[c] \in Proc /\ n.pte[current'[c]][u].at = "mem"
                      /\ n.pte[current'[c]][u].n = tl[c][u].n
    BY DEF TlbOk
  <2>1. current[c] # p /\ tl[c] = mem.tlb[c]
    BY <1>5, <1>7
  <2>2. current[c] \in Proc /\ P[current[c]][u].at = "mem" /\ P[current[c]][u].n = mem.tlb[c][u].n
    BY <1>1, <2>1 DEF TlbOk
  <2>3. current'[c] = current[c]
    BY <1>15, <2>1
  <2>4. n.pte[current[c]][u] = P[current[c]][u]
    BY <1>4, <1>10, <2>1, <2>2
  <2> QED BY <2>1, <2>2, <2>3, <2>4
<1>17. Within(n.pte, seg_end', current')
  <2>1. /\ seg_end' \in [Proc -> 0 .. UsegPages]
        /\ \A q \in Proc : seg_end'[q] = IF q = p THEN 0 ELSE seg_end[q]
    BY <1>1, <1>2, Constants DEF Within
  <2> QED BY <1>1, <1>4, <1>10, <1>15, <2>1, Constants DEF Within
<1>18. (OneHart(current))'
  BY <1>1, <1>15, Constants DEF OneHart
<1> QED BY <1>2, <1>10, <1>11, <1>13, <1>14, <1>16, <1>17, <1>18, Became

\* create_proc() with load_task_img()
LEMMA CreateStep ==
  ASSUME MemInv, NEW c \in Cpu, NEW q \in Proc, Create(c, q)
  PROVE  MemInv'
<1> DEFINE P == mem.pte
           n == Loads(c, q, mem)
<1>1. /\ Sound(mem, shm, {}, own, Wanted) /\ TlbOk(P, mem.tlb, current)
      /\ Keyed(P, own) /\ Within(P, seg_end, current)
      /\ OneHart(current) /\ Ghosts /\ Ok(mem)
  BY Here DEF Create
<1>2. /\ Becomes(n) /\ seg_end[q] = 0 /\ seg_end' = [seg_end EXCEPT ![q] = ImgPages]
      /\ own' = [own EXCEPT ![q] = [v \in Page |-> Zero]]
      /\ UNCHANGED <<shm, current, common>>
  BY DEF Create, Loads, Load
<1> HIDE DEF n
<1>3. \A u \in Page : P[q][u] = NoPte
  BY <1>1, <1>2 DEF Within, Page
<1>4. /\ \A x \in Proc, u \in Page : own'[x][u] = IF x = q THEN Zero ELSE own[x][u]
      /\ Ghosts'
  BY <1>1, <1>2, Constants DEF Ghosts
<1>5. /\ \A x \in Proc, u \in Page : x # q => Seen(x, u)' = Seen(x, u)
      /\ \A u \in Page : Wanted'[q][u] = Zero
  BY <1>2, <1>4, Constants DEF Wanted, Seen
<1>6. Sound(mem, shm, {}, own', Wanted')
  <2>1. \A x \in Proc, u \in Page : P[x][u].shm => own'[x][u] = own[x][u]
    BY <1>3, <1>4, NoPteIs
  <2>2. \A x \in Proc, u \in Page : P[x][u] # NoPte => Wanted'[x][u] = Wanted[x][u]
    BY <1>3, <1>5 DEF Wanted
  <2> QED BY <1>1, <2>1, <2>2, SoundGhosts
<1>7. LoadedTo(mem, n, shm, own', Wanted', q, ImgPages)
  <2> DEFINE o == own'
             want == Wanted'
  <2>1. Sound(mem, shm, {}, o, want) /\ \A u \in Page : want[q][u] = Zero
    BY <1>5, <1>6
  <2> HIDE DEF o, want
  <2>2. LoadedTo(mem, n, shm, o, want, q, ImgPages)
    BY <1>3, <2>1, LoadsAre DEF n
  <2> QED BY <2>2 DEF o, want
<1>8. (OneHart(current))'
  BY <1>1, <1>2 DEF OneHart
<1>9. CASE Exhausted(n)
  <2>1. \A x \in Proc, u \in Page : P[x][u] # NoPte => Seen(x, u)' = Seen(x, u)
    BY <1>3, <1>5
  <2> QED BY <1>1, <1>2, <1>4, <1>9, <2>1, Stopped
<1>10. CASE ~Exhausted(n)
  <2>1. /\ Sound(n, shm, {}, own', Wanted') /\ TlbOk(n.pte, n.tlb, current)
        /\ \A x \in Proc, u \in Page : x # q => Alike(P, n.pte, x, u)
        /\ \A u \in Page : n.pte[q][u] = NoPte <=> u > ImgPages
    BY <1>1, <1>7, <1>10 DEF LoadedTo
  <2>2. Keyed(n.pte, own')
    BY <1>1, <1>4, <2>1, Constants DEF Keyed, Alike
  <2>3. Within(n.pte, seg_end', current)
    <3>1. /\ seg_end' \in [Proc -> 0 .. UsegPages]
          /\ \A x \in Proc : seg_end'[x] = IF x = q THEN ImgPages ELSE seg_end[x]
      BY <1>1, <1>2, Constants DEF Within
    <3>2. \A x \in Proc, u \in Page : u > seg_end'[x] => n.pte[x][u] = NoPte
      BY <1>1, <2>1, <3>1 DEF Within, Alike
    <3> QED BY <1>1, <3>1, <3>2, Constants DEF Within
  <2> QED BY <1>2, <1>4, <1>8, <2>1, <2>2, <2>3, Became
<1> QED BY <1>9, <1>10

\* do_fork()
LEMMA ForkStep ==
  ASSUME MemInv, NEW c \in Cpu, NEW q \in Proc, Fork(c, q)
  PROVE  MemInv'
<1> DEFINE p == current[c]
           P == mem.pte
           n == Forks(c, p, q, mem)
<1>1. /\ Sound(mem, shm, {}, own, Wanted) /\ TlbOk(P, mem.tlb, current)
      /\ Keyed(P, own) /\ Within(P, seg_end, current)
      /\ OneHart(current) /\ Ghosts /\ Ok(mem) /\ p \in Proc
  BY Here DEF Fork, Running
<1>2. /\ Becomes(n) /\ seg_end[q] = 0 /\ seg_end' = [seg_end EXCEPT ![q] = seg_end[p]]
      /\ own' = [own EXCEPT ![q] = [v \in Page |-> Seen(p, v)]]
      /\ UNCHANGED <<shm, current, common>>
  BY DEF Fork, Forks, Seen
<1> HIDE DEF n, p
<1>3. seg_end[p] > 0 /\ p # q
  BY <1>1, <1>2 DEF Within, p
<1>4. \A u \in Page : P[q][u] = NoPte
  BY <1>1, <1>2 DEF Within, Page
<1>5. \A u \in Page : Seen(p, u) \in Values /\ Seen(p, u) \notin Keys
  BY <1>1, SeenIs
<1>6. /\ \A x \in Proc, u \in Page : own'[x][u] = IF x = q THEN Seen(p, u) ELSE own[x][u]
      /\ Ghosts'
  BY <1>1, <1>2, <1>5 DEF Ghosts
<1>7. /\ \A x \in Proc, u \in Page : x # q => Seen(x, u)' = Seen(x, u)
      /\ \A u \in Page : Wanted'[q][u] = Seen(p, u) /\ Wanted'[p][u] = Seen(p, u)
  <2>1. \A x \in Proc, u \in Page : x # q => Seen(x, u)' = Seen(x, u)
    BY <1>2, <1>6 DEF Seen
  <2>2. \A u \in Page : Seen(q, u)' = Seen(p, u)
    <3> SUFFICES ASSUME NEW u \in Page PROVE Seen(q, u)' = Seen(p, u)
      OBVIOUS
    <3>1. own'[q][u] = Seen(p, u) /\ Seen(p, u) \notin Keys
      BY <1>5, <1>6
    <3>2. Seen(q, u)' = IF own'[q][u] \in Keys THEN common'[own'[q][u]] ELSE own'[q][u]
      BY DEF Seen
    <3> QED BY <3>1, <3>2
  <2> QED BY <1>1, <1>3, <2>1, <2>2 DEF Wanted
<1>8. Sound(mem, shm, {}, own', Wanted')
  <2>1. \A x \in Proc, u \in Page : P[x][u].shm => own'[x][u] = own[x][u]
    BY <1>4, <1>6, NoPteIs
  <2>2. \A x \in Proc, u \in Page : P[x][u] # NoPte => Wanted'[x][u] = Wanted[x][u]
    BY <1>4, <1>7 DEF Wanted
  <2> QED BY <1>1, <2>1, <2>2, SoundGhosts
<1>9. ForkedTo(mem, n, shm, own', Wanted', p, q, UsegPages)
  <2> DEFINE o == own'
             want == Wanted'
  <2>1. Sound(mem, shm, {}, o, want) /\ \A u \in Page : want[q][u] = want[p][u]
    BY <1>7, <1>8
  <2> HIDE DEF o, want
  <2>2. ForkedTo(mem, n, shm, o, want, p, q, UsegPages)
    BY <1>1, <1>3, <1>4, <2>1, ForksAre DEF n
  <2> QED BY <2>2 DEF o, want
<1>10. (OneHart(current))'
  BY <1>1, <1>2 DEF OneHart
<1>11. CASE Exhausted(n)
  <2>1. \A x \in Proc, u \in Page : P[x][u] # NoPte => Seen(x, u)' = Seen(x, u)
    BY <1>4, <1>7
  <2> QED BY <1>1, <1>2, <1>6, <1>11, <2>1, Stopped
<1>12. CASE ~Exhausted(n)
  <2>1. /\ Sound(n, shm, {}, own', Wanted') /\ TlbOk(n.pte, n.tlb, current)
        /\ \A x \in Proc, u \in Page : x # q => Alike(P, n.pte, x, u)
        /\ \A u \in Page : n.pte[q][u] = NoPte <=> u > UsegPages \/ P[p][u] = NoPte
    BY <1>1, <1>9, <1>12 DEF ForkedTo
  <2>2. Keyed(n.pte, own')
    BY <1>1, <1>5, <1>6, <2>1 DEF Keyed, Alike
  <2>3. Within(n.pte, seg_end', current)
    <3>1. /\ seg_end' \in [Proc -> 0 .. UsegPages]
          /\ \A x \in Proc : seg_end'[x] = IF x = q THEN seg_end[p] ELSE seg_end[x]
      BY <1>1, <1>2 DEF Within
    <3>2. \A x \in Proc, u \in Page : u > seg_end'[x] => n.pte[x][u] = NoPte
      BY <1>1, <2>1, <3>1 DEF Within, Alike
    <3> QED BY <1>1, <1>3, <3>1, <3>2 DEF Within
  <2> QED BY <1>2, <1>6, <1>10, <2>1, <2>2, <2>3, Became
<1> QED BY <1>11, <1>12

\* shm_page_get() has mapped the page after the end of the segment.
LEMMA ShmMapped ==
  ASSUME MemInv, Ok(mem), NEW c \in Cpu, NEW p \in Proc, NEW v \in Page, v = seg_end[p] + 1,
         NEW m, Becomes(m), Sound(m, shm', {}, own', Wanted'), TlbOk(m.pte, m.tlb, current),
         AlikeBut(mem.pte, m.pte, p, v), m.pte[p][v].shm, Ghosts',
         \A q \in Proc, u \in Page : ~(q = p /\ u = v) => own'[q][u] = own[q][u],
         seg_end' = [seg_end EXCEPT ![p] = v], current' = current
  PROVE  MemInv'
<1>1. Keyed(mem.pte, own) /\ Within(mem.pte, seg_end, current) /\ OneHart(current)
  BY Here
<1>2. Keyed(m.pte, own')
  <2> SUFFICES ASSUME NEW q \in Proc, NEW u \in Page, own'[q][u] \in Keys PROVE m.pte[q][u].shm
    BY DEF Keyed
  <2>1. CASE q = p /\ u = v
    BY <2>1
  <2>2. CASE ~(q = p /\ u = v)
    BY <1>1, <2>2 DEF Keyed, AlikeBut, Alike
  <2> QED BY <2>1, <2>2
<1>3. /\ seg_end' \in [Proc -> 0 .. UsegPages] /\ seg_end[p] \in Nat /\ v > 0
      /\ \A q \in Proc : seg_end'[q] = IF q = p THEN v ELSE seg_end[q]
  BY <1>1, Constants DEF Within, Page
<1>4. ASSUME NEW q \in Proc, NEW u \in Page, u > seg_end'[q] PROVE m.pte[q][u] = NoPte
  <2>1. ~(q = p /\ u = v) /\ u > seg_end[q]
    BY <1>3, <1>4 DEF Page
  <2> QED BY <1>1, <2>1 DEF Within, AlikeBut, Alike
<1>5. Within(m.pte, seg_end', current')
  BY <1>1, <1>3, <1>4 DEF Within
<1>6. (OneHart(current))'
  BY <1>1 DEF OneHart
<1> QED BY <1>2, <1>5, <1>6, Became

\* shm_page_get()
LEMMA ShmGetStep ==
  ASSUME MemInv, NEW c \in Cpu, NEW k \in Keys, ShmGet(c, k)
  PROVE  MemInv'
<1> DEFINE p == current[c]
           v == seg_end[p] + 1
           P == mem.pte
           new == ShmNew(Fill(AllocPageHelper(mem, c, p, v)))
           old == ShmJoin(mem, shm[k].pgidx)
<1>1. /\ Sound(mem, shm, {}, own, Wanted) /\ TlbOk(P, mem.tlb, current)
      /\ Keyed(P, own) /\ Within(P, seg_end, current)
      /\ OneHart(current) /\ Ghosts /\ Ok(mem) /\ p \in Proc
  BY Here DEF ShmGet, Running
<1>2. /\ v <= UsegPages /\ (shm[k].nproc > 0 => p \notin shm[k].opid)
      /\ Becomes(ShmMap(IF shm[k].nproc = 0 THEN new ELSE old, c, p, v))
      /\ seg_end' = [seg_end EXCEPT ![p] = v]
      /\ shm' = IF ~Ok(mem') THEN shm
                ELSE [shm EXCEPT ![k] = [nproc |-> shm[k].nproc + 1, pgidx |-> mem'.pte[p][v].n,
                                   opid |-> IF shm[k].nproc = 0 THEN {p} ELSE shm[k].opid \cup {p}]]
      /\ own' = [own EXCEPT ![p][v] = k]
      /\ common' = IF shm[k].nproc = 0 THEN [common EXCEPT ![k] = Zero] ELSE common
      /\ current' = current
  BY DEF ShmGet
<1>3. /\ P \in PteMap /\ mem.tlb \in TlbMap /\ mem \in MemType /\ shm \in ShmType
      /\ mem.charmap \in CharMap /\ mem.uva \in [Frame -> Nat] /\ mem.ffree \in 0 .. NPF
      /\ mem.page \in [Frame -> Values] /\ Shm(P, mem.charmap, mem.uva, shm, own)
  BY <1>1, SoundTypes DEF IsFirst
<1>4. v \in Page /\ P[p][v] = NoPte /\ ~P[p][v].shm /\ shm[k].nproc \in Nat
  <2>1. seg_end[p] \in 0 .. UsegPages /\ UsegPages \in Nat
    BY <1>1, Constants DEF Within
  <2>2. v \in Page /\ v > seg_end[p]
    BY <1>2, <2>1 DEF Page
  <2> HIDE DEF v, p
  <2> QED BY <1>1, <1>3, <2>2, NoPteIs DEF Within, ShmType
<1> DEFINE o == own'
           want == Wanted'
<1> HIDE DEF p, v, P, new, old
<1>5. \A q \in Proc, u \in Page : o[q][u] = IF q = p /\ u = v THEN k ELSE own[q][u]
  BY <1>1, <1>2, <1>4 DEF Ghosts
<1>6. Ghosts'
  <2>1. own' \in [Proc -> [Page -> Values \cup Keys]]
    BY <1>1, <1>2, <1>4 DEF Ghosts
  <2>2. common' \in [Keys -> Values]
    BY <1>1, <1>2, Constants DEF Ghosts
  <2> QED BY <2>1, <2>2 DEF Ghosts
<1>7. want[p][v] = common'[k]
  BY <1>1, <1>4, <1>5 DEF Wanted, Seen
<1>8. ASSUME NEW q \in Proc, NEW u \in Page, ~(q = p /\ u = v)
      PROVE  want[q][u] = Wanted[q][u] /\ (o[q][u] = k => shm[k].nproc > 0 /\ want[q][u] = common'[k])
  <2>1. o[q][u] = own[q][u]
    BY <1>5, <1>8
  <2>2. own[q][u] = k => shm[k].nproc > 0
    BY <1>1, <1>3 DEF Keyed, Shm
  <2>3. own[q][u] = k => common' = common
    BY <1>2, <1>3, <2>2
  <2>4. own[q][u] \in Keys => common'[own[q][u]] = common[own[q][u]]
    BY <1>1, <1>2, <2>3 DEF Ghosts
  <2>5. /\ Seen(q, u)' = IF own'[q][u] \in Keys THEN common'[own'[q][u]] ELSE own'[q][u]
        /\ Seen(q, u) = IF own[q][u] \in Keys THEN common[own[q][u]] ELSE own[q][u]
        /\ want[q][u] = Seen(q, u)' /\ Wanted[q][u] = Seen(q, u)
    BY DEF Seen, Wanted
  <2> QED BY <2>1, <2>2, <2>4, <2>5 DEF o
<1>9. Sound(mem, shm, {}, o, want)
  <2>1. \A q \in Proc, u \in Page : P[q][u].shm => o[q][u] = own[q][u]
    BY <1>4, <1>5
  <2>2. \A q \in Proc, u \in Page : P[q][u] # NoPte => want[q][u] = Wanted[q][u]
    BY <1>4, <1>8
  <2> HIDE DEF o, want
  <2> QED BY <1>1, <2>1, <2>2, SoundGhosts DEF P
<1>10. \A q \in Proc, u \in Page : ~(q = p /\ u = v) => own'[q][u] = own[q][u]
  BY <1>5 DEF o
<1>11. v = seg_end[p] + 1
  BY DEF v
<1>12. CASE shm[k].nproc = 0
  <2> DEFINE n == Fill(AllocPageHelper(mem, c, p, v))
  <2>1. want[p][v] = Zero
    BY <1>1, <1>2, <1>7, <1>12 DEF Ghosts
  <2>2. NewPage(mem, n, shm, o, want, p, v)
    <3> HIDE DEF o, want, n
    <3> QED BY <1>1, <1>4, <1>9, <2>1, AllocPageHelperIs DEF P, n
  <2>3. Becomes(ShmMap(ShmNew(n), c, p, v))
    BY <1>2, <1>12 DEF new
  <2> HIDE DEF n
  <2>4. CASE Exhausted(n)
    <3>1. ShmMap(ShmNew(n), c, p, v) = n
      BY <2>4 DEF Exhausted, ShmMap, ShmNew, Ok
    <3>2. Becomes(n)
      BY <2>3, <3>1
    <3>3. mem' = [mem EXCEPT !.halt = n.halt]
      BY <2>4, <3>2 DEF Becomes, Ok, Exhausted
    <3>4. ~Ok(mem')
      BY <1>3, <2>4, <3>3 DEF MemType, Ok, Exhausted
    <3>5. shm' = shm
      BY <1>2, <3>4
    <3>6. \A q \in Proc, u \in Page : P[q][u] # NoPte => Seen(q, u)' = Seen(q, u)
      <4>1. \A q \in Proc, u \in Page : want[q][u] = Seen(q, u)' /\ Wanted[q][u] = Seen(q, u)
        BY DEF Wanted
      <4> QED BY <1>4, <1>8, <4>1
    <3> QED BY <1>1, <1>2, <1>6, <2>4, <3>2, <3>5, <3>6, Stopped DEF P
  <2>5. CASE ~Exhausted(n)
    <3> DEFINE g == n.got
               tl == [n.tlb EXCEPT ![c] = [n.tlb[c] EXCEPT ![v] = NoEntry]]
               P2 == Put(n.pte, p, v, ShmPte(g))
               C2 == [n.charmap EXCEPT ![g] = Shared]
               A2 == [n.uva EXCEPT ![g] = 1]
               sh2 == [shm EXCEPT ![k] = [nproc |-> 1, pgidx |-> g, opid |-> {p}]]
               w == With(n, P2, C2, A2, n.ffree, n.page, tl)
    <3>1. /\ Sound(n, shm, {}, o, want) /\ AlikeBut(P, n.pte, p, v)
          /\ TlbOk(n.pte, n.tlb, current) /\ n.pte[p][v] = UserPte(g)
      BY <1>1, <2>2, <2>5 DEF NewPage, P
    <3>2. /\ g \in Frame /\ n.pte \in PteMap /\ n.tlb \in TlbMap /\ n \in MemType
          /\ n.charmap \in CharMap /\ n.uva \in [Frame -> Nat] /\ n.ffree \in 0 .. NPF
          /\ n.page \in [Frame -> Values] /\ n.halt = "no"
      BY <3>1, SoundTypes DEF IsFirst
    <3>3. NoEntry \in Entry
      BY Constants DEF NoEntry, Entry
    <3> HIDE DEF g
    <3>4. Dropping(n.tlb, tl)
      <4>1. tl \in TlbMap /\ \A d \in Cpu, u \in Page : tl[d][u] = IF d = c /\ u = v THEN NoEntry ELSE n.tlb[d][u]
        BY <3>2, <3>3 DEF TlbMap
      <4> QED BY <4>1 DEF Dropping
    <3> HIDE DEF tl
    <3>5. Sound(w, sh2, {}, o, want) /\ TlbOk(w.pte, w.tlb, current) /\ w.pte = P2
      <4>1. o[p][v] = k
        BY <1>1, <1>4, <1>5
      <4> HIDE DEF o, want
      <4>2. p \in Proc /\ v \in Page /\ shm[k].nproc = 0 /\ g \in Frame
        BY <1>1, <1>4, <1>12, <3>2
      <4>3. Joined(n, w, sh2, o, want, P2)
        BY <3>1, <3>4, <4>1, <4>2, FirstShared
      <4> HIDE DEF w, P2
      <4> QED BY <3>1, <4>3 DEF Joined
    <3>6. ShmPte(g) \in Pte /\ ShmPte(g).shm /\ ShmPte(g).n = g
      BY <3>2, ShmPteIs
    <3>7. P2 \in PteMap /\ \A q \in Proc, u \in Page : P2[q][u] = IF q = p /\ u = v THEN ShmPte(g) ELSE n.pte[q][u]
      BY <1>1, <1>4, <3>2, <3>6, PutIs
    <3>8. ShmMap(ShmNew(n), c, p, v) = w
      <4> DEFINE n1 == [n EXCEPT !.charmap = C2, !.uva = A2]
      <4>1. ShmNew(n) = n1
        BY <3>2 DEF ShmNew, Ok, g
      <4>2. n1.got = g /\ n1.pte = n.pte /\ n1.tlb = n.tlb /\ n1.halt = "no"
        BY <3>2 DEF MemType, g
      <4> HIDE DEF n1
      <4>3. ShmMap(n1, c, p, v) = [n1 EXCEPT !.pte = P2, !.tlb = tl]
        BY <4>2 DEF ShmMap, ShmPte, Put, tl, Ok
      <4> HIDE DEF P2, C2, A2
      <4>4. [n1 EXCEPT !.pte = P2, !.tlb = tl] = w
        BY <3>2 DEF n1, With, MemType
      <4> QED BY <4>1, <4>3, <4>4
    <3> HIDE DEF w, P2
    <3>9. AlikeBut(P, w.pte, p, v) /\ w.pte[p][v].shm /\ w.pte[p][v].n = g
      BY <1>1, <1>4, <3>1, <3>5, <3>6, <3>7 DEF AlikeBut, Alike
    <3>10. Becomes(w)
      BY <2>3, <3>8
    <3>11. shm' = sh2
      <4>1. mem' = [w EXCEPT !.got = 0]
        BY <3>5, <3>10, SoundTypes DEF Becomes, Ok
      <4>2. mem'.pte = w.pte /\ mem'.halt = "no"
        <5> HIDE DEF o, want, sh2
        <5> QED BY <3>5, <4>1, GotIs
      <4>3. mem'.pte[p][v].n = g /\ Ok(mem') /\ shm[k].nproc + 1 = 1
        BY <1>12, <3>9, <4>2 DEF Ok
      <4> QED BY <1>2, <1>12, <4>3
    <3> HIDE DEF sh2
    <3>12. Sound(w, shm', {}, own', Wanted')
      BY <3>5, <3>11 DEF o, want
    <3>13. /\ p \in Proc /\ v \in Page /\ Ok(mem) /\ seg_end' = [seg_end EXCEPT ![p] = v] /\ current' = current
           /\ AlikeBut(mem.pte, w.pte, p, v) /\ w.pte[p][v].shm /\ TlbOk(w.pte, w.tlb, current)
      BY <1>1, <1>2, <1>4, <3>5, <3>9 DEF P
    <3> HIDE DEF o, want
    <3> QED BY <1>6, <1>10, <1>11, <3>10, <3>12, <3>13, ShmMapped
  <2> QED BY <2>4, <2>5
<1>13. CASE shm[k].nproc # 0
  <2> DEFINE g == shm[k].pgidx
             tl == [mem.tlb EXCEPT ![c] = [mem.tlb[c] EXCEPT ![v] = NoEntry]]
             P2 == Put(P, p, v, ShmPte(g))
             A2 == [mem.uva EXCEPT ![g] = mem.uva[g] + 1]
             sh2 == [shm EXCEPT ![k] = [nproc |-> shm[k].nproc + 1, pgidx |-> g, opid |-> shm[k].opid \cup {p}]]
             w == With(mem, P2, mem.charmap, A2, mem.ffree, mem.page, tl)
  <2>1. shm[k].nproc > 0 /\ p \notin shm[k].opid /\ common' = common
    BY <1>2, <1>4, <1>13
  <2>2. \A x \in Proc, u \in Page : P[x][u].shm /\ o[x][u] = k => want[x][u] = want[p][v]
    BY <1>7, <1>8
  <2>3. Dropping(mem.tlb, tl)
    <3>1. NoEntry \in Entry
      BY Constants DEF NoEntry, Entry
    <3>2. tl \in TlbMap /\ \A d \in Cpu, u \in Page : tl[d][u] = IF d = c /\ u = v THEN NoEntry ELSE mem.tlb[d][u]
      BY <1>3, <3>1 DEF TlbMap
    <3> QED BY <3>2 DEF Dropping
  <2> HIDE DEF tl
  <2>4. /\ Sound(w, sh2, {}, o, want) /\ TlbOk(w.pte, w.tlb, current) /\ w.pte = P2 /\ g \in Frame
    <3>1. o[p][v] = k
      BY <1>1, <1>4, <1>5
    <3> HIDE DEF o, want
    <3>2. /\ p \in Proc /\ v \in Page /\ mem.pte[p][v] = NoPte /\ TlbOk(mem.pte, mem.tlb, current)
          /\ \A x \in Proc, u \in Page : mem.pte[x][u].shm /\ o[x][u] = k => want[x][u] = want[p][v]
      BY <1>1, <1>4, <2>2 DEF P
    <3>3. Joined(mem, w, sh2, o, want, P2)
      BY <1>9, <2>1, <2>3, <3>1, <3>2, JoinsShared DEF P
    <3>4. g \in Frame
      BY <1>3 DEF ShmType
    <3> HIDE DEF w, P2
    <3> QED BY <3>2, <3>3, <3>4 DEF Joined
  <2>5. ShmPte(g) \in Pte /\ ShmPte(g).shm /\ ShmPte(g).n = g
    BY <2>4, ShmPteIs
  <2>6. P2 \in PteMap /\ \A q \in Proc, u \in Page : P2[q][u] = IF q = p /\ u = v THEN ShmPte(g) ELSE P[q][u]
    BY <1>1, <1>3, <1>4, <2>5, PutIs
  <2>7. AlikeBut(P, w.pte, p, v) /\ w.pte[p][v].shm /\ w.pte[p][v].n = g
    <3> HIDE DEF w, P2, g
    <3> QED BY <1>1, <1>4, <2>4, <2>5, <2>6 DEF AlikeBut, Alike
  <2>8. ShmMap(old, c, p, v) = [w EXCEPT !.got = g]
    <3> DEFINE n1 == [mem EXCEPT !.got = g, !.uva = A2]
    <3>1. old = n1
      BY DEF ShmJoin, old
    <3>2. n1.got = g /\ n1.pte = P /\ n1.tlb = mem.tlb /\ n1.halt = "no"
      BY <1>1, <1>3 DEF MemType, P, Ok
    <3> HIDE DEF n1, g
    <3>3. ShmMap(n1, c, p, v) = [n1 EXCEPT !.pte = P2, !.tlb = tl]
      BY <3>2 DEF ShmMap, ShmPte, Put, tl, Ok
    <3> HIDE DEF P2, A2
    <3>4. [n1 EXCEPT !.pte = P2, !.tlb = tl] = [w EXCEPT !.got = g]
      BY <1>3 DEF n1, With, MemType
    <3> QED BY <3>1, <3>3, <3>4
  <2>9. w \in MemType /\ w.halt = "no"
    BY <2>4, SoundTypes
  <2> HIDE DEF w, P2, g
  <2>10. Becomes(w) /\ mem' = [w EXCEPT !.got = 0]
    <3>1. Becomes([w EXCEPT !.got = g])
      BY <1>2, <1>13, <2>8
    <3>2. [w EXCEPT !.got = g].halt = "no" /\ [[w EXCEPT !.got = g] EXCEPT !.got = 0] = [w EXCEPT !.got = 0]
      BY <2>9 DEF MemType
    <3> QED BY <2>9, <3>1, <3>2 DEF Becomes, Ok
  <2>11. shm' = sh2
    <3>1. mem'.pte = w.pte /\ mem'.halt = "no"
      <4> HIDE DEF o, want, sh2
      <4> QED BY <2>4, <2>10, GotIs
    <3> QED BY <1>2, <1>13, <2>7, <3>1 DEF Ok
  <2> HIDE DEF sh2
  <2>12. Sound(w, shm', {}, own', Wanted')
    BY <2>4, <2>11 DEF o, want
  <2>13. /\ p \in Proc /\ v \in Page /\ Ok(mem) /\ seg_end' = [seg_end EXCEPT ![p] = v] /\ current' = current
         /\ AlikeBut(mem.pte, w.pte, p, v) /\ w.pte[p][v].shm /\ TlbOk(w.pte, w.tlb, current)
    BY <1>1, <1>2, <1>4, <2>4, <2>7 DEF P
  <2> HIDE DEF o, want
  <2> QED BY <1>6, <1>10, <1>11, <2>10, <2>12, <2>13, ShmMapped
<1> QED BY <1>12, <1>13

\* A memory is its parts.
LEMMA MemOf ==
  ASSUME NEW P \in PteMap, NEW C \in CharMap, NEW A \in [Frame -> Nat], NEW i \in 0 .. NPF,
         NEW h \in Frame, NEW SC \in SwapMap, NEW j \in 0 .. NPSWAP, NEW pg \in [Frame -> Values],
         NEW dk \in [Slot -> Values], NEW tl \in TlbMap, NEW g \in Frame
  PROVE  [pte |-> P, charmap |-> C, uva |-> A, ffree |-> i, clock_pt |-> h,
          scharmap |-> SC, sffree |-> j, page |-> pg, disk |-> dk,
          tlb |-> tl, got |-> g, halt |-> "no"] \in MemType
<1>1. "no" \in Halts
  BY DEF Halts
<1> QED BY <1>1 DEF MemType

\* init_mm(), init_swap() and the first process leave sound tables.
LEMMA InitSound == Init => MemInv
<1> SUFFICES ASSUME Init PROVE MemInv
  OBVIOUS
<1> DEFINE P == mem.pte
           C == mem.charmap
           A == mem.uva
<1>1. PICK p \in Proc, c \in Cpu :
        /\ mem = [pte |-> [q \in Proc |-> [v \in Page |->
                             IF q = p /\ v <= ImgPages THEN UserPte(v - 1) ELSE NoPte]],
                  charmap |-> [f \in Frame |-> IF f < ImgPages THEN p ELSE Free],
                  uva |-> [f \in Frame |-> IF f < ImgPages THEN f + 1 ELSE 0],
                  ffree |-> ImgPages, clock_pt |-> 0,
                  scharmap |-> [s \in Slot |-> Free], sffree |-> 0,
                  page |-> [f \in Frame |-> Zero], disk |-> [s \in Slot |-> Zero],
                  tlb |-> [d \in Cpu |-> FlushedTlb], got |-> 0, halt |-> "no"]
        /\ current = [d \in Cpu |-> IF d = c THEN p ELSE Idle]
        /\ seg_end = [q \in Proc |-> IF q = p THEN ImgPages ELSE 0]
        /\ shm = [k \in Keys |-> [nproc |-> 0, pgidx |-> 0, opid |-> {}]]
        /\ own = [q \in Proc |-> [v \in Page |-> Zero]]
        /\ common = [k \in Keys |-> Zero] /\ leaked = FALSE
  BY DEF Init
<1>2. /\ \A q \in Proc, v \in Page : P[q][v] = IF q = p /\ v <= ImgPages THEN UserPte(v - 1) ELSE NoPte
      /\ \A f \in Frame : C[f] = IF f < ImgPages THEN p ELSE Free
      /\ \A f \in Frame : A[f] = IF f < ImgPages THEN f + 1 ELSE 0
  BY <1>1
<1>3. \A v \in Page : v <= ImgPages => v - 1 \in Frame /\ UserPte(v - 1) \in Pte /\ UserPte(v - 1).n = v - 1
  <2> SUFFICES ASSUME NEW v \in Page, v <= ImgPages
               PROVE  v - 1 \in Frame /\ UserPte(v - 1) \in Pte /\ UserPte(v - 1).n = v - 1
    OBVIOUS
  <2>1. v - 1 \in Frame
    BY Constants DEF Page, Frame
  <2> QED BY <2>1, UserPteIs
<1>4. P \in PteMap
  <2>1. \A q \in Proc, v \in Page :
          (IF q = p /\ v <= ImgPages THEN UserPte(v - 1) ELSE NoPte) \in Pte
    BY <1>3, NoPteIs
  <2>2. P = [q \in Proc |-> [v \in Page |-> IF q = p /\ v <= ImgPages THEN UserPte(v - 1) ELSE NoPte]]
    BY <1>1
  <2> HIDE DEF P
  <2> QED BY <2>1, <2>2 DEF PteMap
<1>5. C \in CharMap /\ A \in [Frame -> Nat]
  BY <1>1, Constants DEF CharMap, Frame
<1>6. FlushedTlb \in [Page -> Entry] /\ \A v \in Page : FlushedTlb[v] = NoEntry
  BY Constants DEF FlushedTlb, NoEntry, Entry
<1>7. mem \in MemType
  <2> DEFINE SC == [s \in Slot |-> Free]
             PG == [f \in Frame |-> Zero]
             DK == [s \in Slot |-> Zero]
             TL == [d \in Cpu |-> FlushedTlb]
  <2>1. /\ ImgPages \in 0 .. NPF /\ 0 \in Frame /\ SC \in SwapMap /\ 0 \in 0 .. NPSWAP
        /\ PG \in [Frame -> Values] /\ DK \in [Slot -> Values] /\ TL \in TlbMap
    BY <1>6, Constants DEF Frame, SwapMap, TlbMap
  <2>2. mem = [pte |-> P, charmap |-> C, uva |-> A, ffree |-> ImgPages, clock_pt |-> 0,
               scharmap |-> SC, sffree |-> 0, page |-> PG, disk |-> DK,
               tlb |-> TL, got |-> 0, halt |-> "no"]
    BY <1>1
  <2> HIDE DEF P, C, A, SC, PG, DK, TL
  <2>3. P \in PteMap /\ C \in CharMap /\ A \in [Frame -> Nat]
    BY <1>4, <1>5
  <2> QED BY <2>1, <2>2, <2>3, MemOf
<1>8. /\ mem.halt = "no" /\ mem.ffree = ImgPages /\ mem.sffree = 0
      /\ \A s \in Slot : mem.scharmap[s] = Free
      /\ \A f \in Frame : mem.page[f] = Zero
      /\ \A d \in Cpu : mem.tlb[d] = FlushedTlb
  BY <1>1
<1>9. /\ shm \in ShmType /\ \A k \in Keys : shm[k].nproc = 0
  <2>1. 0 \in Frame
    BY Constants DEF Frame
  <2> QED BY <1>1, <2>1 DEF ShmType
<1>10. /\ own \in [Proc -> [Page -> Values \cup Keys]] /\ common \in [Keys -> Values]
       /\ \A q \in Proc, v \in Page : own[q][v] = Zero /\ own[q][v] \notin Keys
  BY <1>1, Constants
<1>11. \A q \in Proc, v \in Page : Wanted[q][v] = Zero
  BY <1>10 DEF Wanted, Seen
<1>12. /\ seg_end \in [Proc -> 0 .. UsegPages]
       /\ \A q \in Proc : seg_end[q] = IF q = p THEN ImgPages ELSE 0
       /\ current \in [Cpu -> Proc \cup {Idle}]
       /\ \A d \in Cpu : current[d] = IF d = c THEN p ELSE Idle
  BY <1>1, Constants
<1> HIDE DEF P, C, A
<1>13. \A q \in Proc, v \in Page :
         \/ /\ q = p /\ v <= ImgPages /\ P[q][v].at = "mem" /\ P[q][v].n = v - 1
            /\ P[q][v].w /\ ~P[q][v].cow /\ ~P[q][v].shm /\ P[q][v].n \in Frame
         \/ ~(q = p /\ v <= ImgPages) /\ P[q][v] = NoPte
  <2>1. \A f : /\ UserPte(f).at = "mem" /\ UserPte(f).n = f /\ UserPte(f).w
              /\ ~UserPte(f).cow /\ ~UserPte(f).shm
    BY DEF UserPte
  <2>2. \A q \in Proc, v \in Page : P[q][v] = IF q = p /\ v <= ImgPages THEN UserPte(v - 1) ELSE NoPte
    BY <1>2 DEF P
  <2> QED BY <1>3, <2>1, <2>2
<1>14. Ptes(P)
  BY <1>13, NoPteIs DEF Ptes, PteOk
<1>15. Frames(P, C, A, {})
  <2> SUFFICES ASSUME NEW f \in Frame PROVE FrameOk(P, C, A, f)
    BY DEF Frames
  <2>1. f \in Nat /\ f + 1 > 0 /\ f + 1 - 1 = f
    BY Constants DEF Frame
  <2>2. CASE f < ImgPages
    <3>1. f + 1 \in Page /\ f + 1 <= ImgPages
      BY <2>1, <2>2, Constants DEF Page
    <3>2. P[p][f + 1].at = "mem" /\ P[p][f + 1].n = f /\ P[p][f + 1].w /\ ~P[p][f + 1].cow /\ ~P[p][f + 1].shm
      BY <1>13, <2>1, <3>1
    <3>3. \A u \in Users(P, f) : u = <<p, f + 1>>
      <4> SUFFICES ASSUME NEW u \in Users(P, f) PROVE u = <<p, f + 1>>
        OBVIOUS
      <4>1. u[1] \in Proc /\ u[2] \in Page /\ u = <<u[1], u[2]>> /\ P[u[1]][u[2]].at = "mem" /\ P[u[1]][u[2]].n = f
        BY UsersArePairs DEF Users
      <4>2. u[1] = p /\ u[2] - 1 = f
        BY <1>13, <4>1, NoPteIs
      <4>3. u[2] = f + 1
        BY <2>1, <4>1, <4>2 DEF Page
      <4> QED BY <4>1, <4>2, <4>3
    <3>4. <<p, f + 1>> \in Users(P, f)
      BY <3>1, <3>2 DEF Users
    <3>5. Users(P, f) = {<<p, f + 1>>}
      BY <3>3, <3>4
    <3>6. C[f] = p /\ A[f] = f + 1
      BY <1>2, <2>2 DEF C, A
    <3> QED BY <3>1, <3>2, <3>5, <3>6, Constants DEF FrameOk
  <2>3. CASE ~(f < ImgPages)
    <3>1. ASSUME NEW u \in Users(P, f) PROVE FALSE
      <4>1. u[1] \in Proc /\ u[2] \in Page /\ P[u[1]][u[2]].at = "mem" /\ P[u[1]][u[2]].n = f
        BY <3>1, UsersArePairs DEF Users
      <4>2. u[2] <= ImgPages /\ u[2] - 1 = f
        BY <1>13, <4>1, NoPteIs
      <4> QED BY <2>1, <2>3, <4>1, <4>2, Constants DEF Page
    <3>2. Users(P, f) = {} /\ C[f] = Free
      BY <1>2, <2>3, <3>1 DEF C
    <3> QED BY <3>2, Constants DEF FrameOk
  <2> QED BY <2>2, <2>3
<1>16. Slots(P, mem.scharmap)
  <2> SUFFICES ASSUME NEW s \in Slot PROVE SlotOk(P, mem.scharmap, s)
    BY DEF Slots
  <2>1. ASSUME NEW u \in Swapped(P, s) PROVE FALSE
    <3>1. u[1] \in Proc /\ u[2] \in Page /\ P[u[1]][u[2]].at = "disk"
      BY <2>1, UsersArePairs DEF Swapped
    <3> QED BY <1>13, <3>1, NoPteIs
  <2> QED BY <1>8, <2>1 DEF SlotOk
<1>17. IsFirst(C, mem.ffree, NPF) /\ IsFirst(mem.scharmap, mem.sffree, NPSWAP)
  <2>1. \A f \in Frame : C[f] = IF f < ImgPages THEN p ELSE Free
    BY <1>2 DEF C
  <2>2. IsFirst(C, ImgPages, NPF)
    BY <2>1, Constants DEF IsFirst, Frame
  <2>3. IsFirst(mem.scharmap, 0, NPSWAP)
    BY <1>8, Constants DEF IsFirst, Slot
  <2> QED BY <1>8, <2>2, <2>3
<1>18. Shm(P, C, A, shm, own)
  BY <1>9, <1>13, NoPteIs DEF Shm
<1>19. Reads(P, mem.page, mem.disk, Wanted)
  BY <1>8, <1>11, <1>13, NoPteIs DEF Reads
<1>20. Sound(mem, shm, {}, own, Wanted)
  <2> DEFINE want == Wanted
  <2> HIDE DEF want
  <2>1. Reads(P, mem.page, mem.disk, want)
    BY <1>19 DEF want
  <2>2. Sound(mem, shm, {}, own, want)
    BY <1>7, <1>8, <1>9, <1>14, <1>15, <1>16, <1>17, <1>18, <2>1 DEF Sound, P, C, A
  <2> QED BY <2>2 DEF want
<1>21. TlbOk(P, mem.tlb, current)
  BY <1>6, <1>8 DEF TlbOk
<1>22. Keyed(P, own)
  BY <1>10 DEF Keyed
<1>23. Within(P, seg_end, current)
  <2>1. ASSUME NEW q \in Proc, NEW v \in Page, v > seg_end[q] PROVE P[q][v] = NoPte
    <3>1. ~(q = p /\ v <= ImgPages)
      BY <1>12, <2>1, Constants DEF Page
    <3> QED BY <1>13, <3>1
  <2>2. \A d \in Cpu : current[d] \in Proc => seg_end[current[d]] > 0
    BY <1>12, Constants
  <2> QED BY <1>12, <2>1, <2>2 DEF Within
<1>24. OneHart(current)
  BY <1>12, Constants DEF OneHart
<1>25. Working
  BY <1>20, <1>21, <1>22, <1>23 DEF Working, P
<1> QED BY <1>10, <1>24, <1>25, FramesFollow, TlbFollows, OwnFollows DEF MemInv, Ghosts

\* Every trap and every system call preserves the invariant.
LEMMA MemStep == MemInv /\ [Next]_vars => MemInv'
<1> SUFFICES ASSUME MemInv, [Next]_vars PROVE MemInv'
  OBVIOUS
<1>1. ASSUME NEW c \in Cpu, NEW v \in Page, Walk(c, v) PROVE MemInv'
  BY <1>1, WalkStep
<1>2. ASSUME NEW c \in Cpu, NEW v \in Page, ShmDt(c, v) PROVE MemInv'
  BY <1>2, DetachStep
<1>3. ASSUME NEW c \in Cpu, NEW v \in Page, NEW x \in Values, Store(c, v, x) PROVE MemInv'
  BY <1>3, StoreStep
<1>4. ASSUME NEW c \in Cpu, NEW v \in Page, NEW store \in BOOLEAN, PageFault(c, v, store) PROVE MemInv'
  BY <1>4, FaultStep
<1>5. ASSUME NEW c \in Cpu, NEW q \in Proc, Fork(c, q) PROVE MemInv'
  BY <1>5, ForkStep
<1>6. ASSUME NEW c \in Cpu, NEW q \in Proc, Create(c, q) PROVE MemInv'
  BY <1>6, CreateStep
<1>7. ASSUME NEW c \in Cpu, Sbrk(c) PROVE MemInv'
  BY <1>7, SbrkStep
<1>8. ASSUME NEW c \in Cpu, NEW k \in Keys, ShmGet(c, k) PROVE MemInv'
  BY <1>8, ShmGetStep
<1>9. ASSUME NEW c \in Cpu, NEW p \in Proc \cup {Idle}, SwitchTo(c, p) PROVE MemInv'
  BY <1>9, SwitchStep
<1>10. ASSUME NEW p \in Proc, Exit(p) PROVE MemInv'
  BY <1>10, ExitStep
<1>11. CASE UNCHANGED vars
  <2>1. UNCHANGED <<mem, shm, seg_end, current, own, common>>
    BY <1>11 DEF vars
  <2>2. Wanted' = Wanted /\ \A p \in Proc, v \in Page : Seen(p, v)' = Seen(p, v)
    BY <2>1 DEF Wanted, Seen
  <2>3. (OneHart(current))' /\ Ghosts'
    BY <2>1 DEF MemInv, OneHart, Ghosts
  <2>4. mem'.halt = "no" => Working'
    BY <2>1, <2>2 DEF MemInv, Working
  <2>5. FramesAccounted' /\ TlbMapsOwnFrames'
    BY <2>1 DEF MemInv, FramesAccounted, NoPanic, TlbMapsOwnFrames
  <2>6. OwnMemory'
    BY <2>1, <2>2 DEF MemInv, OwnMemory
  <2> QED BY <2>3, <2>4, <2>5, <2>6 DEF MemInv
<1> QED BY <1>1, <1>2, <1>3, <1>4, <1>5, <1>6, <1>7, <1>8, <1>9, <1>10, <1>11 DEF Next

\* The tables are sound for as long as the kernel works, and what it leaves when
\* its memory is exhausted is.
THEOREM MemoryInvariant == Spec => []MemInv
BY InitSound, MemStep, PTL DEF Spec

\* pg_charmap[], pg_uva[], the swap area and shm_ctrl[] always say who uses what,
\* and none of the checks that guard them panics (mm.c, mm-swap.c,
\* mm-shared.c, irq.c, sched-fork.c).
THEOREM MemoryAccountsForFrames == Spec => []FramesAccounted
<1>1. MemInv => FramesAccounted
  BY DEF MemInv
<1> QED BY <1>1, MemoryInvariant, PTL

\* No hart uses a frame that its process has lost (local_flush_tlb_page() and
\* sfence.vma are enough, although they reach one hart only).
THEOREM TlbsKeepNoLostFrame == Spec => []TlbMapsOwnFrames
<1>1. MemInv => TlbMapsOwnFrames
  BY DEF MemInv
<1> QED BY <1>1, MemoryInvariant, PTL

\* A process reads back what was stored in its pages, through swaps, forks,
\* copies of the page and whatever the other processes do, except for the stores
\* through a translation that do_fork() left in the TLB: `leaked' records those.
THEOREM PagesKeepTheirContents == Spec => []OwnMemory
<1>1. MemInv => OwnMemory
  BY DEF MemInv
<1> QED BY <1>1, MemoryInvariant, PTL
=============================================================================
