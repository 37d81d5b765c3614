------------------------------- MODULE Memory -------------------------------
(***************************************************************************)
(* Virtual memory of GlucOS: page frames and their reference counts, page  *)
(* tables, demand paging, copy-on-write after fork, the clock algorithm    *)
(* that swaps pages out, shared memory pages, and the translations that    *)
(* each hart caches (kernel/mm, handle_pagefault(), do_fork()).            *)
(*                                                                         *)
(* An action is one trap or system call: the kernel lock makes it atomic.  *)
(* The page-table tree of a process is a function from page numbers to     *)
(* PTEs, the content of a page is one value, and a process has one thread. *)
(* Helpers map a memory record to a memory record, as the C helpers update *)
(* the kernel's global arrays.                                             *)
(***************************************************************************)
EXTENDS Integers, FiniteSets, Sequences, SequencesExt, FiniteSetsExt

CONSTANTS
  Cpu, Proc, Idle,     \* harts, user processes, and what a hart runs otherwise
  NPF, NPSWAP,         \* page frames, swap pages
  UsegPages,           \* USEG_MAX in pages
  ImgPages,            \* pages a new process is loaded with
  Keys, NPSHM,         \* shared memory keys, processes per key
  Values,              \* page contents
  Zero                 \* the content of a cleared page

Free == "free"        \* CMAP_FREE
Shared == "shared"    \* CMAP_SHARED

ASSUME MemoryAssumption ==
  /\ NPF \in Nat \ {0} /\ NPSWAP \in Nat
  /\ UsegPages \in Nat \ {0} /\ ImgPages \in 1..UsegPages /\ ImgPages <= NPF
  /\ Zero \in Values /\ Keys \cap Values = {}
  /\ IsFiniteSet(Proc) /\ {Idle, Free, Shared} \cap Proc = {}

VARIABLES
  mem,        \* page tables, frames, swap area, TLBs: see Init
  shm,        \* shm_ctrl[]
  seg_end,    \* pages of each process's segment; 0: no such process
  current,    \* current_running[]
  own,        \* ghost: what a process last stored in a page, or the page's key
  common,     \* ghost: what was last stored in a shared page
  leaked      \* ghost: a store reached a page of another process

vars == <<mem, shm, seg_end, current, own, common, leaked>>

Frame == 0..NPF-1
Slot == 0..NPSWAP-1
Page == 1..UsegPages

NoPte == [at |-> "none", n |-> 0, a |-> FALSE, w |-> FALSE, cow |-> FALSE, shm |-> FALSE]
UserPte(f) == [at |-> "mem", n |-> f, a |-> TRUE, w |-> TRUE, cow |-> FALSE, shm |-> FALSE]
NoEntry == [n |-> NPF, w |-> FALSE]
FlushedTlb == [v \in Page |-> NoEntry]

\* The first free index at or after i, or n.
FirstFree(map, i, n) == Min({j \in i..n-1 : map[j] = Free} \cup {n})
-----------------------------------------------------------------------------
\* Every helper below leaves a memory alone that panic_g() or an endless loop
\* stopped.
Ok(m) == m.halt = "no"

\* free_page()
FreePage(m, f) ==
  IF ~Ok(m) THEN m
  ELSE IF m.charmap[f] = Free THEN [m EXCEPT !.halt = "already free"]
  ELSE [m EXCEPT !.charmap[f] = Free, !.ffree = Min({f, m.ffree})]

\* free_swap_page()
FreeSwapPage(m, s) ==
  IF ~Ok(m) THEN m
  ELSE IF m.scharmap[s] = Free THEN [m EXCEPT !.halt = "already free"]
  ELSE [m EXCEPT !.scharmap[s] = Free, !.sffree = Min({s, m.sffree})]

\* Mutant of Evictable: pages of processes on other harts are taken as well.
EvictableAnywhere(m, c, f) == m.charmap[f] # Shared
\* The frames that hart c may swap out: not shared, not of a process running
\* on another hart, whose TLB cannot be flushed.
Evictable(m, c, f) ==
  m.charmap[f] # Shared /\ \A d \in Cpu \ {c} : current[d] # m.charmap[f]

\* swap_to_disk() on hart c.  The clock hand clears A bits until it meets an
\* evictable frame without one; it turns forever when no frame is evictable.
\* The victim's frame is left in ffree, as alloc_page() stores it.
SwapToDisk(m, c) ==
  LET at(k) == (m.clock_pt + k) % NPF
      pid(k) == m.charmap[at(k)]
      cand == {k \in Frame : Evictable(m, c, at(k))}
      old  == {k \in cand : ~m.pte[pid(k)][m.uva[at(k)]].a}
      k    == Min(IF old # {} THEN old ELSE cand)
      seen == {<<pid(j), m.uva[at(j)]>> : j \in IF old # {} THEN {j \in cand : j < k} ELSE cand}
      p    == pid(k)   v == m.uva[at(k)]   s == m.sffree
  IN IF \E j \in cand : \/ pid(j) \notin Proc
                        \/ m.pte[pid(j)][m.uva[at(j)]].at # "mem"
     THEN [m EXCEPT !.halt = "invalid frame"]
     ELSE IF cand = {} THEN [m EXCEPT !.halt = "no victim"]
     ELSE IF s >= NPSWAP THEN [m EXCEPT !.halt = "swap full"]
     ELSE [m EXCEPT
            !.pte = [q \in Proc |-> [u \in Page |->
                       IF <<q, u>> = <<p, v>>
                       THEN [m.pte[q][u] EXCEPT !.at = "disk", !.n = s, !.a = FALSE]
                       ELSE IF <<q, u>> \in seen THEN [m.pte[q][u] EXCEPT !.a = FALSE]
                       ELSE m.pte[q][u]]],
            !.scharmap[s] = p, !.sffree = FirstFree([m.scharmap EXCEPT ![s] = p], s, NPSWAP),
            !.disk[s] = m.page[at(k)], !.clock_pt = (at(k) + 1) % NPF,
            !.tlb[c][v] = NoEntry, !.ffree = at(k)]

\* The end of alloc_page(): frame ffree is now page v of p; it is left in got
Claim(m, swapped, p, v) ==
  LET cm == [m.charmap EXCEPT ![m.ffree] = p] IN
  IF ~Ok(m) THEN m
  ELSE [m EXCEPT !.charmap = cm, !.uva[m.ffree] = v, !.got = m.ffree,
                 !.ffree = IF swapped THEN NPF ELSE FirstFree(cm, m.ffree, NPF)]

\* alloc_page() on hart c of a frame for page v of process p
AllocPage(m, c, p, v) ==
  Claim(IF m.ffree >= NPF THEN SwapToDisk(m, c) ELSE m, m.ffree >= NPF, p, v)

\* The new frame is mapped as page v of p, which must not be mapped yet.
MapPage(m, p, v) ==
  IF ~Ok(m) THEN m
  ELSE IF m.pte[p][v] # NoPte THEN [m EXCEPT !.halt = "already mapped"]
  ELSE [m EXCEPT !.pte[p][v] = UserPte(m.got)]

\* alloc_page_helper()
AllocPageHelper(m, c, p, v) == MapPage(AllocPage(m, c, p, v), p, v)

\* The new frame is filled from swap page s and mapped.
ReadSwap(m, p, v, s) ==
  IF ~Ok(m) THEN m
  ELSE [m EXCEPT !.page[m.got] = m.disk[s],
                 !.pte[p][v] = [@ EXCEPT !.at = "mem", !.n = m.got, !.a = TRUE]]

\* Mutant of SwapFromDisk: the swap page is not freed.
SwapFromDiskLeaking(m, c, p, v) == ReadSwap(AllocPage(m, c, p, v), p, v, m.pte[p][v].n)

\* swap_from_disk() of page v of p, the current process of hart c
SwapFromDisk(m, c, p, v) ==
  LET s == m.pte[p][v].n IN
  FreeSwapPage(ReadSwap(AllocPage(m, c, p, v), p, v, s), s)

\* One user of a copy-on-write frame fewer: handle_pagefault(),
\* free_pages_of_proc()
DropCow(m, f) ==
  IF ~Ok(m) THEN m
  ELSE IF m.charmap[f] # Shared \/ m.uva[f] = 0 THEN [m EXCEPT !.halt = "not shared"]
  ELSE IF m.uva[f] = 1 THEN FreePage([m EXCEPT !.uva[f] = 0], f)
  ELSE [m EXCEPT !.uva[f] = @ - 1]

\* The new frame replaces frame f as p's own, writable copy of page v.
CopyFrame(m, c, p, v, f) ==
  IF ~Ok(m) THEN m
  ELSE [m EXCEPT !.page[m.got] = m.page[f],
                 !.pte[p][v] = [@ EXCEPT !.n = m.got, !.w = TRUE, !.cow = FALSE, !.a = TRUE],
                 !.tlb[c][v] = NoEntry]

\* The copy-on-write part of handle_pagefault()
CopyOnWrite(m, c, p, v) ==
  LET f == m.pte[p][v].n IN DropCow(CopyFrame(AllocPage(m, c, p, v), c, p, v, f), f)
-----------------------------------------------------------------------------
\* A step leaves nothing behind but its halt reason once the kernel stops.
Becomes(m) ==
  mem' = IF Ok(m) THEN [m EXCEPT !.got = 0] ELSE [mem EXCEPT !.halt = m.halt]

Running(c, p) == Ok(mem) /\ p \in Proc /\ current[c] = p

\* The hart's page walk for page v: a load, or a store's lookup.
Walk(c, v) ==
  LET e == mem.pte[current[c]][v] IN
  /\ Running(c, current[c])
  /\ v <= seg_end[current[c]] /\ e.at = "mem" /\ e.a
  /\ mem' = [mem EXCEPT !.tlb[c][v] = [n |-> e.n, w |-> e.w]]
  /\ UNCHANGED <<shm, seg_end, current, own, common, leaked>>

\* A store to page v through a writable cached translation.  When it was cached
\* before do_fork() made the page read-only, the store also changes the page of
\* every process that shares it.
Store(c, v, x) ==
  LET p == current[c]   t == mem.tlb[c][v]
      stale == ~mem.pte[p][v].w
      hit == {q \in Proc \ {p} : stale /\ mem.pte[q][v].at = "mem" /\ mem.pte[q][v].n = t.n} IN
  /\ Running(c, p) /\ t # NoEntry /\ t.w
  /\ mem' = [mem EXCEPT !.page[t.n] = x]
  /\ IF own[p][v] \in Keys
     THEN common' = [common EXCEPT ![own[p][v]] = x] /\ UNCHANGED <<own, leaked>>
     ELSE /\ own' = [q \in Proc |-> IF q \in {p} \cup hit THEN [own[q] EXCEPT ![v] = x] ELSE own[q]]
          /\ leaked' = (leaked \/ hit # {})
          /\ UNCHANGED common
  /\ UNCHANGED <<shm, seg_end, current>>

\* The access of page v that hart c starts does not translate.
Faults(c, v, store) ==
  LET e == mem.pte[current[c]][v]   t == mem.tlb[c][v] IN
  IF t # NoEntry THEN store /\ ~t.w
  ELSE ~(e.at = "mem" /\ e.a /\ (store => e.w))

\* What page v of p, which is in memory unless m stopped, holds
Content(m, p, v) == IF Ok(m) THEN m.page[m.pte[p][v].n] ELSE Zero

\* Mutant of PageFault: a page that another process may share is made writable
\* in place.
PageFaultInPlace(c, v, store) ==
  LET p == current[c]   e == mem.pte[p][v]
      m == CASE e = NoPte       -> AllocPageHelper(mem, c, p, v)
             [] e.at = "disk"   -> SwapFromDisk(mem, c, p, v)
             [] OTHER           -> [mem EXCEPT !.pte[p][v].a = TRUE, !.pte[p][v].w = TRUE,
                                               !.tlb[c][v] = NoEntry] IN
  /\ Running(c, p) /\ v <= seg_end[p] /\ Faults(c, v, store)
  /\ Becomes(m)
  /\ own' = IF e = NoPte THEN [own EXCEPT ![p][v] = Content(mem', p, v)] ELSE own
  /\ UNCHANGED <<shm, seg_end, current, common, leaked>>

\* handle_pagefault() inside the segment.  A fresh page is not cleared.
PageFault(c, v, store) ==
  LET p == current[c]   e == mem.pte[p][v]
      m == CASE e = NoPte       -> AllocPageHelper(mem, c, p, v)
             [] e.at = "disk"   -> SwapFromDisk(mem, c, p, v)
             [] e.cow /\ store  -> CopyOnWrite(mem, c, p, v)
             [] OTHER           -> [mem EXCEPT !.pte[p][v].a = TRUE, !.tlb[c][v] = NoEntry] IN
  /\ Running(c, p) /\ v <= seg_end[p] /\ Faults(c, v, store)
  /\ Becomes(m)
  /\ own' = IF e = NoPte THEN [own EXCEPT ![p][v] = Content(mem', p, v)] ELSE own
  /\ UNCHANGED <<shm, seg_end, current, common, leaked>>

\* The new frame of process q gets a copy of frame f.
CopyShm(m, q, v, f) ==
  IF ~Ok(m) THEN m
  ELSE [m EXCEPT !.page[m.got] = m.page[f], !.pte[q][v] = UserPte(m.got)]

\* do_fork() of a page that is in memory: copy a shared memory page, or make
\* the page copy-on-write in both page tables.
ShareFrame(m, c, p, q, v) ==
  LET e  == m.pte[p][v]
      ro == [e EXCEPT !.cow = TRUE, !.w = FALSE] IN
  IF ~Ok(m) THEN m
  ELSE IF e.shm THEN CopyShm(AllocPage(m, c, q, v), q, v, e.n)
  ELSE IF e.cow
  THEN [m EXCEPT !.pte[q][v] = e, !.uva[e.n] = @ + 1,
                 !.halt = IF m.charmap[e.n] = Shared THEN "no" ELSE "not shared"]
  ELSE [m EXCEPT !.pte[p][v] = ro, !.pte[q][v] = ro,
                 !.charmap[e.n] = Shared, !.uva[e.n] = 2]

\* do_fork() of one page, which is brought in first
ForkPage(m, c, p, q, v) ==
  IF ~Ok(m) \/ m.pte[p][v] = NoPte THEN m
  ELSE ShareFrame(IF m.pte[p][v].at = "disk" THEN SwapFromDisk(m, c, p, v) ELSE m, c, p, q, v)

\* do_fork() by the process of hart c.  The hart's TLB is not flushed.
Fork(c, q) ==
  LET p == current[c]
      m == FoldLeft(LAMBDA n, v : ForkPage(n, c, p, q, v), mem, [v \in Page |-> v]) IN
  /\ Running(c, p) /\ seg_end[q] = 0
  /\ Becomes(m)
  /\ seg_end' = [seg_end EXCEPT ![q] = seg_end[p]]
  /\ own' = [own EXCEPT ![q] = [v \in Page |-> IF own[p][v] \in Keys THEN common[own[p][v]]
                                                ELSE own[p][v]]]
  /\ UNCHANGED <<shm, current, common, leaked>>

\* The new frame is cleared, or filled from the image.
Fill(m) == IF Ok(m) THEN [m EXCEPT !.page[m.got] = Zero] ELSE m

\* create_proc() with load_task_img(), for sys_exec() or, from any hart, to
\* start glush again: every page of the image is allocated and filled before
\* the next one.
Create(c, q) ==
  LET load(m, v) == IF Ok(m) THEN Fill(AllocPageHelper(m, c, q, v)) ELSE m IN
  /\ Ok(mem) /\ seg_end[q] = 0
  /\ Becomes(FoldLeft(load, mem, [v \in 1..ImgPages |-> v]))
  /\ seg_end' = [seg_end EXCEPT ![q] = ImgPages]
  /\ own' = [own EXCEPT ![q] = [v \in Page |-> Zero]]
  /\ UNCHANGED <<shm, current, common, leaked>>

\* do_sbrk() by one page, or refused
Sbrk(c) ==
  LET p == current[c] IN
  /\ Running(c, p) /\ seg_end[p] < UsegPages
  /\ seg_end' = [seg_end EXCEPT ![p] = @ + 1]
  /\ UNCHANGED <<mem, shm, current, own, common, leaked>>

\* The two ways into shm_page_get(): a new cleared frame, or the one of the key
ShmNew(m) ==
  IF Ok(m) THEN [m EXCEPT !.charmap[m.got] = Shared, !.uva[m.got] = 1] ELSE m
ShmJoin(m, f) == [m EXCEPT !.got = f, !.uva[f] = @ + 1]

\* ... and its end: the frame is mapped as page v of p.
ShmMap(m, c, p, v) ==
  IF ~Ok(m) THEN m
  ELSE [m EXCEPT !.pte[p][v] = [UserPte(m.got) EXCEPT !.shm = TRUE], !.tlb[c][v] = NoEntry]

\* shm_page_get()
ShmGet(c, k) ==
  LET p == current[c]   v == seg_end[p] + 1   s == shm[k] IN
  /\ Running(c, p) /\ v <= UsegPages
  /\ s.nproc < NPSHM /\ (s.nproc > 0 => p \notin s.opid)
  /\ Becomes(ShmMap(IF s.nproc = 0 THEN ShmNew(Fill(AllocPageHelper(mem, c, p, v)))
                    ELSE ShmJoin(mem, s.pgidx), c, p, v))
  /\ seg_end' = [seg_end EXCEPT ![p] = v]
  /\ shm' = IF ~Ok(mem') THEN shm
            ELSE [shm EXCEPT ![k] = [nproc |-> s.nproc + 1, pgidx |-> mem'.pte[p][v].n,
                                     opid |-> IF s.nproc = 0 THEN {p} ELSE s.opid \cup {p}]]
  /\ own' = [own EXCEPT ![p][v] = k]
  /\ common' = IF s.nproc = 0 THEN [common EXCEPT ![k] = Zero] ELSE common
  /\ UNCHANGED <<current, leaked>>

\* shm_page_dt() of page v of p, with the checks that make it panic
Detach(m, sh, p, v) ==
  LET f == m.pte[p][v].n
      ks == {k \in Keys : sh[k].nproc > 0 /\ sh[k].pgidx = f}
      k == CHOOSE k \in ks : TRUE
      m1 == [m EXCEPT !.pte[p][v] = NoPte, !.uva[f] = @ - 1] IN
  IF \/ m.pte[p][v].at # "mem" \/ ks = {}
  THEN [m |-> [m EXCEPT !.halt = "shm not found"], shm |-> sh]
  ELSE IF p \notin sh[k].opid \/ m.uva[f] # sh[k].nproc
  THEN [m |-> [m EXCEPT !.halt = "shm count"], shm |-> sh]
  ELSE [m |-> IF sh[k].nproc = 1 THEN FreePage(m1, f) ELSE m1,
        shm |-> [sh EXCEPT ![k].nproc = @ - 1, ![k].opid = @ \ {p}]]

\* do_shm_page_dt()
ShmDt(c, v) ==
  LET p == current[c]   d == Detach(mem, shm, p, v) IN
  /\ Running(c, p) /\ mem.pte[p][v].shm
  /\ Becomes([d.m EXCEPT !.tlb[c][v] = NoEntry])
  /\ shm' = d.shm
  /\ own' = [own EXCEPT ![p][v] = Zero]
  /\ UNCHANGED <<seg_end, current, common, leaked>>

\* free_pages_of_proc() for one page
FreeOne(s, p, v) ==
  LET e == s.m.pte[p][v]
      gone == [s.m EXCEPT !.pte[p][v] = NoPte] IN
  IF ~Ok(s.m) \/ e = NoPte THEN s
  ELSE IF e.at = "disk" THEN [s EXCEPT !.m = FreeSwapPage(gone, e.n)]
  ELSE IF e.shm THEN Detach(s.m, s.shm, p, v)
  ELSE IF e.cow THEN [s EXCEPT !.m = DropCow(gone, e.n)]
  ELSE [s EXCEPT !.m = FreePage(gone, e.n)]

\* The process p is gone: killed while no hart runs it, or, when it runs,
\* exited or found EXITING by do_scheduler(), which switches to the idle loop.
Exit(p) ==
  LET s == FoldLeft(LAMBDA t, v : FreeOne(t, p, v), [m |-> mem, shm |-> shm],
                    [v \in Page |-> v])
      m == [s.m EXCEPT !.tlb = [c \in Cpu |-> IF current[c] = p THEN FlushedTlb
                                              ELSE s.m.tlb[c]]] IN
  /\ Ok(mem) /\ seg_end[p] > 0
  /\ Becomes(m) /\ shm' = s.shm
  /\ seg_end' = [seg_end EXCEPT ![p] = 0]
  /\ current' = [c \in Cpu |-> IF current[c] = p THEN Idle ELSE current[c]]
  /\ own' = [own EXCEPT ![p] = [v \in Page |-> Zero]]
  /\ UNCHANGED <<common, leaked>>

\* switch_to() from do_scheduler(), with its sfence.vma
SwitchTo(c, p) ==
  /\ Ok(mem) /\ p # current[c]
  /\ p # Idle => seg_end[p] > 0 /\ \A d \in Cpu : current[d] # p
  /\ current' = [current EXCEPT ![c] = p]
  /\ mem' = [mem EXCEPT !.tlb[c] = FlushedTlb]
  /\ UNCHANGED <<shm, seg_end, own, common, leaked>>
-----------------------------------------------------------------------------
\* init_mm(), init_swap() and the first user process, as Create leaves them
Init ==
  \E p \in Proc, c \in Cpu :
    /\ mem = [pte |-> [q \in Proc |-> [v \in Page |->
                         IF q = p /\ v <= ImgPages THEN UserPte(v - 1) ELSE NoPte]],
              charmap |-> [f \in Frame |-> IF f < ImgPages THEN p ELSE Free],
              uva |-> [f \in Frame |-> IF f < ImgPages THEN f + 1 ELSE 0],
              ffree |-> ImgPages, clock_pt |-> 0,
              scharmap |-> [s \in Slot |-> Free], sffree |-> 0,
              page |-> [f \in Frame |-> Zero], disk |-> [s \in Slot |-> Zero],
              tlb |-> [d \in Cpu |-> FlushedTlb], got |-> 0, halt |-> "no"]
    /\ current = [d \in Cpu |-> IF d = c THEN p ELSE Idle]
    /\ seg_end = [q \in Proc |-> IF q = p THEN ImgPages ELSE 0]
    /\ shm = [k \in Keys |-> [nproc |-> 0, pgidx |-> 0, opid |-> {}]]
    /\ own = [q \in Proc |-> [v \in Page |-> Zero]]
    /\ common = [k \in Keys |-> Zero] /\ leaked = FALSE

Next ==
  \/ \E c \in Cpu, v \in Page :
       \/ Walk(c, v) \/ ShmDt(c, v)
       \/ \E x \in Values : Store(c, v, x)
       \/ \E store \in BOOLEAN : PageFault(c, v, store)
  \/ \E c \in Cpu, q \in Proc : Fork(c, q) \/ Create(c, q)
  \/ \E c \in Cpu : Sbrk(c) \/ \E k \in Keys : ShmGet(c, k)
  \/ \E c \in Cpu, p \in Proc \cup {Idle} : SwitchTo(c, p)
  \/ \E p \in Proc : Exit(p)

Spec == Init /\ [][Next]_vars
-----------------------------------------------------------------------------
\* The pages <<p, v>> whose PTEs map frame f, or point to swap page s.
Users(pte, f) ==
  {u \in Proc \X Page : LET e == pte[u[1]][u[2]] IN e.at = "mem" /\ e.n = f}
Swapped(pte, s) ==
  {u \in Proc \X Page : LET e == pte[u[1]][u[2]] IN e.at = "disk" /\ e.n = s}

\* What process p must read in page v: its own last store or, in a shared
\* memory page, the last store of any of its users.
Seen(p, v) == IF own[p][v] \in Keys THEN common[own[p][v]] ELSE own[p][v]

\* The kernel stops only when its memory is exhausted: every frame is shared or
\* of a process on another hart, or the swap area is full.  No panic_g() that
\* guards the bookkeeping of mm.c, mm-swap.c, mm-shared.c, irq.c or
\* sched-fork.c is reached.
NoPanic == mem.halt \in {"no", "no victim", "swap full"}

\* pg_charmap[] and pg_uva[] say exactly who uses each frame, whatever sequence
\* of forks, faults, swaps, exits and shared memory calls led here: a free frame
\* is mapped by nobody; a private one by the one page recorded; a shared one by
\* as many pages as counted, all of them read-only copies or all of them of
\* the same shared memory key.  The swap area and both free hints agree too, and
\* no panic that guards all this is reached.
FramesAccounted ==
  /\ NoPanic
  /\ \A f \in Frame :
       CASE mem.charmap[f] = Free   -> Users(mem.pte, f) = {}
         [] mem.charmap[f] = Shared ->
              /\ Cardinality(Users(mem.pte, f)) = mem.uva[f] /\ mem.uva[f] > 0
              /\ \/ \A u \in Users(mem.pte, f) : LET e == mem.pte[u[1]][u[2]] IN e.cow /\ ~e.w /\ ~e.shm
                 \/ \E k \in Keys : /\ shm[k].pgidx = f /\ shm[k].nproc = mem.uva[f]
                                     /\ {u[1] : u \in Users(mem.pte, f)} = shm[k].opid
                                     /\ \A u \in Users(mem.pte, f) : mem.pte[u[1]][u[2]].shm
         [] OTHER -> /\ Users(mem.pte, f) = {<<mem.charmap[f], mem.uva[f]>>}
                     /\ LET e == mem.pte[mem.charmap[f]][mem.uva[f]] IN e.w /\ ~e.cow /\ ~e.shm
  /\ \A s \in Slot : Cardinality(Swapped(mem.pte, s)) = IF mem.scharmap[s] = Free THEN 0 ELSE 1
  /\ mem.ffree = FirstFree(mem.charmap, 0, NPF)
  /\ mem.sffree = FirstFree(mem.scharmap, 0, NPSWAP)

\* A hart never uses a frame that its process no longer owns: swap-out, copy-
\* on-write, detaching and exit leave no stale translation behind, although
\* each flushes at most the TLB of the hart it runs on.
TlbMapsOwnFrames ==
  \A c \in Cpu, v \in Page : mem.tlb[c][v] # NoEntry =>
    /\ current[c] \in Proc
    /\ LET e == mem.pte[current[c]][v] IN e.at = "mem" /\ e.n = mem.tlb[c][v].n

\* A process finds in its pages what it stored there last (or what a user of the
\* shared page stored), through swaps, forks and copies of the page, except for
\* the stores that `leaked' records.
OwnMemory ==
  \A p \in Proc, v \in Page : LET e == mem.pte[p][v] IN
    CASE e.at = "mem"  -> mem.page[e.n] = Seen(p, v)
      [] e.at = "disk" -> mem.disk[e.n] = Seen(p, v)
      [] OTHER -> TRUE

\* After a fork neither process sees the stores of the other: what copy-on-write
\* is for.  do_fork() leaves the parent's writable translations in the TLB.
ForkIsolates == ~leaked
=============================================================================
