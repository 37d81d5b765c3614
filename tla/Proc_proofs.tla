---------------------------- MODULE Proc_proofs ----------------------------
(* Proofs about Proc: ProcInv is inductive, hence every conjunct of it is   *)
(* an invariant for any number of CPUs, PIDs, TIDs and resources; the table *)
(* never overflows; and a killed thread never gets back to user code.       *)
EXTENDS Proc, FiniteSetTheorems, TLAPS

BlockQs == {SleepQ} \cup ResQs \cup WaitQs

\* The conjuncts of ProcInv that speak of the table alone.
TabType(tab) == tab \in [Thread -> Pcb]
TabQueues(tab) ==
  \A t \in Thread :
    /\ (tab[t].status = "FREE") = (tab[t].phead = NoQ)
    /\ (tab[t].status = "SLEEPING") = (tab[t].phead \in BlockQs)
TabWaits(tab) ==
  \A t, u \in Thread : tab[t].phead = WaitQ(u) => tab[u].status # "FREE"
TabDying(tab) ==
  \A t, u \in Thread :
    t[1] = u[1] /\ t # u /\ tab[t].status \in Dying =>
      /\ tab[u].status \in {"FREE", "EXITING", "EXITED"}
      /\ tab[t].status = "EXITED" => tab[u].status # "EXITED"
TabIdle(tab) ==
  \A c \in CPU :
    /\ tab[Idle(c)].mask = {c}
    /\ tab[Idle(c)].status \in {"RUNNING", "READY"}
    /\ \A i \in 1 .. TidMax : tab[<<c, i>>].status = "FREE"
TabMain(tab) ==
  \A t \in Thread :
    /\ tab[t].status \notin Dying \cup {"FREE"} => tab[<<t[1], 0>>].status # "FREE"
    /\ tab[t].status = "ZOMBIE" => t[2] # 0
GoodTab(tab) ==
  /\ TabType(tab) /\ TabQueues(tab) /\ TabWaits(tab)
  /\ TabDying(tab) /\ TabIdle(tab) /\ TabMain(tab)

\* From table a to table b no thread is put on a CPU or taken off one, except
\* that a RUNNING one may be marked EXITING.
SameOnCpu(a, b) ==
  \A t \in Thread : (b[t].status \in OnCpu) = (a[t].status \in OnCpu)

\* What waking the threads W, reaping the threads K and killing the processes P
\* make of table a.
Woken(a, W, b) ==
  /\ GoodTab(b) /\ SameOnCpu(a, b)
  /\ \A t \in Thread \ W : b[t] = a[t]
  /\ \A t \in W : b[t].status = "READY"
Reaped(a, K, b) ==
  /\ GoodTab(b) /\ SameOnCpu(a, b)
  /\ \A t \in Thread \ K : b[t].status = a[t].status \/ a[t].status = "SLEEPING"
  /\ \A t \in Thread \ K : b[t].status = "FREE" <=> a[t].status = "FREE"
Killed(a, P, b) ==
  /\ GoodTab(b) /\ SameOnCpu(a, b)
  /\ \A t \in Thread : t[1] \in P => b[t].status \in {"FREE", "EXITING"}
  /\ \A t \in Thread : t[1] \notin P =>
       \/ b[t].status = a[t].status
       \/ a[t].status = "SLEEPING" /\ b[t].status = "READY"

\* n is a PCB that may be added to table a, and b is a with n added.
CanAdd(a, n) ==
  /\ a[n].status = "FREE" /\ n[1] >= NCPU
  /\ n[2] # 0 => a[<<n[1], 0>>].status # "FREE"
  /\ \A t \in Thread : t[1] = n[1] => a[t].status \notin Dying
Added(a, n, b) ==
  /\ GoodTab(b) /\ SameOnCpu(a, b)
  /\ a[n].status = "FREE" /\ b[n].status = "READY"
  /\ \A t \in Thread \ {n} : b[t] = a[t]

\* Thread n of table a may be given the status st, and b is a with that change.
CanBecome(a, n, st) ==
  /\ a[n].status \in {"RUNNING", "READY", "EXITING"}
  /\ st \in {"RUNNING", "READY", "EXITED", "ZOMBIE"}
  /\ n[1] < NCPU => st \in {"RUNNING", "READY"}
  /\ st = "ZOMBIE" => n[2] # 0
  /\ st # "EXITED" => a[n].status # "EXITING"
  /\ st = "EXITED" => \A t \in Thread : t[1] = n[1] /\ t # n =>
                        a[t].status \in {"FREE", "EXITING"}
Became(a, n, st, b) ==
  /\ GoodTab(b) /\ b[n].status = st /\ b[n].mask = a[n].mask
  /\ \A t \in Thread \ {n} : b[t] = a[t]
SameUsed(a, b) == \A t \in Thread : (b[t].status = "FREE") = (a[t].status = "FREE")

\* pid_glush names a process of the table, or nothing.
GlushIn(a, g) ==
  /\ g \in (NCPU .. PidMax) \cup {NoPid}
  /\ g # NoPid => \E t \in Thread : t[1] = g /\ a[t].status # "FREE"

\* pcb_table[] has an entry for every PCB of table a.
Fits(a) == Cardinality(Used(a)) <= PcbMax
\* No PCB is new in table b, or none but the main one of process g.
NoneAdded(a, b) == \A t \in Thread : a[t].status = "FREE" => b[t].status = "FREE"
OnlyShellAdded(a, b, g) ==
  \A t \in Thread \ {<<g, 0>>} : a[t].status = "FREE" => b[t].status = "FREE"

\* From table a to table b no thread but the main one of process g leaves its
\* death, and none is freed while a CPU runs it.
StaysDead(a, b, g) ==
  \A t \in Thread \ {<<g, 0>>} :
    /\ a[t].status = "EXITING" => b[t].status \in {"EXITING", "EXITED"}
    /\ a[t].status \in {"EXITED", "ZOMBIE"} => b[t].status \in {a[t].status, "FREE"}
    /\ a[t].status = "RUNNING" => b[t].status # "FREE"
\* The same when no PCB is new and the CPUs keep running what they run.
StaysDeadInPlace(a, b, g) ==
  \A t \in Thread \ {<<g, 0>>} :
    /\ a[t].status \in {"FREE", "EXITING"} => b[t].status = a[t].status
    /\ a[t].status \in {"EXITED", "ZOMBIE"} => b[t].status \in {a[t].status, "FREE"}
    /\ a[t].status = "RUNNING" => b[t].status \in OnCpu

\* Table b may follow table a in a step that leaves g as the shell.
Follows(a, b, g) == StaysDead(a, b, g) /\ (Fits(a) => Fits(b))

\* r is table a with a new shell, if one was needed and could be created.
Restarted(a, r) ==
  /\ GoodTab(r.pcb) /\ SameOnCpu(a, r.pcb)
  /\ StaysDeadInPlace(a, r.pcb, r.glush) /\ (Fits(a) => Fits(r.pcb))
  /\ \A t \in Thread : a[t].status # "FREE" => r.pcb[t] = a[t]
  /\ GlushIn(r.pcb, r.glush)

\* The conjuncts of ProcInv that relate the table to current_running[].
Injective(cur) == \A c, d \in CPU : cur[c] = cur[d] => c = d
Owned(tab, cur) == \A t \in Thread : tab[t].status \in OnCpu => \E c \in CPU : cur[c] = t
IdleOn(tab, cur) == \A c \in CPU : cur[c] = Idle(c) \/ tab[Idle(c)].status = "READY"
CpusOk(tab, cur) ==
  /\ cur \in [CPU -> Thread] /\ Injective(cur) /\ Owned(tab, cur) /\ IdleOn(tab, cur)
  /\ \A c \in CPU : tab[cur[c]].status \in OnCpu

\* What switch_to() is called with: the current PCB of c runs, or has just gone
\* to sleep, exited or become a ZOMBIE.
SwitchPre(tab, cur, c) ==
  /\ GoodTab(tab)
  /\ cur \in [CPU -> Thread] /\ Injective(cur) /\ Owned(tab, cur) /\ IdleOn(tab, cur)
  /\ \A d \in CPU \ {c} : tab[cur[d]].status \in OnCpu
  /\ tab[cur[c]].status \in {"RUNNING", "EXITED", "ZOMBIE", "SLEEPING"}
\* What do_scheduler() is called with.
SchedPre(tab, cur, c) == SwitchPre(tab, cur, c) /\ tab[cur[c]].status # "SLEEPING"

\* The names of the queues are different values.
LEMMA QueueFacts ==
  /\ ReadyQ \in Queue /\ SleepQ \in Queue /\ NoQ \in Queue
  /\ BlockQs \subseteq Queue /\ SleepQ \in BlockQs /\ ResQs \subseteq BlockQs
  /\ ReadyQ # NoQ /\ ReadyQ \notin BlockQs /\ NoQ \notin BlockQs
  /\ \A t \in Thread : WaitQ(t) \in BlockQs
  /\ \A t, u \in Thread : WaitQ(t) = WaitQ(u) => t = u
  /\ \A t \in Thread : WaitQ(t) # SleepQ /\ WaitQ(t) \notin ResQs
  /\ SleepQ \notin ResQs
<1>1. \A t, u \in Thread : WaitQ(t) = WaitQ(u) => t = u
  BY DEF WaitQ, Thread
<1>2. ReadyQ \notin BlockQs /\ NoQ \notin BlockQs /\ ReadyQ # NoQ
  BY DEF ReadyQ, NoQ, BlockQs, SleepQ, ResQs, WaitQs, ResQ, WaitQ
<1>3. \A t \in Thread : WaitQ(t) # SleepQ /\ WaitQ(t) \notin ResQs
  BY DEF SleepQ, ResQs, ResQ, WaitQ
<1>4. SleepQ \notin ResQs
  BY DEF SleepQ, ResQs, ResQ
<1>5. \A t \in Thread : WaitQ(t) \in BlockQs
  BY DEF BlockQs, WaitQs
<1>6. /\ ReadyQ \in Queue /\ SleepQ \in Queue /\ NoQ \in Queue
      /\ BlockQs \subseteq Queue /\ SleepQ \in BlockQs /\ ResQs \subseteq BlockQs
  BY DEF Queue, BlockQs
<1> QED BY <1>1, <1>2, <1>3, <1>4, <1>5, <1>6

\* A thread is its <<pid, tid>>, the idle threads are threads.
LEMMA ThreadFacts ==
  /\ \A t \in Thread : t = <<t[1], t[2]>> /\ t[1] \in Pid /\ t[2] \in 0 .. TidMax
  /\ \A p \in Pid : <<p, 0>> \in Thread
  /\ \A c \in CPU : c \in Pid /\ Idle(c) \in Thread /\ Idle(c)[1] = c
  /\ \A c \in CPU : \A t \in Thread : t[1] = c => t = Idle(c) \/ t[2] \in 1 .. TidMax
  /\ \A p \in Pid : \A i \in 0 .. TidMax :
       <<p, i>> \in Thread /\ <<p, i>>[1] = p /\ <<p, i>>[2] = i
  /\ \A p \in Pid : p >= NCPU \/ p \in CPU
  /\ \A c \in CPU : ~(c >= NCPU)
<1> USE ConstantsAssumption
<1>1. \A t \in Thread : t = <<t[1], t[2]>> /\ t[1] \in Pid /\ t[2] \in 0 .. TidMax
  BY DEF Thread
<1>2. 0 \in 0 .. TidMax
  OBVIOUS
<1>3. \A p \in Pid : \A i \in 0 .. TidMax :
       <<p, i>> \in Thread /\ <<p, i>>[1] = p /\ <<p, i>>[2] = i
  BY DEF Thread
<1>4. \A c \in CPU : c \in Pid /\ ~(c >= NCPU)
  BY DEF CPU, Pid
<1>5. \A p \in Pid : p >= NCPU \/ p \in CPU
  BY DEF CPU, Pid
<1>6. \A c \in CPU : Idle(c) \in Thread /\ Idle(c)[1] = c
  BY <1>2, <1>3, <1>4 DEF Idle
<1>7. \A c \in CPU : \A t \in Thread : t[1] = c => t = Idle(c) \/ t[2] \in 1 .. TidMax
  <2> SUFFICES ASSUME NEW c \in CPU, NEW t \in Thread, t[1] = c, t[2] \notin 1 .. TidMax
               PROVE  t = Idle(c)
    OBVIOUS
  <2>1. t[2] = 0
    BY <1>1
  <2> QED BY <2>1, <1>1 DEF Idle
<1> QED BY <1>1, <1>2, <1>3, <1>4, <1>5, <1>6, <1>7

-----------------------------------------------------------------------------
(* The number of PCBs in the table.                                        *)

\* There are finitely many PCBs.
LEMMA UsedFinite ==
  ASSUME NEW tab
  PROVE  IsFiniteSet(Used(tab)) /\ Cardinality(Used(tab)) \in Nat
<1>1. IsFiniteSet(0 .. PidMax) /\ IsFiniteSet(0 .. TidMax)
  BY FS_Interval, ConstantsAssumption
<1>2. IsFiniteSet(Thread)
  BY <1>1, FS_Product DEF Thread, Pid
<1>3. Used(tab) \in SUBSET Thread
  BY DEF Used
<1> QED BY <1>2, <1>3, FS_Subset, FS_CardinalityType

\* A table without new PCBs still fits.
LEMMA NoneAddedFits ==
  ASSUME NEW a, NEW b, NoneAdded(a, b)
  PROVE  Fits(a) => Fits(b)
<1>1. Used(b) \in SUBSET Used(a)
  BY DEF Used, NoneAdded
<1>2. Cardinality(Used(b)) <= Cardinality(Used(a))
  BY <1>1, UsedFinite, FS_Subset
<1> QED BY <1>2, UsedFinite, ConstantsAssumption DEF Fits

\* One more PCB fits when pcb_table[] has a free entry, which do_exec(),
\* do_fork() and do_thread_create() check.
LEMMA OneAddedFits ==
  ASSUME NEW a, NEW b, NEW n \in Thread, HasRoom(a),
         \A t \in Thread \ {n} : b[t] = a[t]
  PROVE  Fits(b)
<1>1. Used(b) \in SUBSET (Used(a) \cup {n})
  BY DEF Used
<1>2. /\ IsFiniteSet(Used(a) \cup {n})
      /\ Cardinality(Used(a) \cup {n}) = IF n \in Used(a) THEN Cardinality(Used(a))
                                         ELSE Cardinality(Used(a)) + 1
  BY UsedFinite, FS_AddElement
<1>3. Cardinality(Used(b)) <= Cardinality(Used(a) \cup {n})
  BY <1>1, <1>2, FS_Subset
<1> QED BY <1>2, <1>3, UsedFinite, ConstantsAssumption DEF Fits, HasRoom
-----------------------------------------------------------------------------
(* What the operations on the table preserve.                              *)

\* Waking threads that sleep keeps the table good.
LEMMA WakeGood ==
  ASSUME NEW tab, GoodTab(tab), NEW W \in SUBSET Thread,
         \A t \in W : tab[t].status = "SLEEPING"
  PROVE  Woken(tab, W, Wake(tab, W))
<1> DEFINE new == Wake(tab, W)
<1> USE QueueFacts, ThreadFacts
<1>1. \A t \in Thread \ W : new[t] = tab[t]
  BY DEF Wake
<1>2. \A t \in W : /\ new[t].status = "READY" /\ new[t].phead = ReadyQ
                   /\ new[t].mask = tab[t].mask /\ new[t] \in Pcb
  <2> SUFFICES ASSUME NEW t \in W
               PROVE  /\ new[t].status = "READY" /\ new[t].phead = ReadyQ
                      /\ new[t].mask = tab[t].mask /\ new[t] \in Pcb
    OBVIOUS
  <2>1. new[t] = [tab[t] EXCEPT !.status = "READY", !.phead = ReadyQ]
    BY DEF Wake
  <2>2. tab[t] \in [status : Status, phead : Queue, mask : SUBSET CPU]
    BY DEF GoodTab, TabType, Pcb
  <2> QED BY <2>1, <2>2 DEF Pcb, Status
<1>3. new \in [Thread -> Pcb]
  <2>1. \A t \in Thread : new[t] \in Pcb
    BY <1>1, <1>2 DEF GoodTab, TabType
  <2> QED BY <2>1 DEF Wake
<1>4. \A t \in Thread : new[t].mask = tab[t].mask
  BY <1>1, <1>2
<1> HIDE DEF new
<1>5. TabQueues(new)
  BY <1>1, <1>2 DEF GoodTab, TabQueues
<1>6. TabWaits(new)
  BY <1>1, <1>2 DEF GoodTab, TabWaits, TabQueues
<1>7. TabDying(new)
  BY <1>1, <1>2 DEF GoodTab, TabDying, Dying
<1>8. TabIdle(new)
  BY <1>1, <1>2, <1>4 DEF GoodTab, TabIdle
<1>9. TabMain(new)
  <2> SUFFICES ASSUME NEW t \in Thread
               PROVE  /\ new[t].status \notin Dying \cup {"FREE"}
                           => new[<<t[1], 0>>].status # "FREE"
                      /\ new[t].status = "ZOMBIE" => t[2] # 0
    BY DEF TabMain
  <2>1. <<t[1], 0>> \in Thread
    BY ConstantsAssumption
  <2> QED BY <1>1, <1>2, <2>1 DEF GoodTab, TabMain, Dying
<1>10. SameOnCpu(tab, new)
  BY <1>1, <1>2 DEF SameOnCpu, OnCpu
<1> QED BY <1>1, <1>2, <1>3, <1>5, <1>6, <1>7, <1>8, <1>9, <1>10
        DEF GoodTab, TabType, Woken, new

\* thread_kill() of a set of threads: what is left of each PCB.
LEMMA KillThreadsFacts ==
  ASSUME NEW tab, GoodTab(tab), NEW K \in SUBSET Thread
  PROVE  LET new == KillThreads(tab, K) IN
         /\ new \in [Thread -> Pcb]
         /\ \A t \in K : new[t] = FreePcb
         /\ \A t \in Thread \ K :
              \/ /\ new[t] = tab[t]
                 /\ \A k \in K : tab[t].phead # WaitQ(k)
              \/ /\ tab[t].status = "SLEEPING" /\ new[t].status = "READY"
                 /\ new[t].phead = ReadyQ /\ new[t].mask = tab[t].mask
<1> DEFINE new == KillThreads(tab, K)
<1>1. FreePcb \in Pcb
  BY QueueFacts DEF FreePcb, Pcb, Status
<1>2. \A t \in Thread : new[t] \in Pcb
  BY <1>1, QueueFacts DEF KillThreads, GoodTab, TabType, Pcb, Status
<1>3. \A t \in K : new[t] = FreePcb
  BY DEF KillThreads
<1>4. ASSUME NEW t \in Thread \ K
      PROVE  \/ /\ new[t] = tab[t]
                /\ \A k \in K : tab[t].phead # WaitQ(k)
             \/ /\ tab[t].status = "SLEEPING" /\ new[t].status = "READY"
                /\ new[t].phead = ReadyQ /\ new[t].mask = tab[t].mask
  <2>1. CASE \E k \in K : tab[t].phead = WaitQ(k)
    <3>1. tab[t].status = "SLEEPING"
      BY <2>1, QueueFacts DEF GoodTab, TabQueues
    <3>2. new[t] = [tab[t] EXCEPT !.status = "READY", !.phead = ReadyQ]
      BY <2>1 DEF KillThreads
    <3> QED BY <3>1, <3>2 DEF GoodTab, TabType, Pcb
  <2>2. CASE \A k \in K : tab[t].phead # WaitQ(k)
    BY <2>2 DEF KillThreads
  <2> QED BY <2>1, <2>2
<1>5. new \in [Thread -> Pcb]
  BY <1>2 DEF KillThreads
<1> QED BY <1>3, <1>4, <1>5

\* Reaping child threads that are ZOMBIEs keeps the table good.
LEMMA ReapZombiesGood ==
  ASSUME NEW tab, GoodTab(tab), NEW K \in SUBSET Thread,
         \A t \in K : tab[t].status = "ZOMBIE"
  PROVE  Reaped(tab, K, KillThreads(tab, K))
<1> DEFINE new == KillThreads(tab, K)
<1> USE QueueFacts, ThreadFacts
<1>1. /\ new \in [Thread -> Pcb]
      /\ \A t \in K : new[t].status = "FREE" /\ new[t].phead = NoQ
      /\ \A t \in Thread \ K :
           \/ new[t] = tab[t] /\ \A k \in K : tab[t].phead # WaitQ(k)
           \/ /\ tab[t].status = "SLEEPING" /\ new[t].status = "READY"
              /\ new[t].phead = ReadyQ /\ new[t].mask = tab[t].mask
  BY KillThreadsFacts DEF FreePcb
<1> HIDE DEF new
<1>2. TabQueues(new)
  BY <1>1 DEF GoodTab, TabQueues
<1>3. TabWaits(new)
  BY <1>1 DEF GoodTab, TabWaits, TabQueues
<1>4. TabDying(new)
  BY <1>1 DEF GoodTab, TabDying, Dying
<1>5. TabIdle(new)
  <2> SUFFICES ASSUME NEW c \in CPU
               PROVE  /\ new[Idle(c)].mask = {c}
                      /\ new[Idle(c)].status \in {"RUNNING", "READY"}
                      /\ \A i \in 1 .. TidMax : new[<<c, i>>].status = "FREE"
    BY DEF TabIdle
  <2>1. Idle(c) \in Thread \ K
    BY DEF GoodTab, TabIdle
  <2>2. \A i \in 1 .. TidMax : <<c, i>> \in Thread
    BY ConstantsAssumption
  <2> QED BY <1>1, <2>1, <2>2 DEF GoodTab, TabIdle
<1>6. TabMain(new)
  <2> SUFFICES ASSUME NEW t \in Thread
               PROVE  /\ new[t].status \notin Dying \cup {"FREE"}
                           => new[<<t[1], 0>>].status # "FREE"
                      /\ new[t].status = "ZOMBIE" => t[2] # 0
    BY DEF TabMain
  <2>1. <<t[1], 0>> \in Thread \ K
    <3>1. <<t[1], 0>> \in Thread /\ <<t[1], 0>>[2] = 0
      BY ConstantsAssumption
    <3> QED BY <3>1 DEF GoodTab, TabMain
  <2> QED BY <1>1, <2>1 DEF GoodTab, TabMain, Dying
<1>7. SameOnCpu(tab, new)
  BY <1>1 DEF SameOnCpu, OnCpu
<1>8. \A t \in Thread \ K : /\ new[t].status = tab[t].status \/ tab[t].status = "SLEEPING"
                            /\ new[t].status = "FREE" <=> tab[t].status = "FREE"
  BY <1>1
<1> QED BY <1>1, <1>2, <1>3, <1>4, <1>5, <1>6, <1>7, <1>8
        DEF GoodTab, TabType, Reaped, new

\* do_kill() of a set P of user processes: their threads are gone or EXITING,
\* and the table stays good.
LEMMA DoKillGood ==
  ASSUME NEW tab, GoodTab(tab), NEW P \in SUBSET Pid, \A p \in P : p >= NCPU
  PROVE  Killed(tab, P, DoKill(tab, P))
<1> DEFINE K == Victims(tab, P)
           mid == KillThreads(tab, K)
           new == DoKill(tab, P)
<1> USE QueueFacts, ThreadFacts
<1>1. K \in SUBSET Thread /\ \A t \in Thread :
        t \in K <=> t[1] \in P /\ tab[t].status \notin OnCpu \cup {"FREE"}
  BY DEF Victims
<1>2. /\ mid \in [Thread -> Pcb]
      /\ \A t \in K : mid[t].status = "FREE" /\ mid[t].phead = NoQ
      /\ \A t \in Thread \ K :
           \/ mid[t] = tab[t] /\ \A k \in K : tab[t].phead # WaitQ(k)
           \/ /\ tab[t].status = "SLEEPING" /\ mid[t].status = "READY"
              /\ mid[t].phead = ReadyQ /\ mid[t].mask = tab[t].mask
  BY <1>1, KillThreadsFacts DEF FreePcb
<1>3. \A t \in Thread :
        /\ new[t].phead = mid[t].phead /\ new[t].mask = mid[t].mask
        /\ new[t] \in Pcb
        /\ IF t[1] \in P /\ mid[t].status \in OnCpu
           THEN new[t].status = "EXITING" ELSE new[t].status = mid[t].status
  BY <1>2 DEF DoKill, Pcb, Status
<1>4. new \in [Thread -> Pcb]
  BY <1>3 DEF DoKill
<1> HIDE DEF K, mid, new
<1>5. \A t \in Thread :
        \/ /\ t[1] \in P
           /\ \/ t \in K /\ new[t].status = "FREE" /\ new[t].phead = NoQ
              \/ /\ tab[t].status = "FREE" /\ new[t].status = "FREE" /\ new[t].phead = NoQ
              \/ /\ tab[t].status \in OnCpu /\ new[t].status = "EXITING"
                 /\ new[t].phead = tab[t].phead
        \/ /\ t[1] \notin P /\ t \notin K /\ new[t].mask = tab[t].mask
           /\ \/ /\ new[t].status = tab[t].status /\ new[t].phead = tab[t].phead
                 /\ \A k \in K : tab[t].phead # WaitQ(k)
              \/ /\ tab[t].status = "SLEEPING" /\ new[t].status = "READY"
                 /\ new[t].phead = ReadyQ
  BY <1>1, <1>2, <1>3 DEF OnCpu, GoodTab, TabQueues
<1>6. TabQueues(new)
  BY <1>5 DEF GoodTab, TabQueues, OnCpu
<1>7. TabWaits(new)
  BY <1>5 DEF GoodTab, TabWaits, TabQueues, OnCpu
<1>8. TabDying(new)
  BY <1>5 DEF GoodTab, TabDying, Dying
<1>9. TabIdle(new)
  <2> SUFFICES ASSUME NEW c \in CPU
               PROVE  /\ new[Idle(c)].mask = {c}
                      /\ new[Idle(c)].status \in {"RUNNING", "READY"}
                      /\ \A i \in 1 .. TidMax : new[<<c, i>>].status = "FREE"
    BY DEF TabIdle
  <2>1. c \notin P
    OBVIOUS
  <2>2. \A i \in 1 .. TidMax : <<c, i>> \in Thread /\ <<c, i>>[1] = c
    BY ConstantsAssumption
  <2> QED BY <1>5, <2>1, <2>2 DEF GoodTab, TabIdle
<1>10. TabMain(new)
  <2> SUFFICES ASSUME NEW t \in Thread
               PROVE  /\ new[t].status \notin Dying \cup {"FREE"}
                           => new[<<t[1], 0>>].status # "FREE"
                      /\ new[t].status = "ZOMBIE" => t[2] # 0
    BY DEF TabMain
  <2>1. <<t[1], 0>> \in Thread /\ <<t[1], 0>>[1] = t[1]
    BY ConstantsAssumption
  <2> QED BY <1>5, <2>1 DEF GoodTab, TabMain, Dying
<1>11. SameOnCpu(tab, new)
  BY <1>1, <1>5 DEF SameOnCpu, OnCpu
<1> QED BY <1>4, <1>5, <1>6, <1>7, <1>8, <1>9, <1>10, <1>11
        DEF GoodTab, TabType, Killed, new

\* A new READY PCB, the main thread of an unused PID or a child of a process
\* that is not dying, keeps the table good.
LEMMA AddThreadGood ==
  ASSUME NEW tab, GoodTab(tab), NEW n \in Thread, NEW m \in SUBSET CPU, CanAdd(tab, n)
  PROVE  Added(tab, n, AddThread(tab, n, m))
<1> DEFINE new == AddThread(tab, n, m)
<1> USE QueueFacts, ThreadFacts DEF CanAdd
<1>1. /\ new \in [Thread -> Pcb]
      /\ new[n].status = "READY" /\ new[n].phead = ReadyQ
      /\ \A t \in Thread \ {n} : new[t] = tab[t]
  BY DEF AddThread, Update, GoodTab, TabType, Pcb, Status
<1> HIDE DEF new
<1>2. TabQueues(new)
  BY <1>1 DEF GoodTab, TabQueues
<1>3. TabWaits(new)
  BY <1>1 DEF GoodTab, TabWaits
<1>4. TabDying(new)
  BY <1>1 DEF GoodTab, TabDying, Dying
<1>5. TabIdle(new)
  <2> SUFFICES ASSUME NEW c \in CPU
               PROVE  /\ new[Idle(c)].mask = {c}
                      /\ new[Idle(c)].status \in {"RUNNING", "READY"}
                      /\ \A i \in 1 .. TidMax : new[<<c, i>>].status = "FREE"
    BY DEF TabIdle
  <2>1. \A i \in 1 .. TidMax : <<c, i>> \in Thread \ {n}
    BY ConstantsAssumption
  <2> QED BY <1>1, <2>1 DEF GoodTab, TabIdle
<1>6. TabMain(new)
  <2> SUFFICES ASSUME NEW t \in Thread
               PROVE  /\ new[t].status \notin Dying \cup {"FREE"}
                           => new[<<t[1], 0>>].status # "FREE"
                      /\ new[t].status = "ZOMBIE" => t[2] # 0
    BY DEF TabMain
  <2>1. <<t[1], 0>> \in Thread /\ n = <<n[1], n[2]>>
    BY ConstantsAssumption
  <2> QED BY <1>1, <2>1 DEF GoodTab, TabMain, Dying
<1>7. SameOnCpu(tab, new)
  BY <1>1 DEF SameOnCpu, OnCpu
<1> QED BY <1>1, <1>2, <1>3, <1>4, <1>5, <1>6, <1>7 DEF GoodTab, TabType, Added, new

\* A PID that alloc_pid() may return belongs to no PCB.
LEMMA FreePidFacts ==
  ASSUME NEW tab, NEW p \in FreePids(tab)
  PROVE  /\ p \in Pid /\ p >= NCPU /\ <<p, 0>> \in Thread
         /\ <<p, 0>>[1] = p /\ <<p, 0>>[2] = 0
         /\ \A t \in Thread : t[1] = p => tab[t].status = "FREE"
<1>1. p \in NCPU .. PidMax /\ ThreadsOf(tab, p) = {}
  BY DEF FreePids
<1>2. p \in Pid /\ p >= NCPU
  BY <1>1, ConstantsAssumption DEF Pid
<1>3. \A t \in Thread : t[1] = p => tab[t].status = "FREE"
  BY <1>1 DEF ThreadsOf
<1> QED BY <1>2, <1>3, ThreadFacts, ConstantsAssumption

\* create_proc() and do_fork(): the main thread of a new process.
LEMMA AddMainGood ==
  ASSUME NEW tab, GoodTab(tab), NEW p \in FreePids(tab), NEW m \in SUBSET CPU
  PROVE  Added(tab, <<p, 0>>, AddThread(tab, <<p, 0>>, m))
<1>1. PICK n \in Thread : n = <<p, 0>>
  BY FreePidFacts
<1>2. CanAdd(tab, n)
  BY <1>1, FreePidFacts DEF CanAdd, Dying
<1>3. Added(tab, n, AddThread(tab, n, m))
  BY <1>2, AddThreadGood
<1> QED BY <1>1, <1>3

\* Restarting the shell keeps the table good, touches no PCB in use, and leaves
\* pid_glush naming a live process or nothing.
LEMMA RestartsGood ==
  ASSUME NEW tab, GoodTab(tab), glush \in (NCPU .. PidMax) \cup {NoPid},
         NEW r \in Restarts(tab)
  PROVE  Restarted(tab, r)
<1>1. CASE glush # NoPid /\ ThreadsOf(tab, glush) = {}
  <2>1. r \in {[pcb |-> tab, glush |-> NoPid]} \cup
              {[pcb |-> AddThread(tab, <<p, 0>>, CPU), glush |-> p] :
                 p \in {f \in FreePids(tab) : HasRoom(tab)}}
    BY <1>1 DEF Restarts
  <2>2. CASE r = [pcb |-> tab, glush |-> NoPid]
    BY <2>2 DEF SameOnCpu, Restarted, GlushIn, StaysDeadInPlace, OnCpu
  <2>3. CASE \E p \in {f \in FreePids(tab) : HasRoom(tab)} :
               r = [pcb |-> AddThread(tab, <<p, 0>>, CPU), glush |-> p]
    <3>1. PICK p \in FreePids(tab) :
               HasRoom(tab) /\ r = [pcb |-> AddThread(tab, <<p, 0>>, CPU), glush |-> p]
      BY <2>3
    <3>2. /\ r.pcb = AddThread(tab, <<p, 0>>, CPU) /\ r.glush = p
          /\ p \in NCPU .. PidMax /\ CPU \in SUBSET CPU
      BY <3>1 DEF FreePids
    <3>3. Added(tab, <<p, 0>>, AddThread(tab, <<p, 0>>, CPU))
      BY <3>2, AddMainGood
    <3>4. \A t \in Thread \ {<<p, 0>>} : r.pcb[t] = tab[t]
      BY <3>2, <3>3 DEF Added
    <3>5. StaysDeadInPlace(tab, r.pcb, r.glush)
      BY <3>2, <3>4 DEF StaysDeadInPlace, OnCpu
    <3>6. Fits(r.pcb)
      BY <3>1, <3>4, FreePidFacts, OneAddedFits
    <3> QED BY <3>2, <3>3, <3>5, <3>6, FreePidFacts DEF Added, Restarted, GlushIn
  <2> QED BY <2>1, <2>2, <2>3
<1>2. CASE ~(glush # NoPid /\ ThreadsOf(tab, glush) = {})
  <2>1. r = [pcb |-> tab, glush |-> glush]
    BY <1>2 DEF Restarts
  <2>2. glush # NoPid => \E t \in Thread : t[1] = glush /\ tab[t].status # "FREE"
    BY <1>2 DEF ThreadsOf
  <2> QED BY <2>1, <2>2 DEF SameOnCpu, Restarted, GlushIn, StaysDeadInPlace, OnCpu
<1> QED BY <1>1, <1>2
-----------------------------------------------------------------------------
(* do_scheduler().                                                         *)

\* The scan: waking sleepers, reaping corpses and restarting the shell leave
\* the table good and the current PCB as it was.
LEMMA ScanGood ==
  ASSUME NEW tab, NEW c \in CPU, SchedPre(tab, current, c),
         glush \in (NCPU .. PidMax) \cup {NoPid},
         NEW D \in SUBSET Thread, \A t \in D : tab[t].phead = SleepQ,
         NEW W \in SUBSET ResSleepers(tab),
         NEW Z \in SUBSET (Thread \ {current[c]}), \A t \in Z : tab[t].status = "ZOMBIE",
         NEW X \in SUBSET (Thread \ {current[c]}), \A t \in X : tab[t].status = "EXITED",
         NEW r \in Restarts(DoKill(KillThreads(Wake(Wake(tab, D), W), Z), {t[1] : t \in X}))
  PROVE  /\ GoodTab(r.pcb) /\ SameOnCpu(tab, r.pcb)
         /\ r.pcb[current[c]].status = tab[current[c]].status
         /\ GlushIn(r.pcb, r.glush)
         /\ StaysDeadInPlace(tab, r.pcb, r.glush) /\ (Fits(tab) => Fits(r.pcb))
<1> DEFINE cur == current[c]
           P == {t[1] : t \in X}
           t1 == Wake(tab, D)
           t2 == Wake(t1, W)
           t3 == KillThreads(t2, Z)
           t4 == DoKill(t3, P)
<1>1. GoodTab(tab) /\ cur \in Thread /\ tab[cur].status \in {"RUNNING", "EXITED", "ZOMBIE"}
  BY DEF SchedPre, SwitchPre
<1>2. /\ \A t \in D : tab[t].status = "SLEEPING"
      /\ W \in SUBSET Thread /\ \A t \in W : t \notin D /\ tab[t].status = "SLEEPING"
  BY <1>1, QueueFacts DEF ResSleepers, GoodTab, TabQueues
<1> HIDE DEF t1, t2, t3, t4, P, cur
<1>3. Woken(tab, D, t1)
  BY <1>1, <1>2, WakeGood DEF t1
<1>4. Woken(t1, W, t2)
  <2>1. GoodTab(t1) /\ \A t \in W : t1[t].status = "SLEEPING"
    BY <1>2, <1>3 DEF Woken
  <2> QED BY <2>1, <1>2, WakeGood DEF t2
<1>5. \A t \in Thread : tab[t].status # "SLEEPING" => t2[t].status = tab[t].status
  BY <1>2, <1>3, <1>4 DEF Woken
<1>6. Reaped(t2, Z, t3)
  <2>1. Z \in SUBSET Thread /\ GoodTab(t2) /\ \A t \in Z : t2[t].status = "ZOMBIE"
    BY <1>4, <1>5 DEF Woken
  <2> QED BY <2>1, ReapZombiesGood DEF t3
<1>7. P \in SUBSET Pid /\ \A p \in P : p >= NCPU
  <2> SUFFICES ASSUME NEW t \in X PROVE t[1] \in Pid /\ t[1] >= NCPU
    BY DEF P
  <2>1. t \in Thread /\ t[1] \in Pid /\ tab[t].status = "EXITED"
    BY ThreadFacts
  <2>2. t[1] \notin CPU
    <3> SUFFICES ASSUME t[1] \in CPU PROVE FALSE
      OBVIOUS
    <3>1. t = Idle(t[1]) \/ (t = <<t[1], t[2]>> /\ t[2] \in 1 .. TidMax)
      BY <2>1, ThreadFacts
    <3> QED BY <1>1, <2>1, <3>1 DEF GoodTab, TabIdle
  <2> QED BY <2>1, <2>2, ThreadFacts
<1>8. Killed(t3, P, t4)
  BY <1>6, <1>7, DoKillGood DEF Reaped, t4
<1>9. cur[1] \notin P
  <2> SUFFICES ASSUME NEW t \in X, t[1] = cur[1] PROVE FALSE
    BY DEF P
  <2>1. t \in Thread /\ t # cur /\ tab[t].status = "EXITED"
    BY DEF cur
  <2> QED BY <1>1, <2>1 DEF GoodTab, TabDying, Dying
<1>10. t4[cur].status = tab[cur].status
  <2>1. cur \in Thread \ Z
    BY <1>1 DEF cur
  <2>2. t2[cur].status = tab[cur].status
    BY <1>1, <1>5
  <2>3. t3[cur].status = t2[cur].status
    BY <1>1, <1>6, <2>1, <2>2 DEF Reaped
  <2> QED BY <1>1, <1>8, <1>9, <2>2, <2>3 DEF Killed
<1>11. SameOnCpu(tab, t4)
  BY <1>3, <1>4, <1>6, <1>8 DEF SameOnCpu, Woken, Reaped, Killed
<1>12. Restarted(t4, r)
  <2>1. GoodTab(t4) /\ r \in Restarts(t4)
    BY <1>8 DEF Killed, t4, t3, t2, t1, P
  <2> QED BY <2>1, RestartsGood
<1>13. r.pcb[cur].status = tab[cur].status
  BY <1>1, <1>10, <1>12 DEF Restarted
<1>14. \A t \in Thread :
         /\ tab[t].status \in {"FREE", "EXITING"} => t4[t].status = tab[t].status
         /\ tab[t].status \in {"EXITED", "ZOMBIE"} => t4[t].status \in {tab[t].status, "FREE"}
         /\ tab[t].status = "RUNNING" => t4[t].status \in OnCpu
  <2> SUFFICES ASSUME NEW t \in Thread
               PROVE  /\ tab[t].status \in {"FREE", "EXITING"} => t4[t].status = tab[t].status
                      /\ tab[t].status \in {"EXITED", "ZOMBIE"} =>
                           t4[t].status \in {tab[t].status, "FREE"}
                      /\ tab[t].status = "RUNNING" => t4[t].status \in OnCpu
    OBVIOUS
  <2>1. \/ tab[t].status = "SLEEPING" \/ t3[t].status = tab[t].status
        \/ t \in Z /\ tab[t].status = "ZOMBIE" /\ t3[t].status = "FREE"
    <3>1. \A u \in Z : t3[u].status = "FREE"
      BY KillThreadsFacts, <1>4 DEF t3, Woken, FreePcb
    <3> QED BY <1>5, <1>6, <3>1 DEF Reaped
  <2>2. \/ tab[t].status = "SLEEPING" \/ t4[t].status = t3[t].status
        \/ t3[t].status \in OnCpu /\ t4[t].status = "EXITING"
        \/ t3[t].status \notin OnCpu /\ t4[t].status = "FREE"
    BY <1>8, <2>1 DEF Killed, SameOnCpu, OnCpu
  <2> QED BY <2>1, <2>2 DEF OnCpu
<1>15. StaysDeadInPlace(tab, r.pcb, r.glush)
  BY <1>12, <1>14 DEF Restarted, StaysDeadInPlace, OnCpu
<1>16. Fits(tab) => Fits(r.pcb)
  BY <1>12, <1>14, NoneAddedFits DEF Restarted, NoneAdded
<1> QED BY <1>11, <1>12, <1>13, <1>15, <1>16 DEF Restarted, SameOnCpu, cur

\* The status changes of do_scheduler(), do_exit() and do_thread_exit() keep the
\* table good.
LEMMA SetStatusGood ==
  ASSUME NEW tab, GoodTab(tab), NEW n \in Thread, NEW st \in Status,
         CanBecome(tab, n, st)
  PROVE  Became(tab, n, st, SetStatus(tab, n, st))
<1> DEFINE new == SetStatus(tab, n, st)
<1> USE QueueFacts, ThreadFacts DEF CanBecome
<1>1. /\ new \in [Thread -> Pcb]
      /\ new[n].status = st /\ new[n].phead = tab[n].phead /\ new[n].mask = tab[n].mask
      /\ \A t \in Thread \ {n} : new[t] = tab[t]
  <2>1. tab[n] \in [status : Status, phead : Queue, mask : SUBSET CPU]
    BY DEF GoodTab, TabType, Pcb
  <2> QED BY <2>1 DEF SetStatus, Update, GoodTab, TabType, Pcb
<1> HIDE DEF new
<1>2. TabQueues(new)
  BY <1>1 DEF GoodTab, TabQueues
<1>3. TabWaits(new)
  BY <1>1 DEF GoodTab, TabWaits
<1>4. TabDying(new)
  <2>1. CASE st = "EXITED"
    BY <1>1, <2>1 DEF GoodTab, TabDying, Dying
  <2>2. CASE st # "EXITED"
    BY <1>1, <2>2 DEF GoodTab, TabDying, Dying
  <2> QED BY <2>1, <2>2
<1>5. TabIdle(new)
  <2> SUFFICES ASSUME NEW c \in CPU
               PROVE  /\ new[Idle(c)].mask = {c}
                      /\ new[Idle(c)].status \in {"RUNNING", "READY"}
                      /\ \A i \in 1 .. TidMax : new[<<c, i>>].status = "FREE"
    BY DEF TabIdle
  <2>1. \A i \in 1 .. TidMax : <<c, i>> \in Thread \ {n}
    BY ConstantsAssumption DEF GoodTab, TabIdle
  <2>2. c < NCPU
    BY ConstantsAssumption DEF CPU
  <2> QED BY <1>1, <2>1, <2>2 DEF GoodTab, TabIdle
<1>6. TabMain(new)
  <2> SUFFICES ASSUME NEW t \in Thread
               PROVE  /\ new[t].status \notin Dying \cup {"FREE"}
                           => new[<<t[1], 0>>].status # "FREE"
                      /\ new[t].status = "ZOMBIE" => t[2] # 0
    BY DEF TabMain
  <2>1. <<t[1], 0>> \in Thread
    BY ConstantsAssumption
  <2> QED BY <1>1, <2>1 DEF GoodTab, TabMain, Dying
<1> QED BY <1>1, <1>2, <1>3, <1>4, <1>5, <1>6 DEF GoodTab, TabType, Became, new

\* switch_to() another eligible thread.
LEMMA SwitchGood ==
  ASSUME NEW tab, NEW c \in CPU, SwitchPre(tab, current, c), NEW n \in Eligible(tab, c)
  PROVE  LET new == SetStatus(IF tab[current[c]].status = "RUNNING"
                              THEN SetStatus(tab, current[c], "READY")
                              ELSE tab, n, "RUNNING")
         IN  /\ GoodTab(new) /\ SameUsed(tab, new)
             /\ CpusOk(new, [current EXCEPT ![c] = n])
             /\ \A t \in Thread : \/ new[t].status = tab[t].status
                                 \/ /\ tab[t].status \in {"READY", "RUNNING"}
                                    /\ new[t].status \in {"READY", "RUNNING"}
<1> DEFINE cur == current[c]
           mid == IF tab[cur].status = "RUNNING" THEN SetStatus(tab, cur, "READY") ELSE tab
           new == SetStatus(mid, n, "RUNNING")
           cur2 == [current EXCEPT ![c] = n]
<1>1. /\ GoodTab(tab) /\ current \in [CPU -> Thread] /\ cur \in Thread
      /\ tab[cur].status \in {"RUNNING", "EXITED", "ZOMBIE", "SLEEPING"}
      /\ n \in Thread /\ tab[n].status = "READY" /\ c \in tab[n].mask /\ n # cur
  BY DEF SwitchPre, Eligible
<1>2. \A d \in CPU \ {c} : current[d] # n /\ current[d] # cur /\ tab[current[d]].status \in OnCpu
  BY <1>1 DEF SwitchPre, Injective, OnCpu
<1> HIDE DEF cur
<1>3. /\ GoodTab(mid) /\ mid[n] = tab[n]
      /\ \A t \in Thread \ {cur} : mid[t] = tab[t]
      /\ mid[cur].status = IF tab[cur].status = "RUNNING" THEN "READY" ELSE tab[cur].status
  <2>1. CASE tab[cur].status = "RUNNING"
    <3>1. CanBecome(tab, cur, "READY") /\ "READY" \in Status
      BY <2>1 DEF CanBecome, Status
    <3>2. Became(tab, cur, "READY", SetStatus(tab, cur, "READY"))
      BY <1>1, <3>1, SetStatusGood
    <3> QED BY <1>1, <2>1, <3>2 DEF Became
  <2>2. CASE tab[cur].status # "RUNNING"
    BY <1>1, <2>2
  <2> QED BY <2>1, <2>2
<1> HIDE DEF mid
<1>4. Became(mid, n, "RUNNING", new)
  <2>1. CanBecome(mid, n, "RUNNING") /\ "RUNNING" \in Status
    BY <1>1, <1>3 DEF CanBecome, Status
  <2> QED BY <1>1, <1>3, <2>1, SetStatusGood
<1> HIDE DEF new
<1>5. /\ new[n].status = "RUNNING"
      /\ new[cur].status = IF tab[cur].status = "RUNNING" THEN "READY" ELSE tab[cur].status
      /\ \A t \in Thread \ {n, cur} : new[t] = tab[t]
  BY <1>1, <1>3, <1>4 DEF Became
<1>6. cur2 \in [CPU -> Thread] /\ cur2[c] = n /\ \A d \in CPU \ {c} : cur2[d] = current[d]
  BY <1>1
<1> HIDE DEF cur2
<1>7. SameUsed(tab, new)
  BY <1>1, <1>5 DEF SameUsed
<1>8. Injective(cur2)
  BY <1>2, <1>6 DEF SwitchPre, Injective
<1>9. Owned(new, cur2)
  <2> SUFFICES ASSUME NEW t \in Thread, new[t].status \in OnCpu
               PROVE  \E d \in CPU : cur2[d] = t
    BY DEF Owned
  <2>1. CASE t = n
    BY <2>1, <1>6
  <2>2. CASE t # n
    <3>1. t # cur
      BY <1>1, <1>5 DEF OnCpu
    <3>2. PICK d \in CPU : current[d] = t
      BY <1>5, <2>2, <3>1 DEF SwitchPre, Owned
    <3> QED BY <1>6, <3>1, <3>2 DEF cur
  <2> QED BY <2>1, <2>2
<1>10. IdleOn(new, cur2)
  <2> SUFFICES ASSUME NEW d \in CPU, cur2[d] # Idle(d)
               PROVE  new[Idle(d)].status = "READY"
    BY DEF IdleOn
  <2>1. Idle(d) \in Thread /\ tab[Idle(d)].mask = {d} /\ tab[Idle(d)].status \in {"RUNNING", "READY"}
    BY <1>1, ThreadFacts DEF GoodTab, TabIdle
  <2>2. n # Idle(d)
    BY <1>1, <1>6, <2>1
  <2>3. CASE cur = Idle(d)
    BY <1>1, <1>5, <2>1, <2>3
  <2>4. CASE cur # Idle(d)
    <3>1. current[d] # Idle(d)
      BY <1>6, <2>4 DEF cur
    <3>2. tab[Idle(d)].status = "READY"
      BY <3>1 DEF SwitchPre, IdleOn
    <3> QED BY <1>5, <2>1, <2>2, <2>4, <3>2
  <2> QED BY <2>3, <2>4
<1>11. \A d \in CPU : new[cur2[d]].status \in OnCpu
  BY <1>1, <1>2, <1>5, <1>6 DEF OnCpu
<1>12. GoodTab(new) /\ CpusOk(new, cur2)
  BY <1>4, <1>6, <1>8, <1>9, <1>10, <1>11 DEF CpusOk, Became
<1>13. \A t \in Thread : \/ new[t].status = tab[t].status
                        \/ /\ tab[t].status \in {"READY", "RUNNING"}
                           /\ new[t].status \in {"READY", "RUNNING"}
  BY <1>1, <1>5
<1> QED BY <1>7, <1>12, <1>13 DEF new, mid, cur, cur2

\* do_scheduler() as a whole.
LEMMA SchedulerGood ==
  ASSUME NEW tab, NEW c \in CPU, SchedPre(tab, current, c),
         glush \in (NCPU .. PidMax) \cup {NoPid}, due \in SUBSET Thread,
         DoScheduler(c, tab)
  PROVE  /\ GoodTab(pcb') /\ CpusOk(pcb', current') /\ GlushIn(pcb', glush')
         /\ Follows(tab, pcb', glush') /\ OnlyShellAdded(tab, pcb', glush')
         /\ tab[current[c]].status \in {"EXITED", "ZOMBIE"} =>
              pcb'[current[c]].status = tab[current[c]].status
<1> DEFINE cur == current[c]
           D == {t \in due : tab[t].phead = SleepQ}
           Corpses(s) == {t \in Thread \ {cur} : tab[t].status = s}
           Table(W, Z, X) ==
             DoKill(KillThreads(Wake(Wake(tab, D), W), Z), {t[1] : t \in X})
<1>1. PICK W \in SUBSET ResSleepers(tab), Z \in SUBSET Corpses("ZOMBIE"),
           X \in SUBSET Corpses("EXITED") :
             \E r \in Restarts(Table(W, Z, X)) :
               /\ glush' = r.glush
               /\ \/ \E n \in Eligible(r.pcb, c) :
                       /\ current' = [current EXCEPT ![c] = n]
                       /\ pcb' = SetStatus(IF r.pcb[cur].status = "RUNNING"
                                           THEN SetStatus(r.pcb, cur, "READY")
                                           ELSE r.pcb, n, "RUNNING")
                  \/ /\ Eligible(Wake(tab, D), c) = {}
                     /\ cur[1] < NCPU
                     /\ pcb' = r.pcb
                     /\ UNCHANGED current
  BY Zenon DEF DoScheduler
<1>2. PICK r \in Restarts(Table(W, Z, X)) :
        /\ glush' = r.glush
        /\ \/ \E n \in Eligible(r.pcb, c) :
                /\ current' = [current EXCEPT ![c] = n]
                /\ pcb' = SetStatus(IF r.pcb[cur].status = "RUNNING"
                                    THEN SetStatus(r.pcb, cur, "READY")
                                    ELSE r.pcb, n, "RUNNING")
           \/ /\ cur[1] < NCPU
              /\ pcb' = r.pcb
              /\ UNCHANGED current
  BY <1>1, Zenon
<1>3. /\ GoodTab(r.pcb) /\ SameOnCpu(tab, r.pcb)
      /\ r.pcb[cur].status = tab[cur].status
      /\ GlushIn(r.pcb, r.glush)
      /\ StaysDeadInPlace(tab, r.pcb, r.glush) /\ (Fits(tab) => Fits(r.pcb))
  <2>1. /\ D \in SUBSET Thread /\ \A t \in D : tab[t].phead = SleepQ
        /\ Z \in SUBSET (Thread \ {cur}) /\ \A t \in Z : tab[t].status = "ZOMBIE"
        /\ X \in SUBSET (Thread \ {cur}) /\ \A t \in X : tab[t].status = "EXITED"
    OBVIOUS
  <2> HIDE DEF D
  <2> QED BY <2>1, ScanGood, Zenon
<1> HIDE DEF Table, D
<1>4. SchedPre(r.pcb, current, c)
  <2>1. GoodTab(tab) /\ current \in [CPU -> Thread] /\ Injective(current)
    BY DEF SchedPre, SwitchPre
  <2>2. Owned(r.pcb, current)
    BY <1>3 DEF SchedPre, SwitchPre, Owned, SameOnCpu
  <2>3. IdleOn(r.pcb, current)
    <3> SUFFICES ASSUME NEW d \in CPU, current[d] # Idle(d)
                 PROVE  r.pcb[Idle(d)].status = "READY"
      BY DEF IdleOn
    <3>1. tab[Idle(d)].status = "READY" /\ Idle(d) \in Thread
      BY ThreadFacts DEF SchedPre, SwitchPre, IdleOn
    <3>2. r.pcb[Idle(d)].status \in {"RUNNING", "READY"}
      BY <1>3 DEF GoodTab, TabIdle
    <3> QED BY <1>3, <3>1, <3>2 DEF SameOnCpu, OnCpu
  <2>4. \A d \in CPU \ {c} : r.pcb[current[d]].status \in OnCpu
    BY <1>3, <2>1 DEF SchedPre, SwitchPre, SameOnCpu
  <2>5. r.pcb[cur].status \in {"RUNNING", "EXITED", "ZOMBIE"}
    BY <1>3 DEF SchedPre, SwitchPre
  <2> QED BY <1>3, <2>1, <2>2, <2>3, <2>4, <2>5 DEF SchedPre, SwitchPre
<1>5. CASE \E n \in Eligible(r.pcb, c) :
             /\ current' = [current EXCEPT ![c] = n]
             /\ pcb' = SetStatus(IF r.pcb[cur].status = "RUNNING"
                                 THEN SetStatus(r.pcb, cur, "READY")
                                 ELSE r.pcb, n, "RUNNING")
  <2> DEFINE After(n) == SetStatus(IF r.pcb[cur].status = "RUNNING"
                                   THEN SetStatus(r.pcb, cur, "READY")
                                   ELSE r.pcb, n, "RUNNING")
             Cur(n) == [current EXCEPT ![c] = n]
  <2>a. PICK n \in Eligible(r.pcb, c) : current' = Cur(n) /\ pcb' = After(n)
    BY <1>5
  <2>b. /\ GoodTab(After(n)) /\ SameUsed(r.pcb, After(n)) /\ CpusOk(After(n), Cur(n))
        /\ \A t \in Thread : \/ After(n)[t].status = r.pcb[t].status
                            \/ /\ r.pcb[t].status \in {"READY", "RUNNING"}
                               /\ After(n)[t].status \in {"READY", "RUNNING"}
    BY <1>4, SwitchGood, Zenon DEF SchedPre
  <2> HIDE DEF After, Cur
  <2>1. GoodTab(pcb') /\ SameUsed(r.pcb, pcb') /\ CpusOk(pcb', current')
    BY <2>a, <2>b
  <2>2. GlushIn(pcb', glush')
    BY <1>2, <1>3, <2>1 DEF GlushIn, SameUsed
  <2>3. \A t \in Thread : \/ pcb'[t].status = r.pcb[t].status
                         \/ /\ r.pcb[t].status \in {"READY", "RUNNING"}
                            /\ pcb'[t].status \in {"READY", "RUNNING"}
    BY <2>a, <2>b
  <2>4. StaysDead(tab, pcb', glush') /\ OnlyShellAdded(tab, pcb', glush')
    BY <1>2, <1>3, <2>3 DEF StaysDead, StaysDeadInPlace, OnlyShellAdded, OnCpu
  <2>5. Fits(tab) => Fits(pcb')
    BY <1>3, <2>1, NoneAddedFits DEF SameUsed, NoneAdded
  <2>6. tab[cur].status \in {"EXITED", "ZOMBIE"} => pcb'[cur].status = tab[cur].status
    <3>1. cur \in Thread
      BY <1>4 DEF SchedPre, SwitchPre
    <3> QED BY <1>3, <2>3, <3>1
  <2> QED BY <2>1, <2>2, <2>4, <2>5, <2>6 DEF Follows
<1>6. CASE cur[1] < NCPU /\ pcb' = r.pcb /\ UNCHANGED current
  <2>1. cur \in Thread /\ cur[1] \in CPU
    <3>1. cur \in Thread /\ cur[1] \in Pid
      BY <1>4, ThreadFacts DEF SchedPre, SwitchPre
    <3> QED BY <1>6, <3>1, ConstantsAssumption DEF CPU, Pid
  <2>2. r.pcb[cur].status = "RUNNING"
    <3>1. cur = Idle(cur[1]) \/ (cur = <<cur[1], cur[2]>> /\ cur[2] \in 1 .. TidMax)
      BY <2>1, ThreadFacts
    <3>2. TabIdle(r.pcb) /\ r.pcb[cur].status \in {"RUNNING", "EXITED", "ZOMBIE"}
      BY <1>3, <1>4 DEF SchedPre, SwitchPre, GoodTab
    <3>3. CASE cur = Idle(cur[1])
      BY <2>1, <3>2, <3>3 DEF TabIdle
    <3>4. CASE cur = <<cur[1], cur[2]>> /\ cur[2] \in 1 .. TidMax
      <4>1. PICK d \in CPU, i \in 1 .. TidMax : cur = <<d, i>>
        BY <2>1, <3>4
      <4> HIDE DEF cur
      <4> QED BY <3>2, <4>1 DEF TabIdle
    <3> QED BY <3>1, <3>3, <3>4
  <2>3. CpusOk(r.pcb, current)
    BY <1>4, <2>2 DEF SchedPre, SwitchPre, CpusOk, OnCpu
  <2>4. StaysDead(tab, pcb', glush') /\ OnlyShellAdded(tab, pcb', glush')
    BY <1>2, <1>3, <1>6 DEF StaysDead, StaysDeadInPlace, OnlyShellAdded, OnCpu
  <2> QED BY <1>2, <1>3, <1>6, <2>3, <2>4 DEF Follows
<1> QED BY <1>2, <1>5, <1>6
-----------------------------------------------------------------------------
(* The invariant is inductive.                                             *)

\* ProcInv, seen as facts about the values of the variables, to which the
\* lemmas on the operators of sched.c apply.
LEMMA PartsOfProcInv ==
  ASSUME ProcInv
  PROVE  /\ GoodTab(pcb) /\ CpusOk(pcb, current) /\ GlushIn(pcb, glush)
         /\ due \in SUBSET Thread
<1> USE DEF ProcInv
<1>1. GoodTab(pcb)
  BY DEF GoodTab, TypeOK, TabType, QueueMatchesStatus, TabQueues, BlockQs,
         NoDanglingWait, TabWaits, DyingTogether, TabDying, IdleAvailable, TabIdle,
         MainThreadAlive, TabMain
<1>2. CpusOk(pcb, current)
  BY DEF CpusOk, Injective, Owned, IdleOn, OneCpuEach, TypeOK, IdleAvailable
<1>3. GlushIn(pcb, glush)
  BY DEF GlushIn, TypeOK, GlushAlive, ThreadsOf
<1> QED BY <1>1, <1>2, <1>3 DEF TypeOK

\* ProcInv after a step, put together from facts about the new values.
LEMMA ProcInvFromParts ==
  ASSUME GoodTab(pcb'), CpusOk(pcb', current'), GlushIn(pcb', glush'),
         due' \in SUBSET Thread, \A t \in due' : pcb'[t].phead = SleepQ
  PROVE  ProcInv'
<1>1. TypeOK'
  BY DEF TypeOK, GoodTab, TabType, CpusOk, GlushIn
<1>2. OneCpuEach'
  BY DEF OneCpuEach, CpusOk, Injective, Owned
<1>3. QueueMatchesStatus' /\ NoDanglingWait' /\ DyingTogether' /\ MainThreadAlive'
  BY DEF GoodTab, QueueMatchesStatus, TabQueues, BlockQs, NoDanglingWait, TabWaits,
         DyingTogether, TabDying, MainThreadAlive, TabMain
<1>4. IdleAvailable'
  BY ThreadFacts DEF IdleAvailable, GoodTab, TabIdle, CpusOk, IdleOn, OnCpu
<1>5. GlushAlive'
  BY DEF GlushIn, GlushAlive, ThreadsOf
<1>6. DueSleeps'
  BY DEF DueSleeps
<1> QED BY <1>1, <1>2, <1>3, <1>4, <1>5, <1>6 DEF ProcInv

\* A trap that ends in do_scheduler().
LEMMA SchedulerStep ==
  ASSUME ProcInv, NEW c \in CPU, NEW tab, SchedPre(tab, current, c),
         DoScheduler(c, tab), KeepDue
  PROVE  /\ ProcInv'
         /\ Follows(tab, pcb', glush') /\ OnlyShellAdded(tab, pcb', glush')
         /\ tab[current[c]].status \in {"EXITED", "ZOMBIE"} =>
              pcb'[current[c]].status = tab[current[c]].status
<1>1. glush \in (NCPU .. PidMax) \cup {NoPid} /\ due \in SUBSET Thread
  BY DEF ProcInv, TypeOK
<1>2. /\ GoodTab(pcb') /\ CpusOk(pcb', current') /\ GlushIn(pcb', glush')
      /\ Follows(tab, pcb', glush') /\ OnlyShellAdded(tab, pcb', glush')
      /\ tab[current[c]].status \in {"EXITED", "ZOMBIE"} =>
           pcb'[current[c]].status = tab[current[c]].status
  BY <1>1, SchedulerGood
<1>3. due' \in SUBSET Thread /\ \A t \in due' : pcb'[t].phead = SleepQ
  BY <1>1 DEF KeepDue
<1> QED BY <1>2, <1>3, ProcInvFromParts

\* A timer interrupt that preempts the running thread.
LEMMA TimerStep ==
  ASSUME ProcInv, NEW c \in CPU, Timer(c)
  PROVE  ProcInv' /\ Follows(pcb, pcb', glush')
<1>1. SchedPre(pcb, current, c)
  BY PartsOfProcInv DEF SchedPre, SwitchPre, CpusOk, Timer, Trap
<1> QED BY <1>1, SchedulerStep DEF Timer

\* do_exit(): the threads of the process die, the caller at once and the others
\* when they are scheduled.
LEMMA ExitStep ==
  ASSUME ProcInv, NEW c \in CPU, Exit(c)
  PROVE  ProcInv' /\ Follows(pcb, pcb', glush')
<1> DEFINE cur == current[c]
           mid == DoKill(pcb, {cur[1]})
           tab == SetStatus(mid, cur, "EXITED")
<1>1. /\ GoodTab(pcb) /\ CpusOk(pcb, current) /\ cur \in Thread
      /\ cur[1] >= NCPU /\ cur[1] \in Pid
  BY PartsOfProcInv, ThreadFacts DEF CpusOk, Exit
<1> HIDE DEF cur
<1>2. Killed(pcb, {cur[1]}, mid)
  BY <1>1, DoKillGood
<1>3. mid[cur].status = "EXITING"
  <2>1. pcb[cur].status \in OnCpu
    BY <1>1 DEF CpusOk, cur
  <2> QED BY <1>1, <1>2, <2>1 DEF Killed, SameOnCpu, OnCpu
<1> HIDE DEF mid
<1>4. Became(mid, cur, "EXITED", tab)
  <2>1. CanBecome(mid, cur, "EXITED") /\ "EXITED" \in Status
    BY <1>1, <1>2, <1>3, ThreadFacts, ConstantsAssumption DEF CanBecome, Killed, Status, Pid
  <2> QED BY <1>1, <1>2, <2>1, SetStatusGood DEF Killed
<1> HIDE DEF tab
<1>5. SchedPre(tab, current, c)
  <2>1. current \in [CPU -> Thread] /\ Injective(current)
    BY <1>1 DEF CpusOk
  <2>2. \A t \in Thread \ {cur} : (tab[t].status \in OnCpu) = (pcb[t].status \in OnCpu)
    BY <1>2, <1>4 DEF Became, Killed, SameOnCpu
  <2>3. tab[cur].status = "EXITED" /\ GoodTab(tab)
    BY <1>4 DEF Became
  <2>4. Owned(tab, current)
    BY <1>1, <2>2, <2>3 DEF CpusOk, Owned, OnCpu
  <2>5. \A d \in CPU \ {c} : tab[current[d]].status \in OnCpu
    BY <1>1, <2>1, <2>2 DEF CpusOk, Injective, cur
  <2>6. IdleOn(tab, current)
    <3> SUFFICES ASSUME NEW d \in CPU, current[d] # Idle(d)
                 PROVE  tab[Idle(d)].status = "READY"
      BY DEF IdleOn
    <3>1. Idle(d) \in Thread \ {cur} /\ pcb[Idle(d)].status = "READY"
      BY <1>1, ThreadFacts DEF CpusOk, IdleOn
    <3>2. tab[Idle(d)].status \in {"RUNNING", "READY"}
      BY <2>3 DEF GoodTab, TabIdle
    <3> QED BY <2>2, <3>1, <3>2 DEF OnCpu
  <2> QED BY <2>1, <2>3, <2>4, <2>5, <2>6 DEF SchedPre, SwitchPre, cur
<1>6. DoScheduler(c, tab) /\ KeepDue
  BY DEF Exit, tab, mid, cur
<1>7. /\ ProcInv' /\ Follows(tab, pcb', glush') /\ OnlyShellAdded(tab, pcb', glush')
      /\ pcb'[cur].status = "EXITED"
  BY <1>4, <1>5, <1>6, SchedulerStep DEF Became, cur
<1>8. \A t \in Thread \ {cur} :
        /\ pcb[t].status \in {"FREE", "EXITING"} => tab[t].status = pcb[t].status
        /\ pcb[t].status \in {"EXITED", "ZOMBIE"} => tab[t].status \in {pcb[t].status, "FREE"}
        /\ pcb[t].status = "RUNNING" => tab[t].status \in OnCpu
  BY <1>2, <1>4 DEF Became, Killed, SameOnCpu, OnCpu
<1>9. pcb[cur].status \in OnCpu
  BY <1>1 DEF CpusOk, cur
<1>10. StaysDead(pcb, pcb', glush')
  <2>1. StaysDead(tab, pcb', glush') /\ OnlyShellAdded(tab, pcb', glush')
    BY <1>7 DEF Follows
  <2>2. ASSUME NEW t \in Thread \ {<<glush', 0>>}
        PROVE  /\ pcb[t].status = "EXITING" => pcb'[t].status \in {"EXITING", "EXITED"}
               /\ pcb[t].status \in {"EXITED", "ZOMBIE"} =>
                    pcb'[t].status \in {pcb[t].status, "FREE"}
               /\ pcb[t].status = "RUNNING" => pcb'[t].status # "FREE"
    <3>1. CASE t = cur
      BY <1>7, <1>9, <3>1 DEF OnCpu
    <3>2. CASE t # cur
      BY <1>8, <2>1, <3>2 DEF StaysDead, OnlyShellAdded, OnCpu
    <3> QED BY <3>1, <3>2
  <2> QED BY <2>2 DEF StaysDead
<1>11. NoneAdded(pcb, tab)
  BY <1>8, <1>9 DEF NoneAdded, OnCpu
<1>12. Fits(pcb) => Fits(pcb')
  BY <1>7, <1>11, NoneAddedFits DEF Follows
<1> QED BY <1>7, <1>10, <1>12 DEF Follows

\* do_thread_exit(): the thread becomes a zombie that its process collects.
LEMMA ThreadExitStep ==
  ASSUME ProcInv, NEW c \in CPU, ThreadExit(c)
  PROVE  ProcInv' /\ Follows(pcb, pcb', glush')
<1> DEFINE cur == current[c]
           tab == SetStatus(pcb, cur, "ZOMBIE")
<1>1. /\ GoodTab(pcb) /\ CpusOk(pcb, current) /\ cur \in Thread
      /\ cur[1] >= NCPU /\ cur[1] \in Pid /\ cur[2] # 0
      /\ pcb[cur].status = "RUNNING"
  BY PartsOfProcInv, ThreadFacts DEF CpusOk, ThreadExit, Syscall, Trap
<1> HIDE DEF cur
<1>2. Became(pcb, cur, "ZOMBIE", tab)
  <2>1. CanBecome(pcb, cur, "ZOMBIE") /\ "ZOMBIE" \in Status
    BY <1>1, ConstantsAssumption DEF CanBecome, Status, Pid
  <2> QED BY <1>1, <2>1, SetStatusGood
<1> HIDE DEF tab
<1>3. SchedPre(tab, current, c)
  <2>1. current \in [CPU -> Thread] /\ Injective(current)
    BY <1>1 DEF CpusOk
  <2>2. /\ tab[cur].status = "ZOMBIE" /\ GoodTab(tab)
        /\ \A t \in Thread \ {cur} : tab[t] = pcb[t]
    BY <1>2 DEF Became
  <2>3. Owned(tab, current)
    BY <1>1, <2>2 DEF CpusOk, Owned, OnCpu
  <2>4. \A d \in CPU \ {c} : tab[current[d]].status \in OnCpu
    BY <1>1, <2>1, <2>2 DEF CpusOk, Injective, cur
  <2>5. IdleOn(tab, current)
    BY <1>1, <2>2, ThreadFacts DEF CpusOk, IdleOn
  <2> QED BY <2>1, <2>2, <2>3, <2>4, <2>5 DEF SchedPre, SwitchPre, cur
<1>4. DoScheduler(c, tab) /\ KeepDue
  BY DEF ThreadExit, tab, cur
<1>5. ProcInv' /\ Follows(tab, pcb', glush') /\ pcb'[cur].status = "ZOMBIE"
  BY <1>2, <1>3, <1>4, SchedulerStep DEF Became, cur
<1>6. StaysDead(pcb, pcb', glush')
  BY <1>1, <1>2, <1>5 DEF StaysDead, Follows, Became
<1>7. NoneAdded(pcb, tab)
  BY <1>1, <1>2 DEF NoneAdded, Became
<1>8. Fits(pcb) => Fits(pcb')
  BY <1>5, <1>7, NoneAddedFits DEF Follows
<1> QED BY <1>5, <1>6, <1>8 DEF Follows

\* A trap that switches no CPU.
LEMMA SameCpusStep ==
  ASSUME ProcInv, GoodTab(pcb'), SameOnCpu(pcb, pcb'), current' = current,
         GlushIn(pcb', glush'), due' \in SUBSET Thread,
         \A t \in due' : pcb'[t].phead = SleepQ
  PROVE  ProcInv'
<1>1. CpusOk(pcb, current)
  BY PartsOfProcInv
<1>2. IdleOn(pcb', current')
  <2> SUFFICES ASSUME NEW d \in CPU, current[d] # Idle(d)
               PROVE  pcb'[Idle(d)].status = "READY"
    BY DEF IdleOn
  <2>1. Idle(d) \in Thread /\ pcb[Idle(d)].status = "READY"
    BY <1>1, ThreadFacts DEF CpusOk, IdleOn
  <2>2. pcb'[Idle(d)].status \in {"RUNNING", "READY"}
    BY DEF GoodTab, TabIdle
  <2> QED BY <2>1, <2>2 DEF SameOnCpu, OnCpu
<1>3. CpusOk(pcb', current')
  BY <1>1, <1>2 DEF CpusOk, Owned, SameOnCpu
<1> QED BY <1>3, ProcInvFromParts

\* do_kill() by another process, with the waiters it wakes and the shell's restart.
LEMMA KillStep ==
  ASSUME ProcInv, NEW c \in CPU, NEW p \in Pid, Kill(c, p)
  PROVE  ProcInv' /\ Follows(pcb, pcb', glush')
<1>1. PICK W \in SUBSET ResSleepers(pcb) :
        \E r \in Restarts(DoKill(Wake(pcb, W), {p})) : pcb' = r.pcb /\ glush' = r.glush
  BY DEF Kill
<1>2. PICK r \in Restarts(DoKill(Wake(pcb, W), {p})) : pcb' = r.pcb /\ glush' = r.glush
  BY <1>1
<1>3. GoodTab(pcb) /\ due \in SUBSET Thread /\ glush \in (NCPU .. PidMax) \cup {NoPid}
  BY PartsOfProcInv DEF GlushIn
<1>4. W \in SUBSET Thread /\ \A t \in W : pcb[t].status = "SLEEPING"
  BY <1>3, QueueFacts DEF ResSleepers, GoodTab, TabQueues
<1>5. Woken(pcb, W, Wake(pcb, W))
  BY <1>3, <1>4, WakeGood
<1>6. Killed(Wake(pcb, W), {p}, DoKill(Wake(pcb, W), {p}))
  <2>1. GoodTab(Wake(pcb, W)) /\ {p} \in SUBSET Pid /\ \A q \in {p} : q >= NCPU
    BY <1>5 DEF Woken, Kill
  <2> QED BY <2>1, DoKillGood
<1>7. Restarted(DoKill(Wake(pcb, W), {p}), r)
  <2>1. GoodTab(DoKill(Wake(pcb, W), {p}))
    BY <1>6 DEF Killed
  <2> QED BY <1>3, <2>1, RestartsGood
<1>8. GoodTab(pcb') /\ SameOnCpu(pcb, pcb') /\ GlushIn(pcb', glush')
  BY <1>2, <1>5, <1>6, <1>7 DEF Woken, Killed, Restarted, SameOnCpu
<1>9. /\ current' = current /\ due' \in SUBSET Thread
      /\ \A t \in due' : pcb'[t].phead = SleepQ
  BY <1>3 DEF Kill, KeepDue
<1>10. \A t \in Thread :
         LET u == DoKill(Wake(pcb, W), {p})[t].status IN
         /\ pcb[t].status \in {"FREE", "EXITING"} => u = pcb[t].status
         /\ pcb[t].status \in {"EXITED", "ZOMBIE"} => u \in {pcb[t].status, "FREE"}
         /\ pcb[t].status = "RUNNING" => u \in OnCpu
  <2> DEFINE a == Wake(pcb, W)
             b == DoKill(a, {p})
  <2>1. Woken(pcb, W, a) /\ Killed(a, {p}, b)
    BY <1>5, <1>6
  <2> HIDE DEF a, b
  <2>2. ASSUME NEW t \in Thread
        PROVE  /\ pcb[t].status \in {"FREE", "EXITING"} => b[t].status = pcb[t].status
               /\ pcb[t].status \in {"EXITED", "ZOMBIE"} =>
                    b[t].status \in {pcb[t].status, "FREE"}
               /\ pcb[t].status = "RUNNING" => b[t].status \in OnCpu
    <3>1. pcb[t].status = "SLEEPING" \/ a[t].status = pcb[t].status
      BY <1>4, <2>1 DEF Woken
    <3>2. \/ a[t].status = "SLEEPING" \/ b[t].status = a[t].status
          \/ a[t].status \in OnCpu /\ b[t].status = "EXITING"
          \/ a[t].status \notin OnCpu /\ b[t].status = "FREE"
      BY <2>1 DEF Killed, SameOnCpu, OnCpu
    <3> QED BY <3>1, <3>2 DEF OnCpu
  <2> QED BY <2>2 DEF a, b
<1>11. StaysDead(pcb, pcb', glush')
  BY <1>2, <1>7, <1>10 DEF Restarted, StaysDeadInPlace, StaysDead, OnCpu
<1>12. Fits(pcb) => Fits(pcb')
  BY <1>2, <1>7, <1>10, NoneAddedFits DEF Restarted, NoneAdded
<1> QED BY <1>8, <1>9, <1>11, <1>12, SameCpusStep DEF Follows

\* do_exec(), do_taskset(create), do_fork() and do_thread_create()
LEMMA AddStep ==
  ASSUME ProcInv, NEW n \in Thread, Added(pcb, n, pcb'), HasRoom(pcb),
         UNCHANGED <<current, glush, due>>
  PROVE  ProcInv' /\ Follows(pcb, pcb', glush')
<1>1. GoodTab(pcb) /\ due \in SUBSET Thread /\ GlushIn(pcb, glush)
  BY PartsOfProcInv
<1>2. \A t \in due' : pcb'[t].phead = SleepQ
  <2> SUFFICES ASSUME NEW t \in due PROVE pcb'[t].phead = SleepQ
    OBVIOUS
  <2>1. t \in Thread /\ pcb[t].phead = SleepQ
    BY <1>1 DEF ProcInv, DueSleeps
  <2>2. t # n
    BY <1>1, <2>1, QueueFacts DEF Added, GoodTab, TabQueues
  <2> QED BY <2>1, <2>2 DEF Added
<1>3. GlushIn(pcb', glush')
  BY <1>1 DEF GlushIn, Added
<1>4. StaysDead(pcb, pcb', glush')
  BY DEF StaysDead, Added
<1>5. Fits(pcb')
  BY OneAddedFits DEF Added
<1> QED BY <1>1, <1>2, <1>3, <1>4, <1>5, SameCpusStep DEF Added, Follows

\* do_exec() takes a free PCB for the main thread of a new process.
LEMMA ExecStep ==
  ASSUME ProcInv, NEW c \in CPU, NEW p \in Pid, NEW m \in SUBSET CPU, Exec(c, p, m)
  PROVE  ProcInv' /\ Follows(pcb, pcb', glush')
<1>1. Added(pcb, <<p, 0>>, pcb') /\ <<p, 0>> \in Thread
  BY PartsOfProcInv, AddMainGood, FreePidFacts DEF Exec
<1> QED BY <1>1, AddStep DEF Exec

\* do_fork() takes a free PCB for the child, on the caller's CPUs.
LEMMA ForkStep ==
  ASSUME ProcInv, NEW c \in CPU, NEW p \in Pid, Fork(c, p)
  PROVE  ProcInv' /\ Follows(pcb, pcb', glush')
<1>1. pcb[current[c]].mask \in SUBSET CPU
  BY DEF ProcInv, TypeOK, Pcb
<1>2. Added(pcb, <<p, 0>>, pcb') /\ <<p, 0>> \in Thread
  BY <1>1, PartsOfProcInv, AddMainGood, FreePidFacts DEF Fork
<1> QED BY <1>2, AddStep DEF Fork

\* do_thread_create() takes a free PCB for a thread of the caller.
LEMMA ThreadCreateStep ==
  ASSUME ProcInv, NEW c \in CPU, NEW tid \in 0 .. TidMax, ThreadCreate(c, tid)
  PROVE  ProcInv' /\ Follows(pcb, pcb', glush')
<1> DEFINE cur == current[c]
<1>1. /\ GoodTab(pcb) /\ cur \in Thread /\ cur[1] \in Pid /\ cur[1] >= NCPU
      /\ pcb[cur].status = "RUNNING"
  BY PartsOfProcInv, ThreadFacts DEF CpusOk, ThreadCreate, Syscall, Trap
<1>2. PICK n \in Thread : n = <<cur[1], tid>>
  BY <1>1, ThreadFacts
<1>3. /\ n[1] = cur[1] /\ pcb[n].status = "FREE"
      /\ pcb' = AddThread(pcb, n, CPU) /\ UNCHANGED <<current, glush, due>>
      /\ HasRoom(pcb)
  BY <1>1, <1>2, ThreadFacts DEF ThreadCreate
<1> HIDE DEF cur
<1>4. CanAdd(pcb, n)
  <2>1. pcb[<<cur[1], 0>>].status # "FREE"
    BY <1>1 DEF GoodTab, TabMain, Dying
  <2>2. \A t \in Thread : t[1] = cur[1] => pcb[t].status \notin Dying
    BY <1>1 DEF GoodTab, TabDying, Dying
  <2> QED BY <1>1, <1>3, <2>1, <2>2 DEF CanAdd
<1>5. Added(pcb, n, pcb')
  <2>1. CPU \in SUBSET CPU
    OBVIOUS
  <2> QED BY <1>1, <1>3, <1>4, <2>1, AddThreadGood
<1> QED BY <1>3, <1>5, AddStep

\* do_block() on a queue that exists
LEMMA BlockStep ==
  ASSUME ProcInv, NEW c \in CPU, Syscall(c), NEW q \in BlockQs,
         \A u \in Thread : q = WaitQ(u) => pcb[u].status # "FREE",
         DoBlock(c, q)
  PROVE  ProcInv' /\ Follows(pcb, pcb', glush')
<1> DEFINE cur == current[c]
           mid == Update(pcb, cur, [pcb[cur] EXCEPT !.status = "SLEEPING", !.phead = q])
<1> USE QueueFacts, ThreadFacts
<1>1. /\ GoodTab(pcb) /\ CpusOk(pcb, current) /\ GlushIn(pcb, glush) /\ due \in SUBSET Thread
      /\ cur \in Thread /\ cur[1] >= NCPU /\ pcb[cur].status = "RUNNING"
  BY PartsOfProcInv DEF CpusOk, Syscall, Trap
<1>2. PICK n \in Eligible(pcb, c) :
        pcb' = SetStatus(mid, n, "RUNNING") /\ current' = [current EXCEPT ![c] = n]
  BY DEF DoBlock
<1> HIDE DEF cur
<1>3. /\ mid \in [Thread -> Pcb] /\ mid[cur].status = "SLEEPING" /\ mid[cur].phead = q
      /\ \A t \in Thread \ {cur} : mid[t] = pcb[t]
  <2>1. pcb[cur] \in [status : Status, phead : Queue, mask : SUBSET CPU]
    BY <1>1 DEF GoodTab, TabType, Pcb
  <2> DEFINE e == [pcb[cur] EXCEPT !.status = "SLEEPING", !.phead = q]
  <2>2. e \in Pcb /\ e.status = "SLEEPING" /\ e.phead = q
    BY <2>1 DEF Pcb, Status
  <2> HIDE DEF e
  <2>3. mid = [t \in Thread |-> IF t = cur THEN e ELSE pcb[t]]
    BY DEF Update, e
  <2> HIDE DEF mid
  <2>4. \A t \in Thread : mid[t] \in Pcb
    BY <1>1, <2>2, <2>3 DEF GoodTab, TabType
  <2> QED BY <1>1, <2>2, <2>3, <2>4
<1> HIDE DEF mid
<1>4. GoodTab(mid)
  <2>1. TabQueues(mid)
    BY <1>1, <1>3 DEF GoodTab, TabQueues
  <2>2. TabWaits(mid)
    BY <1>1, <1>3 DEF GoodTab, TabWaits
  <2>3. TabDying(mid)
    BY <1>1, <1>3 DEF GoodTab, TabDying, Dying
  <2>4. TabIdle(mid)
    <3> SUFFICES ASSUME NEW d \in CPU
                 PROVE  /\ mid[Idle(d)].mask = {d}
                        /\ mid[Idle(d)].status \in {"RUNNING", "READY"}
                        /\ \A i \in 1 .. TidMax : mid[<<d, i>>].status = "FREE"
      BY DEF TabIdle
    <3>1. Idle(d) # cur /\ \A i \in 1 .. TidMax : <<d, i>> \in Thread \ {cur}
      BY <1>1, ConstantsAssumption
    <3> QED BY <1>1, <1>3, <3>1 DEF GoodTab, TabIdle
  <2>5. TabMain(mid)
    <3> SUFFICES ASSUME NEW t \in Thread
                 PROVE  /\ mid[t].status \notin Dying \cup {"FREE"}
                             => mid[<<t[1], 0>>].status # "FREE"
                        /\ mid[t].status = "ZOMBIE" => t[2] # 0
      BY DEF TabMain
    <3>1. <<t[1], 0>> \in Thread
      BY ConstantsAssumption
    <3> QED BY <1>1, <1>3, <3>1 DEF GoodTab, TabMain, Dying
  <2> QED BY <1>3, <2>1, <2>2, <2>3, <2>4, <2>5 DEF GoodTab, TabType
<1>5. SwitchPre(mid, current, c)
  <2>1. current \in [CPU -> Thread] /\ Injective(current)
    BY <1>1 DEF CpusOk
  <2>2. Owned(mid, current)
    BY <1>1, <1>3 DEF CpusOk, Owned, OnCpu
  <2>3. \A d \in CPU \ {c} : mid[current[d]].status \in OnCpu
    BY <1>1, <1>3, <2>1 DEF CpusOk, Injective, cur
  <2>4. IdleOn(mid, current)
    BY <1>1, <1>3 DEF CpusOk, IdleOn
  <2> QED BY <1>3, <1>4, <2>1, <2>2, <2>3, <2>4 DEF SwitchPre, cur
<1>6. n \in Eligible(mid, c)
  BY <1>1, <1>3 DEF Eligible
<1>7. GoodTab(pcb') /\ SameUsed(mid, pcb') /\ CpusOk(pcb', current')
  <2>1. mid[current[c]].status # "RUNNING"
    BY <1>3 DEF cur
  <2> QED BY <1>2, <1>5, <1>6, <2>1, SwitchGood
<1>10. n \in Thread \ {cur} /\ pcb[n].status = "READY" /\ mid[n].status = "READY"
  BY <1>1, <1>3 DEF Eligible
<1>11. \A t \in Thread : pcb'[t].status = IF t = n THEN "RUNNING" ELSE mid[t].status
  BY <1>2, <1>3, <1>10 DEF SetStatus, Update, Pcb
<1>12. StaysDead(pcb, pcb', glush') /\ NoneAdded(pcb, pcb')
  BY <1>1, <1>3, <1>10, <1>11 DEF StaysDead, NoneAdded
<1>8. GlushIn(pcb', glush')
  BY <1>1, <1>3, <1>7 DEF GlushIn, SameUsed, DoBlock
<1>9. due' \in SUBSET Thread /\ \A t \in due' : pcb'[t].phead = SleepQ
  BY <1>1 DEF DoBlock, KeepDue
<1> QED BY <1>7, <1>8, <1>9, <1>12, NoneAddedFits, ProcInvFromParts DEF Follows

\* do_sleep() blocks the caller in the queue of sleepers.
LEMMA SleepStep ==
  ASSUME ProcInv, NEW c \in CPU, Sleep(c)
  PROVE  ProcInv' /\ Follows(pcb, pcb', glush')
<1>1. SleepQ \in BlockQs /\ \A u \in Thread : SleepQ # WaitQ(u)
  BY QueueFacts
<1> QED BY <1>1, BlockStep DEF Sleep

\* do_waitpid() blocks the caller in the wait queue of a live process.
LEMMA WaitpidStep ==
  ASSUME ProcInv, NEW c \in CPU, NEW p \in Pid, Waitpid(c, p)
  PROVE  ProcInv' /\ Follows(pcb, pcb', glush')
<1>1. PICK u \in SearchPid(p) : DoBlock(c, WaitQ(u))
  BY DEF Waitpid
<1>2. u \in Thread /\ pcb[u].status # "FREE"
  BY ThreadFacts DEF SearchPid, ThreadsOf
<1>3. WaitQ(u) \in BlockQs /\ \A v \in Thread : WaitQ(u) = WaitQ(v) => pcb[v].status # "FREE"
  BY <1>2, QueueFacts
<1> QED BY <1>1, <1>3, BlockStep DEF Waitpid

\* do_thread_wait() blocks the caller in the wait queue of a thread of its process.
LEMMA ThreadWaitStep ==
  ASSUME ProcInv, NEW c \in CPU, NEW tid \in 0 .. TidMax, ThreadWait(c, tid)
  PROVE  ProcInv' /\ Follows(pcb, pcb', glush')
<1>1. current[c][1] \in Pid
  BY PartsOfProcInv, ThreadFacts DEF CpusOk
<1>2. PICK u \in Thread : u = <<current[c][1], tid>>
  BY <1>1, ThreadFacts
<1>3. Syscall(c) /\ pcb[u].status # "FREE" /\ DoBlock(c, WaitQ(u))
  BY <1>2 DEF ThreadWait
<1>4. WaitQ(u) \in BlockQs /\ \A v \in Thread : WaitQ(u) = WaitQ(v) => pcb[v].status # "FREE"
  BY <1>3, QueueFacts
<1> QED BY <1>3, <1>4, BlockStep

\* A lock, semaphore, barrier, mailbox or the network card blocks the caller.
LEMMA ResourceStep ==
  ASSUME ProcInv, NEW c \in CPU, NEW r \in Resource, Block(c, r)
  PROVE  ProcInv' /\ Follows(pcb, pcb', glush')
<1>1. ResQ(r) \in ResQs
  BY DEF ResQs
<1>2. ResQ(r) \in BlockQs /\ \A u \in Thread : ResQ(r) # WaitQ(u)
  BY <1>1, QueueFacts
<1> QED BY <1>2, BlockStep DEF Block

\* do_unblock() of sleepers on a resource makes them ready.
LEMMA UnblockStep ==
  ASSUME ProcInv, NEW c \in CPU, NEW W \in SUBSET ResSleepers(pcb), Unblock(c, W)
  PROVE  ProcInv' /\ Follows(pcb, pcb', glush')
<1>1. GoodTab(pcb) /\ GlushIn(pcb, glush) /\ due \in SUBSET Thread
  BY PartsOfProcInv
<1>2. W \in SUBSET Thread /\ \A t \in W : pcb[t].status = "SLEEPING" /\ pcb[t].phead \in ResQs
  BY <1>1, QueueFacts DEF ResSleepers, GoodTab, TabQueues
<1>3. Woken(pcb, W, pcb') /\ UNCHANGED <<current, glush, due>>
  BY <1>1, <1>2, WakeGood DEF Unblock
<1>4. GlushIn(pcb', glush')
  BY <1>1, <1>3 DEF GlushIn, Woken
<1>5. \A t \in due' : pcb'[t].phead = SleepQ
  BY <1>1, <1>2, <1>3, QueueFacts DEF ProcInv, DueSleeps, Woken
<1>6. StaysDead(pcb, pcb', glush') /\ NoneAdded(pcb, pcb')
  BY <1>2, <1>3 DEF StaysDead, NoneAdded, Woken
<1> QED BY <1>1, <1>3, <1>4, <1>5, <1>6, NoneAddedFits, SameCpusStep DEF Woken, Follows

\* do_taskset() changes the masks of a process and touches no queue.
LEMMA TasksetStep ==
  ASSUME ProcInv, NEW c \in CPU, NEW p \in Pid, NEW m \in SUBSET CPU, Taskset(c, p, m)
  PROVE  ProcInv' /\ Follows(pcb, pcb', glush')
<1> USE ThreadFacts
<1>1. GoodTab(pcb) /\ GlushIn(pcb, glush) /\ due \in SUBSET Thread /\ p >= NCPU
  BY PartsOfProcInv DEF Taskset
<1>2. /\ pcb' \in [Thread -> Pcb]
      /\ \A t \in Thread : pcb'[t].status = pcb[t].status /\ pcb'[t].phead = pcb[t].phead
      /\ \A t \in Thread : t[1] # p => pcb'[t].mask = pcb[t].mask
  <2>1. pcb' = [t \in Thread |-> IF t \in ThreadsOf(pcb, p)
                                 THEN [pcb[t] EXCEPT !.mask = m] ELSE pcb[t]]
    BY DEF Taskset
  <2>2. \A t \in Thread : pcb[t] \in [status : Status, phead : Queue, mask : SUBSET CPU]
    BY <1>1 DEF GoodTab, TabType, Pcb
  <2>3. pcb' \in [Thread -> Pcb]
    <3> SUFFICES ASSUME NEW t \in Thread PROVE pcb'[t] \in Pcb
      BY <2>1
    <3>1. pcb'[t] = IF t \in ThreadsOf(pcb, p) THEN [pcb[t] EXCEPT !.mask = m] ELSE pcb[t]
      BY <2>1
    <3> QED BY <2>2, <3>1 DEF Pcb
  <2> QED BY <2>1, <2>2, <2>3 DEF ThreadsOf
<1>3. GoodTab(pcb')
  <2>1. TabQueues(pcb') /\ TabWaits(pcb') /\ TabDying(pcb')
    BY <1>1, <1>2 DEF GoodTab, TabQueues, TabWaits, TabDying
  <2>2. TabMain(pcb')
    <3>1. \A t \in Thread : <<t[1], 0>> \in Thread
      BY ConstantsAssumption
    <3> QED BY <1>1, <1>2, <3>1 DEF GoodTab, TabMain
  <2>3. TabIdle(pcb')
    <3>1. \A d \in CPU : \A i \in 1 .. TidMax : <<d, i>> \in Thread /\ <<d, i>>[1] = d
      <4>1. \A i \in 1 .. TidMax : i \in 0 .. TidMax
        BY ConstantsAssumption
      <4> QED BY <4>1
    <3> QED BY <1>1, <1>2, <3>1 DEF GoodTab, TabIdle
  <2> QED BY <1>2, <2>1, <2>2, <2>3 DEF GoodTab, TabType
<1>4. SameOnCpu(pcb, pcb') /\ GlushIn(pcb', glush')
  BY <1>1, <1>2 DEF SameOnCpu, GlushIn, Taskset
<1>5. due' = due /\ current' = current /\ \A t \in due' : pcb'[t].phead = SleepQ
  BY <1>1, <1>2 DEF Taskset, ProcInv, DueSleeps
<1>6. StaysDead(pcb, pcb', glush') /\ NoneAdded(pcb, pcb')
  BY <1>2 DEF StaysDead, NoneAdded
<1> QED BY <1>1, <1>3, <1>4, <1>5, <1>6, NoneAddedFits, SameCpusStep DEF Follows

\* The wake-up time of a sleeper comes.
LEMMA TimePassesStep ==
  ASSUME ProcInv, NEW t \in Thread, TimePasses(t)
  PROVE  ProcInv' /\ Follows(pcb, pcb', glush')
<1>1. GoodTab(pcb) /\ CpusOk(pcb, current) /\ GlushIn(pcb, glush) /\ due \in SUBSET Thread
  BY PartsOfProcInv
<1>2. due' \in SUBSET Thread /\ \A u \in due' : pcb'[u].phead = SleepQ
  BY <1>1 DEF TimePasses, ProcInv, DueSleeps
<1>3. StaysDead(pcb, pcb', glush') /\ NoneAdded(pcb, pcb')
  BY DEF TimePasses, StaysDead, NoneAdded
<1> QED BY <1>1, <1>2, <1>3, NoneAddedFits, ProcInvFromParts DEF TimePasses, Follows
-----------------------------------------------------------------------------
\* init_pcb() and the first start_glush() establish the invariant.
LEMMA InitProcInv == Init => ProcInv
<1> SUFFICES ASSUME Init PROVE ProcInv
  OBVIOUS
<1> USE QueueFacts, ThreadFacts
<1> DEFINE first == <<NCPU, 0>>
           IsIdle(t) == \E c \in CPU : t = Idle(c)
<1>1. /\ first \in Thread /\ first[1] = NCPU /\ first[2] = 0 /\ ~IsIdle(first)
      /\ NCPU \in NCPU .. PidMax /\ NCPU \notin CPU
  BY ConstantsAssumption DEF Pid, CPU
<1>2. /\ \A t \in Thread : IsIdle(t) => /\ pcb[t].status = "RUNNING" /\ pcb[t].phead = ReadyQ
                                        /\ pcb[t].mask = {t[1]} /\ t[1] \in CPU /\ t[2] = 0
      /\ pcb[first] = [status |-> "READY", phead |-> ReadyQ, mask |-> CPU]
      /\ \A t \in Thread : ~IsIdle(t) /\ t # first => pcb[t] = FreePcb
  BY <1>1 DEF Init, Idle
<1>3. TypeOK
  <2>1. \A t \in Thread : pcb[t] \in Pcb
    <3>1. FreePcb \in Pcb
      BY DEF FreePcb, Pcb, Status
    <3>2. [status |-> "READY", phead |-> ReadyQ, mask |-> CPU] \in Pcb
      BY DEF Pcb, Status
    <3>3. \A c \in CPU : [status |-> "RUNNING", phead |-> ReadyQ, mask |-> {c}] \in Pcb
      BY DEF Pcb, Status
    <3> QED BY <3>1, <3>2, <3>3 DEF Init
  <2>2. pcb \in [Thread -> Pcb]
    BY <2>1 DEF Init
  <2> QED BY <1>1, <2>2 DEF TypeOK, Init
<1>4. OneCpuEach
  BY <1>1, <1>2 DEF OneCpuEach, OnCpu, Init, Idle, FreePcb
<1>5. QueueMatchesStatus
  BY <1>1, <1>2 DEF QueueMatchesStatus, FreePcb, BlockQs
<1>6. NoDanglingWait
  BY <1>1, <1>2 DEF NoDanglingWait, FreePcb
<1>7. DyingTogether
  BY <1>1, <1>2 DEF DyingTogether, Dying, FreePcb
<1>8. IdleAvailable
  <2> SUFFICES ASSUME NEW c \in CPU
               PROVE  /\ pcb[Idle(c)].mask = {c}
                      /\ \A i \in 1 .. TidMax : pcb[<<c, i>>].status = "FREE"
                      /\ current[c] = Idle(c) /\ pcb[Idle(c)].status = "RUNNING"
    BY DEF IdleAvailable
  <2>1. \A i \in 1 .. TidMax :
          <<c, i>> \in Thread /\ <<c, i>>[1] = c /\ <<c, i>>[2] = i /\ i # 0
    BY ConstantsAssumption
  <2> QED BY <1>1, <1>2, <2>1 DEF Init, FreePcb
<1>9. MainThreadAlive
  <2> SUFFICES ASSUME NEW t \in Thread, pcb[t].status # "FREE"
               PROVE  pcb[<<t[1], 0>>].status # "FREE" /\ pcb[t].status # "ZOMBIE"
    BY DEF MainThreadAlive
  <2>1. t = <<t[1], 0>>
    BY <1>1, <1>2 DEF FreePcb
  <2> QED BY <1>1, <1>2, <2>1 DEF FreePcb
<1>10. GlushAlive /\ DueSleeps
  BY <1>1, <1>2 DEF GlushAlive, DueSleeps, ThreadsOf, Init
<1> QED BY <1>3, <1>4, <1>5, <1>6, <1>7, <1>8, <1>9, <1>10 DEF ProcInv

\* Every trap preserves the invariant.
LEMMA NextProcInv == ProcInv /\ [Next]_vars => ProcInv' /\ Follows(pcb, pcb', glush')
<1> DEFINE Kept == ProcInv' /\ Follows(pcb, pcb', glush')
<1> SUFFICES ASSUME ProcInv, [Next]_vars PROVE Kept
  OBVIOUS
<1>1. CASE UNCHANGED vars
  <2>1. ProcInv'
    BY <1>1 DEF vars, ProcInv, TypeOK, OneCpuEach, QueueMatchesStatus, NoDanglingWait,
                DyingTogether, IdleAvailable, MainThreadAlive, GlushAlive, ThreadsOf, DueSleeps
  <2>2. StaysDead(pcb, pcb', glush') /\ NoneAdded(pcb, pcb')
    BY <1>1 DEF vars, StaysDead, NoneAdded
  <2> QED BY <2>1, <2>2, NoneAddedFits DEF Follows
<1>2. ASSUME NEW c \in CPU, Timer(c) PROVE Kept
  BY <1>2, TimerStep
<1>3. ASSUME NEW c \in CPU, Exit(c) PROVE Kept
  BY <1>3, ExitStep
<1>4. ASSUME NEW c \in CPU, ThreadExit(c) PROVE Kept
  BY <1>4, ThreadExitStep
<1>5. ASSUME NEW c \in CPU, Sleep(c) PROVE Kept
  BY <1>5, SleepStep
<1>6. ASSUME NEW c \in CPU, NEW p \in Pid, Kill(c, p) PROVE Kept
  BY <1>6, KillStep
<1>7. ASSUME NEW c \in CPU, NEW p \in Pid, Waitpid(c, p) PROVE Kept
  BY <1>7, WaitpidStep
<1>8. ASSUME NEW c \in CPU, NEW p \in Pid, Fork(c, p) PROVE Kept
  BY <1>8, ForkStep
<1>9. ASSUME NEW c \in CPU, NEW p \in Pid, NEW m \in SUBSET CPU, Exec(c, p, m) PROVE Kept
  BY <1>9, ExecStep
<1>10. ASSUME NEW c \in CPU, NEW p \in Pid, NEW m \in SUBSET CPU, Taskset(c, p, m)
       PROVE  Kept
  BY <1>10, TasksetStep
<1>11. ASSUME NEW c \in CPU, NEW tid \in 0 .. TidMax, ThreadCreate(c, tid) PROVE Kept
  BY <1>11, ThreadCreateStep
<1>12. ASSUME NEW c \in CPU, NEW tid \in 0 .. TidMax, ThreadWait(c, tid) PROVE Kept
  BY <1>12, ThreadWaitStep
<1>13. ASSUME NEW c \in CPU, NEW r \in Resource, Block(c, r) PROVE Kept
  BY <1>13, ResourceStep
<1>14. ASSUME NEW c \in CPU, NEW W \in SUBSET ResSleepers(pcb), Unblock(c, W) PROVE Kept
  BY <1>14, UnblockStep
<1>15. ASSUME NEW t \in Thread, TimePasses(t) PROVE Kept
  BY <1>15, TimePassesStep
<1> QED BY <1>1, <1>2, <1>3, <1>4, <1>5, <1>6, <1>7, <1>8, <1>9, <1>10, <1>11, <1>12,
           <1>13, <1>14, <1>15 DEF Next

\* The scheduler keeps its table, its queues and its CPUs consistent whatever
\* the interleaving of traps, for any number of CPUs, PIDs, TIDs and resources.
THEOREM ProcInvariant == Spec => []ProcInv
<1> QED BY InitProcInv, NextProcInv, PTL DEF Spec

\* pcb_table[] is not full after init_pcb(): it has UPROC_MAX more entries than
\* there are CPUs.
LEMMA InitFits == Init => TableFits
<1> SUFFICES ASSUME Init PROVE TableFits
  OBVIOUS
<1> DEFINE S == (0 .. NCPU) \X {0}
<1>1. Used(pcb) \in SUBSET S
  <2> SUFFICES ASSUME NEW t \in Thread, pcb[t].status # "FREE"
               PROVE  t \in S
    BY DEF Used
  <2>1. (\E c \in CPU : t = Idle(c)) \/ t = <<NCPU, 0>>
    BY DEF Init, FreePcb
  <2> QED BY <2>1, ConstantsAssumption DEF CPU, Idle
<1>2. IsFiniteSet(0 .. NCPU) /\ Cardinality(0 .. NCPU) = NCPU + 1
  BY FS_Interval, ConstantsAssumption
<1>3. IsFiniteSet({0}) /\ Cardinality({0}) = 1
  BY FS_Singleton
<1>4. IsFiniteSet(S) /\ Cardinality(S) = Cardinality(0 .. NCPU) * Cardinality({0})
  <2> HIDE <1>1
  <2> QED BY <1>2, <1>3, FS_Product
<1>5. Cardinality(Used(pcb)) <= NCPU + 1
  <2>1. Cardinality(S) = NCPU + 1
    BY <1>2, <1>3, <1>4, ConstantsAssumption
  <2> HIDE DEF S
  <2> QED BY <1>1, <1>4, <2>1, FS_Subset
<1> QED BY <1>5, UsedFinite, ConstantsAssumption DEF TableFits

\* pcb_table[] never holds more PCBs than it has entries, whichever of
\* do_exec(), do_fork(), do_thread_create() and a restart of the shell adds one.
THEOREM TableNeverOverflows == Spec => []TableFits
<1>1. ProcInv /\ TableFits /\ [Next]_vars => (ProcInv /\ TableFits)'
  BY NextProcInv DEF Follows, Fits, TableFits
<1> QED BY <1>1, InitProcInv, InitFits, PTL DEF Spec

\* A PCB is never freed while a CPU runs it, and a thread that do_kill() or
\* do_exit() has marked never runs user code again, in any step of any CPU.
THEOREM KilledNeverReturns == Spec => KilledStaysKilled
<1>1. ProcInv /\ [Next]_vars =>
        \A t \in Thread \ {<<glush', 0>>} :
          LET old == pcb[t].status  new == pcb'[t].status IN
          /\ old = "EXITING" => new \in {"EXITING", "EXITED"}
          /\ old \in {"EXITED", "ZOMBIE"} => new \in {old, "FREE"}
          /\ old = "RUNNING" => new # "FREE"
  BY NextProcInv DEF Follows, StaysDead
<1> QED BY <1>1, ProcInvariant, PTL DEF Spec, KilledStaysKilled
=============================================================================
