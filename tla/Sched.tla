------------------------------- MODULE Sched -------------------------------
(***************************************************************************)
(* The scheduler of GlucOS with its rings: ready_queue, sleep_queue, the   *)
(* wait_queue of every PCB and the block queues of the resources are       *)
(* sequences, the first element being the one the head pointer names.      *)
(* ready_queue always starts with pid0_pcb, which is never unlinked.       *)
(*                                                                         *)
(* Every handler runs under the kernel lock and is one action.  Inside a   *)
(* handler the kernel state is the record s, passed from call to call as   *)
(* the C functions pass control; panic_g() sets s.panic.                   *)
(***************************************************************************)
EXTENDS ProcTypes, PcbList, FiniteSetsExt

CONSTANTS
  Nic,       \* the members of Resource that check_sleeping_on_nic() serves
  Syscalls   \* the system calls the user programs of an instance make

ASSUME SchedAssumption == IsFiniteSet(Resource) /\ Nic \subseteq Resource

VARIABLES status, mask, queue, current, glush, due, panic

vars == <<status, mask, queue, current, glush, due, panic>>

Rings == Queue \ {NoQ}
State == [st |-> status, mk |-> mask, q |-> queue, cur |-> current,
          gl |-> glush, panic |-> panic]
Panic(s) == [s EXCEPT !.panic = TRUE]
-----------------------------------------------------------------------------
(* The circular lists of pcb-list-g.c.                                     *)

IndexOf(ring, t) == CHOOSE i \in DOMAIN ring : ring[i] = t
\* t->next
NextOf(ring, t) ==
  LET i == IndexOf(ring, t) IN ring[IF i = Len(ring) THEN 1 ELSE i + 1]
\* lpcb_insert_node() with Pprior = prior
InsertAfter(ring, t, prior) == InsertAt(ring, IndexOf(ring, prior) + 1, t)
\* The others, in the order in which a walk from t->next meets them.
WalkFrom(ring, t) ==
  LET i == IndexOf(ring, t)
  IN  SubSeq(ring, i + 1, Len(ring)) \o SubSeq(ring, 1, i - 1)
-----------------------------------------------------------------------------
(* Waking and killing.                                                     *)

\* Mutant of MakeReady: the status is not updated.
MakeReadyAsleep(s, c, q, t) ==
  [s EXCEPT !.q[q] = lpcb_del_node(@, t), !.q[ReadyQ] = InsertAfter(@, t, s.cur[c])]

\* Put the sleeper t, which leaves ring q, after the current PCB of CPU c.
MakeReady(s, c, q, t) ==
  IF s.st[t] # "SLEEPING" \/ s.cur[c] \notin ToSet(s.q[ReadyQ])
  THEN Panic(s)
  ELSE [s EXCEPT !.st[t] = "READY",
                 !.q[q] = lpcb_del_node(@, t),
                 !.q[ReadyQ] = InsertAfter(@, t, s.cur[c])]

\* Mutant of DoUnblock: the head is not read again after each do_unblock().
DoUnblockSameHead(s, c, q, n) ==
  FoldLeft(LAMBDA a, i : MakeReady(a, c, q, Head(s.q[q])), s,
           SubSeq(s.q[q], 1, IF n <= Len(s.q[q]) THEN n ELSE Len(s.q[q])))

\* do_unblock() on the first n PCBs of ring q
DoUnblock(s, c, q, n) ==
  FoldLeft(LAMBDA a, t : MakeReady(a, c, q, t), s,
           SubSeq(s.q[q], 1, IF n <= Len(s.q[q]) THEN n ELSE Len(s.q[q])))

\* Mutant of ThreadKill: the PCB is not unlinked from the queue it is in.
ThreadKillLinked(s, c, t) ==
  LET s1 == DoUnblock(s, c, WaitQ(t), Len(s.q[WaitQ(t)]))
  IN  [s1 EXCEPT !.st[t] = "FREE", !.mk[t] = {}]

\* thread_kill()
ThreadKill(s, c, t) ==
  LET s1 == DoUnblock(s, c, WaitQ(t), Len(s.q[WaitQ(t)]))
  IN  IF s.st[t] = "RUNNING" THEN Panic(s)
      ELSE [s1 EXCEPT !.st[t] = "FREE", !.mk[t] = {},
                      !.q = [r \in Rings |-> lpcb_del_node(s1.q[r], t)]]

\* pcb_search_all(): the threads of p
Farr(s, p) == {t \in Thread : t[1] = p /\ s.st[t] # "FREE"}
\* All that p may have, in the order of pcb_table[]
Family(p) == [i \in 1 .. TidMax + 1 |-> <<p, i - 1>>]

Used(s) == {t \in Thread : s.st[t] # "FREE"}
FreePids(s) == {p \in NCPU .. PidMax : Farr(s, p) = {}}
\* alloc_pid(): the lowest free PID
AllocPid(s) == CHOOSE p \in FreePids(s) : \A o \in FreePids(s) : p <= o
HasRoom(s) == Cardinality(Used(s)) < PcbMax

\* A new PCB at the tail of ready_queue
AddThread(s, t, m) ==
  [s EXCEPT !.st[t] = "READY", !.mk[t] = m, !.q[ReadyQ] = Append(@, t)]

\* start_glush(); ok is false when create_proc() fails
StartGlush(s, ok) ==
  IF ok /\ HasRoom(s) /\ FreePids(s) # {}
  THEN [AddThread(s, <<AllocPid(s), 0>>, CPU) EXCEPT !.gl = AllocPid(s)]
  ELSE [s EXCEPT !.gl = NoPid]

\* Mutants of KillOne: threads running on other CPUs, or EXITED ones, are skipped.
KillOneNotRunning(s, c, t) ==
  IF s.st[t] \in OnCpu \cup {"FREE"} THEN s ELSE ThreadKill(s, c, t)
KillOneNotExited(s, c, t) ==
  IF s.st[t] \in OnCpu THEN [s EXCEPT !.st[t] = "EXITING"]
  ELSE IF s.st[t] \in {"FREE", "EXITED"} THEN s ELSE ThreadKill(s, c, t)

\* The loop of do_kill() over the threads of p: what it does to t, if t is in the table
KillOne(s, c, t) ==
  IF s.st[t] \in OnCpu THEN [s EXCEPT !.st[t] = "EXITING"]
  ELSE IF s.st[t] = "FREE" THEN s ELSE ThreadKill(s, c, t)
KillThreads(s, c, p) == FoldLeft(LAMBDA a, t : KillOne(a, c, t), s, Family(p))

\* ress_release_killed(): the first n[r] in the queue of resource r are unblocked
ReleaseKilled(s, c, n) ==
  FoldLeft(LAMBDA a, r : DoUnblock(a, c, ResQ(r), n[r]), s, SetToSeq(Resource \ Nic))

\* do_kill() of a process that is not the current one of CPU c
DoKill(s, c, p, o) ==
  LET s1 == KillThreads(s, c, p)
      s2 == ReleaseKilled(s1, c, o.killed[p])
  IN  IF Farr(s1, p) # {} THEN s1
      ELSE IF p = s2.gl THEN StartGlush(s2, o.glush) ELSE s2

\* The loops that unblock the head of a queue end with the queue or before it: how
\* many they let go, for each resource of R.
Wakes == 0 .. PcbMax - NCPU
LetGo(R) == {n \in [R -> Wakes] : \A r \in R : n[r] <= Len(queue[ResQ(r)])}

\* What a handler cannot know in advance: how many sleepers each NIC queue lets
\* go, how many every other resource lets go for each process that is killed
\* (the idle ones never are), and whether a new shell can be created.
Oracle ==
  {o \in [nic : LetGo(Nic), killed : [Pid -> LetGo(Resource \ Nic)], glush : BOOLEAN] :
     \A p \in CPU : o.killed[p] = [r \in Resource \ Nic |-> 0]}
-----------------------------------------------------------------------------
(* do_scheduler() and do_block().                                          *)

\* A walk along a ring: the kernel state, the PCB it is at, and whether it has ended.
At(s, p) == [s |-> s, p |-> p, ended |-> FALSE]
Ends(w, s) == [s |-> s, p |-> w.p, ended |-> TRUE]
\* What a walk of so many turns leaves; one that has not ended then is lost.
After(w) == IF w.ended THEN w.s ELSE Panic(w.s)
Turns(n) == [i \in 1 .. n |-> i]

\* A turn of the loop of check_sleeping()
CheckTurn(w, c) ==
  LET s == w.s  pw == w.p
      temp_next == NextOf(s.q[SleepQ], pw)
      temp_sleep == Head(s.q[SleepQ])
      s1 == IF pw \in due THEN MakeReady(s, c, SleepQ, pw) ELSE s
  IN  IF w.ended THEN w
      ELSE IF s.st[pw] # "SLEEPING" \/ (s1.q[SleepQ] = <<>> /\ temp_next # temp_sleep)
      THEN Ends(w, Panic(s))
      ELSE IF temp_next = temp_sleep THEN Ends(w, s1) ELSE At(s1, temp_next)

\* Mutant of CheckSleeping: only the head of sleep_queue is looked at.
CheckSleepingHead(s, c) ==
  IF s.q[SleepQ] # <<>> /\ Head(s.q[SleepQ]) \in due
  THEN MakeReady(s, c, SleepQ, Head(s.q[SleepQ])) ELSE s

CheckSleeping(s, c) ==
  IF s.q[SleepQ] = <<>> THEN s
  ELSE After(FoldLeft(LAMBDA w, i : CheckTurn(w, c), At(s, Head(s.q[SleepQ])),
                      Turns(Len(s.q[SleepQ]))))

CheckSleepingOnNic(s, c, o) ==
  FoldLeft(LAMBDA a, r : DoUnblock(a, c, ResQ(r), o.nic[r]), s, SetToSeq(Nic))

\* Mutant of CanRun: cpu_mask is not looked at.
CanRunAnywhere(s, c, t) == s.st[t] = "READY"
CanRun(s, c, t) == s.st[t] = "READY" /\ c \in s.mk[t]

SwitchTo(s, c, n) ==
  LET cur == s.cur[c] IN
  [s EXCEPT !.st[cur] = IF @ = "RUNNING" THEN "READY" ELSE @,
            !.st[n] = "RUNNING",
            !.cur[c] = n]

\* A turn of the loop of do_scheduler()
ScanTurn(w, c, o) ==
  LET s == w.s  p == w.p
      ccpu == s.cur[c]
      nextp == NextOf(s.q[ReadyQ], p)
  IN  IF w.ended THEN w
      ELSE IF p = ccpu THEN Ends(w, IF ccpu[1] >= NCPU THEN Panic(s) ELSE s)
      ELSE IF p \notin ToSet(s.q[ReadyQ]) THEN Ends(w, Panic(s))   \* p has been freed
      ELSE IF CanRun(s, c, p) THEN Ends(w, SwitchTo(s, c, p))
      ELSE IF s.st[p] = "EXITED"
           THEN IF p[1] = ccpu[1] THEN Ends(w, Panic(s))
                ELSE At(DoKill(s, c, p[1], o), nextp)
      ELSE IF s.st[p] = "ZOMBIE" THEN At(ThreadKill(s, c, p), nextp)
      ELSE At(s, nextp)

\* The loop from PCB p on; a shell it starts makes the ring one longer.
Scan(s, c, p, o) ==
  After(FoldLeft(LAMBDA w, i : ScanTurn(w, c, o), At(s, p), Turns(Len(s.q[ReadyQ]) + 1)))

\* Mutant of DoScheduler: the search starts at the head of ready_queue.
DoSchedulerFromHead(s, c, o) ==
  LET s1 == CheckSleepingOnNic(CheckSleeping(s, c), c, o)
  IN  Scan(s1, c, Head(s1.q[ReadyQ]), o)

DoScheduler(s, c, o) ==
  LET s1 == CheckSleepingOnNic(CheckSleeping(s, c), c, o)
  IN  Scan(s1, c, NextOf(s1.q[ReadyQ], s1.cur[c]), o)

\* do_block(): the caller moves to the tail of ring q
DoBlock(s, c, q) ==
  LET cur == s.cur[c]
      walk == WalkFrom(s.q[ReadyQ], cur)
      found == {i \in DOMAIN walk : CanRun(s, c, walk[i])}
      p == walk[Min(found)]
  IN  IF found = {} THEN Panic(s)
      ELSE [s EXCEPT !.cur[c] = p,
                     !.st[p] = "RUNNING",
                     !.st[cur] = "SLEEPING",
                     !.q[ReadyQ] = lpcb_del_node(@, cur),
                     !.q[q] = Append(@, cur)]
-----------------------------------------------------------------------------
(* The handlers.                                                           *)

\* The handler has turned the kernel state into a member of S.
Return(S) ==
  \E s \in S :
    /\ status' = s.st /\ mask' = s.mk /\ queue' = s.q
    /\ current' = s.cur /\ glush' = s.gl /\ panic' = s.panic
    /\ due' = due \cap ToSet(s.q[SleepQ])

Trap(c) == ~panic /\ status[current[c]] = "RUNNING"
Syscall(c, name) == Trap(c) /\ current[c][1] >= NCPU /\ name \in Syscalls

\* handle_irq_timer()
Timer(c) == Trap(c) /\ Return({DoScheduler(State, c, o) : o \in Oracle})

\* do_kill() of the own process: exit, a segmentation fault, the return from main
DoExit(c) ==
  LET cur == current[c]
      s == KillThreads(State, c, cur[1])
  IN  Return({DoScheduler([s EXCEPT !.st[cur] = "EXITED"], c, o) : o \in Oracle})

Exit(c) == Syscall(c, "exit") /\ DoExit(c)

\* The check at the top of interrupt_helper()
WasKilled(c) == ~panic /\ status[current[c]] = "EXITING"
KilledTrap(c) == WasKilled(c) /\ DoExit(c)

\* do_thread_exit() of a child thread
ThreadExit(c) ==
  /\ Syscall(c, "thread_exit") /\ current[c][2] # 0
  /\ Return({DoScheduler([State EXCEPT !.st[current[c]] = "ZOMBIE"], c, o) :
               o \in Oracle})

\* do_kill() of another process
Kill(c, p) ==
  /\ Syscall(c, "kill") /\ p >= NCPU /\ p # current[c][1]
  /\ Farr(State, p) # {}
  /\ Return({DoKill(State, c, p, o) : o \in Oracle})

\* do_exec(), and do_taskset(create) with the mask it asks for
Exec(c, m) ==
  /\ HasRoom(State) /\ FreePids(State) # {}
  /\ \/ Syscall(c, "exec") /\ m = mask[current[c]]
     \/ Syscall(c, "taskset")
  /\ Return({AddThread(State, <<AllocPid(State), 0>>, m)})

\* do_fork()
Fork(c) ==
  /\ Syscall(c, "fork") /\ HasRoom(State) /\ FreePids(State) # {}
  /\ Farr(State, current[c][1]) = {current[c]}
  /\ Return({AddThread(State, <<AllocPid(State), 0>>, mask[current[c]])})

\* do_thread_create()
ThreadCreate(c) ==
  LET Tids == {i \in 1 .. TidMax : status[<<current[c][1], i>>] = "FREE"} IN
  /\ Syscall(c, "thread_create") /\ HasRoom(State) /\ Tids # {}
  /\ LET tid == CHOOSE i \in Tids : \A j \in Tids : i <= j   \* alloc_tid()
     IN  Return({AddThread(State, <<current[c][1], tid>>, CPU)})

\* do_sleep()
Sleep(c) == Syscall(c, "sleep") /\ Return({DoBlock(State, c, SleepQ)})

\* do_waitpid()
Waitpid(c, p) ==
  /\ Syscall(c, "waitpid") /\ Farr(State, p) # {} /\ p # current[c][1]
  /\ \A w \in ToSet(queue[WaitQ(current[c])]) : w[1] # p
  /\ LET u == CHOOSE t \in Farr(State, p) : \A o \in Farr(State, p) : t[2] <= o[2]
     IN  Return({DoBlock(State, c, WaitQ(u))})

\* do_thread_wait()
ThreadWait(c, tid) ==
  LET u == <<current[c][1], tid>> IN
  /\ Syscall(c, "thread_wait") /\ tid # 0 /\ tid # current[c][2]
  /\ status[u] # "FREE"
  /\ Return({DoBlock(State, c, WaitQ(u))})

\* do_block() and do_unblock() on a resource
Block(c, r) == Syscall(c, "block") /\ Return({DoBlock(State, c, ResQ(r))})
Unblock(c, r) ==
  /\ Trap(c) /\ queue[ResQ(r)] # <<>>
  /\ Return({DoUnblock(State, c, ResQ(r), n) : n \in 1 .. Len(queue[ResQ(r)])})

\* do_taskset() of an existing process
Taskset(c, p, m) ==
  /\ Syscall(c, "taskset") /\ p >= NCPU /\ Farr(State, p) # {}
  /\ Return({[State EXCEPT !.mk =
       [t \in Thread |-> IF t \in Farr(State, p) THEN m ELSE @[t]]]})

\* get_timer() reaches the wakeup_time of t.
TimePasses(t) ==
  /\ ~panic /\ t \in ToSet(queue[SleepQ]) \ due
  /\ due' = due \cup {t}
  /\ UNCHANGED <<status, mask, queue, current, glush, panic>>
-----------------------------------------------------------------------------
\* init_pcb() and the first start_glush(): the idle PCBs are linked in PID order.
Init ==
  LET first == <<NCPU, 0>>
      idle == [i \in 1 .. NCPU |-> Idle(i - 1)]
  IN  /\ status = [t \in Thread |-> IF t \in ToSet(idle) THEN "RUNNING"
                                    ELSE IF t = first THEN "READY" ELSE "FREE"]
      /\ mask = [t \in Thread |-> IF t \in ToSet(idle) THEN {t[1]}
                                  ELSE IF t = first THEN CPU ELSE {}]
      /\ queue = [q \in Rings |-> IF q = ReadyQ THEN Append(idle, first) ELSE <<>>]
      /\ current = [c \in CPU |-> Idle(c)]
      /\ glush = NCPU /\ due = {} /\ panic = FALSE

Next ==
  \/ \E c \in CPU :
       \/ Timer(c) \/ KilledTrap(c)
       \/ Exit(c) \/ ThreadExit(c) \/ Fork(c) \/ ThreadCreate(c) \/ Sleep(c)
       \/ \E p \in Pid : Kill(c, p) \/ Waitpid(c, p)
       \/ \E m \in SUBSET CPU : Exec(c, m) \/ \E p \in Pid : Taskset(c, p, m)
       \/ \E tid \in 0 .. TidMax : ThreadWait(c, tid)
       \/ \E r \in Resource : Block(c, r) \/ Unblock(c, r)
  \/ \E t \in Thread : TimePasses(t)

Spec == Init /\ [][Next]_vars

\* Time passes, and each CPU keeps taking timer interrupts: set_preempt() re-arms
\* the timer before it reschedules, and user mode and the idle loops run with
\* interrupts enabled.  (The conjuncts on Timer and KilledTrap are their weak
\* fairness, with the enabling conditions of <<Timer(c)>>_vars and
\* <<KilledTrap(c)>>_vars written out.)
TimerMoves(c) == Trap(c) /\ \E o \in Oracle : DoScheduler(State, c, o) # State
FairSpec ==
  /\ Spec
  /\ \A t \in Thread : WF_vars(TimePasses(t))
  /\ \A c \in CPU :
       /\ []<>~TimerMoves(c) \/ []<><<Timer(c)>>_vars
       /\ []<>~WasKilled(c) \/ []<><<KilledTrap(c)>>_vars
-----------------------------------------------------------------------------
(* Properties.                                                             *)

\* No panic_g() of the scheduler is reached: "Failed to kill proc", "Cannot
\* find a ready process", "Failed to wake up proc", "Linked list operation
\* failed", a RUNNING thread killed, or a freed PCB met by the scan.
NoPanic == ~panic

\* Every PCB is linked exactly once in exactly one ring while it is in the
\* table, and in none when it is free.
LinkedOnce ==
  \A t \in Thread :
    LET at == UNION {{<<q, i>> : i \in {j \in DOMAIN queue[q] : queue[q][j] = t}} : q \in Rings}
    IN  IF status[t] = "FREE" THEN at = {} ELSE \E x \in at : at = {x}

\* Whatever the CPUs do in turn, reaping PCBs the scan has met and waking others on
\* the way: no panic and no PCB that is lost or in two rings.
SchedInv == NoPanic /\ LinkedOnce

\* A step of do_scheduler() leaves no thread asleep that was due, whatever the
\* order of the ring check_sleeping() walks while it unlinks from it.
DueAreWoken == [][\A c \in CPU : Timer(c) => due' = {}]_vars

\* A CPU switches only to a thread whose cpu_mask has that CPU.
AffinityRespected ==
  [][\A c \in CPU : current'[c] # current[c] => c \in mask'[current'[c]]]_vars

\* The scheduler implements the set-level specification Proc.
PheadOf(t) == IF status[t] = "FREE" THEN NoQ
              ELSE CHOOSE q \in Rings : t \in ToSet(queue[q])
P == INSTANCE Proc WITH
       pcb <- [t \in Thread |-> [status |-> status[t], phead |-> PheadOf(t),
                                 mask |-> mask[t]]]
ImplementsProc == P!Spec

\* A thread that is killed while another CPU runs it does exit, and the PCB of an
\* exited one is deleted, so those waiting for it are woken.
Ending == {"EXITING", "EXITED"}
ExitedIsReaped == \A t \in Thread : status[t] \in Ending ~> status[t] \notin Ending

\* Threads that only compute share the CPUs round robin: once only timer
\* interrupts happen, every READY thread allowed on some CPU gets to run.
ReadyRuns ==
  <>[][\E c \in CPU : Timer(c)]_vars =>
    \A t \in Thread :
      (status[t] = "READY" /\ mask[t] # {}) ~> (status[t] # "READY" \/ mask[t] = {})
=============================================================================
