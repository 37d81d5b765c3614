------------------------------- MODULE Proc -------------------------------
(***************************************************************************)
(* Processes and threads of GlucOS as the rest of the kernel sees them:    *)
(* the PCB table, the queue every PCB hangs on, and which PCB each CPU     *)
(* runs.  The order inside a queue is abstracted away (module Sched keeps  *)
(* it and implements this specification), so "the first READY process of   *)
(* the ring" is here "some READY process".                                 *)
(*                                                                         *)
(* The whole kernel runs under one lock (lock_kernel in smp.c, taken by    *)
(* exception_handler_entry), hence one atomic action per trap: everything  *)
(* from the trap until the CPU is back in user mode or in its idle loop.   *)
(***************************************************************************)
EXTENDS ProcTypes

VARIABLES
  pcb,       \* pcb[t]: status, phead (the queue t is linked in), cpu_mask
  current,   \* current_running[]
  glush,     \* pid_glush: the shell, restarted whenever it dies
  due        \* the members of sleep_queue whose wakeup_time has passed

vars == <<pcb, current, glush, due>>
-----------------------------------------------------------------------------
Pcb == [status : Status, phead : Queue, mask : SUBSET CPU]
FreePcb == [status |-> "FREE", phead |-> NoQ, mask |-> {}]

\* pcb_search_all(): the threads of process p.
ThreadsOf(tab, p) == {t \in Thread : t[1] = p /\ tab[t].status # "FREE"}
Used(tab) == {t \in Thread : tab[t].status # "FREE"}
-----------------------------------------------------------------------------
(* Operations on the table.                                                *)

\* The entry of t becomes e.
Update(tab, t, e) == [u \in Thread |-> IF u = t THEN e ELSE tab[u]]
SetStatus(tab, t, st) == Update(tab, t, [tab[t] EXCEPT !.status = st])

\* do_unblock()/wake_up() on every member of W.
Wake(tab, W) ==
  [t \in Thread |-> IF t \in W
     THEN [tab[t] EXCEPT !.status = "READY", !.phead = ReadyQ]
     ELSE tab[t]]

\* Mutant of KillThreads: the wait_queue is not released.
KillThreadsQuietly(tab, K) == [t \in Thread |-> IF t \in K THEN FreePcb ELSE tab[t]]

\* thread_kill() on every member of K: their waiters are woken.
KillThreads(tab, K) ==
  [t \in Thread |->
     IF t \in K THEN FreePcb
     ELSE IF \E k \in K : tab[t].phead = WaitQ(k)
          THEN [tab[t] EXCEPT !.status = "READY", !.phead = ReadyQ]
          ELSE tab[t]]

\* Mutant of Victims: RUNNING threads are freed.
VictimsOnCpuToo(tab, P) == {t \in Thread : t[1] \in P /\ tab[t].status # "FREE"}

\* The threads of the processes in P that do_kill() may free at once.
Victims(tab, P) ==
  {t \in Thread : t[1] \in P /\ tab[t].status \notin OnCpu \cup {"FREE"}}

\* The loop of do_kill() over the threads of the processes in P.
DoKill(tab, P) ==
  LET k == KillThreads(tab, Victims(tab, P))
  IN  [t \in Thread |-> IF t[1] \in P /\ k[t].status \in OnCpu
                        THEN [k[t] EXCEPT !.status = "EXITING"]
                        ELSE k[t]]

\* alloc_pid() returns a PID no PCB has (which one is left open here).
FreePids(tab) == {p \in NCPU .. PidMax : ThreadsOf(tab, p) = {}}
\* Mutant of HasRoom: off by one.
HasRoomOrFull(tab) == Cardinality(Used(tab)) <= PcbMax
HasRoom(tab) == Cardinality(Used(tab)) < PcbMax

\* A new PCB, READY, in ready_queue.
AddThread(tab, t, m) ==
  Update(tab, t, [status |-> "READY", phead |-> ReadyQ, mask |-> m])

\* What do_kill() leaves once the last thread of glush is gone: a new glush,
\* or none when start_glush() fails.
Restarts(tab) ==
  IF glush # NoPid /\ ThreadsOf(tab, glush) = {}
  THEN {[pcb |-> tab, glush |-> NoPid]} \cup
       {[pcb |-> AddThread(tab, <<p, 0>>, CPU), glush |-> p] :
          p \in {f \in FreePids(tab) : HasRoom(tab)}}
  ELSE {[pcb |-> tab, glush |-> glush]}

\* The threads CPU c may switch to.
Eligible(tab, c) == {t \in Thread : tab[t].status = "READY" /\ c \in tab[t].mask}

\* Sleepers on the block queues of resources, which ress_release_killed(),
\* check_sleeping_on_nic() and the users of the resource unblock.
ResSleepers(tab) == {t \in Thread : tab[t].phead \in ResQs}

\* do_scheduler() on CPU c with table tab: wake the sleepers that are due,
\* reap some of the EXITED and ZOMBIE threads it scans, switch.
DoScheduler(c, tab) ==
  LET cur == current[c]
      awake == Wake(tab, {t \in due : tab[t].phead = SleepQ})
      Corpses(s) == {t \in Thread \ {cur} : tab[t].status = s}
  IN  \E W \in SUBSET ResSleepers(tab), Z \in SUBSET Corpses("ZOMBIE"),
         X \in SUBSET Corpses("EXITED") :
        LET reaped == DoKill(KillThreads(Wake(awake, W), Z), {t[1] : t \in X})
        IN  \E r \in Restarts(reaped) :
              /\ glush' = r.glush
              /\ \/ \E n \in Eligible(r.pcb, c) :
                      /\ current' = [current EXCEPT ![c] = n]
                      /\ pcb' = SetStatus(IF r.pcb[cur].status = "RUNNING"
                                          THEN SetStatus(r.pcb, cur, "READY")
                                          ELSE r.pcb, n, "RUNNING")
                 \/ /\ Eligible(awake, c) = {}
                    /\ cur[1] < NCPU
                    /\ pcb' = r.pcb
                    /\ UNCHANGED current

\* Only members of sleep_queue can be due.
KeepDue == due' = {t \in due : pcb'[t].phead = SleepQ}

\* CPU c takes a trap that runs its handler: the current thread is not EXITING.
Trap(c) == pcb[current[c]].status = "RUNNING"
\* ... a system call: the current process is not an idle one.
Syscall(c) == Trap(c) /\ current[c][1] >= NCPU

\* do_block(): the caller leaves ready_queue for queue q.
DoBlock(c, q) ==
  \E n \in Eligible(pcb, c) :
    /\ pcb' = SetStatus(
                Update(pcb, current[c], [pcb[current[c]] EXCEPT
                         !.status = "SLEEPING", !.phead = q]), n, "RUNNING")
    /\ current' = [current EXCEPT ![c] = n]
    /\ KeepDue
    /\ UNCHANGED glush
-----------------------------------------------------------------------------
(* The handlers.                                                           *)

\* handle_irq_timer()
Timer(c) == Trap(c) /\ DoScheduler(c, pcb) /\ KeepDue

\* do_exit(), do_kill() of the own process, and the check at the top of
\* interrupt_helper() for a process another CPU has killed.
Exit(c) ==
  LET cur == current[c] IN
  /\ cur[1] >= NCPU
  /\ DoScheduler(c, SetStatus(DoKill(pcb, {cur[1]}), cur, "EXITED"))
  /\ KeepDue

\* do_thread_exit() of a child thread
ThreadExit(c) ==
  /\ Syscall(c) /\ current[c][2] # 0
  /\ DoScheduler(c, SetStatus(pcb, current[c], "ZOMBIE"))
  /\ KeepDue

\* do_kill() of another process
Kill(c, p) ==
  /\ Syscall(c) /\ p >= NCPU /\ p # current[c][1] /\ ThreadsOf(pcb, p) # {}
  /\ \E W \in SUBSET ResSleepers(pcb) :
       \E r \in Restarts(DoKill(Wake(pcb, W), {p})) :
         pcb' = r.pcb /\ glush' = r.glush
  /\ KeepDue
  /\ UNCHANGED current

\* do_exec() and do_taskset(create), with the cpu_mask they give the child
Exec(c, p, m) ==
  /\ Syscall(c) /\ HasRoom(pcb) /\ p \in FreePids(pcb)
  /\ pcb' = AddThread(pcb, <<p, 0>>, m)
  /\ UNCHANGED <<current, glush, due>>

\* do_fork()
Fork(c, p) ==
  /\ Syscall(c) /\ HasRoom(pcb) /\ p \in FreePids(pcb)
  /\ ThreadsOf(pcb, current[c][1]) = {current[c]}
  /\ pcb' = AddThread(pcb, <<p, 0>>, pcb[current[c]].mask)
  /\ UNCHANGED <<current, glush, due>>

\* do_thread_create()
ThreadCreate(c, tid) ==
  LET t == <<current[c][1], tid>> IN
  /\ Syscall(c) /\ HasRoom(pcb) /\ tid # 0
  /\ pcb[t].status = "FREE"
  /\ \A o \in 1 .. tid - 1 : pcb[<<current[c][1], o>>].status # "FREE"
  /\ pcb' = AddThread(pcb, t, CPU)
  /\ UNCHANGED <<current, glush, due>>

\* do_sleep()
Sleep(c) == Syscall(c) /\ DoBlock(c, SleepQ)

\* pcb_search(p): the first PCB of p in pcb_table[], its main thread while
\* that is alive.
SearchPid(p) == IF pcb[<<p, 0>>].status # "FREE" THEN {<<p, 0>>}
                ELSE ThreadsOf(pcb, p)

\* do_waitpid()
Waitpid(c, p) ==
  /\ Syscall(c) /\ p # current[c][1]
  /\ \A w \in Thread : pcb[w].phead = WaitQ(current[c]) => w[1] # p
  /\ \E u \in SearchPid(p) : DoBlock(c, WaitQ(u))

\* do_thread_wait()
ThreadWait(c, tid) ==
  LET u == <<current[c][1], tid>> IN
  /\ Syscall(c) /\ tid # 0 /\ tid # current[c][2]
  /\ pcb[u].status # "FREE"
  /\ DoBlock(c, WaitQ(u))

\* do_block() on the queue of a lock, a mailbox or the NIC
Block(c, r) == Syscall(c) /\ DoBlock(c, ResQ(r))

\* do_unblock() by a user of the resource or by its interrupt
Unblock(c, W) ==
  /\ Trap(c) /\ W # {}
  /\ pcb' = Wake(pcb, W)
  /\ UNCHANGED <<current, glush, due>>

\* do_taskset() of an existing process
Taskset(c, p, m) ==
  /\ Syscall(c) /\ p >= NCPU /\ ThreadsOf(pcb, p) # {}
  /\ pcb' = [t \in Thread |-> IF t \in ThreadsOf(pcb, p)
                              THEN [pcb[t] EXCEPT !.mask = m] ELSE pcb[t]]
  /\ UNCHANGED <<current, glush, due>>

\* get_timer() reaches the wakeup_time of t.
TimePasses(t) ==
  /\ pcb[t].phead = SleepQ /\ t \notin due
  /\ due' = due \cup {t}
  /\ UNCHANGED <<pcb, current, glush>>
-----------------------------------------------------------------------------
\* init_pcb() and the first start_glush()
Init ==
  /\ pcb = [t \in Thread |->
       IF \E c \in CPU : t = Idle(c)
       THEN [status |-> "RUNNING", phead |-> ReadyQ, mask |-> {t[1]}]
       ELSE IF t = <<NCPU, 0>>
            THEN [status |-> "READY", phead |-> ReadyQ, mask |-> CPU]
            ELSE FreePcb]
  /\ current = [c \in CPU |-> Idle(c)]
  /\ glush = NCPU
  /\ due = {}

Next ==
  \/ \E c \in CPU :
       \/ Timer(c) \/ Exit(c) \/ ThreadExit(c) \/ Sleep(c)
       \/ \E p \in Pid : Kill(c, p) \/ Waitpid(c, p) \/ Fork(c, p)
       \/ \E p \in Pid, m \in SUBSET CPU : Exec(c, p, m) \/ Taskset(c, p, m)
       \/ \E tid \in 0 .. TidMax : ThreadCreate(c, tid) \/ ThreadWait(c, tid)
       \/ \E r \in Resource : Block(c, r)
       \/ \E W \in SUBSET ResSleepers(pcb) : Unblock(c, W)
  \/ \E t \in Thread : TimePasses(t)

Spec == Init /\ [][Next]_vars
-----------------------------------------------------------------------------
(* What must hold in every state.                                          *)

\* Type correctness of the table, of current_running[] and of the shell's PID.
TypeOK ==
  /\ pcb \in [Thread -> Pcb]
  /\ current \in [CPU -> Thread]
  /\ glush \in (NCPU .. PidMax) \cup {NoPid}
  /\ due \in SUBSET Thread

\* A PCB is RUNNING or EXITING exactly when one CPU runs it, and no two CPUs
\* run the same PCB (do_scheduler and do_block pick only READY ones).
OneCpuEach ==
  /\ \A c \in CPU : pcb[current[c]].status \in OnCpu
  /\ \A c, d \in CPU : current[c] = current[d] => c = d
  /\ \A t \in Thread : pcb[t].status \in OnCpu => \E c \in CPU : current[c] = t

\* The status of a PCB and the queue it is linked in agree: this is what the
\* status checks of do_unblock, wake_up and thread_kill panic about.
QueueMatchesStatus ==
  \A t \in Thread :
    /\ (pcb[t].status = "FREE") = (pcb[t].phead = NoQ)
    /\ (pcb[t].status = "SLEEPING") = (pcb[t].phead \in {SleepQ} \cup ResQs \cup WaitQs)

\* Nobody sleeps in the wait_queue of a PCB that has been freed: such a thread
\* would never be woken and its phead would point into freed memory.
NoDanglingWait ==
  \A t, u \in Thread : pcb[t].phead = WaitQ(u) => pcb[u].status # "FREE"

\* When one thread of a process is being killed, none of its threads is READY,
\* RUNNING or asleep any more, and at most one is EXITED.  The reaping loop of
\* do_scheduler() relies on it: reaping an EXITED thread then frees no other
\* PCB of the ring, in particular not the saved nextp.
DyingTogether ==
  \A t, u \in Thread :
    t[1] = u[1] /\ t # u /\ pcb[t].status \in Dying =>
      /\ pcb[u].status \in {"FREE", "EXITING", "EXITED"}
      /\ pcb[t].status = "EXITED" => pcb[u].status # "EXITED"

\* The idle process of a CPU is running on that CPU or READY for it, so the
\* searches of do_scheduler() and do_block() never fail.
IdleAvailable ==
  \A c \in CPU :
    /\ pcb[Idle(c)].mask = {c}
    /\ \A i \in 1 .. TidMax : pcb[<<c, i>>].status = "FREE"
    /\ \/ current[c] = Idle(c) /\ pcb[Idle(c)].status = "RUNNING"
       \/ pcb[Idle(c)].status = "READY"

\* A child thread outlives its main thread only while its process is dying,
\* and a main thread is never a ZOMBIE: do_thread_exit() turns its exit into
\* the death of the process.
MainThreadAlive ==
  \A t \in Thread :
    /\ pcb[t].status \notin Dying \cup {"FREE"} =>
         pcb[<<t[1], 0>>].status # "FREE"
    /\ pcb[t].status = "ZOMBIE" => t[2] # 0

\* pcb_table[] never holds more PCBs than it has entries.
TableFits == Cardinality(Used(pcb)) <= PcbMax

\* The shell is always there, unless restarting it has failed.
GlushAlive == glush # NoPid => ThreadsOf(pcb, glush) # {}

\* A due thread is in sleep_queue.
DueSleeps == \A t \in due : pcb[t].phead = SleepQ

\* The inductive invariant.
ProcInv ==
  /\ TypeOK /\ OneCpuEach /\ QueueMatchesStatus /\ NoDanglingWait
  /\ DyingTogether /\ IdleAvailable /\ MainThreadAlive
  /\ GlushAlive /\ DueSleeps

\* A PCB is never freed while a CPU runs it, and a killed thread never gets
\* back to user code.  (The main thread of the shell is exempt: when the old
\* shell dies its PID may be given to the new one in the same step.)
KilledStaysKilled ==
  [][\A t \in Thread \ {<<glush', 0>>} :
       LET old == pcb[t].status  new == pcb'[t].status IN
       /\ old = "EXITING" => new \in {"EXITING", "EXITED"}
       /\ old \in {"EXITED", "ZOMBIE"} => new \in {old, "FREE"}
       /\ old = "RUNNING" => new # "FREE"]_vars
=============================================================================
