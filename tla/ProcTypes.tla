----------------------------- MODULE ProcTypes -----------------------------
(* Constants and names shared by the two models of the process subsystem,  *)
(* Proc (queues as sets) and Sched (queues as the linked rings they are).  *)
EXTENDS Naturals, FiniteSets

CONSTANTS
  NCPU,      \* number of CPUs; PIDs below it are the idle processes
  PidMax,    \* largest PID alloc_pid() tries (2 * UPROC_MAX)
  TidMax,    \* largest TID alloc_tid() tries (TID_MAX)
  PcbMax,    \* capacity of pcb_table[] (UPROC_MAX + NCPU)
  Resource   \* the block queues of locks, mailboxes and the NIC

ASSUME ConstantsAssumption ==
  /\ NCPU \in Nat \ {0}
  /\ PidMax \in Nat /\ PidMax >= NCPU
  /\ TidMax \in Nat
  /\ PcbMax \in Nat /\ PcbMax > NCPU

-----------------------------------------------------------------------------
CPU == 0 .. NCPU - 1
Pid == 0 .. PidMax
Thread == Pid \X (0 .. TidMax)     \* a PCB is known by its <<pid, tid>>
Idle(c) == <<c, 0>>                \* pid0_pcb and pid1_pcb
NoPid == PidMax + 1                \* INVALID_PID

ReadyQ == <<"ready">>
SleepQ == <<"sleep">>
NoQ == <<"none">>
ResQ(r) == <<"res", r>>
WaitQ(t) == <<"wait", t[1], t[2]>>  \* &(t->wait_queue)
WaitQs == {WaitQ(t) : t \in Thread}
ResQs == {ResQ(r) : r \in Resource}
Queue == {ReadyQ, SleepQ, NoQ} \cup ResQs \cup WaitQs

\* FREE is not a status of the code: the PCB is not in pcb_table[].
Status == {"FREE", "SLEEPING", "RUNNING", "READY", "EXITED", "EXITING", "ZOMBIE"}
OnCpu == {"RUNNING", "EXITING"}
Dying == {"EXITING", "EXITED"}
=============================================================================
