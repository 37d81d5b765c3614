------------------------------- MODULE Locks -------------------------------
(***************************************************************************)
(* What processes synchronise with, together (kernel/locking/): processes  *)
(* that use a mutex, a semaphore, a barrier and a mailbox, block in one of *)
(* them at a time, and when they are killed leave all of them at once.     *)
(***************************************************************************)
EXTENDS LockTypes

CONSTANTS
  MaxLen, Lengths,   \* of Mailbox
  Scenarios          \* who uses what, who may be killed or exit, and whose
                     \* waiting WaitersAreWoken is about

ASSUME ScenarioAssumption ==
  Scenarios \subseteq
    [uses : [Proc -> SUBSET {"mutex", "semaphore", "barrier", "mailbox"}],
     mortal : SUBSET Proc, watched : Proc \cup {NoPid}]

VARIABLES
  m_status, m_opid, m_queue, m_pc, holding,    \* of Mutex
  s_opid, value, s_queue, s_pc, credit,        \* of Semaphore
  b_opid, goal, come, b_queue, b_pc, lost,     \* of Barrier
  x_opid, s_waiting, r_waiting, box, x_pc, x_len, out, aborted,   \* of Mailbox
  scenario                                     \* never changes

mutex == <<m_status, m_opid, m_queue, m_pc, holding>>
semaphore == <<s_opid, value, s_queue, s_pc, credit>>
barrier == <<b_opid, goal, come, b_queue, b_pc, lost>>
mailbox == <<x_opid, s_waiting, r_waiting, box, x_pc, x_len, out, aborted>>
vars == <<mutex, semaphore, barrier, mailbox, scenario>>

M == INSTANCE Mutex WITH
       status <- m_status, opid <- m_opid, block_queue <- m_queue, pc <- m_pc
S == INSTANCE Semaphore WITH opid <- s_opid, block_queue <- s_queue, pc <- s_pc
B == INSTANCE Barrier WITH opid <- b_opid, block_queue <- b_queue, pc <- b_pc
X == INSTANCE Mailbox WITH
       opid <- x_opid, block_queue_s <- s_waiting, block_queue_r <- r_waiting,
       pc <- x_pc, req_len <- x_len

ASSUME MailboxAssumption == X!MailboxAssumption
-----------------------------------------------------------------------------
\* p is in user code, about to call an operation of lock kind k.
Calls(p, k) ==
  /\ m_pc[p] = "user" /\ s_pc[p] = "user" /\ b_pc[p] = "user" /\ x_pc[p] = "user"
  /\ k \in scenario.uses[p]

OnMutex(A) == A /\ UNCHANGED <<semaphore, barrier, mailbox, scenario>>
OnSemaphore(A) == A /\ UNCHANGED <<mutex, barrier, mailbox, scenario>>
OnBarrier(A) == A /\ UNCHANGED <<mutex, semaphore, mailbox, scenario>>
OnMailbox(A) == A /\ UNCHANGED <<mutex, semaphore, barrier, scenario>>

Acquire(p) == Calls(p, "mutex") /\ OnMutex(M!Acquire(p))
Release(p) == Calls(p, "mutex") /\ OnMutex(M!Release(p))
ResumeAcquire(p) == OnMutex(M!Resume(p))

SemaphoreInit(p, v) == Calls(p, "semaphore") /\ OnSemaphore(S!SemaphoreInit(p, v))
Up(p) == Calls(p, "semaphore") /\ OnSemaphore(S!Up(p))
Down(p) == Calls(p, "semaphore") /\ OnSemaphore(S!Down(p))
SemaphoreDestroy(p) == Calls(p, "semaphore") /\ OnSemaphore(S!Destroy(p))
ResumeDown(p) == OnSemaphore(S!Resume(p))

BarrierInit(p, g) == Calls(p, "barrier") /\ OnBarrier(B!BarrierInit(p, g))
Wait(p) == Calls(p, "barrier") /\ OnBarrier(B!Wait(p))
BarrierDestroy(p) == Calls(p, "barrier") /\ OnBarrier(B!Destroy(p))
ResumeWait(p) == OnBarrier(B!Resume(p))

Open(p) == Calls(p, "mailbox") /\ OnMailbox(X!Open(p))
Close(p) == Calls(p, "mailbox") /\ OnMailbox(X!Close(p))
Send(p, n) == Calls(p, "mailbox") /\ OnMailbox(X!Send(p, n))
Recv(p, n) == Calls(p, "mailbox") /\ OnMailbox(X!Recv(p, n))
ResumeSend(p) == OnMailbox(X!ResumeSend(p))
ResumeRecv(p) == OnMailbox(X!ResumeRecv(p))

\* do_kill() or exit of p: ress_release_killed() goes through all of them.
Kill(p) ==
  /\ p \in scenario.mortal
  /\ M!Kill(p) /\ S!Kill(p) /\ B!Kill(p) /\ X!Kill(p)
  /\ UNCHANGED scenario

\* A new process gets the PID of a dead one.
Start(p) ==
  M!Start(p) /\ S!Start(p) /\ B!Start(p) /\ X!Start(p) /\ UNCHANGED scenario

Init == M!Init /\ S!Init /\ B!Init /\ X!Init /\ scenario \in Scenarios

Next ==
  \E p \in Proc :
    \/ Acquire(p) \/ Release(p) \/ ResumeAcquire(p)
    \/ Up(p) \/ Down(p) \/ SemaphoreDestroy(p) \/ ResumeDown(p)
    \/ Wait(p) \/ BarrierDestroy(p) \/ ResumeWait(p)
    \/ Open(p) \/ Close(p) \/ ResumeSend(p) \/ ResumeRecv(p)
    \/ \E n \in Lengths : Send(p, n) \/ Recv(p, n)
    \/ Kill(p) \/ Start(p)
    \/ \E v \in Initial : SemaphoreInit(p, v)
    \/ \E g \in Goals : BarrierInit(p, g)

Spec == Init /\ [][Next]_vars

\* The scheduler runs woken processes, programs release the mutex they have
\* acquired, and those that meet at a barrier keep coming.
Runs(p) == ResumeAcquire(p) \/ Release(p) \/ ResumeWait(p) \/ Wait(p)
Fairness == \A p \in Proc : WF_vars(Runs(p))
-----------------------------------------------------------------------------
(* Properties.                                                             *)

\* Two processes never hold the mutex together, whatever wakes, barging and
\* kills happen; ress_release_killed() leaves no mutex with a dead owner, nor a
\* dead or a running process in its queue.
MutexInv == M!MutexInv

\* The panic_g() of do_semaphore_up() is unreachable, nobody waits on a
\* destroyed semaphore, queue and value agree as far as kills allow, and no down
\* passes without an up, although kills leave debts in the value.
SemInv == S!SemInv

\* come counts the waiters of this round of the barrier and the killed ones,
\* and nobody waits on a destroyed barrier.
BarrierInv == B!BarrierInv

\* The waiters of a free mutex are stranded only when the process woken for
\* them by do_mutex_lock_release() is killed before it runs.
StrandedOnlyByKill == M!StrandedOnlyByKill

\* No panic at a full or empty ring buffer, the mailbox's queues hold exactly the
\* blocked processes, and no sender stays blocked while there is room for it.
MailboxInv == X!MailboxInv

\* A receiver is stranded only if the one ahead of it in the queue was killed.
ReceiverStrandedOnlyByKill == X!ReceiverStrandedOnlyByKill

\* The ring buffer and the waiting loops of mbox.c implement a FIFO of messages.
ImplementsFifo == X!ImplementsFifo

\* In a scenario in which nobody is killed and processes use nothing but lock
\* kind k, which then nobody holds up elsewhere.
Only(k) == scenario.mortal = {} /\ \A p \in Proc : scenario.uses[p] = {k}

\* Every waiter of the mutex is woken in its turn although others barge in; and
\* when as many processes keep coming as the barrier awaits, nobody waits in it
\* for ever.
WaitersAreWoken ==
  LET p == scenario.watched IN
  \/ Only("mutex") /\ m_pc[p] = "blocked"
  \/ Only("barrier") /\ b_pc[p] = "blocked"
  ~> m_pc[p] # "blocked" /\ b_pc[p] # "blocked"
=============================================================================
