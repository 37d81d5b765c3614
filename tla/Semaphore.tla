----------------------------- MODULE Semaphore -----------------------------
(***************************************************************************)
(* A semaphore of kernel/locking/lock.c under kills of its users and of    *)
(* its owner.  Steps as in module Mutex: a system call is one step up to   *)
(* do_block(), and another from the wake-up on.                            *)
(***************************************************************************)
EXTENDS LockTypes

VARIABLES
  opid, value, block_queue,   \* the semaphore_t
  pc,        \* user code, blocked, woken but not yet run, dead
  credit     \* initial value plus ups minus downs let through

vars == <<opid, value, block_queue, pc, credit>>
-----------------------------------------------------------------------------
\* The processes in S leave the queue and are READY.
Woken(S) == [p \in Proc |-> IF p \in S THEN "woken" ELSE pc[p]]

\* do_semaphore_init() of a semaphore that is not occupied
SemaphoreInit(p, v) ==
  /\ pc[p] = "user" /\ opid = NoPid
  /\ opid' = p /\ value' = v /\ block_queue' = <<>>
  /\ credit' = v
  /\ UNCHANGED pc

\* do_semaphore_up()
Up(p) ==
  /\ pc[p] = "user" /\ opid # NoPid /\ credit < MaxCredit
  /\ IF value < 0 /\ block_queue # <<>>
     THEN /\ value' = value + 1
          /\ block_queue' = Tail(block_queue)
          /\ pc' = Woken({Head(block_queue)})
          /\ UNCHANGED credit
     ELSE /\ value' = IF value < 0 THEN 0 ELSE value + 1
          /\ credit' = credit + 1
          /\ UNCHANGED <<block_queue, pc>>
  /\ UNCHANGED opid

\* do_semaphore_down() until it blocks or returns
Down(p) ==
  /\ pc[p] = "user" /\ opid # NoPid /\ value > -MaxDebt
  /\ value' = value - 1
  /\ IF value' < 0
     THEN /\ block_queue' = Append(block_queue, p)
          /\ pc' = [pc EXCEPT ![p] = "blocked"]
          /\ UNCHANGED credit
     ELSE credit' = credit - 1 /\ UNCHANGED <<block_queue, pc>>
  /\ UNCHANGED opid

\* do_semaphore_down() after its do_block(): it just returns the value.
Resume(p) ==
  /\ pc[p] = "woken"
  /\ pc' = [pc EXCEPT ![p] = "user"]
  /\ UNCHANGED <<opid, value, block_queue, credit>>

\* do_semaphore_destroy() unless another process owns the semaphore
Destroy(p) ==
  /\ pc[p] = "user" /\ opid \in {p, NoPid}
  /\ opid' = NoPid /\ block_queue' = <<>> /\ credit' = 0
  /\ pc' = Woken(ToSet(block_queue))
  /\ UNCHANGED value

\* Mutant of Kill: the waiters of a killed owner's semaphore are forgotten.
KillForgetting(p) ==
  /\ pc[p] # "dead"
  /\ opid' = IF opid = p THEN NoPid ELSE opid
  /\ block_queue' = lpcb_del_node(block_queue, p)
  /\ pc' = [pc EXCEPT ![p] = "dead"]
  /\ UNCHANGED <<value, credit>>

\* do_kill() or exit of p, with ress_release_killed()
Kill(p) ==
  LET rest == lpcb_del_node(block_queue, p) IN
  /\ pc[p] # "dead"
  /\ opid' = IF opid = p THEN NoPid ELSE opid
  /\ block_queue' = IF opid = p THEN <<>> ELSE rest
  /\ pc' = [Woken(IF opid = p THEN ToSet(rest) ELSE {}) EXCEPT ![p] = "dead"]
  /\ credit' = IF opid = p THEN 0 ELSE credit
  /\ UNCHANGED value

\* A new process gets the PID of a dead one.
Start(p) ==
  /\ pc[p] = "dead"
  /\ pc' = [pc EXCEPT ![p] = "user"]
  /\ UNCHANGED <<opid, value, block_queue, credit>>

\* init_semaphores(); the other fields are zero in the kernel's .bss
Init ==
  /\ opid = NoPid /\ value = 0 /\ block_queue = <<>> /\ credit = 0
  /\ pc = [p \in Proc |-> "user"]

Next ==
  \E p \in Proc :
    \/ \E v \in Initial : SemaphoreInit(p, v)
    \/ Up(p) \/ Down(p) \/ Resume(p) \/ Destroy(p) \/ Kill(p) \/ Start(p)

Spec == Init /\ [][Next]_vars
-----------------------------------------------------------------------------
TypeOK ==
  /\ opid \in Proc \cup {NoPid} /\ value \in Int /\ credit \in Int
  /\ block_queue \in Seq(Proc)
  /\ pc \in [Proc -> {"user", "blocked", "woken", "dead"}]

\* The check of do_semaphore_up(): a nonnegative value and waiters in the queue
\* never go together, although killed waiters leave their decrement behind.
NoPanic == value >= 0 => block_queue = <<>>

\* Exactly the blocked processes are queued, and no more than the value says.
QueueBounded ==
  /\ \A p \in Proc : pc[p] = "blocked" <=> p \in ToSet(block_queue)
  /\ \A i, j \in DOMAIN block_queue : block_queue[i] = block_queue[j] => i = j
  /\ value < 0 => Len(block_queue) <= -value

\* Waiters exist only while the semaphore does: destroying it, or killing its
\* owner, strands nobody, and do_semaphore_init() overwrites an empty queue.
NoOrphanWaiters == opid = NoPid => block_queue = <<>>

\* The semaphore never lets more downs through than its initial value and the
\* ups allow.  (It may let fewer through: resetting the value of a semaphore
\* whose waiters were killed discards ups.)
NeverOverGranted ==
  opid # NoPid /\ (\A v \in Initial : v >= 0) => credit >= 0 /\ value <= credit

\* The inductive invariant.
SemInv == TypeOK /\ NoPanic /\ QueueBounded /\ NoOrphanWaiters /\ NeverOverGranted
=============================================================================
