------------------------------ MODULE Barrier ------------------------------
(***************************************************************************)
(* A barrier of kernel/locking/lock.c.  Steps as in module Mutex.          *)
(***************************************************************************)
EXTENDS LockTypes

VARIABLES
  opid, goal, come, block_queue,   \* the barrier_t
  pc,        \* user code, blocked, woken but not yet run, dead
  lost       \* how many waiters of this round have been killed

vars == <<opid, goal, come, block_queue, pc, lost>>
-----------------------------------------------------------------------------
Woken(S) == [p \in Proc |-> IF p \in S THEN "woken" ELSE pc[p]]

\* do_barrier_init() of a barrier that is not occupied
BarrierInit(p, g) ==
  /\ pc[p] = "user" /\ opid = NoPid
  /\ opid' = p /\ goal' = g /\ come' = 0 /\ block_queue' = <<>> /\ lost' = 0
  /\ UNCHANGED pc

\* Mutant of Wait: the count is not reset.
WaitNoReset(p) ==
  /\ pc[p] = "user" /\ opid # NoPid
  /\ come' = come + 1
  /\ IF come + 1 >= goal
     THEN /\ block_queue' = <<>> /\ pc' = Woken(ToSet(block_queue)) /\ lost' = 0
     ELSE /\ block_queue' = Append(block_queue, p)
          /\ pc' = [pc EXCEPT ![p] = "blocked"]
          /\ UNCHANGED lost
  /\ UNCHANGED <<opid, goal>>

\* do_barrier_wait() until it blocks or returns
Wait(p) ==
  /\ pc[p] = "user" /\ opid # NoPid
  /\ IF come + 1 >= goal
     THEN /\ come' = 0 /\ lost' = 0
          /\ block_queue' = <<>> /\ pc' = Woken(ToSet(block_queue))
     ELSE /\ come' = come + 1
          /\ block_queue' = Append(block_queue, p)
          /\ pc' = [pc EXCEPT ![p] = "blocked"]
          /\ UNCHANGED lost
  /\ UNCHANGED <<opid, goal>>

\* do_barrier_wait() after its do_block()
Resume(p) ==
  /\ pc[p] = "woken"
  /\ pc' = [pc EXCEPT ![p] = "user"]
  /\ UNCHANGED <<opid, goal, come, block_queue, lost>>

\* do_barrier_destroy() unless another process owns the barrier
Destroy(p) ==
  /\ pc[p] = "user" /\ opid \in {p, NoPid}
  /\ opid' = NoPid /\ block_queue' = <<>> /\ lost' = 0
  /\ pc' = Woken(ToSet(block_queue))
  /\ UNCHANGED <<goal, come>>

\* do_kill() or exit of p, with ress_release_killed(): come keeps counting a
\* killed waiter.
Kill(p) ==
  LET rest == lpcb_del_node(block_queue, p) IN
  /\ pc[p] # "dead"
  /\ opid' = IF opid = p THEN NoPid ELSE opid
  /\ block_queue' = IF opid = p THEN <<>> ELSE rest
  /\ pc' = [Woken(IF opid = p THEN ToSet(rest) ELSE {}) EXCEPT ![p] = "dead"]
  /\ lost' = IF opid = p THEN 0 ELSE IF pc[p] = "blocked" THEN lost + 1 ELSE lost
  /\ UNCHANGED <<goal, come>>

\* A new process gets the PID of a dead one.
Start(p) ==
  /\ pc[p] = "dead"
  /\ pc' = [pc EXCEPT ![p] = "user"]
  /\ UNCHANGED <<opid, goal, come, block_queue, lost>>

\* init_barriers(); the other fields are zero in the kernel's .bss
Init ==
  /\ opid = NoPid /\ goal = 0 /\ come = 0 /\ block_queue = <<>> /\ lost = 0
  /\ pc = [p \in Proc |-> "user"]

Next ==
  \E p \in Proc :
    \/ \E g \in Goals : BarrierInit(p, g)
    \/ Wait(p) \/ Resume(p) \/ Destroy(p) \/ Kill(p) \/ Start(p)

Spec == Init /\ [][Next]_vars
-----------------------------------------------------------------------------
TypeOK ==
  /\ opid \in Proc \cup {NoPid}
  /\ goal \in Int /\ come \in Nat /\ lost \in Nat
  /\ block_queue \in Seq(Proc)
  /\ pc \in [Proc -> {"user", "blocked", "woken", "dead"}]

\* While the barrier exists, come is the number of processes waiting in this
\* round plus those killed while waiting: a round ends early by exactly as many
\* processes as were killed in it, and a process that runs ahead into the next
\* round is never counted in the one its peers are still leaving.
ComeCountsThisRound ==
  opid # NoPid => come = Len(block_queue) + lost

\* The barrier never holds goal waiters: the last one to come opens it.
NeverFull == opid # NoPid /\ goal > 0 => come < goal

\* Waiters exist only while the barrier does.
NoOrphanWaiters ==
  /\ opid = NoPid => block_queue = <<>>
  /\ \A p \in Proc : pc[p] = "blocked" <=> p \in ToSet(block_queue)

\* The inductive invariant.
BarrierInv ==
  /\ TypeOK /\ ComeCountsThisRound /\ NeverFull /\ NoOrphanWaiters
  /\ \A i, j \in DOMAIN block_queue : block_queue[i] = block_queue[j] => i = j
=============================================================================
