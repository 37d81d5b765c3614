------------------------------- MODULE Mutex -------------------------------
(***************************************************************************)
(* A mutex lock of kernel/locking/lock.c and the processes that use it.    *)
(* A system call runs under the kernel lock up to do_block(), so each part *)
(* of it between two switches is one step: Acquire until it blocks or      *)
(* returns, Resume from the wake-up on.  The spin lock of the mutex is     *)
(* never held across a switch (do_block() drops it) and is left out.       *)
(***************************************************************************)
EXTENDS LockTypes

VARIABLES
  status, opid, block_queue,   \* the mutex_lock_t
  pc,       \* user code, blocked in block_queue, woken but not yet run, dead
  holding   \* the processes between a successful acquire and their release

vars == <<status, opid, block_queue, pc, holding>>
-----------------------------------------------------------------------------
\* The loop of do_mutex_lock_acquire() as p executes it, until it blocks or
\* returns with the lock.
AcquireLoop(p) ==
  IF status = "LOCKED" /\ opid # p
  THEN /\ block_queue' = Append(block_queue, p)
       /\ pc' = [pc EXCEPT ![p] = "blocked"]
       /\ UNCHANGED <<status, opid, holding>>
  ELSE /\ status' = "LOCKED" /\ opid' = p
       /\ pc' = [pc EXCEPT ![p] = "user"]
       /\ holding' = holding \cup {p}
       /\ UNCHANGED block_queue

\* do_mutex_lock_acquire()
Acquire(p) == pc[p] = "user" /\ AcquireLoop(p)

\* do_block() returns after the wake-up.
Resume(p) == pc[p] = "woken" /\ AcquireLoop(p)

\* Mutant of Release: nobody is unblocked.
ReleaseQuietly(p) ==
  /\ pc[p] = "user" /\ status = "LOCKED" /\ opid = p
  /\ status' = "UNLOCKED" /\ holding' = holding \ {p}
  /\ UNCHANGED <<opid, block_queue, pc>>

\* do_mutex_lock_release() by the owner; for anyone else it changes nothing.
Release(p) ==
  /\ pc[p] = "user" /\ status = "LOCKED" /\ opid = p
  /\ status' = "UNLOCKED"
  /\ holding' = holding \ {p}
  /\ IF block_queue = <<>> THEN UNCHANGED <<block_queue, pc>>
     ELSE /\ block_queue' = Tail(block_queue)
          /\ pc' = [pc EXCEPT ![Head(block_queue)] = "woken"]
  /\ UNCHANGED opid

\* Mutant of Kill: ress_release_killed() forgets the mutexes.
KillKeepingLock(p) ==
  /\ pc[p] # "dead"
  /\ pc' = [pc EXCEPT ![p] = "dead"]
  /\ block_queue' = lpcb_del_node(block_queue, p)
  /\ holding' = holding \ {p}
  /\ UNCHANGED <<status, opid>>

\* do_kill() or exit of p: it leaves the queue it is in, and
\* ress_release_killed() hands its lock to the first waiter.
Kill(p) ==
  LET rest == lpcb_del_node(block_queue, p)
      owned == status = "LOCKED" /\ opid = p
      heir == IF owned /\ rest # <<>> THEN {Head(rest)} ELSE {}
  IN  /\ pc[p] # "dead"
      /\ pc' = [q \in Proc |-> IF q = p THEN "dead"
                               ELSE IF q \in heir THEN "woken" ELSE pc[q]]
      /\ block_queue' = IF heir = {} THEN rest ELSE Tail(rest)
      /\ status' = IF owned /\ heir = {} THEN "UNLOCKED" ELSE status
      /\ opid' = IF heir = {} THEN opid ELSE Head(rest)
      /\ holding' = holding \ {p}

\* A new process gets the PID of a dead one.
Start(p) ==
  /\ pc[p] = "dead"
  /\ pc' = [pc EXCEPT ![p] = "user"]
  /\ UNCHANGED <<status, opid, block_queue, holding>>

Init ==
  /\ status = "UNLOCKED" /\ opid = NoPid /\ block_queue = <<>>
  /\ pc = [p \in Proc |-> "user"]
  /\ holding = {}

Next == \E p \in Proc : Acquire(p) \/ Resume(p) \/ Release(p) \/ Kill(p) \/ Start(p)

Spec == Init /\ [][Next]_vars
-----------------------------------------------------------------------------
TypeOK ==
  /\ status \in {"LOCKED", "UNLOCKED"} /\ opid \in Proc \cup {NoPid}
  /\ block_queue \in Seq(Proc)
  /\ pc \in [Proc -> {"user", "blocked", "woken", "dead"}]
  /\ holding \in SUBSET Proc

\* Whoever has returned from an acquire owns the lock: two processes never
\* hold it together, whatever wakes, barging and kills happen.
MutualExclusion == \A p \in holding : status = "LOCKED" /\ opid = p

\* Exactly the blocked processes are in block_queue, once each.
QueueIsBlocked ==
  /\ \A p \in Proc : pc[p] = "blocked" <=> p \in ToSet(block_queue)
  /\ \A i, j \in DOMAIN block_queue : block_queue[i] = block_queue[j] => i = j

\* A locked mutex belongs to a live process that holds it or, being the heir
\* of a killed owner, is about to: ress_release_killed() leaves no lock behind.
OwnerAlive ==
  status = "LOCKED" => opid \in holding \/ (opid \in Proc /\ pc[opid] = "woken")

\* The inductive invariant.
MutexInv ==
  /\ TypeOK /\ MutualExclusion /\ QueueIsBlocked /\ OwnerAlive
  /\ \A p \in holding : pc[p] = "user"

\* Somebody will look at the lock on behalf of those who are blocked.
SomeoneWillWake == status = "LOCKED" \/ \E p \in Proc : pc[p] = "woken"

\* The waiters of a free lock are stranded, with nobody on the way to take and
\* release it, only when the process that do_mutex_lock_release() woke for them
\* is killed before it runs: no other step loses a wake-up.
StrandedOnlyByKill ==
  [][block_queue = <<>> \/ SomeoneWillWake =>
       \/ (block_queue = <<>> \/ SomeoneWillWake)'
       \/ \E p \in Proc : pc[p] = "woken" /\ pc'[p] = "dead"]_vars
=============================================================================
