----------------------------- MODULE LockTypes -----------------------------
(* The parameters of the models of kernel/locking/lock.c.                  *)
EXTENDS Integers, PcbList

CONSTANTS
  Proc,      \* the processes, one thread each
  NoPid,     \* INVALID_PID
  Initial,   \* the values do_semaphore_init() is called with
  MaxDebt,   \* bound: do_semaphore_down() is not called at the value -MaxDebt
  MaxCredit, \* bound: do_semaphore_up() is not called at this credit
  Goals      \* the goals do_barrier_init() is called with

ASSUME LockAssumption ==
  /\ NoPid \notin Proc
  /\ Initial \subseteq Int /\ Goals \subseteq Int
  /\ MaxDebt \in Nat /\ MaxCredit \in Nat
=============================================================================
