------------------------------ MODULE MCLocks ------------------------------
(* Safety of Locks with three processes that may all be killed and use the *)
(* mutex, the semaphore and the barrier, or the mailbox.                   *)
EXTENDS Locks, TLC

Using(kinds) == [uses |-> [p \in Proc |-> kinds], mortal |-> Proc, watched |-> NoPid]
MCScenarios == {Using({"mutex", "semaphore", "barrier"}), Using({"mailbox"})}

Perms == Permutations(Proc)
=============================================================================
