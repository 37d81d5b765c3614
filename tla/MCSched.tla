------------------------------ MODULE MCSched ------------------------------
(* Model checking of Sched on two CPUs.                                     *)
EXTENDS Sched

\* The bound on processes that block: two with any CPU affinity, which wait for the card
\* or sleep, or three with the affinity they start with, which do not sleep but also
\* wait for what another one may hold when it is killed.
Two ==
  /\ \A t \in Thread : t[1] = PidMax => status[t] = "FREE"
  /\ \A r \in Resource \ Nic : queue[ResQ(r)] = <<>>
Three ==
  /\ \A t \in Thread : t[1] >= NCPU /\ status[t] # "FREE" => mask[t] = CPU
  /\ queue[SleepQ] = <<>>
TwoOrThree == Two \/ Three
=============================================================================
