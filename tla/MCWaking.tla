------------------------------ MODULE MCWaking ------------------------------
(* Whether those who wait are woken: at a mutex or a barrier that nobody   *)
(* is killed at, or for the network card.  A behaviour is one of the locks *)
(* or one of the card; the other part stays as it is initially.            *)
EXTENDS Locks, Nic, TLC

VARIABLE part  \* "locks" or "nic"

allvars == <<part, vars, nicvars>>

\* All processes do the same, or one of them sends and the others receive.
MCRoles ==
  [NicProc -> {"send", "recv"}] \ {("p1" :> "recv") @@ ("p2" :> "send")}

Quiet(k, w) == [uses |-> [p \in Proc |-> {k}], mortal |-> {}, watched |-> w]
\* All processes do the same, so watching one of them is watching each.
MCScenarios == {Quiet(k, CHOOSE p \in Proc : TRUE) : k \in {"mutex", "barrier"}}

WakingInit ==
  \/ part = "locks" /\ Init /\ NicInit /\ role = [p \in NicProc |-> "send"]
  \/ part = "nic" /\ Init /\ scenario = Quiet("mutex", CHOOSE p \in Proc : TRUE) /\ NicInit

LocksMove == part = "locks" /\ Next /\ UNCHANGED <<part, nicvars>>
NicMoves == part = "nic" /\ NicNext /\ UNCHANGED <<part, vars>>

OfLocks(A) == part = "locks" /\ A /\ UNCHANGED <<part, nicvars>>
OfNic(A) == part = "nic" /\ A /\ UNCHANGED <<part, vars>>

\* The fairness of Locks and of Nic.  (Under the kernel lock one step at a time
\* is possible, so one condition covers them all.)
WakingFairness ==
  /\ \A p \in Proc : WF_allvars(OfLocks(Runs(p)))
  /\ WF_allvars(OfNic(EndIrq \/ \E p \in NicProc : WaitTx(p) \/ Poll(p)))
  /\ WF_allvars(OfNic(Transmit)) /\ SF_allvars(OfNic(handle_irq_ext))
  /\ SF_allvars(OfNic(check_sleeping_on_nic))

WakingSpec == WakingInit /\ [][LocksMove \/ NicMoves]_allvars /\ WakingFairness
=============================================================================
