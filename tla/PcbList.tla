------------------------------ MODULE PcbList ------------------------------
(* The queues of kernel/sched/pcb-list-g.c, as sequences with the head first. *)
EXTENDS Naturals, Sequences, SequencesExt

\* lpcb_del_node(): PCB t is unlinked from the queue, wherever it is in it.
lpcb_del_node(q, t) ==
  IF \E i \in DOMAIN q : q[i] = t
  THEN RemoveAt(q, CHOOSE i \in DOMAIN q : q[i] = t)
  ELSE q
=============================================================================
