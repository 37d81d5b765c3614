-------------------------------- MODULE Nic --------------------------------
(***************************************************************************)
(* The network card (drivers/e1000.c), the system calls on top of it       *)
(* (kernel/net/net.c) and its interrupt (handle_irq_ext() of irq.c).       *)
(*                                                                         *)
(* The kernel lock makes system calls and interrupt handlers exclude each  *)
(* other, but the card works on beside them: a call is cut into the steps  *)
(* between which the card may move a ring pointer or raise a cause.  The   *)
(* card itself is external.  Frames are numbered in the                    *)
(* order in which they are handed over, modulo twice the length of the     *)
(* ring, so that a frame lost, doubled, overtaken or overwritten is seen.  *)
(***************************************************************************)
EXTENDS Integers, PcbList, FiniteSets

CONSTANTS
  NicProc,            \* the processes, one thread each
  TXDESCS, RXDESCS,   \* descriptors of the two rings
  SendCounts,         \* frames of one do_net_send() or do_net_send_array()
  RecvCounts,         \* pkt_num of one do_net_recv()
  Roles               \* who sends and who receives

ASSUME NicAssumption ==
  /\ {TXDESCS, RXDESCS} \subseteq Nat \ {0, 1}
  /\ SendCounts \subseteq 1 .. TXDESCS - 1 /\ RecvCounts \subseteq Nat \ {0}
  /\ Roles \subseteq [NicProc -> {"send", "recv"}]

VARIABLES
  tdh, tcq_tail, tx_frm_buffer,   \* transmit ring; TDT is tcq_tail
  rdh, rcq_tail, rx_frm_buffer,   \* receive ring; a frame is there when DD is set
  icr, ims,                       \* causes raised and causes unmasked
  send_block_queue, recv_block_queue,
  doing, req_len,                    \* of each process; frames it still asks for
  role,                           \* what each process does, never changed
  kernel,                         \* what runs under the kernel lock
  number                          \* ghost: next number to queue, to leave the
                                  \* card, to arrive and to be received

txring == <<tdh, tcq_tail, tx_frm_buffer>>
rxring == <<rdh, rcq_tail, rx_frm_buffer>>
queues == <<send_block_queue, recv_block_queue>>
nicvars == <<txring, rxring, icr, ims, queues, doing, req_len, role, kernel, number>>

NoFrame == 0 - 1
Causes == {"TXQE", "RXDMT0"}
Idle == <<"idle">>                         \* nobody is in the kernel
Half == RXDESCS \div 2                     \* RXDESCS >> 1, RDMTS_HALF
Next1(i, n) == (i + 1) % n
\* The number of the frame n after that of counter f, and the counter moved on.
Laps == [queue |-> 2 * TXDESCS, leave |-> 2 * TXDESCS, arrive |-> 2 * RXDESCS, receive |-> 2 * RXDESCS]
Numbered(f, n) == (number[f] + n) % Laps[f]
Counted(f, n) == [number EXCEPT ![f] = Numbered(f, n)]
-----------------------------------------------------------------------------
(* Sending                                                                 *)

tcq_len == (tcq_tail + TXDESCS - tdh) % TXDESCS

\* Mutant of Full: the last free descriptor is used too.
FullLate(n) == tcq_len + n > TXDESCS
\* The test of e1000_transmit() and e1000_transmit_array()
Full(n) == tcq_len + n > TXDESCS - 1

\* A send of n frames reads TDH: it fills descriptors and returns, or it goes
\* on to wait.
TrySend(p, n) ==
  IF Full(n)
  THEN /\ kernel' = <<"wait_tx", p>> /\ doing' = [doing EXCEPT ![p] = "kernel"]
       /\ req_len' = [req_len EXCEPT ![p] = n]
       /\ UNCHANGED <<txring, number>>
  ELSE /\ tx_frm_buffer' = [i \in 0 .. TXDESCS - 1 |->
             LET k == (i + TXDESCS - tcq_tail) % TXDESCS IN
             IF k < n THEN Numbered("queue", k) ELSE tx_frm_buffer[i]]
       /\ tcq_tail' = (tcq_tail + n) % TXDESCS
       /\ number' = Counted("queue", n)
       /\ doing' = [doing EXCEPT ![p] = "user"]
       /\ req_len' = [req_len EXCEPT ![p] = 0]
       /\ UNCHANGED <<tdh, kernel>>

do_net_send(p, n) ==
  /\ kernel = Idle /\ doing[p] = "user" /\ role[p] = "send"
  /\ TrySend(p, n)
  /\ UNCHANGED <<rxring, icr, ims, queues, role>>
ResumeNetSend(p) ==
  /\ kernel = Idle /\ doing[p] = "send_woken"
  /\ TrySend(p, req_len[p])
  /\ UNCHANGED <<rxring, icr, ims, queues, role>>

\* Mutant of WaitTx: the interrupt is not unmasked.
WaitTxMasked(p) ==
  /\ kernel = <<"wait_tx", p>>
  /\ send_block_queue' = Append(send_block_queue, p)
  /\ doing' = [doing EXCEPT ![p] = "send_blocked"] /\ kernel' = Idle
  /\ UNCHANGED <<txring, rxring, icr, ims, recv_block_queue, req_len, number, role>>
\* The ring was full: the interrupt is unmasked, then the process blocks.
WaitTx(p) ==
  /\ kernel = <<"wait_tx", p>>
  /\ ims' = ims \cup {"TXQE"}
  /\ send_block_queue' = Append(send_block_queue, p)
  /\ doing' = [doing EXCEPT ![p] = "send_blocked"] /\ kernel' = Idle
  /\ UNCHANGED <<txring, rxring, icr, recv_block_queue, req_len, number, role>>
-----------------------------------------------------------------------------
(* Receiving                                                               *)

do_net_recv(p, n) ==
  /\ kernel = Idle /\ doing[p] = "user" /\ role[p] = "recv"
  /\ kernel' = <<"poll", p>> /\ doing' = [doing EXCEPT ![p] = "kernel"]
  /\ req_len' = [req_len EXCEPT ![p] = n]
  /\ UNCHANGED <<txring, rxring, icr, ims, queues, number, role>>
ResumeNetRecv(p) ==
  /\ kernel = Idle /\ doing[p] = "recv_woken"
  /\ kernel' = <<"poll", p>> /\ doing' = [doing EXCEPT ![p] = "kernel"]
  /\ UNCHANGED <<txring, rxring, icr, ims, queues, req_len, number, role>>

\* e1000_poll() and the step of do_net_recv() that follows: the next frame is
\* taken and its descriptor given back, or the process waits.
Poll(p) ==
  LET next == Next1(rcq_tail, RXDESCS) IN
  /\ kernel = <<"poll", p>>
  /\ IF rx_frm_buffer[next] # NoFrame
     THEN /\ rx_frm_buffer' = [rx_frm_buffer EXCEPT ![next] = NoFrame]
          /\ rcq_tail' = next
          /\ number' = Counted("receive", 1)
          /\ req_len' = [req_len EXCEPT ![p] = @ - 1]
          /\ IF req_len[p] = 1 THEN kernel' = Idle /\ doing' = [doing EXCEPT ![p] = "user"]
             ELSE UNCHANGED <<kernel, doing>>
          /\ UNCHANGED <<ims, recv_block_queue>>
     ELSE /\ ims' = ims \cup {"RXDMT0"}
          /\ recv_block_queue' = Append(recv_block_queue, p)
          /\ doing' = [doing EXCEPT ![p] = "recv_blocked"] /\ kernel' = Idle
          /\ UNCHANGED <<rx_frm_buffer, rcq_tail, number, req_len>>
  /\ UNCHANGED <<txring, rdh, icr, send_block_queue, role>>
-----------------------------------------------------------------------------
(* Wake-ups                                                                *)

Woken(S, w) == [p \in NicProc |-> IF p \in S THEN w ELSE doing[p]]

\* handle_irq_ext() claims the interrupt, reads and clears ICR and calls
\* handle_e1000_int_txqe() and handle_e1000_int_rxdmt0().
handle_irq_ext ==
  /\ kernel = Idle /\ icr \cap ims # {}
  /\ kernel' = <<"irq", icr>> /\ icr' = {}
  /\ doing' = [p \in NicProc |->
       CASE "TXQE" \in icr /\ doing[p] = "send_blocked" -> "send_woken"
         [] "RXDMT0" \in icr /\ doing[p] = "recv_blocked" -> "recv_woken"
         [] OTHER -> doing[p]]
  /\ send_block_queue' = IF "TXQE" \in icr THEN <<>> ELSE send_block_queue
  /\ recv_block_queue' = IF "RXDMT0" \in icr THEN <<>> ELSE recv_block_queue
  /\ UNCHANGED <<txring, rxring, ims, req_len, number, role>>

\* The write of IMC
MaskCauses(causes) == ims \ causes
\* ... which ends handle_irq_ext(), with plic_complete().
EndIrq ==
  /\ \E causes \in SUBSET Causes :
       kernel = <<"irq", causes>> /\ ims' = MaskCauses(causes)
  /\ kernel' = Idle
  /\ UNCHANGED <<txring, rxring, icr, queues, doing, req_len, number, role>>

\* check_sleeping_on_nic(), from the timer: from the head of the queue on, as
\* long as the next receiver asks for at most half of the ring
check_sleeping_on_nic ==
  LET small(k) == \A i \in 1 .. k : req_len[recv_block_queue[i]] <= Half
      n == CHOOSE k \in 0 .. Len(recv_block_queue) :
             small(k) /\ (k < Len(recv_block_queue) => ~small(k + 1)) IN
  /\ kernel = Idle /\ n > 0
  /\ recv_block_queue' = SubSeq(recv_block_queue, n + 1, Len(recv_block_queue))
  /\ doing' = Woken(ToSet(SubSeq(recv_block_queue, 1, n)), "recv_woken")
  /\ UNCHANGED <<txring, rxring, icr, ims, send_block_queue, req_len, kernel, number, role>>

\* do_kill() of a process that waits for the card; a new one gets its PID.
KillWaiting(p) ==
  /\ kernel = Idle /\ doing[p] \notin {"user", "kernel"}
  /\ send_block_queue' = lpcb_del_node(send_block_queue, p)
  /\ recv_block_queue' = lpcb_del_node(recv_block_queue, p)
  /\ doing' = [doing EXCEPT ![p] = "user"] /\ req_len' = [req_len EXCEPT ![p] = 0]
  /\ UNCHANGED <<txring, rxring, icr, ims, kernel, number, role>>
-----------------------------------------------------------------------------
(* The card                                                                *)

\* It sends the frame at TDH, and raises TXQE when that was the last one.  (What a
\* buffer holds afterwards is never read.)
Transmit ==
  /\ tdh # tcq_tail
  /\ tdh' = Next1(tdh, TXDESCS)
  /\ tx_frm_buffer' = [tx_frm_buffer EXCEPT ![tdh] = NoFrame]
  /\ icr' = IF tdh' = tcq_tail THEN icr \cup {"TXQE"} ELSE icr
  /\ number' = Counted("leave", 1)
  /\ UNCHANGED <<tcq_tail, rxring, ims, queues, doing, req_len, kernel, role>>

\* It writes a frame at RDH unless no descriptor is left, and raises RXDMT0 when
\* at most half of them are.
Receive ==
  /\ rdh # rcq_tail
  /\ rx_frm_buffer' = [rx_frm_buffer EXCEPT ![rdh] = number["arrive"]]
  /\ rdh' = Next1(rdh, RXDESCS)
  /\ icr' = IF (rcq_tail + RXDESCS - rdh') % RXDESCS <= Half
            THEN icr \cup {"RXDMT0"} ELSE icr
  /\ number' = Counted("arrive", 1)
  /\ UNCHANGED <<rcq_tail, txring, ims, queues, doing, req_len, kernel, role>>
-----------------------------------------------------------------------------
\* e1000_init()
NicInit ==
  /\ tdh = 0 /\ tcq_tail = 0 /\ tx_frm_buffer = [i \in 0 .. TXDESCS - 1 |-> NoFrame]
  /\ rdh = 0 /\ rcq_tail = RXDESCS - 1
  /\ rx_frm_buffer = [i \in 0 .. RXDESCS - 1 |-> NoFrame]
  /\ icr = {} /\ ims = {} /\ send_block_queue = <<>> /\ recv_block_queue = <<>>
  /\ doing = [p \in NicProc |-> "user"] /\ req_len = [p \in NicProc |-> 0]
  /\ kernel = Idle /\ role \in Roles
  /\ number = [f \in {"queue", "leave", "arrive", "receive"} |-> 0]

NicNext ==
  \/ \E p \in NicProc :
       \/ ResumeNetSend(p) \/ WaitTx(p) \/ ResumeNetRecv(p) \/ Poll(p) \/ KillWaiting(p)
       \/ \E n \in SendCounts : do_net_send(p, n)
       \/ \E n \in RecvCounts : do_net_recv(p, n)
  \/ handle_irq_ext \/ EndIrq \/ check_sleeping_on_nic
  \/ Transmit \/ Receive

\* Whoever is in the kernel goes on, and the card sends what is queued.  A pending
\* interrupt or timer is taken at the latest when the CPU is back in user code, so
\* it is not held off for ever by system calls.  Nobody has to send to this machine.
NicFairness ==
  /\ \A p \in NicProc : WF_nicvars(WaitTx(p)) /\ WF_nicvars(Poll(p))
  /\ WF_nicvars(EndIrq) /\ SF_nicvars(handle_irq_ext)
  /\ SF_nicvars(check_sleeping_on_nic) /\ WF_nicvars(Transmit)
NicSpec == NicInit /\ [][NicNext]_nicvars /\ NicFairness
-----------------------------------------------------------------------------
\* The frames between two positions of a ring carry consecutive numbers.
InOrder(buf, n, from, len, f) ==
  \A k \in 0 .. len - 1 : buf[(from + k) % n] = Numbered(f, k)

\* Whatever the card does while a system call is between two steps, the frames
\* that wait in the transmit ring are those that were queued and not sent yet, in
\* order and none overwritten, and likewise those in the receive ring are exactly
\* those that arrived and were not received yet.
RingsSound ==
  LET rfrom == Next1(rcq_tail, RXDESCS)
      rlen == (rdh + RXDESCS - rfrom) % RXDESCS
      Distance(a, b) == (number[b] + Laps[b] - number[a]) % Laps[b] IN
  /\ tcq_len = Distance("leave", "queue")
  /\ InOrder(tx_frm_buffer, TXDESCS, tdh, tcq_len, "leave")
  /\ rlen = Distance("receive", "arrive")
  /\ InOrder(rx_frm_buffer, RXDESCS, rfrom, rlen, "receive")

\* What p is blocked for is there: the ring has run empty, half of it is filled,
\* or p is the first receiver and wants little, which the timer looks after.
Due(p) ==
  \/ doing[p] = "send_blocked" /\ tdh = tcq_tail
  \/ /\ doing[p] = "recv_blocked"
     /\ \/ (rcq_tail + RXDESCS - rdh) % RXDESCS <= Half
        \/ Head(recv_block_queue) = p /\ req_len[p] <= Half

\* A sender is woken when the ring has run empty, also when that happened before
\* the cause was unmasked or the process queued, and although the handler of another
\* cause clears ICR and masks.  (Other senders may keep the ring from running empty,
\* for ever if they like.)  Likewise a receiver is woken when half of the ring is
\* filled, or by the timer when it is the first and wants little.
NobodyMissesTheCard ==
  \A p \in NicProc : Due(p) ~> doing[p] \notin {"send_blocked", "recv_blocked"}
=============================================================================
