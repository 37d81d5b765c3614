------------------------------ MODULE Mailbox ------------------------------
(***************************************************************************)
(* A mailbox of kernel/locking/mbox.c: a ring buffer of bytes, a queue of  *)
(* blocked senders and one of blocked receivers.  Steps as in module       *)
(* Mutex: a system call is one step up to do_block(), and another from the *)
(* wake-up on.                                                             *)
(***************************************************************************)
EXTENDS PcbList

CONSTANTS
  Proc,      \* the processes, one thread each
  NoPid,     \* INVALID_PID
  MaxLen,    \* MAX_MBOX_LENGTH
  Lengths    \* the lengths of the messages sent and asked for

MailboxAssumption ==
  /\ NoPid \notin Proc
  /\ MaxLen \in Nat \ {0} /\ Lengths \subseteq 1 .. MaxLen

VARIABLES
  opid, block_queue_s, block_queue_r,   \* of the mailbox_t
  box,       \* its buf, buf_head, buf_tail, and whether a byte was refused
  pc,        \* user code, blocked or woken in send or recv, dead
  req_len,   \* the length of the message a process in a system call is about
  out,       \* the bytes the last step copied to a receiver
  aborted    \* the processes that closing the mailbox has woken

vars == <<opid, block_queue_s, block_queue_r, box, pc, req_len, out, aborted>>
mailbox == <<opid, block_queue_s, block_queue_r, box>>
-----------------------------------------------------------------------------
(* The ring buffer, which has one slot more than it may hold bytes.        *)

len_of_queue(b) ==
  IF b.buf_tail >= b.buf_head THEN b.buf_tail - b.buf_head
  ELSE b.buf_tail + MaxLen + 1 - b.buf_head

\* Mutant of Succ: the ring wraps one slot too early.
SuccShort(i) == IF i + 1 >= MaxLen THEN 0 ELSE i + 1
Succ(i) == IF i + 1 >= MaxLen + 1 THEN 0 ELSE i + 1

queue_enter(b, d) ==
  IF len_of_queue(b) < MaxLen
  THEN [b EXCEPT !.buf[b.buf_tail] = d, !.buf_tail = Succ(b.buf_tail)]
  ELSE [b EXCEPT !.panic = TRUE]

\* r.got collects the bytes that leave r.b.
queue_depart(r) ==
  IF len_of_queue(r.b) > 0
  THEN [b |-> [r.b EXCEPT !.buf_head = Succ(r.b.buf_head)],
        got |-> Append(r.got, r.b.buf[r.b.buf_head])]
  ELSE [r EXCEPT !.b.panic = TRUE]

Bytes(p, n) == [i \in 1 .. n |-> <<p, i>>]   \* what p sends
Messages == {Bytes(p, n) : p \in Proc, n \in Lengths}
-----------------------------------------------------------------------------
(* The system calls.                                                       *)

\* Mutant of Served: only the first receiver is woken.
ServedOne(n) == IF block_queue_r # <<>> /\ req_len[Head(block_queue_r)] <= n THEN 1 ELSE 0

\* How many receivers do_mbox_send() wakes once n bytes are in the buffer: from
\* the head of the queue on, as long as the next one asks for at most n.
Served(n) ==
  CHOOSE k \in 0 .. Len(block_queue_r) :
    /\ \A i \in 1 .. k : req_len[block_queue_r[i]] <= n
    /\ k < Len(block_queue_r) => req_len[block_queue_r[k + 1]] > n

\* p returns from its system call; S are woken with status w.
Return(p, S, w) ==
  /\ pc' = [q \in Proc |-> IF q = p THEN "user" ELSE IF q \in S THEN w ELSE pc[q]]
  /\ req_len' = [req_len EXCEPT ![p] = 0]
  /\ aborted' = aborted \ {p}

\* p blocks in its system call with status w.
Wait(p, n, w) ==
  /\ pc' = [pc EXCEPT ![p] = w]
  /\ req_len' = [req_len EXCEPT ![p] = n]
  /\ aborted' = aborted \ {p} /\ out' = <<>>

\* INT32_MIN is returned.
Fail(p) == Return(p, {}, "") /\ out' = <<>> /\ UNCHANGED mailbox

\* The loop of do_mbox_send() and what follows it
SendLoop(p, n) ==
  IF MaxLen - len_of_queue(box) < n
  THEN /\ block_queue_s' = Append(block_queue_s, p)
       /\ Wait(p, n, "send_blocked")
       /\ UNCHANGED <<opid, block_queue_r, box>>
  ELSE /\ box' = FoldLeft(queue_enter, box, Bytes(p, n))
       /\ LET k == Served(len_of_queue(box')) IN
            /\ block_queue_r' = SubSeq(block_queue_r, k + 1, Len(block_queue_r))
            /\ Return(p, ToSet(SubSeq(block_queue_r, 1, k)), "recv_woken")
       /\ out' = <<>> /\ UNCHANGED <<opid, block_queue_s>>

\* Mutant of RecvLoop: only the first blocked sender is woken.
RecvLoopOne(p, n) ==
  IF len_of_queue(box) < n
  THEN /\ block_queue_r' = Append(block_queue_r, p)
       /\ Wait(p, n, "recv_blocked")
       /\ UNCHANGED <<opid, block_queue_s, box>>
  ELSE LET r == FoldLeft(LAMBDA a, i : queue_depart(a), [b |-> box, got |-> <<>>],
                         [i \in 1 .. n |-> i])
           k == IF block_queue_s = <<>> THEN 0 ELSE 1
       IN  /\ box' = r.b /\ out' = r.got
           /\ block_queue_s' = SubSeq(block_queue_s, k + 1, Len(block_queue_s))
           /\ Return(p, ToSet(SubSeq(block_queue_s, 1, k)), "send_woken")
           /\ UNCHANGED <<opid, block_queue_r>>

\* The loop of do_mbox_recv() and what follows it: every sender is woken.
RecvLoop(p, n) ==
  IF len_of_queue(box) < n
  THEN /\ block_queue_r' = Append(block_queue_r, p)
       /\ Wait(p, n, "recv_blocked")
       /\ UNCHANGED <<opid, block_queue_s, box>>
  ELSE LET r == FoldLeft(LAMBDA a, i : queue_depart(a), [b |-> box, got |-> <<>>],
                         [i \in 1 .. n |-> i])
       IN  /\ box' = r.b /\ out' = r.got
           /\ block_queue_s' = <<>>
           /\ Return(p, ToSet(block_queue_s), "send_woken")
           /\ UNCHANGED <<opid, block_queue_r>>

\* do_mbox_send() and do_mbox_recv() until they block or return
Send(p, n) == pc[p] = "user" /\ (IF opid = NoPid THEN Fail(p) ELSE SendLoop(p, n))
Recv(p, n) == pc[p] = "user" /\ (IF opid = NoPid THEN Fail(p) ELSE RecvLoop(p, n))

\* ... and after their do_block()
ResumeSend(p) ==
  /\ pc[p] = "send_woken"
  /\ IF opid = NoPid THEN Fail(p) ELSE SendLoop(p, req_len[p])
ResumeRecv(p) ==
  /\ pc[p] = "recv_woken"
  /\ IF opid = NoPid THEN Fail(p) ELSE RecvLoop(p, req_len[p])

\* do_mbox_open() of a mailbox that is not in use; otherwise it changes nothing.
Open(p) ==
  /\ pc[p] = "user" /\ opid = NoPid
  /\ opid' = p
  /\ block_queue_s' = <<>> /\ block_queue_r' = <<>>
  /\ box' = [box EXCEPT !.buf_head = 0, !.buf_tail = 0]
  /\ out' = <<>> /\ UNCHANGED <<pc, req_len, aborted>>

\* Everybody blocked, except those in D, is woken because the mailbox is closed.
WakeAll(D) ==
  /\ opid' = NoPid
  /\ block_queue_s' = <<>> /\ block_queue_r' = <<>>
  /\ pc' = [q \in Proc |-> IF q \in D THEN "dead"
                           ELSE IF pc[q] = "send_blocked" THEN "send_woken"
                           ELSE IF pc[q] = "recv_blocked" THEN "recv_woken"
                           ELSE pc[q]]
  /\ aborted' = (aborted \cup ToSet(block_queue_s) \cup ToSet(block_queue_r)) \ D

\* do_mbox_close(), by any process
Close(p) ==
  /\ pc[p] = "user" /\ opid # NoPid
  /\ WakeAll({})
  /\ out' = <<>> /\ UNCHANGED <<box, req_len>>

\* do_kill() or exit of p, with mbox_release_killed()
Kill(p) ==
  /\ pc[p] # "dead"
  /\ IF opid = p THEN WakeAll({p})
     ELSE /\ block_queue_s' = lpcb_del_node(block_queue_s, p)
          /\ block_queue_r' = lpcb_del_node(block_queue_r, p)
          /\ pc' = [pc EXCEPT ![p] = "dead"]
          /\ aborted' = aborted \ {p}
          /\ UNCHANGED opid
  /\ req_len' = [req_len EXCEPT ![p] = 0] /\ out' = <<>>
  /\ UNCHANGED box

\* A new process gets the PID of a dead one.
Start(p) ==
  /\ pc[p] = "dead"
  /\ pc' = [pc EXCEPT ![p] = "user"]
  /\ out' = <<>> /\ UNCHANGED <<mailbox, req_len, aborted>>

Init ==
  /\ opid = NoPid /\ block_queue_s = <<>> /\ block_queue_r = <<>>
  /\ box = [buf |-> [i \in 0 .. MaxLen |-> <<NoPid, 0>>],
            buf_head |-> 0, buf_tail |-> 0, panic |-> FALSE]
  /\ pc = [p \in Proc |-> "user"]
  /\ req_len = [p \in Proc |-> 0]
  /\ out = <<>> /\ aborted = {}

Next ==
  \E p \in Proc :
    \/ Open(p) \/ Close(p) \/ Kill(p) \/ Start(p)
    \/ ResumeSend(p) \/ ResumeRecv(p)
    \/ \E n \in Lengths : Send(p, n) \/ Recv(p, n)

Spec == Init /\ [][Next]_vars
-----------------------------------------------------------------------------
(* Properties.                                                             *)

Byte == (Proc \cup {NoPid}) \X Nat

TypeOK ==
  /\ opid \in Proc \cup {NoPid}
  /\ block_queue_s \in Seq(Proc) /\ block_queue_r \in Seq(Proc)
  /\ box \in [buf : [0 .. MaxLen -> Byte], buf_head : 0 .. MaxLen,
              buf_tail : 0 .. MaxLen, panic : BOOLEAN]
  /\ pc \in [Proc -> {"user", "send_blocked", "recv_blocked",
                      "send_woken", "recv_woken", "dead"}]
  /\ req_len \in [Proc -> Nat]

\* queue_enter() and queue_depart() never find the buffer full or empty: the
\* panic_g() calls after the waiting loops are not reached.
NoPanic == ~box.panic

\* The queues hold exactly the blocked processes, once each, and are empty while the
\* mailbox is closed, so do_mbox_open() forgets nobody when it clears them.
QueuesMatch ==
  /\ \A p \in Proc : /\ pc[p] = "send_blocked" <=> p \in ToSet(block_queue_s)
                     /\ pc[p] = "recv_blocked" <=> p \in ToSet(block_queue_r)
  /\ \A q \in {block_queue_s, block_queue_r} :
       \A i, j \in DOMAIN q : q[i] = q[j] => i = j
  /\ opid = NoPid => block_queue_s = <<>> /\ block_queue_r = <<>>

\* A process in a system call is about a message of the length it called with.
InCallForSome == \A p \in Proc : pc[p] \notin {"user", "dead"} => req_len[p] \in Lengths

\* No sender stays blocked while there is room for its message.
NoStrandedSender ==
  \A p \in ToSet(block_queue_s) : MaxLen - len_of_queue(box) < req_len[p]

\* The inductive invariant.
MailboxInv == TypeOK /\ NoPanic /\ QueuesMatch /\ InCallForSome /\ NoStrandedSender

\* The first blocked receiver stays blocked although its bytes are there only
\* if the receiver that was ahead of it has been killed.
HeadServed ==
  block_queue_r # <<>> => len_of_queue(box) < req_len[Head(block_queue_r)]
ReceiverStrandedOnlyByKill ==
  [][HeadServed => HeadServed' \/ \E p \in Proc : pc[p] = "recv_blocked" /\ pc'[p] = "dead"]_vars

\* The ring buffer and the waiting loops implement a FIFO of whole messages.
Fifo == INSTANCE MailboxFifo WITH
  chan <- [i \in 1 .. len_of_queue(box) |->
             box.buf[(box.buf_head + i - 1) % (MaxLen + 1)]]
ImplementsFifo == Fifo!Spec

\* A process woken because the mailbox was closed returns with an error: it
\* neither transfers bytes nor blocks again (a step of the process after which
\* it is alive leaves the mailbox as it is).
ClosedMeansError ==
  [][\A p \in aborted : p \notin aborted' /\ pc'[p] # "dead" => UNCHANGED mailbox]_vars
=============================================================================
