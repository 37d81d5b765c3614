-------------------------------- MODULE Gntp --------------------------------
(***************************************************************************)
(* The GNTP stream receiver (kernel/net/net-gntp.c) between a network that *)
(* loses, duplicates and reorders frames and a sender on another machine.  *)
(*                                                                         *)
(* The receiver keeps a list of the byte intervals it has; the first one   *)
(* starts at 0 and its end is lfr.  The sender is external: it sends every *)
(* segment once, as far as its window allows, and a segment again when the *)
(* receiver asks for it with RSD.  Byte i of the stream is the number i.   *)
(***************************************************************************)
EXTENDS Integers, Sequences, FiniteSets, FiniteSetsExt, SequencesExt

CONSTANTS
  Cut,           \* boundaries of the sender's segments, 0 among them
  len,           \* bytes the program asks for
  GNTP_WINSIZE, GNTP_TIMEOUT,
  SendWindow,    \* bytes the sender sends ahead of the last ACK
  RxRing,        \* descriptors of the receive ring
  MaxFaults,     \* bound of frames lost or duplicated
  MayFail        \* whether kmalloc_g() may find no memory

ASSUME GntpAssumption ==
  /\ IsFiniteSet(Cut) /\ Cut \subseteq Nat /\ 0 \in Cut
  /\ len \in 1..Max(Cut) /\ {GNTP_WINSIZE, GNTP_TIMEOUT, RxRing} \subseteq Nat \ {0}
  /\ SendWindow \in Nat /\ MaxFaults \in Nat /\ MayFail \in BOOLEAN

VARIABLES
  pc,             \* "poll", "blocked" in recv_block_queue, "done" or "failed"
  dlist,          \* dlh and the nodes after it
  buf,            \* the program's buffer
  recv_started, time, seq_max,
  ring,           \* frames in the receive ring of the NIC
  net, back,      \* frames in flight to and from this machine
  sent, acked,    \* the sender: segments sent once, highest ACK
  faults          \* frames lost or duplicated so far

rvars == <<pc, dlist, buf, recv_started, time, seq_max>>
vars == <<pc, dlist, buf, recv_started, time, seq_max, ring, net, back, sent, acked, faults>>

Total == Max(Cut)
End(s) == Min({c \in Cut : c > s})
Segment == {[seq |-> s, end |-> End(s)] : s \in Cut \ {Total}}
Bytes == 0..len-1
Nothing == 0 - 1               \* a byte of buf that was not written
Cleared == [start |-> 0, end |-> 0]
lfr == dlist[1].end
-----------------------------------------------------------------------------
\* Mutant of dlist_insert: a node that joins its predecessor is not joined with
\* its successor.
InsertNoJoin(d, start, end) ==
  LET k == Max({1} \cup {j \in 1..Len(d) : d[j].start <= start})
      next == k < Len(d) IN
  IF start >= end \/ end >= d[1].end + GNTP_WINSIZE THEN {[rt |-> 1, d |-> d]}
  ELSE IF start < d[k].end \/ (next /\ end > d[k+1].start) THEN {[rt |-> 1, d |-> d]}
  ELSE IF start = d[k].end THEN {[rt |-> 0, d |-> [d EXCEPT ![k].end = end]]}
  ELSE {[rt |-> 0, d |-> InsertAt(d, k + 1, [start |-> start, end |-> end])]}
\* dlist_insert(): the results it may have
dlist_insert(d, start, end) ==
  LET k == Max({1} \cup {j \in 1..Len(d) : d[j].start <= start})
      next == k < Len(d)
      joins == next /\ end = d[k+1].start IN
  IF start >= end \/ end >= d[1].end + GNTP_WINSIZE THEN {[rt |-> 1, d |-> d]}
  ELSE IF start < d[k].end \/ (next /\ end > d[k+1].start) THEN {[rt |-> 1, d |-> d]}
  ELSE IF start = d[k].end
  THEN {[rt |-> 0, d |-> IF joins THEN RemoveAt([d EXCEPT ![k].end = d[k+1].end], k + 1)
                         ELSE [d EXCEPT ![k].end = end]]}
  ELSE IF joins THEN {[rt |-> 0, d |-> [d EXCEPT ![k+1].start = start]]}
  ELSE {[rt |-> 0, d |-> InsertAt(d, k + 1, [start |-> start, end |-> end])]}
         \cup {[rt |-> 0 - 1, d |-> d] : x \in {y \in {1} : MayFail}}

reply(type, seq) == back' = back \cup {[type |-> type, seq |-> seq]}

\* One turn of the loop with a segment in the ring.  Frames that are not GNTP data
\* are skipped without effect and left out.
Packet ==
  /\ pc = "poll" /\ ring # <<>>
  /\ ring' = Tail(ring)
  /\ recv_started' = TRUE
  /\ LET m == ring[1] IN
     \E r \in dlist_insert(dlist, m.seq, m.end) :
       /\ dlist' = IF r.rt = 0 - 1 \/ (r.rt = 0 /\ r.d[1].end >= len) THEN <<Cleared>> ELSE r.d
       /\ buf' = IF r.rt = 0 THEN [i \in Bytes |-> IF i \in m.seq..m.end-1 THEN i ELSE buf[i]] ELSE buf
       /\ time' = IF r.rt = 0 THEN 0 ELSE time
       /\ seq_max' = Max({seq_max, m.seq})
       /\ IF r.rt = 0 /\ r.d[1].end >= len THEN pc' = "done" /\ reply("ACK", r.d[1].end)
          ELSE pc' = (IF r.rt = 0 - 1 THEN "failed" ELSE pc) /\ UNCHANGED back
  /\ UNCHANGED <<net, sent, acked, faults>>

\* Mutant of Idle: RSD only when a later segment has arrived.
IdleNoSecond ==
  LET rsd == time > GNTP_TIMEOUT /\ seq_max > lfr
      ack == lfr > 0 /\ time = 0 IN
  /\ pc = "poll" /\ ring = <<>>
  /\ back' = back \cup {m \in {[type |-> "ACK", seq |-> lfr]} : ack}
                  \cup {m \in {[type |-> "RSD", seq |-> lfr]} : rsd}
  /\ time' = IF rsd THEN 0 ELSE Min({time, 2 * GNTP_TIMEOUT})
  /\ pc' = "blocked"
  /\ UNCHANGED <<dlist, buf, recv_started, seq_max, ring, net, sent, acked, faults>>
\* One turn of the loop with an empty ring, up to do_block()
Idle ==
  LET rsd == time > GNTP_TIMEOUT /\ (seq_max > lfr \/ time > 2 * GNTP_TIMEOUT)
      ack == lfr > 0 /\ time = 0 IN
  /\ pc = "poll" /\ ring = <<>>
  /\ back' = back \cup {m \in {[type |-> "ACK", seq |-> lfr]} : ack}
                  \cup {m \in {[type |-> "RSD", seq |-> lfr]} : rsd}
  /\ time' = IF rsd THEN 0 ELSE time
  /\ pc' = "blocked"
  /\ UNCHANGED <<dlist, buf, recv_started, seq_max, ring, net, sent, acked, faults>>

\* The receiver is unblocked by the interrupt of a frame or by the timer.
Wake ==
  /\ pc = "blocked"
  /\ pc' = "poll"
  /\ time' = IF recv_started THEN time + 1 ELSE time
  /\ UNCHANGED <<dlist, buf, recv_started, seq_max, ring, net, back, sent, acked, faults>>
-----------------------------------------------------------------------------
\* What the network and the sender do matters while the call lasts.
Receiving == pc \in {"poll", "blocked"}

\* The network: a frame arrives in the ring, and may arrive again later; a frame
\* that finds the ring full is one that is lost.
Arrive(m) == Receiving /\ m \in net /\ Len(ring) < RxRing /\ ring' = Append(ring, m)
Deliver(m) ==
  /\ Arrive(m) /\ net' = net \ {m}
  /\ UNCHANGED <<rvars, back, sent, acked, faults>>
Duplicate(m) ==
  /\ Arrive(m) /\ faults < MaxFaults /\ faults' = faults + 1
  /\ UNCHANGED <<rvars, net, back, sent, acked>>
Lose ==
  /\ Receiving /\ faults < MaxFaults /\ faults' = faults + 1
  /\ \/ \E m \in net : net' = net \ {m} /\ UNCHANGED back
     \/ \E m \in back : back' = back \ {m} /\ UNCHANGED net
  /\ UNCHANGED <<rvars, ring, sent, acked>>

\* The sender
Send(m) ==
  /\ Receiving /\ m \notin sent /\ m.end <= acked + SendWindow
  /\ sent' = sent \cup {m} /\ net' = net \cup {m}
  /\ UNCHANGED <<rvars, ring, back, acked, faults>>
Answered(r) ==
  /\ Receiving /\ r \in back
  /\ back' = back \ {r}
  /\ acked' = IF r.type = "ACK" THEN Max({acked, r.seq}) ELSE acked
  /\ net' = net \cup {m \in Segment : r.type = "RSD" /\ m.seq = r.seq}
  /\ UNCHANGED <<rvars, ring, sent, faults>>

Init ==
  /\ pc = "poll" /\ dlist = <<Cleared>> /\ buf = [i \in Bytes |-> Nothing]
  /\ recv_started = FALSE /\ time = 0 /\ seq_max = 0
  /\ ring = <<>> /\ net = {} /\ back = {} /\ sent = {} /\ acked = 0 /\ faults = 0

Next ==
  \/ Packet \/ Idle \/ Wake
  \/ \E m \in Segment : Deliver(m) \/ Duplicate(m) \/ Send(m)
  \/ \E r \in back : Answered(r)
  \/ Lose

Spec == Init /\ [][Next]_vars

Replies == [type : {"ACK", "RSD"}, seq : Cut]
Fairness ==
  /\ WF_vars(Packet) /\ WF_vars(Idle) /\ WF_vars(Wake)
  /\ \A m \in Segment : WF_vars(Send(m)) /\ WF_vars(Deliver(m))
  /\ \A r \in Replies : WF_vars(Answered(r))
FairSpec == Spec /\ Fairness
-----------------------------------------------------------------------------
TypeOK ==
  /\ pc \in {"poll", "blocked", "done", "failed"}
  /\ buf \in [Bytes -> Bytes \cup {Nothing}]
  /\ time \in 0..2 * GNTP_TIMEOUT + 1 /\ seq_max \in Cut
  /\ ring \in Seq(Segment) /\ net \subseteq Segment /\ back \subseteq Replies

\* Whatever the network does to the frames, the interval list is sorted with gaps
\* between its nodes, covers exactly the bytes that were copied to the buffer, and
\* the call returns success only with every byte of the buffer in its place.
DeliveredAsSent ==
  /\ TypeOK
  /\ pc = "done" => \A i \in Bytes : buf[i] = i
  /\ \A k \in 1..Len(dlist)-1 : dlist[k].end < dlist[k+1].start
  /\ Receiving =>
       \A i \in Bytes : buf[i] = IF \E k \in 1..Len(dlist) : dlist[k].start <= i /\ i < dlist[k].end
                                 THEN i ELSE Nothing

\* A stream of which one segment has arrived ends, although any frame or answer
\* may be lost: ACK and RSD bring the missing segments.
Completes == recv_started ~> pc \in {"done", "failed"}
=============================================================================
