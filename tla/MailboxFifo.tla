---------------------------- MODULE MailboxFifo ----------------------------
(* What a mailbox promises: a bounded FIFO of bytes into which a message is *)
(* put as a whole and from which a receiver takes the oldest bytes.         *)
EXTENDS Naturals, Sequences

CONSTANTS MaxLen, Messages

VARIABLES
  chan,   \* the bytes in the mailbox
  out     \* the bytes the last step gave to a receiver

vars == <<chan, out>>

Put(m) ==
  /\ Len(chan) + Len(m) <= MaxLen
  /\ chan' = chan \o m
  /\ out' = <<>>

Get(n) ==
  /\ n <= Len(chan)
  /\ out' = SubSeq(chan, 1, n)
  /\ chan' = SubSeq(chan, n + 1, Len(chan))

\* The mailbox is opened anew.
Clear == chan' = <<>> /\ out' = <<>>

\* Anything else that happens in the system.
Else == UNCHANGED chan /\ out' = <<>>

Init == chan = <<>> /\ out = <<>>
Next == (\E m \in Messages : Put(m)) \/ (\E n \in 1 .. MaxLen : Get(n)) \/ Clear \/ Else
Spec == Init /\ [][Next]_vars
=============================================================================
