----------------------------- MODULE LineInput -----------------------------
(***************************************************************************)
(* Line input: getchar(), with its circular buffer and its handling of     *)
(* backspace, and getline() on top of it.  The kernel (libs/glucose.c) and *)
(* the user library (tiny_libc) have the same code; the latter also sleeps *)
(* between polls of the keyboard when nobody types, which changes nothing  *)
(* about the characters.  Echoing is left out.                             *)
(***************************************************************************)
EXTENDS Naturals, Sequences, SequencesExt

CONSTANTS
  QS,             \* size of the circular buffer
  Lens,           \* sizes of str[] in calls of getline()
  Letter          \* ordinary characters: no line feed and no backspace

LF == "lf"

ASSUME LineAssumption ==
  QS \in Nat \ {0, 1} /\ Lens \subseteq Nat \ {0, 1} /\ LF \notin Letter

VARIABLES
  ibuf, qhead, qtail,
  reading,        \* "no", "getline" (between two calls of getchar()) or "typing",
                  \* in the loop of getchar()
  str, len,       \* of the getline() in progress
  line,           \* ghost: the line as edited so far
  accepted, got   \* ghost: the last finished line, and what callers got of it

linevars == <<ibuf, qhead, qtail, reading, str, len, line, accepted, got>>

QEMPTY == qhead = qtail
\* Mutant of QFULL: full only when it seems empty.
QFULLLate == (qhead + QS - qtail) % QS = 0
QFULL == (qhead + QS - qtail) % QS = 1
Queue == [i \in 1 .. (qtail + QS - qhead) % QS |-> ibuf[(qhead + i - 1) % QS]]
-----------------------------------------------------------------------------
getline(n) ==
  /\ reading = "no"
  /\ reading' = "getline" /\ str' = <<>> /\ len' = n
  /\ UNCHANGED <<ibuf, qhead, qtail, line, accepted, got>>

\* getchar() returned c; getline() takes it and goes on, or ends.
Deliver(c) ==
  /\ str' = Append(str, c) /\ got' = Append(got, c)
  /\ reading' = IF c = LF \/ Len(str) + 1 = len - 1 THEN "no" ELSE "getline"

\* getchar() with a buffer that is not empty
getchar ==
  /\ reading = "getline" /\ ~QEMPTY
  /\ qhead' = (qhead + 1) % QS
  /\ Deliver(ibuf[qhead])
  /\ UNCHANGED <<ibuf, qtail, len, line, accepted>>
\* ... and with an empty one, which waits for the keyboard
getchar_waits ==
  /\ reading = "getline" /\ QEMPTY
  /\ reading' = "typing" /\ line' = <<>>
  /\ UNCHANGED <<ibuf, qhead, qtail, str, len, accepted, got>>

TypeBackspace ==
  /\ reading = "typing"
  /\ IF QEMPTY THEN UNCHANGED <<qtail, line>>
     ELSE qtail' = (qtail + QS - 1) % QS /\ line' = Front(line)
  /\ UNCHANGED <<ibuf, qhead, reading, str, len, accepted, got>>

\* The buffer is handed over: its first character is returned, LF enters.
Accept ==
  /\ ibuf' = [ibuf EXCEPT ![qtail] = LF]
  /\ qhead' = (qhead + 1) % QS /\ qtail' = (qtail + 1) % QS
  /\ str' = Append(str, ibuf[qhead]) /\ got' = <<ibuf[qhead]>>
  /\ reading' = IF Len(str) + 1 = len - 1 THEN "no" ELSE "getline"
  /\ accepted' = Append(line, LF)

TypeEnter ==
  /\ reading = "typing"
  /\ IF QEMPTY
     THEN /\ str' = Append(str, LF) /\ reading' = "no"
          /\ got' = <<LF>> /\ accepted' = <<LF>>
          /\ UNCHANGED <<ibuf, qhead, qtail>>
     ELSE Accept
  /\ UNCHANGED <<len, line>>

\* A letter enters the buffer; if that is full, the letter is lost and the line ends.
TypeLetter(ch) ==
  /\ reading = "typing"
  /\ IF QFULL THEN Accept /\ UNCHANGED line
     ELSE /\ ibuf' = [ibuf EXCEPT ![qtail] = ch] /\ qtail' = (qtail + 1) % QS
          /\ line' = Append(line, ch)
          /\ UNCHANGED <<qhead, reading, str, accepted, got>>
  /\ UNCHANGED len
-----------------------------------------------------------------------------
LineInit ==
  /\ ibuf = [i \in 0 .. QS - 1 |-> LF] /\ qhead = 0 /\ qtail = 0
  /\ reading = "no" /\ str = <<>> /\ len = 2
  /\ line = <<>> /\ accepted = <<>> /\ got = <<>>
LineNext ==
  \/ \E n \in Lens : getline(n)
  \/ getchar \/ getchar_waits \/ TypeBackspace \/ TypeEnter
  \/ \E ch \in Letter : TypeLetter(ch)
LineSpec == LineInit /\ [][LineNext]_linevars
-----------------------------------------------------------------------------
\* Through wrap-arounds of the buffer, lines that fill it, backspaces and calls of
\* getline() too short for the line: while a line is typed the buffer holds that line
\* as edited, and afterwards what the callers got and what the buffer still holds
\* make up the line, with nothing lost, doubled or left of an earlier one.
LineAsTyped ==
  /\ IF reading = "typing" THEN Queue = line /\ got = accepted ELSE got \o Queue = accepted
  /\ Len(str) < len /\ Len(Queue) < QS
  /\ \A i \in 1 .. Len(str) - 1 : str[i] # LF
=============================================================================
