------------------------------ MODULE Syscalls ------------------------------
(***************************************************************************)
(* The path of a system call: the wrappers of tiny_libc/syscall.c, the     *)
(* registers they load, the saved registers on the kernel stack, the       *)
(* dispatch by handle_syscall() through the table that init_syscall()      *)
(* fills, and the result in a0.  Several processes are in calls at once,   *)
(* since handlers block, and do_fork() hands a copy of the saved registers *)
(* to the child.                                                           *)
(*                                                                         *)
(* The two sides share no header: each has its own list of numbers.  A     *)
(* call is named as SYS_ names it and so is its handler.  Argument i of a  *)
(* wrapper is the value i, Ignore is 0, and what a handler returns is its  *)
(* name with the arguments it looked at.                                   *)
(*                                                                         *)
(* handle_syscall() compares the number with the end of the table only: a  *)
(* negative one takes whatever word lies before the table.  What runs then *)
(* may be no handler at all, and the model stops there.                    *)
(***************************************************************************)
EXTENDS Integers, Sequences, SequencesExt

CONSTANTS
  Process,        \* user processes
  RawNumbers      \* numbers that a program puts in a7 by itself

NUM_SYSCALLS == 96
ASSUME SyscallsAssumption == RawNumbers \subseteq Int

VARIABLES
  where,          \* of each process: "user", "trapped" (ecall), "handler", "gone", or
                  \* "lost" when what handle_syscall() called is no handler
  regs,           \* its saved registers: .args (a0 to a4) and .a7
  result,         \* a0 after the call
  running,        \* what handle_syscall() called: a handler and its arguments
  asked,          \* ghost: what the program meant to call
  raw             \* ghost: the number it put in a7 itself

sysvars == <<where, regs, result, running, asked, raw>>

\* Consecutive numbers from n on for the names of a sequence
Numbered(n, names) ==
  [s \in ToSet(names) |-> n + (CHOOSE i \in 1 .. Len(names) : names[i] = s) - 1]
\* Two tables as one
f ++ g == [s \in DOMAIN f \cup DOMAIN g |-> IF s \in DOMAIN f THEN f[s] ELSE g[s]]
-----------------------------------------------------------------------------
(* The user's side                                                         *)

\* tiny_libc/include/syscall.h
UserNumber ==
     Numbered(0, <<"exec", "exit", "sleep", "kill", "waitpid", "ps", "getpid", "yield",
                   "taskset", "fork", "thread_create", "thread_wait", "thread_exit">>)
  ++ Numbered(20, <<"screen_write", "bios_getchar", "move_cursor", "reflush", "clear",
                    "rclear", "set_cylim", "ulog">>)
  ++ Numbered(30, <<"get_timebase", "get_tick">>)
  ++ Numbered(40, <<"mlock_init", "mlock_acquire", "mlock_release", "show_task", "barr_init",
                    "barr_wait", "barr_destroy", "cond_init", "cond_wait", "cond_signal",
                    "cond_broadcast", "cond_destroy", "mbox_open", "mbox_close", "mbox_send",
                    "mbox_recv", "sema_init", "sema_up", "sema_down", "sema_destroy",
                    "sbrk", "shm_get", "shm_dt">>)
  ++ Numbered(70, <<"net_send", "net_recv", "net_send_array", "net_recv_stream">>)
  ++ Numbered(80, <<"mkfs", "fsinfo", "open", "close", "changedir", "read", "write", "lseek",
                    "getpath", "readdir", "mkdir", "rm", "hlink">>)
  ++ Numbered(95, <<"kprint_avail_table">>)

\* The names of a set, each with n
Each(n, names) == [s \in names |-> n]
\* The wrappers in the order of the file, with the number of arguments they pass:
\* screen, mutex locks, time and threads
BasicWrappers ==
     Each(0, {"yield", "bios_getchar", "reflush", "get_timebase", "get_tick", "thread_exit"})
  ++ Each(1, {"ulog", "mlock_init", "mlock_acquire", "mlock_release", "sleep", "thread_wait"})
  ++ Each(2, {"move_cursor", "screen_write", "set_cylim"})
  ++ Each(4, {"thread_create"})
\* processes
ProcessWrappers ==
     Each(0, {"exit", "ps", "clear", "getpid", "fork"}) ++ Each(1, {"kill", "waitpid"})
  ++ Each(2, {"rclear"}) ++ Each(3, {"exec"}) ++ Each(4, {"taskset"})
\* barriers, semaphores and mailboxes
SyncWrappers ==
     Each(1, {"barr_wait", "barr_destroy", "sema_up", "sema_down", "sema_destroy",
              "mbox_open", "mbox_close"})
  ++ Each(2, {"barr_init", "sema_init"}) ++ Each(3, {"mbox_send", "mbox_recv"})
\* memory and network
MemoryNetWrappers ==
     Each(0, {"kprint_avail_table"}) ++ Each(1, {"sbrk", "shm_get", "shm_dt"})
  ++ Each(2, {"net_send", "net_recv_stream"}) ++ Each(3, {"net_recv", "net_send_array"})
\* files
FileWrappers ==
     Each(0, {"fsinfo"}) ++ Each(1, {"mkfs", "close", "changedir", "getpath", "mkdir", "rm"})
  ++ Each(2, {"open", "readdir", "hlink"}) ++ Each(3, {"read", "write", "lseek"})
Wrappers == BasicWrappers ++ ProcessWrappers ++ SyncWrappers ++ MemoryNetWrappers ++ FileWrappers
ConditionWrappers == {"cond_init", "cond_wait", "cond_signal", "cond_broadcast", "cond_destroy"}
Ignore == 0
Zero == <<"zero">>
NoRegs == [args |-> <<>>, a7 |-> 0]       \* outside of a call
\* What a wrapper with n arguments passes
Arguments(n) == [i \in 1 .. 5 |-> IF i <= n THEN i ELSE Ignore]

\* invoke_syscall(): a0 to a4 and a7 are loaded, then ecall
invoke_syscall(p, w) ==
  /\ where[p] = "user"
  /\ regs' = [regs EXCEPT ![p] = [args |-> Arguments(Wrappers[w]), a7 |-> UserNumber[w]]]
  /\ where' = [where EXCEPT ![p] = "trapped"]
  /\ asked' = [asked EXCEPT ![p] = w] /\ raw' = [raw EXCEPT ![p] = 0]
  /\ result' = [result EXCEPT ![p] = Zero] /\ UNCHANGED running

\* A program without the library: any number
RawCall(p, n) ==
  /\ where[p] = "user"
  /\ regs' = [regs EXCEPT ![p] = [args |-> Arguments(5), a7 |-> n]]
  /\ where' = [where EXCEPT ![p] = "trapped"]
  /\ asked' = [asked EXCEPT ![p] = "number"] /\ raw' = [raw EXCEPT ![p] = n]
  /\ result' = [result EXCEPT ![p] = Zero] /\ UNCHANGED running

\* The wrappers for condition variables do not call the kernel.
ConditionCall(p, w) ==
  /\ where[p] = "user"
  /\ result' = [result EXCEPT ![p] = Zero]
  /\ asked' = [asked EXCEPT ![p] = w] /\ raw' = [raw EXCEPT ![p] = 0]
  /\ UNCHANGED <<where, regs, running>>
-----------------------------------------------------------------------------
(* The kernel's side                                                       *)

\* arch/riscv/include/asm/unistd.h
KernelNumber ==
     Numbered(0, <<"exec", "exit", "sleep", "kill", "waitpid", "ps", "getpid", "yield",
                   "taskset", "fork", "thread_create", "thread_wait", "thread_exit">>)
  ++ Numbered(20, <<"screen_write", "bios_getchar", "move_cursor", "reflush", "clear",
                    "rclear", "set_cylim", "ulog">>)
  ++ Numbered(30, <<"get_timebase", "get_tick">>)
  ++ Numbered(40, <<"mlock_init", "mlock_acquire", "mlock_release", "show_task", "barr_init",
                    "barr_wait", "barr_destroy", "cond_init", "cond_wait", "cond_signal",
                    "cond_broadcast", "cond_destroy", "mbox_open", "mbox_close", "mbox_send",
                    "mbox_recv", "sema_init", "sema_up", "sema_down", "sema_destroy",
                    "sbrk", "shm_get", "shm_dt">>)
  ++ Numbered(70, <<"net_send", "net_recv", "net_send_array", "net_recv_stream">>)
  ++ Numbered(80, <<"mkfs", "fsinfo", "open", "close", "changedir", "read", "write", "lseek",
                    "getpath", "readdir", "mkdir", "rm", "hlink">>)
  ++ Numbered(95, <<"kprint_avail_table">>)

\* The handlers that init_syscall() enters, by the number of their parameters
Handlers ==
     Each(0, {"exit", "getpid", "yield", "ps", "fork", "thread_exit", "bios_getchar", "reflush",
              "clear", "kprint_avail_table", "get_timebase", "get_tick", "fsinfo"})
  ++ Each(1, {"kill", "waitpid", "sleep", "thread_wait", "ulog", "mlock_init", "mlock_acquire",
              "mlock_release", "sema_up", "sema_down", "sema_destroy", "barr_wait",
              "barr_destroy", "mbox_open", "mbox_close", "sbrk", "shm_get", "shm_dt", "mkfs",
              "close", "changedir", "getpath", "mkdir", "rm"})
  ++ Each(2, {"screen_write", "move_cursor", "rclear", "set_cylim", "sema_init", "barr_init",
              "net_send", "net_recv_stream", "open", "readdir", "hlink"})
  ++ Each(3, {"exec", "mbox_send", "mbox_recv", "net_recv", "net_send_array", "read", "write",
              "lseek"})
  ++ Each(4, {"taskset", "thread_create"})

\* Mutant of init_syscall: the handlers from 56 on are entered one place early.
TableShifted(n) ==
  LET at == {h \in DOMAIN Handlers : KernelNumber[h] = (IF n \in 55 .. 58 THEN n + 1 ELSE n)} IN
  IF at = {} THEN "invalid_syscall" ELSE CHOOSE h \in at : TRUE
\* init_syscall(): entry n of syscall[]
init_syscall(n) ==
  LET at == {h \in DOMAIN Handlers : KernelNumber[h] = n} IN
  IF at = {} THEN "invalid_syscall" ELSE CHOOSE h \in at : TRUE

\* What the word at syscall[n] may be; before the table lies anything.
WordAt(n) ==
  IF n < 0 THEN DOMAIN Handlers \cup {"invalid_syscall", "no handler"} ELSE {init_syscall(n)}

\* handle_syscall() up to the call of the handler; invalid_syscall() ends the process.
handle_syscall(p) ==
  LET sysno == regs[p].a7 IN
  /\ where[p] = "trapped"
  /\ \E f \in WordAt(sysno) :
       \/ /\ sysno >= NUM_SYSCALLS \/ f = "invalid_syscall"
          /\ where' = [where EXCEPT ![p] = "gone"]
          /\ regs' = [regs EXCEPT ![p] = NoRegs] /\ UNCHANGED running
       \/ /\ sysno < NUM_SYSCALLS /\ f \in DOMAIN Handlers
          /\ running' = [running EXCEPT ![p] = <<f, SubSeq(regs[p].args, 1, Handlers[f])>>]
          /\ where' = [where EXCEPT ![p] = "handler"] /\ UNCHANGED regs
       \/ /\ sysno < NUM_SYSCALLS /\ f = "no handler"
          /\ where' = [where EXCEPT ![p] = "lost"] /\ UNCHANGED <<regs, running>>
  /\ UNCHANGED <<result, asked, raw>>

Finished(p) == where[p] = "handler" /\ running[p][1] \notin {"exit", "thread_exit"}
\* The saved registers of p are restored, with r in a0.
BackToUser(p, r) ==
  /\ result' = [result EXCEPT ![p] = r]
  /\ where' = [where EXCEPT ![p] = "user"]
  /\ regs' = [regs EXCEPT ![p] = NoRegs] /\ running' = [running EXCEPT ![p] = <<>>]
\* The handler returns, after it blocked or at once; its result goes to a0.
Return(p) ==
  /\ Finished(p) /\ running[p][1] # "fork"
  /\ BackToUser(p, running[p])
  /\ UNCHANGED <<asked, raw>>

\* a0 in the child's copy of the saved registers
ForkChild(p) == Zero
\* do_fork() returns in the parent and in child q.
ForkReturn(p, q) ==
  /\ Finished(p) /\ running[p][1] = "fork" /\ where[q] = "gone"
  /\ result' = [result EXCEPT ![q] = ForkChild(p), ![p] = running[p]]
  /\ where' = [where EXCEPT ![p] = "user", ![q] = "user"]
  /\ regs' = [regs EXCEPT ![p] = NoRegs] /\ running' = [running EXCEPT ![p] = <<>>]
  /\ asked' = [asked EXCEPT ![q] = "child"] /\ raw' = [raw EXCEPT ![q] = 0]
\* There is no room for a child.
ForkFails(p) ==
  /\ Finished(p) /\ running[p][1] = "fork" /\ \A q \in Process : where[q] # "gone"
  /\ BackToUser(p, running[p])
  /\ UNCHANGED <<asked, raw>>

\* do_exit() and do_thread_exit() do not return.
ExitCall(p) ==
  /\ where[p] = "handler" /\ ~Finished(p)
  /\ where' = [where EXCEPT ![p] = "gone"]
  /\ regs' = [regs EXCEPT ![p] = NoRegs] /\ running' = [running EXCEPT ![p] = <<>>]
  /\ UNCHANGED <<result, asked, raw>>
-----------------------------------------------------------------------------
SysInit ==
  /\ \E first \in Process :
       where = [p \in Process |-> IF p = first THEN "user" ELSE "gone"]
  /\ regs = [p \in Process |-> NoRegs] /\ result = [p \in Process |-> Zero]
  /\ running = [p \in Process |-> <<>>] /\ asked = [p \in Process |-> "child"]
  /\ raw = [p \in Process |-> 0]
SysNext ==
  /\ \A p \in Process : where[p] # "lost"
  /\ \E p \in Process :
       \/ \E w \in DOMAIN Wrappers : invoke_syscall(p, w)
       \/ \E w \in ConditionWrappers : ConditionCall(p, w)
       \/ \E n \in RawNumbers : RawCall(p, n)
       \/ handle_syscall(p) \/ Return(p) \/ ForkFails(p) \/ ExitCall(p)
       \/ \E q \in Process \ {p} : ForkReturn(p, q)
SysSpec == SysInit /\ [][SysNext]_sysvars
-----------------------------------------------------------------------------
NoReturn == {"exit", "thread_exit"}
\* The handlers that have number n
Numbering(n) == {h \in DOMAIN Handlers : KernelNumber[h] = n}
\* The result of handler h for a caller that has loaded every argument it looks at
ResultOf(h) == <<h, [i \in 1 .. Handlers[h] |-> i]>>

\* Every wrapper reaches the handler it is for, with all the arguments it was given
\* and no other, and gets that handler's result, whatever other processes call while
\* the handler is blocked; the child of a fork gets 0; a call that never returns does
\* not.  A program that puts a number in a7 itself gets the result of the handler with
\* that number, or is ended if there is none; only a negative number, which
\* handle_syscall() does not test for, may do something else, and nothing but that
\* ever makes the kernel call what is no handler.
CallsAnswered ==
  \A p \in Process :
    LET w == asked[p]  n == raw[p] IN
    CASE where[p] = "gone" ->
           \/ w \in NoReturn \cup {"child"}
           \/ w = "number" /\ (n < 0 \/ Numbering(n) \subseteq NoReturn)
      [] where[p] = "lost" -> w = "number" /\ n < 0
      [] where[p] = "user" /\ w = "number" ->
           n < 0 \/ \E h \in Numbering(n) \ NoReturn : result[p] = ResultOf(h)
      [] where[p] = "user" /\ w \in {"child"} \cup ConditionWrappers -> result[p] = Zero
      [] where[p] = "user" /\ w \notin {"child", "number"} \cup ConditionWrappers ->
           /\ w \notin NoReturn
           /\ result[p] = <<w, [i \in 1 .. Wrappers[w] |-> i]>>
      [] OTHER -> TRUE
=============================================================================
