-------------------------------- MODULE Trap --------------------------------
(***************************************************************************)
(* The way into and out of the kernel (arch/riscv/kernel/entry.S), the     *)
(* global kernel lock (kernel/smp/smp.c) and the trap frames on the kernel *)
(* stacks, on several CPUs.                                                *)
(*                                                                         *)
(* A trap saves a frame outside the lock, takes the lock, runs a handler,  *)
(* gives the lock back and restores the frame outside the lock again.  A   *)
(* page fault in a system call pushes a second frame and leaves the lock   *)
(* alone.  The handlers are reduced to what they do to frames and to who   *)
(* runs: module Sched has the scheduler, module Memory the page faults.    *)
(* The user's program counter is kept modulo Pcs.                          *)
(***************************************************************************)
EXTENDS Naturals, Sequences, FiniteSets

CONSTANTS
  Cpu,        \* the CPUs; each is also the PID of its idle process (PID < NCPU)
  User,       \* the PIDs of user processes
  Pcs         \* addresses of instructions

Free == "unlocked"

ASSUME TrapAssumption == Cpu \cap User = {} /\ Free \notin Cpu /\ Pcs \in Nat \ {0, 1}

VARIABLES
  current_running,   \* of each CPU
  at,                \* where each CPU is: in user code or the idle loop ("run"),
                     \* past SAVE_CONTEXT ("entry"), in interrupt_helper() ("handler"),
                     \* at ret_from_exception ("ret"), past the unlock ("restore")
  spp,               \* SPP of each CPU's sstatus
  lock,              \* global_kernel_lock: the CPU that took it, or Free
  status,            \* of each process
  frames,            \* the trap frames on its kernel stack
  kernel_sp,         \* whether it points at the last frame
  context,           \* where switch_to() resumes it
  sepc,              \* its program counter in user code
  want,              \* ghost: where it has to go on
  panicked           \* panic_g() was called

trapvars == <<current_running, at, spp, lock, status, frames, kernel_sp, context,
              sepc, want, panicked>>

Pid == Cpu \cup User
Idle(p) == p \in Cpu
Cur(h) == current_running[h]
Top(p) == frames[p][Len(frames[p])]
Pop(s) == SubSeq(s, 1, Len(s) - 1)
Following(pc) == (pc + 1) % Pcs
Frame == [spp : {"U", "S"}, scause : {"syscall", "fork", "fault", "irq", "none"},
          sepc : 0 .. Pcs - 1]
-----------------------------------------------------------------------------
(* Entry                                                                   *)

\* SAVE_CONTEXT after a trap from mode m; kernel_sp then points at the frame.
SAVE_CONTEXT(h, m, cause) ==
  LET p == Cur(h) IN
  /\ spp' = [spp EXCEPT ![h] = m]
  /\ frames' = [frames EXCEPT ![p] =
       Append(@, [spp |-> m, scause |-> cause, sepc |-> sepc[p]])]
  /\ kernel_sp' = [kernel_sp EXCEPT ![p] = TRUE]
  /\ at' = [at EXCEPT ![h] = "entry"]

\* User code calls the system, faults or is interrupted; the idle loop, which is
\* in S-mode, is interrupted.
UserTrap(h, cause) ==
  /\ at[h] = "run" /\ Cur(h) \in User
  /\ SAVE_CONTEXT(h, "U", cause)
  /\ want' = [want EXCEPT ![Cur(h)] =
       IF cause \in {"syscall", "fork"} THEN Following(sepc[Cur(h)]) ELSE sepc[Cur(h)]]
  /\ UNCHANGED <<current_running, lock, status, context, sepc, panicked>>
IdleTrap(h) ==
  /\ at[h] = "run" /\ Idle(Cur(h))
  /\ SAVE_CONTEXT(h, "S", "irq")
  /\ UNCHANGED <<current_running, lock, status, context, sepc, want, panicked>>

\* A system call touches a page of the user that is not there.  (do_fork() touches
\* none.)
NestedFault(h) ==
  LET p == Cur(h) IN
  /\ at[h] = "handler" /\ p \in User /\ status[p] # "EXITING"
  /\ Top(p).scause = "syscall"
  /\ SAVE_CONTEXT(h, "S", "fault")
  /\ UNCHANGED <<current_running, lock, status, context, sepc, want, panicked>>

\* The test of exception_handler_entry, and the one of ret_from_exception: a trap
\* from S-mode for a user process comes from a system call that has the lock.
BypassLock(p, m) == p \in User /\ m = "S"

\* exception_handler_entry from SAVE_CONTEXT to interrupt_helper()
Enter(h) ==
  /\ at[h] = "entry"
  /\ IF BypassLock(Cur(h), spp[h]) THEN UNCHANGED lock ELSE lock = Free /\ lock' = h
  /\ at' = [at EXCEPT ![h] = "handler"]
  /\ UNCHANGED <<current_running, spp, status, frames, kernel_sp, context, sepc, want, panicked>>
-----------------------------------------------------------------------------
(* Handlers                                                                *)

InHandler(h) == at[h] = "handler" /\ status[Cur(h)] # "EXITING"
SystemCall(h) == InHandler(h) /\ Cur(h) \in User /\ Top(Cur(h)).scause = "syscall"

\* The processes that do_scheduler() may switch to when the runnable ones are R.
Successors(h, R) == IF R = {} THEN {h} ELSE R
Ready == {q \in User : status[q] = "READY"}

\* do_scheduler() and switch_to(): the CPU goes on where q was, p gets status st.
switch_to(h, q, st) ==
  LET p == Cur(h) IN
  /\ current_running' = [current_running EXCEPT ![h] = q]
  /\ status' = [r \in Pid |->
       IF r = q THEN "RUNNING" ELSE IF r = p THEN st ELSE status[r]]
  /\ at' = [at EXCEPT ![h] = IF q = p THEN "handler" ELSE context[q]]
  /\ context' = [context EXCEPT ![p] = "handler"]

\* The timer: the current process stays ready.
Preempt(h) ==
  LET p == Cur(h) IN
  /\ InHandler(h) /\ Top(p).scause = "irq"
  /\ \E q \in Successors(h, Ready \cup ({p} \ Cpu)) : switch_to(h, q, "READY")
  /\ UNCHANGED <<spp, lock, frames, kernel_sp, sepc, want, panicked>>

\* do_block() in a system call
Block(h) ==
  /\ SystemCall(h)
  /\ \E q \in Successors(h, Ready) : switch_to(h, q, "SLEEPING")
  /\ UNCHANGED <<spp, lock, frames, kernel_sp, sepc, want, panicked>>

\* Somebody is woken, by a system call or an interrupt.
Unblock(h, q) ==
  /\ InHandler(h) /\ status[q] = "SLEEPING"
  /\ status' = [status EXCEPT ![q] = "READY"]
  /\ UNCHANGED <<current_running, at, spp, lock, frames, kernel_sp, context, sepc, want, panicked>>

\* do_exit(): of a killed process in interrupt_helper(), as a system call, or after
\* a page fault (also in a system call) that cannot be served
Exit(h) ==
  LET p == Cur(h) IN
  /\ at[h] = "handler" /\ p \in User
  /\ status[p] = "EXITING" \/ Top(p).scause \in {"syscall", "fault"}
  /\ \E q \in Successors(h, Ready) : switch_to(h, q, "FREE")
  /\ frames' = [frames EXCEPT ![p] = <<>>]
  /\ UNCHANGED <<spp, lock, kernel_sp, sepc, want, panicked>>

\* do_kill(): a process that runs on another CPU is marked, others are gone.
Kill(h, q) ==
  /\ SystemCall(h) /\ q # Cur(h) /\ status[q] \in {"READY", "SLEEPING", "RUNNING"}
  /\ IF status[q] = "RUNNING"
     THEN status' = [status EXCEPT ![q] = "EXITING"] /\ UNCHANGED frames
     ELSE /\ status' = [status EXCEPT ![q] = "FREE"]
          /\ frames' = [frames EXCEPT ![q] = <<>>]
  /\ UNCHANGED <<current_running, at, spp, lock, kernel_sp, context, sepc, want, panicked>>

\* A new process starts at ret_from_exception with one frame f.
NewProcess(q, f, go) ==
  /\ status[q] = "FREE"
  /\ status' = [status EXCEPT ![q] = "READY"]
  /\ frames' = [frames EXCEPT ![q] = <<f>>]
  /\ kernel_sp' = [kernel_sp EXCEPT ![q] = TRUE]
  /\ context' = [context EXCEPT ![q] = "ret"]
  /\ want' = [want EXCEPT ![q] = go]

\* Mutant of init_pcb_stack: scause is left as that of a system call.
FrameWithSyscall == [spp |-> "U", scause |-> "syscall", sepc |-> 0]
\* init_pcb_stack(): the frame of a new process or thread
init_pcb_stack == [spp |-> "U", scause |-> "none", sepc |-> 0]
Exec(h, q) ==
  /\ SystemCall(h)
  /\ NewProcess(q, init_pcb_stack, 0)
  /\ UNCHANGED <<current_running, at, spp, lock, sepc, panicked>>

\* do_fork(): the child gets a copy of the frame.  The assertion at its start, which
\* looks at sstatus and compares trapframe with kernel_sp
Fork(h, q) ==
  LET p == Cur(h) IN
  /\ InHandler(h) /\ p \in User /\ Top(p).scause = "fork"
  /\ NewProcess(q, frames[p][1], want[p])
  /\ panicked' = (panicked \/ spp[h] = "S" \/ ~kernel_sp[p] \/ Len(frames[p]) > 1)
  /\ at' = [at EXCEPT ![h] = "ret"]
  /\ UNCHANGED <<current_running, spp, lock, sepc>>

\* interrupt_helper() returns.
Handled(h) ==
  /\ InHandler(h)
  /\ at' = [at EXCEPT ![h] = "ret"]
  /\ UNCHANGED <<current_running, spp, lock, status, frames, kernel_sp, context, sepc, want, panicked>>
-----------------------------------------------------------------------------
(* Return                                                                  *)

\* ret_from_exception up to RESTORE_CONTEXT: sepc moves past the ecall, and the lock
\* is given back.
Leave(h) ==
  LET p == Cur(h)  n == Len(frames[p]) IN
  /\ at[h] = "ret"
  /\ frames' = IF Top(p).scause \in {"syscall", "fork"}
               THEN [frames EXCEPT ![p][n].sepc = Following(@)] ELSE frames
  /\ IF BypassLock(p, Top(p).spp) THEN UNCHANGED <<lock, panicked>>
     ELSE lock' = Free /\ panicked' = (panicked \/ lock = Free)
  /\ at' = [at EXCEPT ![h] = "restore"]
  /\ UNCHANGED <<current_running, spp, status, kernel_sp, context, sepc, want>>

\* RESTORE_CONTEXT and sret: back to user code, to the idle loop or to the system
\* call that faulted; in that case kernel_sp points below the remaining frame.
RESTORE_CONTEXT(h) ==
  LET p == Cur(h)  f == Top(p) IN
  /\ at[h] = "restore"
  /\ frames' = [frames EXCEPT ![p] = Pop(@)]
  /\ kernel_sp' = [kernel_sp EXCEPT ![p] = FALSE]
  /\ spp' = [spp EXCEPT ![h] = "U"]
  /\ sepc' = IF f.spp = "U" THEN [sepc EXCEPT ![p] = f.sepc] ELSE sepc
  /\ at' = [at EXCEPT ![h] = IF BypassLock(p, f.spp) THEN "handler" ELSE "run"]
  /\ UNCHANGED <<current_running, lock, status, context, want, panicked>>
-----------------------------------------------------------------------------
\* The CPUs have started and idle; the first user process is about to run.
TrapInit ==
  /\ current_running = [h \in Cpu |-> h] /\ at = [h \in Cpu |-> "run"]
  /\ spp = [h \in Cpu |-> "U"] /\ lock = Free
  /\ \E first \in User :
       status = [p \in Pid |->
         IF Idle(p) THEN "RUNNING" ELSE IF p = first THEN "READY" ELSE "FREE"]
  /\ frames = [p \in Pid |-> IF status[p] = "READY" THEN <<init_pcb_stack>> ELSE <<>>]
  /\ kernel_sp = [p \in Pid |-> status[p] = "READY"]
  /\ context = [p \in Pid |-> "ret"]
  /\ sepc = [p \in Pid |-> 0] /\ want = [p \in Pid |-> 0]
  /\ panicked = FALSE

TrapNext ==
  \E h \in Cpu :
    \/ \E cause \in {"syscall", "fork", "fault", "irq"} : UserTrap(h, cause)
    \/ IdleTrap(h) \/ NestedFault(h) \/ Enter(h)
    \/ Preempt(h) \/ Block(h) \/ Exit(h) \/ Handled(h)
    \/ \E q \in User : Unblock(h, q) \/ Kill(h, q) \/ Exec(h, q) \/ Fork(h, q)
    \/ Leave(h) \/ RESTORE_CONTEXT(h)

TrapSpec == TrapInit /\ [][TrapNext]_trapvars
-----------------------------------------------------------------------------
TrapTypeOK ==
  /\ current_running \in [Cpu -> Pid] /\ lock \in Cpu \cup {Free}
  /\ at \in [Cpu -> {"run", "entry", "handler", "ret", "restore"}]
  /\ \A p \in Pid : frames[p] \in Seq(Frame) /\ sepc[p] \in 0 .. Pcs - 1

\* CPU h is where only the holder of the lock may be.
InKernel(h) ==
  \/ at[h] \in {"handler", "ret"}
  \/ at[h] \in {"entry", "restore"} /\ BypassLock(Cur(h), Top(Cur(h)).spp)

\* Whatever is nested, switched, forked and killed: exactly the CPU in the kernel has
\* the lock (so a trap in the kernel never waits for the lock of its own CPU, and no
\* way out of a handler forgets it), and neither unlock_kernel() nor do_fork() panics;
\* two CPUs never run one process; and a process that runs user code has an empty
\* kernel stack and goes on at the instruction after its system call or at the one
\* that was interrupted.
KernelExclusive ==
  /\ TrapTypeOK /\ ~panicked
  /\ \A h \in Cpu : lock = h <=> InKernel(h)
  /\ \A h, g \in Cpu : Cur(h) = Cur(g) => h = g
  /\ \A h \in Cpu : at[h] = "run" => frames[Cur(h)] = <<>> /\ sepc[Cur(h)] = want[Cur(h)]
=============================================================================
