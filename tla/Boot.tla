-------------------------------- MODULE Boot --------------------------------
(***************************************************************************)
(* From the BIOS to the first user process: the boot block of both CPUs    *)
(* (arch/riscv/boot/bootblock.S), the first page tables (boot.c), the      *)
(* jump to kernel addresses (start.S, head.S), main() and main_s() of      *)
(* init/main.c up to the idle loops, and the start of the shell.           *)
(*                                                                         *)
(* Page tables are the pages of 4 KiB from PGDIR_PA on, numbered from 0.   *)
(* setup_vm() takes 0 for the root, one for the kernel's window and one    *)
(* for the temporary identity mapping; main()'s own allocator (init_mm())  *)
(* keeps only 0 and 1 for the kernel, so the first process is given the    *)
(* page of the temporary mapping.                                          *)
(***************************************************************************)
EXTENDS Naturals, FiniteSets

CONSTANTS NPT \* page tables (NPT)

ASSUME BootAssumption == NPT \in Nat /\ NPT > 3

Hart == {0, 1}
Window == {"kernel", "temp"} \* the two root entries setup_vm() fills
NoTable == NPT

VARIABLES
    ncpu,       \* the build's NCPU
    place,      \* place[c]: where CPU c is
    vm,         \* vm[c]: paging is on
    root,       \* root[w]: the second-level table behind root entry w
    npages_used,
    pgtb,       \* pgtb[t]: who owns page table t: pgtb_charmap
    klock,      \* global_kernel_lock.status
    ipi,        \* the software interrupt pending at CPU 1
    preempt,    \* preempt[c]: the timer is armed: set_preempt()
    glush,      \* how far do_exec("glush") is
    glushroot,  \* the windows copied into its root by share_pgtable()
    halted      \* panic_g() was called

bootvars == <<ncpu, place, vm, root, npages_used, pgtb, klock, ipi, preempt, glush, glushroot, halted>>

Low == {"boot", "mapped"}       \* physical addresses
High == {"start", "main", "waked", "delayed", "exec", "made", "revoked", "idle", "kernel", "user"}

(* One type invariant. *)
BootTypeOK ==
    /\ ncpu \in {1, 2}
    /\ place \in [Hart -> {"bios", "wfi"} \cup Low \cup High]
    /\ vm \in [Hart -> BOOLEAN]
    /\ root \in [Window -> 0 .. NPT]
    /\ npages_used \in 1 .. NPT
    /\ pgtb \in [0 .. NPT - 1 -> {"free", "boot", "kernel", "glush"}]
    /\ klock \in {"UNLOCKED", "LOCKED"}
    /\ ipi \in BOOLEAN
    /\ preempt \in [Hart -> BOOLEAN]
    /\ glush \in {"none", "half", "ready", "running"}
    /\ glushroot \subseteq Window
    /\ halted \in BOOLEAN

\* The BIOS starts both CPUs in the boot block, paging off; npages_used and
\* pg_base_s are initialised data, which head.S does not clear with .bss.
BootInit ==
    /\ ncpu \in {1, 2}
    /\ place = [c \in Hart |-> "bios"]
    /\ vm = [c \in Hart |-> FALSE]
    /\ root = [w \in Window |-> NoTable]
    /\ npages_used = 1
    /\ pgtb = [t \in 0 .. NPT - 1 |-> "free"]
    /\ klock = "UNLOCKED"
    /\ ipi = FALSE
    /\ preempt = [c \in Hart |-> FALSE]
    /\ glush = "none"
    /\ glushroot = {}
    /\ halted = FALSE

Go(c, to) == place' = [place EXCEPT ![c] = to]
BootOn == ~halted

-----------------------------------------------------------------------------
(* The boot block. *)

\* CPU 0 reads the kernel, which outlasts the nine instructions of CPU 1.
LoadKernel ==
    /\ BootOn /\ place[0] = "bios" /\ place[1] = "wfi"
    /\ Go(0, "boot")
    /\ UNCHANGED <<ncpu, vm, root, npages_used, pgtb, klock, ipi, preempt, glush, glushroot, halted>>

\* CPU 1 drops what is pending, lets stvec point to the kernel and waits.
secondary ==
    /\ BootOn /\ place[1] = "bios"
    /\ Go(1, "wfi")
    /\ ipi' = FALSE
    /\ UNCHANGED <<ncpu, vm, root, npages_used, pgtb, klock, preempt, glush, glushroot, halted>>

\* The interrupt takes CPU 1 to _boot, which masks all interrupts.
Woken ==
    /\ BootOn /\ place[1] = "wfi" /\ ipi
    /\ Go(1, "boot")
    /\ ipi' = FALSE
    /\ UNCHANGED <<ncpu, vm, root, npages_used, pgtb, klock, preempt, glush, glushroot, halted>>

-----------------------------------------------------------------------------
(* boot.c. *)

\* map_page(): a root entry that is still 0 gets the next page.
MapWindow(r, w) ==
    IF r.root[w] # NoTable THEN r
    ELSE [root |-> [r.root EXCEPT ![w] = r.used],
          pgtb |-> [r.pgtb EXCEPT ![r.used] = "boot"],
          used |-> r.used + 1]

Mapped ==
    MapWindow(MapWindow([root |-> [w \in Window |-> NoTable],
                         pgtb |-> [pgtb EXCEPT ![0] = "boot"],
                         used |-> npages_used], "kernel"), "temp")

\* boot_kernel(): CPU 0 builds the tables, and each CPU turns paging on. What
\* follows, up to the jump, is still fetched from physical addresses.
boot_kernel(c) ==
    /\ BootOn /\ place[c] = "boot"
    /\ Go(c, "mapped")
    /\ vm' = [vm EXCEPT ![c] = TRUE]
    /\ IF c = 0
       THEN root' = Mapped.root /\ pgtb' = Mapped.pgtb /\ npages_used' = Mapped.used
       ELSE UNCHANGED <<root, pgtb, npages_used>>
    /\ UNCHANGED <<ncpu, klock, ipi, preempt, glush, glushroot, halted>>

\* The jump to _start at its kernel address: .bss is cleared by CPU 0 only.
EnterKernel(c) ==
    /\ BootOn /\ place[c] = "mapped"
    /\ Go(c, "start")
    /\ UNCHANGED <<ncpu, vm, root, npages_used, pgtb, klock, ipi, preempt, glush, glushroot, halted>>

-----------------------------------------------------------------------------
(* main() and main_s(). *)

Revoked == [root EXCEPT !["temp"] = NoTable]

\* init_mm() and the rest of the initialisation: the allocator starts from a
\* map in which only tables 0 and 1 are the kernel's.
InitKernel ==
    /\ BootOn /\ place[0] = "start"
    /\ Go(0, "main")
    /\ pgtb' = [t \in 0 .. NPT - 1 |-> IF t \in {0, 1} THEN "kernel" ELSE "free"]
    /\ UNCHANGED <<ncpu, vm, root, npages_used, klock, ipi, preempt, glush, glushroot, halted>>

\* Two CPUs: the lock is initialised, then the other CPU is woken. One CPU:
\* the temporary mapping goes at once.
StartOther ==
    /\ BootOn /\ place[0] = "main"
    /\ Go(0, "waked")
    /\ IF ncpu = 2
       THEN klock' = "UNLOCKED" /\ ipi' = TRUE /\ UNCHANGED <<root, halted>>
       ELSE /\ halted' = (npages_used # 3)
            /\ root' = IF npages_used = 3 THEN Revoked ELSE root
            /\ UNCHANGED <<klock, ipi>>
    /\ UNCHANGED <<ncpu, vm, npages_used, pgtb, preempt, glush, glushroot>>

\* The one assumption about time: three seconds, and a key that may prolong
\* them, are enough for the other CPU to come up to its first printk().
DelayIsEnough == ncpu = 1 \/ place[1] \in {"revoked", "idle", "kernel"}

latency ==
    /\ BootOn /\ place[0] = "waked" /\ DelayIsEnough
    /\ Go(0, "delayed")
    /\ UNCHANGED <<ncpu, vm, root, npages_used, pgtb, klock, ipi, preempt, glush, glushroot, halted>>

\* main_s() up to its printk().
main_s ==
    /\ BootOn /\ place[1] = "start"
    /\ halted' = (npages_used # 3)
    /\ IF npages_used = 3 THEN Go(1, "revoked") /\ root' = Revoked ELSE UNCHANGED <<place, root>>
    /\ UNCHANGED <<ncpu, vm, npages_used, pgtb, klock, ipi, preempt, glush, glushroot>>

FreeTables == {t \in 0 .. NPT - 1 : pgtb[t] = "free"}
FirstFree == CHOOSE t \in FreeTables : \A u \in FreeTables : t <= u

TakeLock == klock = "UNLOCKED" /\ klock' = "LOCKED"

\* Mutant of StartGlush: the lock is not taken.
StartGlushUnlocked ==
    /\ BootOn /\ place[0] = "delayed"
    /\ Go(0, "exec")
    /\ pgtb' = [pgtb EXCEPT ![FirstFree] = "glush"]
    /\ glush' = "half"
    /\ glushroot' = {w \in Window : root[w] # NoTable}
    /\ UNCHANGED <<ncpu, vm, root, npages_used, klock, ipi, preempt, halted>>

\* start_glush(): do_exec() takes a page table as the root of the process and
\* copies the kernel's root entries into it ...
StartGlush ==
    /\ BootOn /\ place[0] = "delayed" /\ TakeLock
    /\ Go(0, "exec")
    /\ pgtb' = [pgtb EXCEPT ![FirstFree] = "glush"]
    /\ glush' = "half"
    /\ glushroot' = {w \in Window : root[w] # NoTable}
    /\ UNCHANGED <<ncpu, vm, root, npages_used, ipi, preempt, halted>>

\* ... loads it, makes it ready, sets its mask; the lock is released.
GlushMade ==
    /\ BootOn /\ place[0] = "exec"
    /\ Go(0, "made")
    /\ glush' = "ready"
    /\ klock' = "UNLOCKED"
    /\ halted' = (klock = "UNLOCKED") \* unlock_kernel()
    /\ UNCHANGED <<ncpu, vm, root, npages_used, pgtb, ipi, preempt, glushroot>>

\* set_preempt() and the loop around wfi.
IdleLoop(c) ==
    /\ BootOn /\ place[c] \in {"made", "revoked"}
    /\ Go(c, "idle")
    /\ preempt' = [preempt EXCEPT ![c] = TRUE]
    /\ UNCHANGED <<ncpu, vm, root, npages_used, pgtb, klock, ipi, glush, glushroot, halted>>

\* The first timer interrupts: the handler takes the kernel lock ...
Timer(c) ==
    /\ BootOn /\ place[c] = "idle" /\ preempt[c] /\ TakeLock
    /\ Go(c, "kernel")
    /\ UNCHANGED <<ncpu, vm, root, npages_used, pgtb, ipi, preempt, glush, glushroot, halted>>

\* ... and do_scheduler() finds the shell or the CPU's own idle process.
Schedule(c) ==
    /\ BootOn /\ place[c] = "kernel"
    /\ klock' = "UNLOCKED"
    /\ halted' = (klock = "UNLOCKED")
    /\ \/ glush = "ready" /\ Go(c, "user") /\ glush' = "running"
       \/ glush # "ready" /\ Go(c, "idle") /\ UNCHANGED glush
    /\ UNCHANGED <<ncpu, vm, root, npages_used, pgtb, ipi, preempt, glushroot>>

BootNext ==
    \/ LoadKernel \/ secondary \/ Woken
    \/ \E c \in Hart : boot_kernel(c) \/ EnterKernel(c)
    \/ InitKernel \/ StartOther \/ latency \/ main_s
    \/ StartGlush \/ GlushMade
    \/ \E c \in Hart : IdleLoop(c) \/ Timer(c) \/ Schedule(c)

BootSpec == BootInit /\ [][BootNext]_bootvars
-----------------------------------------------------------------------------

\* CPU c finds the instruction it fetches: paging is off, or the window it
\* runs in is mapped by a table nobody else was given.
Fetches(c) ==
    \/ ~vm[c]
    \/ \E w \in Window :
         /\ w = IF place[c] \in Low THEN "temp" ELSE "kernel"
         /\ root[w] # NoTable /\ pgtb[root[w]] # "glush"

\* Bringing up two CPUs on one set of tables is safe: each CPU always runs in
\* a window that is mapped by a table no process was given (revoke_temp_mapping()
\* and the reuse of the third table come after the last low fetch of either
\* CPU); the shell's root never keeps the temporary window; no CPU schedules
\* while the shell is half made; and no check of npages_used or of the lock
\* panics.
BootSafe ==
    /\ \A c \in Hart : Fetches(c)
    /\ "temp" \notin glushroot
    /\ glush = "half" => \A c \in Hart : place[c] # "kernel"
    /\ Cardinality({c \in Hart : place[c] \in {"kernel", "exec"}}) <= 1
    /\ ~halted

=============================================================================
