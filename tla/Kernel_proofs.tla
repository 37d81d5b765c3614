--------------------------- MODULE Kernel_proofs ----------------------------
(* Proofs about six parts of the kernel that one run checks, each on its own *)
(* assumptions: BootSafe of Boot, for any number of page tables, with one CPU  *)
(* or two; KernelExclusive of Trap, for any number of CPUs and of processes;   *)
(* LineAsTyped of LineInput, for every size of the circular buffer, every size *)
(* of the caller's string and any letters; ScreenSound of Screen, for every    *)
(* size of screen and any number of processes; LoadedWhole of Image, for any   *)
(* layouts of kernel and programs and sizes of sectors, pages and reads;       *)
(* CallsAnswered of Syscalls, for any processes and any numbers in a7.         *)
EXTENDS Boot, Trap, LineInput, Screen, Image, Syscalls, SequenceTheorems, FiniteSetTheorems,
        WellFoundedInduction, TLAPS

-----------------------------------------------------------------------------
(* Boot.                                                                    *)

\* The places of CPU 0 in their order, cut at what changes on the way.
Loading == {"bios", "boot"}
Alone == Loading \cup {"mapped", "start", "main"}
ShellNotMade == Alone \cup {"waked", "delayed"}
Places0 == ShellNotMade \cup {"exec", "made", "idle", "kernel", "user"}
\* The places of CPU 1.
Asleep == {"bios", "wfi"}
Coming == {"boot", "mapped", "start"}
Up == {"revoked", "idle", "kernel", "user"}

\* Both CPUs, or the only one, may still need the temporary mapping.
TempOn ==
  \/ place[0] \in {"mapped", "start", "main"}
  \/ place[0] = "waked" /\ ncpu = 2 /\ place[1] \in {"wfi"} \cup Coming

\* Where the CPUs are.
PlacesOK ==
  /\ place[0] \in Places0 /\ place[1] \in Asleep \cup Coming \cup Up
  /\ place[0] \in Alone => ~ipi /\ place[1] \in Asleep
  /\ place[0] # "bios" => place[1] # "bios"
  /\ place[0] \notin Alone \cup {"waked"} => ncpu = 1 \/ place[1] \in Up
  /\ ncpu = 1 => ~ipi /\ place[1] \in Asleep
  /\ ipi => place[1] = "wfi"

\* What is mapped, by which tables, and who was given them.
TablesOK ==
  /\ place[0] \in Loading => ~vm[0] /\ npages_used = 1
  /\ place[1] \in Asleep \cup {"boot"} => ~vm[1]
  /\ place[0] \notin Loading => npages_used = 3 /\ root["kernel"] = 1
  /\ root["temp"] = IF TempOn THEN 2 ELSE NoTable
  /\ place[0] \in ShellNotMade => \A t \in 0 .. NPT - 1 : pgtb[t] # "glush"
  /\ place[0] \notin Loading \cup {"mapped", "start"} => pgtb[1] = "kernel"
  /\ place[0] \in {"main", "waked", "delayed"} => pgtb[2] = "free"
  /\ "temp" \notin glushroot

\* Who has the kernel lock, and how far the shell is.
LockOK ==
  /\ klock = "LOCKED" <=> place[0] \in {"exec", "kernel"} \/ place[1] = "kernel"
  /\ ~(place[0] \in {"exec", "kernel"} /\ place[1] = "kernel")
  /\ glush = "none" <=> place[0] \in ShellNotMade
  /\ glush = "half" <=> place[0] = "exec"

\* The inductive invariant.
BootInv == BootTypeOK /\ ~halted /\ PlacesOK /\ TablesOK /\ LockOK
USE BootAssumption DEF Hart, Window, NoTable
-----------------------------------------------------------------------------
(* The page tables.                                                         *)

\* setup_vm() gives the second table to the kernel's window and the third to
\* the temporary mapping.
LEMMA TablesMapped ==
  ASSUME BootTypeOK, npages_used = 1
  PROVE  /\ Mapped.root = [w \in Window |-> IF w = "kernel" THEN 1 ELSE 2]
         /\ Mapped.used = 3
         /\ Mapped.pgtb = [t \in 0 .. NPT - 1 |-> IF t \in {0, 1, 2} THEN "boot" ELSE pgtb[t]]
<1> DEFINE r0 == [root |-> [w \in Window |-> NoTable], pgtb |-> [pgtb EXCEPT ![0] = "boot"],
                  used |-> npages_used]
           r1 == [root |-> [w \in Window |-> IF w = "kernel" THEN 1 ELSE NoTable],
                  pgtb |-> [t \in 0 .. NPT - 1 |-> IF t \in {0, 1} THEN "boot" ELSE pgtb[t]],
                  used |-> 2]
           r2 == [root |-> [w \in Window |-> IF w = "kernel" THEN 1 ELSE 2],
                  pgtb |-> [t \in 0 .. NPT - 1 |-> IF t \in {0, 1, 2} THEN "boot" ELSE pgtb[t]],
                  used |-> 3]
<1>1. MapWindow(r0, "kernel") = r1
  <2>1. [r0.root EXCEPT !["kernel"] = r0.used] = r1.root
    OBVIOUS
  <2>2. [r0.pgtb EXCEPT ![r0.used] = "boot"] = r1.pgtb
    BY DEF BootTypeOK
  <2>3. r0.root["kernel"] = NoTable /\ r0.used + 1 = 2
    OBVIOUS
  <2>4. MapWindow(r0, "kernel") = [root |-> [r0.root EXCEPT !["kernel"] = r0.used],
                                   pgtb |-> [r0.pgtb EXCEPT ![r0.used] = "boot"],
                                   used |-> r0.used + 1]
    BY <2>3 DEF MapWindow
  <2> QED BY <2>1, <2>2, <2>3, <2>4
<1>2. MapWindow(r1, "temp") = r2
  <2>1. [r1.root EXCEPT !["temp"] = r1.used] = r2.root
    OBVIOUS
  <2>2. [r1.pgtb EXCEPT ![r1.used] = "boot"] = r2.pgtb
    BY DEF BootTypeOK
  <2>3. r1.root["temp"] = NoTable /\ r1.used + 1 = 3
    OBVIOUS
  <2>4. MapWindow(r1, "temp") = [root |-> [r1.root EXCEPT !["temp"] = r1.used],
                                 pgtb |-> [r1.pgtb EXCEPT ![r1.used] = "boot"],
                                 used |-> r1.used + 1]
    BY <2>3 DEF MapWindow
  <2> QED BY <2>1, <2>2, <2>3, <2>4
<1>3. Mapped = r2
  BY Zenon, <1>1, <1>2 DEF Mapped
<1> QED BY <1>3

\* alloc_pagetable() gives the lowest free table away; after init_mm() that is
\* not the one behind the kernel's window.
LEMMA FirstFreeFound ==
  ASSUME BootTypeOK, pgtb[1] = "kernel", pgtb[2] = "free"
  PROVE  FirstFree \in FreeTables \ {1}
<1> DEFINE Lowest(t) == \A u \in FreeTables : t <= u
<1>1. FreeTables \subseteq 0 .. NPT - 1 /\ 2 \in FreeTables /\ 1 \notin FreeTables
  BY DEF FreeTables
<1>2. \E t \in FreeTables : Lowest(t)
  <2>1. CASE 0 \in FreeTables
    BY <1>1, <2>1
  <2>2. CASE 0 \notin FreeTables
    <3>1. \A u \in FreeTables : u \in Nat /\ u # 0 /\ u # 1
      BY <1>1, <2>2
    <3> QED BY <1>1, <3>1
  <2> QED BY <2>1, <2>2
<1> HIDE DEF Lowest
<1>3. FirstFree = CHOOSE t \in FreeTables : Lowest(t)
  BY DEF FirstFree, Lowest
<1> QED BY <1>1, <1>2, <1>3
-----------------------------------------------------------------------------
(* The inductive invariant.                                                 *)

\* Both CPUs in the boot block, nothing mapped.
LEMMA BootInitially == BootInit => BootInv
<1> SUFFICES ASSUME BootInit PROVE BootInv
  OBVIOUS
<1>1. BootTypeOK
  <2>1. vm \in [Hart -> BOOLEAN] /\ preempt \in [Hart -> BOOLEAN] /\ ipi \in BOOLEAN /\ halted \in BOOLEAN
    BY Zenon DEF BootInit
  <2>2. root \in [Window -> 0 .. NPT]
    BY DEF BootInit
  <2>3. pgtb \in [0 .. NPT - 1 -> {"free", "boot", "kernel", "glush"}]
    BY Zenon DEF BootInit
  <2>4. place \in [Hart -> {"bios", "wfi"} \cup Low \cup High]
    BY Zenon DEF BootInit
  <2>5. ncpu \in {1, 2} /\ npages_used \in 1 .. NPT /\ klock \in {"UNLOCKED", "LOCKED"}
        /\ glush \in {"none", "half", "ready", "running"} /\ glushroot \subseteq Window
    BY DEF BootInit
  <2> QED BY <2>1, <2>2, <2>3, <2>4, <2>5 DEF BootTypeOK
<1>2. ~halted /\ PlacesOK
  BY DEF BootInit, PlacesOK, Places0, ShellNotMade, Alone, Loading, Asleep, Coming, Up, TempOn
<1>3. TablesOK
  BY DEF BootInit, TablesOK, Places0, ShellNotMade, Alone, Loading, Asleep, Coming, Up, TempOn
<1>4. LockOK
  BY DEF BootInit, LockOK, Places0, ShellNotMade, Alone, Loading, Asleep, Coming, Up, TempOn
<1> QED BY <1>1, <1>2, <1>3, <1>4 DEF BootInv

\* CPU 0 has read the kernel.
LEMMA LoadKernelKeeps ==
  ASSUME BootInv, LoadKernel
  PROVE  BootInv'
<1>1. BootTypeOK'
  BY DEF BootInv, BootTypeOK, LoadKernel, BootOn, Go, Low, High
<1>2. ~halted'
  BY DEF BootInv, BootTypeOK, LoadKernel, BootOn, Go, PlacesOK, TablesOK, LockOK, Places0, ShellNotMade, Alone, Loading, Asleep, Coming, Up, TempOn
<1>3. PlacesOK'
  BY DEF BootInv, BootTypeOK, LoadKernel, BootOn, Go, PlacesOK, Places0, ShellNotMade, Alone, Loading, Asleep, Coming, Up, TempOn
<1>4. TablesOK'
  BY DEF BootInv, BootTypeOK, LoadKernel, BootOn, Go, PlacesOK, TablesOK, Places0, ShellNotMade, Alone, Loading, Asleep, Coming, Up, TempOn
<1>5. LockOK'
  BY DEF BootInv, BootTypeOK, LoadKernel, BootOn, Go, PlacesOK, LockOK, Places0, ShellNotMade, Alone, Loading, Asleep, Coming, Up, TempOn
<1> QED BY <1>1, <1>2, <1>3, <1>4, <1>5 DEF BootInv

\* CPU 1 waits in the boot block.
LEMMA secondaryKeeps ==
  ASSUME BootInv, secondary
  PROVE  BootInv'
<1>1. BootTypeOK'
  BY DEF BootInv, BootTypeOK, secondary, BootOn, Go, Low, High
<1>2. ~halted'
  BY DEF BootInv, BootTypeOK, secondary, BootOn, Go, PlacesOK, TablesOK, LockOK, Places0, ShellNotMade, Alone, Loading, Asleep, Coming, Up, TempOn
<1>3. PlacesOK'
  BY DEF BootInv, BootTypeOK, secondary, BootOn, Go, PlacesOK, Places0, ShellNotMade, Alone, Loading, Asleep, Coming, Up, TempOn
<1>4. TablesOK'
  BY DEF BootInv, BootTypeOK, secondary, BootOn, Go, PlacesOK, TablesOK, Places0, ShellNotMade, Alone, Loading, Asleep, Coming, Up, TempOn
<1>5. LockOK'
  BY DEF BootInv, BootTypeOK, secondary, BootOn, Go, PlacesOK, LockOK, Places0, ShellNotMade, Alone, Loading, Asleep, Coming, Up, TempOn
<1> QED BY <1>1, <1>2, <1>3, <1>4, <1>5 DEF BootInv

\* CPU 1 is taken to _boot.
LEMMA WokenKeeps ==
  ASSUME BootInv, Woken
  PROVE  BootInv'
<1>1. BootTypeOK'
  BY DEF BootInv, BootTypeOK, Woken, BootOn, Go, Low, High
<1>2. ~halted'
  BY DEF BootInv, BootTypeOK, Woken, BootOn, Go, PlacesOK, TablesOK, LockOK, Places0, ShellNotMade, Alone, Loading, Asleep, Coming, Up, TempOn
<1>3. PlacesOK'
  BY DEF BootInv, BootTypeOK, Woken, BootOn, Go, PlacesOK, Places0, ShellNotMade, Alone, Loading, Asleep, Coming, Up, TempOn
<1>4. TablesOK'
  BY DEF BootInv, BootTypeOK, Woken, BootOn, Go, PlacesOK, TablesOK, Places0, ShellNotMade, Alone, Loading, Asleep, Coming, Up, TempOn
<1>5. LockOK'
  BY DEF BootInv, BootTypeOK, Woken, BootOn, Go, PlacesOK, LockOK, Places0, ShellNotMade, Alone, Loading, Asleep, Coming, Up, TempOn
<1> QED BY <1>1, <1>2, <1>3, <1>4, <1>5 DEF BootInv

\* boot_kernel() turns paging on.
LEMMA boot_kernelKeeps ==
  ASSUME BootInv, NEW c \in Hart, boot_kernel(c)
  PROVE  BootInv'
<1>1. BootTypeOK'
  BY TablesMapped DEF BootInv, BootTypeOK, boot_kernel, BootOn, Go, Low, High, PlacesOK, TablesOK, Places0, ShellNotMade, Alone, Loading
<1>2. ~halted'
  BY TablesMapped DEF BootInv, BootTypeOK, boot_kernel, BootOn, Go, PlacesOK, TablesOK, LockOK, Places0, ShellNotMade, Alone, Loading, Asleep, Coming, Up, TempOn
<1>3. PlacesOK'
  BY TablesMapped DEF BootInv, BootTypeOK, boot_kernel, BootOn, Go, PlacesOK, Places0, ShellNotMade, Alone, Loading, Asleep, Coming, Up, TempOn
<1>4. TablesOK'
  BY TablesMapped DEF BootInv, BootTypeOK, boot_kernel, BootOn, Go, PlacesOK, TablesOK, Places0, ShellNotMade, Alone, Loading, Asleep, Coming, Up, TempOn
<1>5. LockOK'
  BY TablesMapped DEF BootInv, BootTypeOK, boot_kernel, BootOn, Go, PlacesOK, LockOK, Places0, ShellNotMade, Alone, Loading, Asleep, Coming, Up, TempOn
<1> QED BY <1>1, <1>2, <1>3, <1>4, <1>5 DEF BootInv

\* The jump to _start at its kernel address.
LEMMA EnterKernelKeeps ==
  ASSUME BootInv, NEW c \in Hart, EnterKernel(c)
  PROVE  BootInv'
<1>1. BootTypeOK'
  BY DEF BootInv, BootTypeOK, EnterKernel, BootOn, Go, Low, High
<1>2. ~halted'
  BY DEF BootInv, BootTypeOK, EnterKernel, BootOn, Go, PlacesOK, TablesOK, LockOK, Places0, ShellNotMade, Alone, Loading, Asleep, Coming, Up, TempOn
<1>3. PlacesOK'
  BY DEF BootInv, BootTypeOK, EnterKernel, BootOn, Go, PlacesOK, Places0, ShellNotMade, Alone, Loading, Asleep, Coming, Up, TempOn
<1>4. TablesOK'
  BY DEF BootInv, BootTypeOK, EnterKernel, BootOn, Go, PlacesOK, TablesOK, Places0, ShellNotMade, Alone, Loading, Asleep, Coming, Up, TempOn
<1>5. LockOK'
  BY DEF BootInv, BootTypeOK, EnterKernel, BootOn, Go, PlacesOK, LockOK, Places0, ShellNotMade, Alone, Loading, Asleep, Coming, Up, TempOn
<1> QED BY <1>1, <1>2, <1>3, <1>4, <1>5 DEF BootInv

\* The first half of main().
LEMMA InitKernelKeeps ==
  ASSUME BootInv, InitKernel
  PROVE  BootInv'
<1>1. BootTypeOK'
  BY DEF BootInv, BootTypeOK, InitKernel, BootOn, Go, Low, High
<1>2. ~halted'
  BY DEF BootInv, BootTypeOK, InitKernel, BootOn, Go, PlacesOK, TablesOK, LockOK, Places0, ShellNotMade, Alone, Loading, Asleep, Coming, Up, TempOn
<1>3. PlacesOK'
  BY DEF BootInv, BootTypeOK, InitKernel, BootOn, Go, PlacesOK, Places0, ShellNotMade, Alone, Loading, Asleep, Coming, Up, TempOn
<1>4. TablesOK'
  BY DEF BootInv, BootTypeOK, InitKernel, BootOn, Go, PlacesOK, TablesOK, Places0, ShellNotMade, Alone, Loading, Asleep, Coming, Up, TempOn
<1>5. LockOK'
  BY DEF BootInv, BootTypeOK, InitKernel, BootOn, Go, PlacesOK, LockOK, Places0, ShellNotMade, Alone, Loading, Asleep, Coming, Up, TempOn
<1> QED BY <1>1, <1>2, <1>3, <1>4, <1>5 DEF BootInv

\* main() wakes CPU 1, or takes the temporary mapping away.
LEMMA StartOtherKeeps ==
  ASSUME BootInv, StartOther
  PROVE  BootInv'
<1>1. BootTypeOK'
  <2>1. halted' \in BOOLEAN
    <3>1. CASE ncpu = 2
      BY <3>1 DEF BootInv, BootTypeOK, StartOther
    <3>2. CASE ncpu # 2
      <4>1. halted' = (npages_used # 3)
        BY <3>2 DEF StartOther
      <4> QED BY <4>1
    <3> QED BY <3>1, <3>2
  <2>2. root' \in [Window -> 0 .. NPT]
    BY DEF BootInv, BootTypeOK, StartOther, Revoked
  <2>3. klock' \in {"UNLOCKED", "LOCKED"} /\ ipi' \in BOOLEAN
    BY DEF BootInv, BootTypeOK, StartOther
  <2>4. place' \in [Hart -> {"bios", "wfi"} \cup Low \cup High]
    BY DEF BootInv, BootTypeOK, StartOther, Go, High
  <2> QED BY <2>1, <2>2, <2>3, <2>4 DEF BootInv, BootTypeOK, StartOther
<1>2. ~halted'
  BY DEF BootInv, BootTypeOK, StartOther, BootOn, Go, Revoked, PlacesOK, TablesOK, LockOK, Places0, ShellNotMade, Alone, Loading, Asleep, Coming, Up, TempOn
<1>3. PlacesOK'
  BY DEF BootInv, BootTypeOK, StartOther, BootOn, Go, Revoked, PlacesOK, Places0, ShellNotMade, Alone, Loading, Asleep, Coming, Up, TempOn
<1>4. TablesOK'
  BY DEF BootInv, BootTypeOK, StartOther, BootOn, Go, Revoked, PlacesOK, TablesOK, Places0, ShellNotMade, Alone, Loading, Asleep, Coming, Up, TempOn
<1>5. LockOK'
  BY DEF BootInv, BootTypeOK, StartOther, BootOn, Go, Revoked, PlacesOK, LockOK, Places0, ShellNotMade, Alone, Loading, Asleep, Coming, Up, TempOn
<1> QED BY <1>1, <1>2, <1>3, <1>4, <1>5 DEF BootInv

\* main() waits for CPU 1.
LEMMA latencyKeeps ==
  ASSUME BootInv, latency
  PROVE  BootInv'
<1>1. BootTypeOK'
  BY DEF BootInv, BootTypeOK, latency, BootOn, Go, DelayIsEnough, Low, High
<1>2. ~halted'
  BY DEF BootInv, BootTypeOK, latency, BootOn, Go, DelayIsEnough, PlacesOK, TablesOK, LockOK, Places0, ShellNotMade, Alone, Loading, Asleep, Coming, Up, TempOn
<1>3. PlacesOK'
  BY DEF BootInv, BootTypeOK, latency, BootOn, Go, DelayIsEnough, PlacesOK, Places0, ShellNotMade, Alone, Loading, Asleep, Coming, Up, TempOn
<1>4. TablesOK'
  BY DEF BootInv, BootTypeOK, latency, BootOn, Go, DelayIsEnough, PlacesOK, TablesOK, Places0, ShellNotMade, Alone, Loading, Asleep, Coming, Up, TempOn
<1>5. LockOK'
  BY DEF BootInv, BootTypeOK, latency, BootOn, Go, DelayIsEnough, PlacesOK, LockOK, Places0, ShellNotMade, Alone, Loading, Asleep, Coming, Up, TempOn
<1> QED BY <1>1, <1>2, <1>3, <1>4, <1>5 DEF BootInv

\* CPU 1 takes the temporary mapping away.
LEMMA main_sKeeps ==
  ASSUME BootInv, main_s
  PROVE  BootInv'
<1>1. BootTypeOK'
  BY DEF BootInv, BootTypeOK, main_s, BootOn, Go, Revoked, Low, High
<1>2. ~halted'
  BY DEF BootInv, BootTypeOK, main_s, BootOn, Go, Revoked, PlacesOK, TablesOK, LockOK, Places0, ShellNotMade, Alone, Loading, Asleep, Coming, Up, TempOn
<1>3. PlacesOK'
  BY DEF BootInv, BootTypeOK, main_s, BootOn, Go, Revoked, PlacesOK, Places0, ShellNotMade, Alone, Loading, Asleep, Coming, Up, TempOn
<1>4. TablesOK'
  BY DEF BootInv, BootTypeOK, main_s, BootOn, Go, Revoked, PlacesOK, TablesOK, Places0, ShellNotMade, Alone, Loading, Asleep, Coming, Up, TempOn
<1>5. LockOK'
  BY DEF BootInv, BootTypeOK, main_s, BootOn, Go, Revoked, PlacesOK, LockOK, Places0, ShellNotMade, Alone, Loading, Asleep, Coming, Up, TempOn
<1> QED BY <1>1, <1>2, <1>3, <1>4, <1>5 DEF BootInv

\* do_exec() of the shell takes a page table.
LEMMA StartGlushKeeps ==
  ASSUME BootInv, StartGlush
  PROVE  BootInv'
<1>1. BootTypeOK'
  BY FirstFreeFound DEF BootInv, BootTypeOK, StartGlush, BootOn, Go, TakeLock, FreeTables, Low, High
<1>2. ~halted'
  BY FirstFreeFound DEF BootInv, BootTypeOK, StartGlush, BootOn, Go, TakeLock, FreeTables, PlacesOK, TablesOK, LockOK, Places0, ShellNotMade, Alone, Loading, Asleep, Coming, Up, TempOn
<1>3. PlacesOK'
  BY FirstFreeFound DEF BootInv, BootTypeOK, StartGlush, BootOn, Go, TakeLock, FreeTables, PlacesOK, Places0, ShellNotMade, Alone, Loading, Asleep, Coming, Up, TempOn
<1>4. TablesOK'
  BY FirstFreeFound DEF BootInv, BootTypeOK, StartGlush, BootOn, Go, TakeLock, FreeTables, PlacesOK, TablesOK, Places0, ShellNotMade, Alone, Loading, Asleep, Coming, Up, TempOn
<1>5. LockOK'
  BY FirstFreeFound DEF BootInv, BootTypeOK, StartGlush, BootOn, Go, TakeLock, FreeTables, PlacesOK, LockOK, Places0, ShellNotMade, Alone, Loading, Asleep, Coming, Up, TempOn
<1> QED BY <1>1, <1>2, <1>3, <1>4, <1>5 DEF BootInv

\* do_exec() of the shell is over.
LEMMA GlushMadeKeeps ==
  ASSUME BootInv, GlushMade
  PROVE  BootInv'
<1>1. BootTypeOK'
  BY DEF BootInv, BootTypeOK, GlushMade, BootOn, Go, Low, High
<1>2. ~halted'
  BY DEF BootInv, BootTypeOK, GlushMade, BootOn, Go, PlacesOK, TablesOK, LockOK, Places0, ShellNotMade, Alone, Loading, Asleep, Coming, Up, TempOn
<1>3. PlacesOK'
  BY DEF BootInv, BootTypeOK, GlushMade, BootOn, Go, PlacesOK, Places0, ShellNotMade, Alone, Loading, Asleep, Coming, Up, TempOn
<1>4. TablesOK'
  BY DEF BootInv, BootTypeOK, GlushMade, BootOn, Go, PlacesOK, TablesOK, Places0, ShellNotMade, Alone, Loading, Asleep, Coming, Up, TempOn
<1>5. LockOK'
  BY DEF BootInv, BootTypeOK, GlushMade, BootOn, Go, PlacesOK, LockOK, Places0, ShellNotMade, Alone, Loading, Asleep, Coming, Up, TempOn
<1> QED BY <1>1, <1>2, <1>3, <1>4, <1>5 DEF BootInv

\* A CPU arms its timer and idles.
LEMMA IdleLoopKeeps ==
  ASSUME BootInv, NEW c \in Hart, IdleLoop(c)
  PROVE  BootInv'
<1>1. BootTypeOK'
  BY DEF BootInv, BootTypeOK, IdleLoop, BootOn, Go, Low, High
<1>2. ~halted'
  BY DEF BootInv, BootTypeOK, IdleLoop, BootOn, Go, PlacesOK, TablesOK, LockOK, Places0, ShellNotMade, Alone, Loading, Asleep, Coming, Up, TempOn
<1>3. PlacesOK'
  BY DEF BootInv, BootTypeOK, IdleLoop, BootOn, Go, PlacesOK, Places0, ShellNotMade, Alone, Loading, Asleep, Coming, Up, TempOn
<1>4. TablesOK'
  BY DEF BootInv, BootTypeOK, IdleLoop, BootOn, Go, PlacesOK, TablesOK, Places0, ShellNotMade, Alone, Loading, Asleep, Coming, Up, TempOn
<1>5. LockOK'
  BY DEF BootInv, BootTypeOK, IdleLoop, BootOn, Go, PlacesOK, LockOK, Places0, ShellNotMade, Alone, Loading, Asleep, Coming, Up, TempOn
<1> QED BY <1>1, <1>2, <1>3, <1>4, <1>5 DEF BootInv

\* A timer interrupt takes the kernel lock.
LEMMA TimerKeeps ==
  ASSUME BootInv, NEW c \in Hart, Timer(c)
  PROVE  BootInv'
<1>1. BootTypeOK'
  BY DEF BootInv, BootTypeOK, Timer, BootOn, Go, TakeLock, Low, High
<1>2. ~halted'
  BY DEF BootInv, BootTypeOK, Timer, BootOn, Go, TakeLock, PlacesOK, TablesOK, LockOK, Places0, ShellNotMade, Alone, Loading, Asleep, Coming, Up, TempOn
<1>3. PlacesOK'
  BY DEF BootInv, BootTypeOK, Timer, BootOn, Go, TakeLock, PlacesOK, Places0, ShellNotMade, Alone, Loading, Asleep, Coming, Up, TempOn
<1>4. TablesOK'
  BY DEF BootInv, BootTypeOK, Timer, BootOn, Go, TakeLock, PlacesOK, TablesOK, Places0, ShellNotMade, Alone, Loading, Asleep, Coming, Up, TempOn
<1>5. LockOK'
  BY DEF BootInv, BootTypeOK, Timer, BootOn, Go, TakeLock, PlacesOK, LockOK, Places0, ShellNotMade, Alone, Loading, Asleep, Coming, Up, TempOn
<1> QED BY <1>1, <1>2, <1>3, <1>4, <1>5 DEF BootInv

\* do_scheduler() finds the shell or the idle process.
LEMMA ScheduleKeeps ==
  ASSUME BootInv, NEW c \in Hart, Schedule(c)
  PROVE  BootInv'
<1>1. BootTypeOK'
  BY DEF BootInv, BootTypeOK, Schedule, BootOn, Go, Low, High
<1>2. ~halted'
  BY DEF BootInv, BootTypeOK, Schedule, BootOn, Go, PlacesOK, TablesOK, LockOK, Places0, ShellNotMade, Alone, Loading, Asleep, Coming, Up, TempOn
<1>3. PlacesOK'
  BY DEF BootInv, BootTypeOK, Schedule, BootOn, Go, PlacesOK, Places0, ShellNotMade, Alone, Loading, Asleep, Coming, Up, TempOn
<1>4. TablesOK'
  BY DEF BootInv, BootTypeOK, Schedule, BootOn, Go, PlacesOK, TablesOK, Places0, ShellNotMade, Alone, Loading, Asleep, Coming, Up, TempOn
<1>5. LockOK'
  BY DEF BootInv, BootTypeOK, Schedule, BootOn, Go, PlacesOK, LockOK, Places0, ShellNotMade, Alone, Loading, Asleep, Coming, Up, TempOn
<1> QED BY <1>1, <1>2, <1>3, <1>4, <1>5 DEF BootInv

\* Every step of the boot keeps it.
LEMMA BootStep ==
  ASSUME BootInv, [BootNext]_bootvars
  PROVE  BootInv'
<1>1. CASE BootNext
  BY <1>1, LoadKernelKeeps, secondaryKeeps, WokenKeeps, boot_kernelKeeps, EnterKernelKeeps, InitKernelKeeps, StartOtherKeeps,
    latencyKeeps, main_sKeeps, StartGlushKeeps, GlushMadeKeeps, IdleLoopKeeps, TimerKeeps, ScheduleKeeps DEF BootNext
<1>2. CASE UNCHANGED bootvars
  BY <1>2 DEF bootvars, BootInv, BootTypeOK, PlacesOK, TablesOK, LockOK, TempOn
<1> QED BY <1>1, <1>2
-----------------------------------------------------------------------------
(* Safety.                                                                  *)

\* The window each CPU runs in is mapped and its table is nobody else's; and
\* at most one CPU is under the kernel lock.
LEMMA BootInvIsSafe == BootInv => BootSafe
<1> SUFFICES ASSUME BootInv PROVE BootSafe
  OBVIOUS
<1>1. \A c \in Hart : Fetches(c)
  BY DEF BootInv, BootTypeOK, Fetches, PlacesOK, TablesOK, Low, High, Places0, ShellNotMade, Alone, Loading, Asleep, Coming, Up, TempOn
<1>2. "temp" \notin glushroot /\ ~halted
  BY DEF BootInv, TablesOK
<1>3. glush = "half" => \A c \in Hart : place[c] # "kernel"
  BY DEF BootInv, LockOK
<1>4. Cardinality({c \in Hart : place[c] \in {"kernel", "exec"}}) <= 1
  <2> DEFINE S == {c \in Hart : place[c] \in {"kernel", "exec"}}
  <2>1. S = {} \/ S = {0} \/ S = {1}
    BY DEF BootInv, PlacesOK, LockOK, Places0, ShellNotMade, Alone, Loading, Asleep, Coming, Up, TempOn
  <2>2. Cardinality({}) = 0 /\ Cardinality({0}) = 1 /\ Cardinality({1}) = 1
    BY FS_EmptySet, FS_Singleton
  <2> QED BY <2>1, <2>2
<1> QED BY <1>1, <1>2, <1>3, <1>4 DEF BootSafe

\* Bringing up one CPU or two on one set of page tables is safe, however many
\* tables there are (boot.c, head.S, main(), main_s() and start_glush()).
THEOREM BootIsSafe == BootSpec => []BootSafe
<1>1. BootInit => BootInv
  BY BootInitially
<1>2. BootInv /\ [BootNext]_bootvars => BootInv'
  BY BootStep
<1>3. BootInv => BootSafe
  BY BootInvIsSafe
<1> QED BY <1>1, <1>2, <1>3, PTL DEF BootSpec

HIDE BootAssumption DEF Hart, Window, NoTable
-----------------------------------------------------------------------------
(* Trap: the frames on the kernel stacks.                                   *)

Places == {"run", "entry", "handler", "ret", "restore"}
Statuses == {"READY", "RUNNING", "SLEEPING", "EXITING", "FREE"}
OnCpu == {"RUNNING", "EXITING"}

\* One type invariant.
TypesOK ==
  /\ current_running \in [Cpu -> Pid] /\ lock \in Cpu \cup {Free}
  /\ at \in [Cpu -> Places] /\ spp \in [Cpu -> {"U", "S"}]
  /\ status \in [Pid -> Statuses] /\ frames \in [Pid -> Seq(Frame)]
  /\ kernel_sp \in [Pid -> BOOLEAN] /\ context \in [Pid -> {"ret", "handler"}]
  /\ sepc \in [Pid -> 0 .. Pcs - 1] /\ want \in [Pid -> 0 .. Pcs - 1]

\* The frame f takes its process to w, once Leave has moved it past an ecall.
LeadsTo(f, w) == w = IF f.scause \in {"syscall", "fork"} THEN Following(f.sepc) ELSE f.sepc

\* The stack s of a user process that has to go on at w, and is before Leave or
\* in it: one frame from user code, and a second one if a system call faulted.
UserStack(s, w) ==
  /\ Len(s) \in {1, 2} /\ s[1].spp = "U" /\ LeadsTo(s[1], w)
  /\ Len(s) = 2 => s[1].scause = "syscall" /\ s[2].spp = "S" /\ s[2].scause = "fault"

\* The same past the unlock: the only frame has been moved on.
RestoreStack(s, w) ==
  IF Len(s) = 1 THEN s[1].spp = "U" /\ s[1].sepc = w ELSE UserStack(s, w)

\* The stack of an idle process in the kernel.
IdleStack(s) == Len(s) = 1 /\ s[1].spp = "S" /\ s[1].scause = "irq"

\* The stack of p at place a.
StackAt(p, s, a, w) ==
  IF a = "run" THEN s = <<>>
  ELSE IF p \in Cpu THEN IdleStack(s)
  ELSE IF a = "restore" THEN RestoreStack(s, w) ELSE UserStack(s, w)

\* What holds of a CPU in state a, with SPP m, that runs p with stack s: the
\* frame of fork() comes from user code and is where kernel_sp points.
CpuAt(p, s, a, m, k, pc, w) ==
  /\ StackAt(p, s, a, w)
  /\ a = "run" => pc = w
  /\ a = "entry" => m = s[Len(s)].spp
  /\ a \in {"entry", "handler"} /\ s[Len(s)].scause = "fork" => m = "U" /\ k

CpuOK(h) ==
  /\ status[Cur(h)] \in OnCpu
  /\ Cur(h) \in Cpu => Cur(h) = h
  /\ CpuAt(Cur(h), frames[Cur(h)], at[h], spp[h], kernel_sp[Cur(h)], sepc[Cur(h)], want[Cur(h)])

\* A process that waits for a CPU or sleeps: it is in one call of switch_to()
\* or, with one frame, before its first ret_from_exception.
Waiting(p) ==
  /\ StackAt(p, frames[p], context[p], want[p]) /\ Len(frames[p]) = 1
  /\ context[p] = "handler" => frames[p][1].scause # "fork"

PidOK(p) ==
  /\ status[p] \in OnCpu => \E h \in Cpu : Cur(h) = p
  /\ status[p] \in {"READY", "SLEEPING"} => Waiting(p)
  /\ p \in Cpu => /\ status[p] \in {"READY", "RUNNING"} /\ sepc[p] = want[p]
                  /\ status[p] = "READY" => context[p] = "handler"

\* The inductive invariant.
TrapInv ==
  /\ TypesOK /\ panicked = FALSE
  /\ \A h \in Cpu : CpuOK(h)
  /\ \A p \in Pid : PidOK(p)
  /\ \A h \in Cpu : lock = h <=> InKernel(h)
  /\ \A h, g \in Cpu : Cur(h) = Cur(g) => h = g
-----------------------------------------------------------------------------
(* Stacks of frames.                                                        *)

USE TrapAssumption

\* The address after an instruction is an address.
LEMMA FollowingType ==
  ASSUME NEW pc \in 0 .. Pcs - 1
  PROVE  Following(pc) \in 0 .. Pcs - 1
PROOF BY DEF Following

\* SAVE_CONTEXT on an empty kernel stack.
LEMMA FirstFrame ==
  ASSUME NEW f \in Frame
  PROVE  /\ Append(<<>>, f) \in Seq(Frame) /\ Len(Append(<<>>, f)) = 1
         /\ Append(<<>>, f)[1] = f /\ Append(<<>>, f) # <<>>
PROOF BY EmptySeq, AppendProperties

\* SAVE_CONTEXT in a system call.
LEMMA SecondFrame ==
  ASSUME NEW s \in Seq(Frame), NEW w, UserStack(s, w), s[Len(s)].scause = "syscall",
         NEW f \in Frame, f.spp = "S", f.scause = "fault"
  PROVE  /\ Append(s, f) \in Seq(Frame) /\ Len(Append(s, f)) = 2
         /\ Append(s, f)[2] = f /\ UserStack(Append(s, f), w)
<1>1. Len(s) = 1
  BY DEF UserStack
<1>2. /\ Append(s, f) \in Seq(Frame) /\ Len(Append(s, f)) = Len(s) + 1
      /\ Append(s, f)[1] = s[1] /\ Append(s, f)[Len(s) + 1] = f
  <2>1. 1 \in 1 .. Len(s)
    BY <1>1
  <2> QED BY <2>1, AppendProperties
<1> QED BY <1>1, <1>2 DEF UserStack

\* Leave moves sepc of the last frame past the ecall.
LEMMA FrameMoved ==
  ASSUME NEW s \in Seq(Frame), NEW w, UserStack(s, w),
         NEW r, r = IF s[Len(s)].scause \in {"syscall", "fork"}
                    THEN [s EXCEPT ![Len(s)].sepc = Following(@)] ELSE s
  PROVE  /\ r \in Seq(Frame) /\ Len(r) = Len(s) /\ RestoreStack(r, w)
         /\ r[Len(r)].spp = s[Len(s)].spp
<1>1. CASE s[Len(s)].scause \notin {"syscall", "fork"}
  BY <1>1 DEF UserStack, RestoreStack, LeadsTo
<1>2. CASE s[Len(s)].scause \in {"syscall", "fork"}
  <2> DEFINE f == [s[1] EXCEPT !.sepc = Following(s[1].sepc)]
  <2>1. Len(s) = 1 /\ s[1] \in Frame
    BY <1>2, ElementOfSeq DEF UserStack
  <2>2. f \in Frame /\ f.spp = s[1].spp /\ f.sepc = Following(s[1].sepc)
    BY <2>1, FollowingType DEF Frame
  <2>3. r = [s EXCEPT ![1] = f]
    BY <1>2, <2>1
  <2> HIDE DEF f
  <2>4. r \in Seq(Frame) /\ Len(r) = 1 /\ r[1] = f
    BY <2>1, <2>2, <2>3, ExceptSeq
  <2>5. f.sepc = w
    BY <1>2, <2>1, <2>2 DEF UserStack, LeadsTo
  <2> QED BY <2>1, <2>2, <2>4, <2>5 DEF UserStack, RestoreStack
<1> QED BY <1>1, <1>2

\* RESTORE_CONTEXT takes the last frame away.
LEMMA FramePopped ==
  ASSUME NEW s \in Seq(Frame), Len(s) \in {1, 2}
  PROVE  /\ Pop(s) \in Seq(Frame)
         /\ Len(s) = 1 => Pop(s) = <<>>
         /\ Len(s) = 2 => Len(Pop(s)) = 1 /\ Pop(s)[1] = s[1]
<1>1. /\ Pop(s) \in Seq(Frame) /\ Len(Pop(s)) = Len(s) - 1
      /\ \A i \in 1 .. Len(s) - 1 : Pop(s)[i] = s[i]
  <2> DEFINE m == Len(s) - 1
  <2>1. m \in Int /\ 1 \in Int /\ (\A i \in 1 .. m : s[i] \in Frame) /\ m - 1 + 1 = m
        /\ (IF 1 <= m THEN m ELSE 0) = m
    BY ElementOfSeq
  <2> HIDE DEF m
  <2>2. /\ SubSeq(s, 1, m) \in Seq(Frame) /\ Len(SubSeq(s, 1, m)) = IF 1 <= m THEN m - 1 + 1 ELSE 0
        /\ \A i \in 1 .. m - 1 + 1 : SubSeq(s, 1, m)[i] = s[1 + i - 1]
    BY <2>1, SubSeqProperties
  <2> QED BY <2>1, <2>2 DEF Pop, m
<1>2. Len(s) = 1 => Pop(s) = <<>>
  BY <1>1, EmptySeq
<1> QED BY <1>1, <1>2
-----------------------------------------------------------------------------
(* The inductive invariant.                                                 *)

\* The CPUs idle and the first process is at ret_from_exception.
LEMMA TrapInitially == TrapInit => TrapInv
<1> SUFFICES ASSUME TrapInit PROVE TrapInv
  OBVIOUS
<1>0. PICK first \in User :
        status = [p \in Pid |-> IF Idle(p) THEN "RUNNING" ELSE IF p = first THEN "READY" ELSE "FREE"]
  BY DEF TrapInit
<1>f. init_pcb_stack \in Frame /\ init_pcb_stack.spp = "U" /\ init_pcb_stack.scause = "none"
      /\ init_pcb_stack.sepc = 0
  BY DEF init_pcb_stack, Frame
<1>s. <<init_pcb_stack>> \in Seq(Frame) /\ Len(<<init_pcb_stack>>) = 1
      /\ <<init_pcb_stack>>[1] = init_pcb_stack /\ <<>> \in Seq(Frame)
  BY <1>f
<1> HIDE DEF init_pcb_stack
<1>1. TypesOK /\ panicked = FALSE
  <2>1. status \in [Pid -> Statuses] /\ kernel_sp \in [Pid -> BOOLEAN]
    BY <1>0 DEF TrapInit, Statuses
  <2>2. frames \in [Pid -> Seq(Frame)]
    BY <1>s DEF TrapInit
  <2>3. sepc \in [Pid -> 0 .. Pcs - 1] /\ want \in [Pid -> 0 .. Pcs - 1]
    BY DEF TrapInit
  <2>4. current_running \in [Cpu -> Pid] /\ lock \in Cpu \cup {Free}
        /\ at \in [Cpu -> Places] /\ spp \in [Cpu -> {"U", "S"}] /\ context \in [Pid -> {"ret", "handler"}]
    BY DEF TrapInit, Places, Pid
  <2> QED BY <2>1, <2>2, <2>3, <2>4 DEF TrapInit, TypesOK
<1>2. \A h \in Cpu : CpuOK(h)
  BY <1>0 DEF TrapInit, CpuOK, CpuAt, StackAt, Cur, Idle, Pid, OnCpu
<1>3. \A p \in Pid : PidOK(p)
  BY <1>0, <1>f, <1>s DEF TrapInit, PidOK, Waiting, StackAt, UserStack, LeadsTo, Cur, Idle, Pid, OnCpu
<1>4. \A h \in Cpu : lock = h <=> InKernel(h)
  BY DEF TrapInit, InKernel
<1>5. \A h, g \in Cpu : Cur(h) = Cur(g) => h = g
  BY DEF TrapInit, Cur
<1> QED BY <1>1, <1>2, <1>3, <1>4, <1>5 DEF TrapInv

-----------------------------------------------------------------------------
(* What a step leaves alone.                                                *)

\* Nothing of CPU g, of the process it runs or of that process's stack changes.
LEMMA CpuKept ==
  ASSUME NEW g \in Cpu, CpuOK(g), Cur(g)' = Cur(g), at'[g] = at[g], spp'[g] = spp[g],
         frames'[Cur(g)] = frames[Cur(g)], kernel_sp'[Cur(g)] = kernel_sp[Cur(g)],
         sepc'[Cur(g)] = sepc[Cur(g)], want'[Cur(g)] = want[Cur(g)], status'[Cur(g)] \in OnCpu
  PROVE  CpuOK(g)'
PROOF BY DEF CpuOK

\* Nothing of process p changes, and if it was on a CPU it still is.
LEMMA PidKept ==
  ASSUME NEW p \in Pid, PidOK(p), status'[p] = status[p], frames'[p] = frames[p],
         context'[p] = context[p], sepc'[p] = sepc[p], want'[p] = want[p],
         \A g \in Cpu : Cur(g) = p => \E f \in Cpu : Cur(f)' = p
  PROVE  PidOK(p)'
PROOF BY DEF PidOK, Waiting

\* A process on a CPU is on one still.
LEMMA PidOnCpu ==
  ASSUME NEW h \in Cpu, Cur(h)' \in Pid, status'[Cur(h)'] \in OnCpu,
         Cur(h)' \in Cpu => status'[Cur(h)'] = "RUNNING" /\ sepc'[Cur(h)'] = want'[Cur(h)']
  PROVE  PidOK(Cur(h))'
PROOF BY DEF PidOK, OnCpu

\* A step of CPU h that changes the processes of U, and neither the other CPUs
\* nor what they run; at most it takes the lock or gives it back.
LEMMA OneCpuMoves ==
  ASSUME TrapInv, NEW h \in Cpu, NEW U,
         TypesOK' /\ panicked' = FALSE, CpuOK(h)', lock' = h <=> InKernel(h)',
         lock' = lock \/ {lock, lock'} \subseteq {h, Free},
         \A g \in Cpu \ {h} :
           /\ Cur(g)' = Cur(g) /\ at'[g] = at[g] /\ spp'[g] = spp[g] /\ Cur(h)' # Cur(g)
           /\ frames'[Cur(g)] = frames[Cur(g)] /\ kernel_sp'[Cur(g)] = kernel_sp[Cur(g)]
           /\ sepc'[Cur(g)] = sepc[Cur(g)] /\ want'[Cur(g)] = want[Cur(g)]
           /\ status'[Cur(g)] \in OnCpu,
         \A u \in U : PidOK(u)',
         \A u \in Pid \ U :
           /\ status'[u] = status[u] /\ frames'[u] = frames[u] /\ context'[u] = context[u]
           /\ sepc'[u] = sepc[u] /\ want'[u] = want[u] /\ (Cur(h) = u => Cur(h)' = u)
  PROVE  TrapInv'
<1>1. \A g \in Cpu : CpuOK(g)'
  BY CpuKept DEF TrapInv
<1>2. \A u \in Pid : PidOK(u)'
  <2> SUFFICES ASSUME NEW u \in Pid \ U PROVE PidOK(u)'
    OBVIOUS
  <2>1. \A g \in Cpu : Cur(g) = u => \E e \in Cpu : Cur(e)' = u
    OBVIOUS
  <2> QED BY <2>1, PidKept DEF TrapInv
<1>3. \A g \in Cpu : lock' = g <=> InKernel(g)'
  <2> SUFFICES ASSUME NEW g \in Cpu, g # h PROVE lock' = g <=> InKernel(g)'
    OBVIOUS
  <2>1. /\ at'[g] = at[g] /\ Cur(g)' = Cur(g) /\ Top(Cur(g))' = Top(Cur(g))
    BY DEF Top
  <2>2. InKernel(g)' = InKernel(g)
    BY <2>1 DEF InKernel, BypassLock
  <2> QED BY <2>2 DEF TrapInv
<1>4. \A e, g \in Cpu : Cur(e)' = Cur(g)' => e = g
  BY DEF TrapInv
<1> QED BY <1>1, <1>2, <1>3, <1>4 DEF TrapInv

\* A trap of user code saves the first frame.
LEMMA UserTrapKeeps ==
  ASSUME TrapInv, NEW h \in Cpu, NEW cause \in {"syscall", "fork", "fault", "irq"}, UserTrap(h, cause)
  PROVE  TrapInv'
<1> DEFINE p == Cur(h)
           f == [spp |-> "U", scause |-> cause, sepc |-> sepc[p]]
           r == Append(<<>>, f)
           w == IF cause \in {"syscall", "fork"} THEN Following(sepc[p]) ELSE sepc[p]
<1>a. p \in User /\ p \in Pid /\ p \notin Cpu /\ frames[p] = <<>> /\ at[h] = "run"
  BY DEF TrapInv, TypesOK, UserTrap, CpuOK, CpuAt, StackAt, Cur, Pid
<1>b. f \in Frame /\ f.spp = "U" /\ LeadsTo(f, w) /\ w \in 0 .. Pcs - 1 /\ f.scause = cause
  BY <1>a, FollowingType DEF TrapInv, TypesOK, Frame, LeadsTo
<1>c. r \in Seq(Frame) /\ Len(r) = 1 /\ r[1] = f /\ r # <<>>
  BY <1>b, FirstFrame
<1>d. /\ spp' = [spp EXCEPT ![h] = "U"] /\ frames' = [frames EXCEPT ![p] = r]
      /\ kernel_sp' = [kernel_sp EXCEPT ![p] = TRUE] /\ at' = [at EXCEPT ![h] = "entry"]
      /\ want' = [want EXCEPT ![p] = w]
      /\ UNCHANGED <<current_running, lock, status, context, sepc, panicked>>
  BY <1>a DEF UserTrap, SAVE_CONTEXT
<1>e. CpuAt(p, r, "entry", "U", TRUE, sepc[p], w) /\ r[Len(r)].spp = "U"
  <2> HIDE DEF r, f, w
  <2> QED BY <1>a, <1>b, <1>c DEF CpuAt, StackAt, UserStack
<1> HIDE DEF p, f, r, w
<1>f. p = Cur(h)
  BY DEF p
<1>1. TypesOK' /\ panicked' = FALSE
  BY <1>a, <1>b, <1>c, <1>d, <1>e, <1>f DEF TrapInv, TypesOK, Places, Statuses, Pid, Cur
<1>2. CpuOK(h)'
  BY <1>a, <1>b, <1>c, <1>d, <1>e, <1>f DEF TrapInv, TypesOK, CpuOK, Cur, Pid, OnCpu
<1>3. lock' = h <=> InKernel(h)'
  <2>1. at[h] = "run" /\ at'[h] = "entry" /\ spp'[h] = "U" /\ lock' = lock
    BY <1>a, <1>d DEF TrapInv, TypesOK
  <2>2. Top(Cur(h))'.spp = "U"
    BY <1>a, <1>b, <1>c, <1>d, <1>f DEF TrapInv, TypesOK, Top, Cur
  <2>3. ~InKernel(h) /\ ~InKernel(h)'
    BY <2>1, <2>2 DEF InKernel, BypassLock
  <2> QED BY <2>1, <2>3 DEF TrapInv
<1>4. ASSUME NEW g \in Cpu \ {h}
      PROVE  /\ Cur(g)' = Cur(g) /\ at'[g] = at[g] /\ spp'[g] = spp[g] /\ Cur(h)' # Cur(g)
             /\ frames'[Cur(g)] = frames[Cur(g)] /\ kernel_sp'[Cur(g)] = kernel_sp[Cur(g)]
             /\ sepc'[Cur(g)] = sepc[Cur(g)] /\ want'[Cur(g)] = want[Cur(g)]
             /\ status'[Cur(g)] \in OnCpu
  <2>1. Cur(g) \in Pid /\ CpuOK(g) /\ Cur(g) # Cur(h)
    BY DEF TrapInv, TypesOK, Cur
  <2>2. Cur(h)' # Cur(g)
    BY <1>a, <1>b, <1>c, <1>d, <1>e, <1>f, <2>1 DEF TrapInv, TypesOK, Cur, CpuOK, OnCpu
  <2> QED BY <1>a, <1>b, <1>c, <1>d, <1>e, <1>f, <2>1, <2>2 DEF TrapInv, TypesOK, Cur, CpuOK, OnCpu
<1>0. PICK U : U = {Cur(h)}
  OBVIOUS
<1>5. \A u \in U : PidOK(u)'
  <2>1. /\ Cur(h)' = Cur(h) /\ Cur(h) \in Pid /\ status'[Cur(h)] \in OnCpu
        /\ Cur(h) \in Cpu => status'[Cur(h)] = "RUNNING" /\ sepc'[Cur(h)] = want'[Cur(h)]
    BY <1>a, <1>b, <1>c, <1>d, <1>e, <1>f DEF TrapInv, TypesOK, CpuOK, PidOK, Cur, OnCpu
  <2>2. PidOK(Cur(h))'
    BY <2>1, PidOnCpu
  <2> QED BY <1>0, <2>1, <2>2 DEF PidOK, Waiting
<1>6. \A u \in Pid \ U :
        /\ status'[u] = status[u] /\ frames'[u] = frames[u] /\ context'[u] = context[u]
        /\ sepc'[u] = sepc[u] /\ want'[u] = want[u] /\ (Cur(h) = u => Cur(h)' = u)
  BY <1>a, <1>b, <1>c, <1>d, <1>e, <1>f, <1>0 DEF TrapInv, TypesOK, Cur
<1>7. lock' = lock \/ {lock, lock'} \subseteq {h, Free}
  BY <1>a, <1>b, <1>c, <1>d, <1>e, <1>f DEF TrapInv
<1> QED BY <1>1, <1>2, <1>3, <1>4, <1>5, <1>6, <1>7, OneCpuMoves

\* An interrupt of the idle loop saves its frame.
LEMMA IdleTrapKeeps ==
  ASSUME TrapInv, NEW h \in Cpu, IdleTrap(h)
  PROVE  TrapInv'
<1> DEFINE p == Cur(h)
           f == [spp |-> "S", scause |-> "irq", sepc |-> sepc[p]]
           r == Append(<<>>, f)
<1>a. p \in Cpu /\ p = h /\ p \in Pid /\ p \notin User /\ frames[p] = <<>> /\ at[h] = "run"
  BY DEF TrapInv, TypesOK, IdleTrap, CpuOK, CpuAt, StackAt, Cur, Pid, Idle
<1>b. f \in Frame /\ f.spp = "S" /\ f.scause = "irq"
  BY <1>a DEF TrapInv, TypesOK, Frame
<1>c. r \in Seq(Frame) /\ Len(r) = 1 /\ r[1] = f /\ r # <<>>
  BY <1>b, FirstFrame
<1>d. /\ spp' = [spp EXCEPT ![h] = "S"] /\ frames' = [frames EXCEPT ![p] = r]
      /\ kernel_sp' = [kernel_sp EXCEPT ![p] = TRUE] /\ at' = [at EXCEPT ![h] = "entry"]
      /\ UNCHANGED <<current_running, lock, status, context, sepc, want, panicked>>
  BY <1>a DEF IdleTrap, SAVE_CONTEXT
<1>e. CpuAt(p, r, "entry", "S", TRUE, sepc[p], want[p]) /\ r[Len(r)].spp = "S"
  <2> HIDE DEF r, f
  <2> QED BY <1>a, <1>b, <1>c DEF CpuAt, StackAt, IdleStack
<1> HIDE DEF p, f, r
<1>f. p = Cur(h)
  BY DEF p
<1>1. TypesOK' /\ panicked' = FALSE
  BY <1>a, <1>b, <1>c, <1>d, <1>e, <1>f DEF TrapInv, TypesOK, Places, Statuses, Pid, Cur
<1>2. CpuOK(h)'
  BY <1>a, <1>b, <1>c, <1>d, <1>e, <1>f DEF TrapInv, TypesOK, CpuOK, Cur, Pid, OnCpu
<1>3. lock' = h <=> InKernel(h)'
  <2>1. Cur(h)' = p /\ Top(Cur(h))' = r[Len(r)] /\ at'[h] = "entry" /\ lock' = lock
    BY <1>a, <1>b, <1>c, <1>d, <1>e, <1>f DEF TrapInv, TypesOK, Top, Cur
  <2>2. lock = h <=> InKernel(h)
    BY DEF TrapInv
  <2>3. InKernel(h)' <=> (p \in User /\ r[Len(r)].spp = "S")
    BY <2>1 DEF InKernel, BypassLock
  <2>4. InKernel(h) <=> (p \in User /\ r[Len(r)].spp = "S")
    BY <1>a, <1>b, <1>c, <1>d, <1>e, <1>f DEF InKernel
  <2> QED BY <2>1, <2>2, <2>3, <2>4
<1>4. ASSUME NEW g \in Cpu \ {h}
      PROVE  /\ Cur(g)' = Cur(g) /\ at'[g] = at[g] /\ spp'[g] = spp[g] /\ Cur(h)' # Cur(g)
             /\ frames'[Cur(g)] = frames[Cur(g)] /\ kernel_sp'[Cur(g)] = kernel_sp[Cur(g)]
             /\ sepc'[Cur(g)] = sepc[Cur(g)] /\ want'[Cur(g)] = want[Cur(g)]
             /\ status'[Cur(g)] \in OnCpu
  <2>1. Cur(g) \in Pid /\ CpuOK(g) /\ Cur(g) # Cur(h)
    BY DEF TrapInv, TypesOK, Cur
  <2>2. Cur(h)' # Cur(g)
    BY <1>a, <1>b, <1>c, <1>d, <1>e, <1>f, <2>1 DEF TrapInv, TypesOK, Cur, CpuOK, OnCpu
  <2> QED BY <1>a, <1>b, <1>c, <1>d, <1>e, <1>f, <2>1, <2>2 DEF TrapInv, TypesOK, Cur, CpuOK, OnCpu
<1>0. PICK U : U = {Cur(h)}
  OBVIOUS
<1>5. \A u \in U : PidOK(u)'
  <2>1. /\ Cur(h)' = Cur(h) /\ Cur(h) \in Pid /\ status'[Cur(h)] \in OnCpu
        /\ Cur(h) \in Cpu => status'[Cur(h)] = "RUNNING" /\ sepc'[Cur(h)] = want'[Cur(h)]
    BY <1>a, <1>b, <1>c, <1>d, <1>e, <1>f DEF TrapInv, TypesOK, CpuOK, PidOK, Cur, OnCpu
  <2>2. PidOK(Cur(h))'
    BY <2>1, PidOnCpu
  <2> QED BY <1>0, <2>1, <2>2 DEF PidOK, Waiting
<1>6. \A u \in Pid \ U :
        /\ status'[u] = status[u] /\ frames'[u] = frames[u] /\ context'[u] = context[u]
        /\ sepc'[u] = sepc[u] /\ want'[u] = want[u] /\ (Cur(h) = u => Cur(h)' = u)
  BY <1>a, <1>b, <1>c, <1>d, <1>e, <1>f, <1>0 DEF TrapInv, TypesOK, Cur
<1>7. lock' = lock \/ {lock, lock'} \subseteq {h, Free}
  BY <1>a, <1>b, <1>c, <1>d, <1>e, <1>f DEF TrapInv
<1> QED BY <1>1, <1>2, <1>3, <1>4, <1>5, <1>6, <1>7, OneCpuMoves

\* A page fault in a system call saves the second frame.
LEMMA NestedFaultKeeps ==
  ASSUME TrapInv, NEW h \in Cpu, NestedFault(h)
  PROVE  TrapInv'
<1> DEFINE p == Cur(h)
           f == [spp |-> "S", scause |-> "fault", sepc |-> sepc[p]]
           s == frames[p]
           r == Append(s, f)
<1>a. p \in User /\ p \in Pid /\ p \notin Cpu /\ at[h] = "handler" /\ s \in Seq(Frame)
      /\ UserStack(s, want[p]) /\ s[Len(s)].scause = "syscall"
  BY DEF TrapInv, TypesOK, NestedFault, CpuOK, CpuAt, StackAt, Cur, Pid, Top
<1>b. f \in Frame /\ f.spp = "S" /\ f.scause = "fault"
  BY <1>a DEF TrapInv, TypesOK, Frame
<1>c. r \in Seq(Frame) /\ Len(r) = 2 /\ r[2] = f /\ UserStack(r, want[p])
  BY <1>a, <1>b, SecondFrame
<1>d. /\ spp' = [spp EXCEPT ![h] = "S"] /\ frames' = [frames EXCEPT ![p] = r]
      /\ kernel_sp' = [kernel_sp EXCEPT ![p] = TRUE] /\ at' = [at EXCEPT ![h] = "entry"]
      /\ UNCHANGED <<current_running, lock, status, context, sepc, want, panicked>>
  BY <1>a DEF NestedFault, SAVE_CONTEXT
<1>e. CpuAt(p, r, "entry", "S", TRUE, sepc[p], want[p]) /\ r[Len(r)].spp = "S" /\ Len(r) # 0
  <2> HIDE DEF r, f
  <2> QED BY <1>a, <1>b, <1>c DEF CpuAt, StackAt
<1> HIDE DEF p, f, r, s
<1>f. p = Cur(h)
  BY DEF p
<1>1. TypesOK' /\ panicked' = FALSE
  BY <1>a, <1>b, <1>c, <1>d, <1>e, <1>f DEF TrapInv, TypesOK, Places, Statuses, Pid, Cur
<1>2. CpuOK(h)'
  BY <1>a, <1>b, <1>c, <1>d, <1>e, <1>f DEF TrapInv, TypesOK, CpuOK, Cur, Pid, OnCpu
<1>3. lock' = h <=> InKernel(h)'
  <2>1. Cur(h)' = p /\ Top(Cur(h))' = r[Len(r)] /\ at'[h] = "entry" /\ lock' = lock
    BY <1>a, <1>b, <1>c, <1>d, <1>e, <1>f DEF TrapInv, TypesOK, Top, Cur
  <2>2. lock = h <=> InKernel(h)
    BY DEF TrapInv
  <2>3. InKernel(h)' <=> (p \in User /\ r[Len(r)].spp = "S")
    BY <2>1 DEF InKernel, BypassLock
  <2>4. InKernel(h) <=> (p \in User /\ r[Len(r)].spp = "S")
    BY <1>a, <1>b, <1>c, <1>d, <1>e, <1>f DEF InKernel
  <2> QED BY <2>1, <2>2, <2>3, <2>4
<1>4. ASSUME NEW g \in Cpu \ {h}
      PROVE  /\ Cur(g)' = Cur(g) /\ at'[g] = at[g] /\ spp'[g] = spp[g] /\ Cur(h)' # Cur(g)
             /\ frames'[Cur(g)] = frames[Cur(g)] /\ kernel_sp'[Cur(g)] = kernel_sp[Cur(g)]
             /\ sepc'[Cur(g)] = sepc[Cur(g)] /\ want'[Cur(g)] = want[Cur(g)]
             /\ status'[Cur(g)] \in OnCpu
  <2>1. Cur(g) \in Pid /\ CpuOK(g) /\ Cur(g) # Cur(h)
    BY DEF TrapInv, TypesOK, Cur
  <2>2. Cur(h)' # Cur(g)
    BY <1>a, <1>b, <1>c, <1>d, <1>e, <1>f, <2>1 DEF TrapInv, TypesOK, Cur, CpuOK, OnCpu
  <2> QED BY <1>a, <1>b, <1>c, <1>d, <1>e, <1>f, <2>1, <2>2 DEF TrapInv, TypesOK, Cur, CpuOK, OnCpu
<1>0. PICK U : U = {Cur(h)}
  OBVIOUS
<1>5. \A u \in U : PidOK(u)'
  <2>1. /\ Cur(h)' = Cur(h) /\ Cur(h) \in Pid /\ status'[Cur(h)] \in OnCpu
        /\ Cur(h) \in Cpu => status'[Cur(h)] = "RUNNING" /\ sepc'[Cur(h)] = want'[Cur(h)]
    BY <1>a, <1>b, <1>c, <1>d, <1>e, <1>f DEF TrapInv, TypesOK, CpuOK, PidOK, Cur, OnCpu
  <2>2. PidOK(Cur(h))'
    BY <2>1, PidOnCpu
  <2> QED BY <1>0, <2>1, <2>2 DEF PidOK, Waiting
<1>6. \A u \in Pid \ U :
        /\ status'[u] = status[u] /\ frames'[u] = frames[u] /\ context'[u] = context[u]
        /\ sepc'[u] = sepc[u] /\ want'[u] = want[u] /\ (Cur(h) = u => Cur(h)' = u)
  BY <1>a, <1>b, <1>c, <1>d, <1>e, <1>f, <1>0 DEF TrapInv, TypesOK, Cur
<1>7. lock' = lock \/ {lock, lock'} \subseteq {h, Free}
  BY <1>a, <1>b, <1>c, <1>d, <1>e, <1>f DEF TrapInv
<1> QED BY <1>1, <1>2, <1>3, <1>4, <1>5, <1>6, <1>7, OneCpuMoves

\* exception_handler_entry takes the lock, or had it.
LEMMA EnterKeeps ==
  ASSUME TrapInv, NEW h \in Cpu, Enter(h)
  PROVE  TrapInv'
<1> DEFINE p == Cur(h)
           s == frames[p]
<1>a. p \in Pid /\ at[h] = "entry" /\ CpuAt(p, s, "entry", spp[h], kernel_sp[p], sepc[p], want[p])
  BY DEF TrapInv, TypesOK, Enter, CpuOK, Cur
<1>b. CpuAt(p, s, "handler", spp[h], kernel_sp[p], sepc[p], want[p]) /\ spp[h] = s[Len(s)].spp
  BY <1>a DEF CpuAt, StackAt
<1>c. (lock = h /\ lock' = h) \/ (lock = Free /\ lock' = h)
  BY <1>a, <1>b DEF TrapInv, Enter, InKernel, BypassLock, Top
<1>d. /\ at' = [at EXCEPT ![h] = "handler"]
      /\ UNCHANGED <<current_running, spp, status, frames, kernel_sp, context, sepc, want, panicked>>
  BY DEF Enter
<1> HIDE DEF p, s
<1>e. p = Cur(h) /\ s = frames[p]
  BY DEF p, s
<1>1. TypesOK' /\ panicked' = FALSE
  BY <1>a, <1>b, <1>c, <1>d, <1>e DEF TrapInv, TypesOK, Places, Statuses, Pid, Cur
<1>2. CpuOK(h)'
  BY <1>a, <1>b, <1>c, <1>d, <1>e DEF TrapInv, TypesOK, CpuOK, Cur, Pid, OnCpu
<1>3. lock' = h <=> InKernel(h)'
  BY <1>a, <1>b, <1>c, <1>d, <1>e, <1>1 DEF TrapInv, TypesOK, InKernel, BypassLock, Top, Cur, Pid, Places
<1>4. ASSUME NEW g \in Cpu \ {h}
      PROVE  /\ Cur(g)' = Cur(g) /\ at'[g] = at[g] /\ spp'[g] = spp[g] /\ Cur(h)' # Cur(g)
             /\ frames'[Cur(g)] = frames[Cur(g)] /\ kernel_sp'[Cur(g)] = kernel_sp[Cur(g)]
             /\ sepc'[Cur(g)] = sepc[Cur(g)] /\ want'[Cur(g)] = want[Cur(g)]
             /\ status'[Cur(g)] \in OnCpu
  <2>1. Cur(g) \in Pid /\ CpuOK(g) /\ Cur(g) # Cur(h)
    BY DEF TrapInv, TypesOK, Cur
  <2>2. Cur(h)' # Cur(g)
    BY <1>a, <1>b, <1>c, <1>d, <1>e, <2>1 DEF TrapInv, TypesOK, Cur, CpuOK, OnCpu
  <2> QED BY <1>a, <1>b, <1>c, <1>d, <1>e, <2>1, <2>2 DEF TrapInv, TypesOK, Cur, CpuOK, OnCpu
<1>0. PICK U : U = {Cur(h)}
  OBVIOUS
<1>5. \A u \in U : PidOK(u)'
  <2>1. /\ Cur(h)' = Cur(h) /\ Cur(h) \in Pid /\ status'[Cur(h)] \in OnCpu
        /\ Cur(h) \in Cpu => status'[Cur(h)] = "RUNNING" /\ sepc'[Cur(h)] = want'[Cur(h)]
    BY <1>a, <1>b, <1>c, <1>d, <1>e DEF TrapInv, TypesOK, CpuOK, PidOK, Cur, OnCpu
  <2>2. PidOK(Cur(h))'
    BY <2>1, PidOnCpu
  <2> QED BY <1>0, <2>1, <2>2 DEF PidOK, Waiting
<1>6. \A u \in Pid \ U :
        /\ status'[u] = status[u] /\ frames'[u] = frames[u] /\ context'[u] = context[u]
        /\ sepc'[u] = sepc[u] /\ want'[u] = want[u] /\ (Cur(h) = u => Cur(h)' = u)
  BY <1>a, <1>b, <1>c, <1>d, <1>e, <1>0 DEF TrapInv, TypesOK, Cur
<1>7. lock' = lock \/ {lock, lock'} \subseteq {h, Free}
  BY <1>a, <1>b, <1>c, <1>d, <1>e DEF TrapInv
<1> QED BY <1>1, <1>2, <1>3, <1>4, <1>5, <1>6, <1>7, OneCpuMoves

\* switch_to(): the CPU goes on where q was, and the process that leaves has one frame,
\* or none when it is gone.
LEMMA SwitchKeeps ==
  ASSUME TrapInv, NEW h \in Cpu, at[h] = "handler", NEW q \in Pid, NEW st, switch_to(h, q, st),
         q \in Ready \/ q = h \/ q = Cur(h),
         \/ /\ st \in {"READY", "SLEEPING"} /\ (Cur(h) \in Cpu => st = "READY")
            /\ Len(frames[Cur(h)]) = 1 /\ frames[Cur(h)][1].scause # "fork"
            /\ UNCHANGED frames
         \/ /\ st = "FREE" /\ Cur(h) \in User /\ q # Cur(h)
            /\ frames' = [frames EXCEPT ![Cur(h)] = <<>>],
         UNCHANGED <<spp, lock, kernel_sp, sepc, want, panicked>>
  PROVE  TrapInv'
<1> DEFINE p == Cur(h)
<1>a. p \in Pid /\ CpuOK(h) /\ status[p] \in OnCpu /\ PidOK(q) /\ PidOK(p)
  BY DEF TrapInv, TypesOK, CpuOK, Cur
<1>b. q # p => status[q] = "READY" /\ Waiting(q) /\ frames'[q] = frames[q] /\ context[q] \in {"ret", "handler"}
  <2> SUFFICES ASSUME q # p PROVE status[q] = "READY" /\ frames'[q] = frames[q]
    BY <1>a DEF PidOK, TrapInv, TypesOK
  <2>1. CASE q \in Ready
    BY <2>1 DEF Ready, TrapInv, TypesOK
  <2>2. CASE q = h
    <3>1. ~ \E g \in Cpu : Cur(g) = h
      BY <2>2 DEF TrapInv, CpuOK
    <3>2. status[q] = "READY"
      BY <1>a, <2>2, <3>1 DEF PidOK, OnCpu
    <3> QED BY <3>2 DEF TrapInv, TypesOK
  <2> QED BY <2>1, <2>2
<1>c. q \in Cpu => q = h
  BY <1>a DEF Ready, CpuOK
<1>d. /\ current_running' = [current_running EXCEPT ![h] = q]
      /\ status' = [r \in Pid |-> IF r = q THEN "RUNNING" ELSE IF r = p THEN st ELSE status[r]]
      /\ at' = [at EXCEPT ![h] = IF q = p THEN "handler" ELSE context[q]]
      /\ context' = [context EXCEPT ![p] = "handler"]
  BY Zenon DEF switch_to
<1>e. CpuAt(q, frames'[q], at'[h], spp'[h], kernel_sp'[q], sepc'[q], want'[q])
  <2>1. CASE q = p
    BY <1>a, <1>d, <2>1 DEF CpuOK, TrapInv, TypesOK
  <2>2. CASE q # p
    BY <1>b, <1>d, <2>2 DEF Waiting, CpuAt, TrapInv, TypesOK
  <2> QED BY <2>1, <2>2
<1>f. ASSUME NEW u \in Pid, u = p, q # p, st # "FREE" PROVE Waiting(u)'
  <2>1. frames' = frames /\ want' = want /\ context'[u] = "handler"
    BY <1>a, <1>d, <1>f DEF TrapInv, TypesOK
  <2>2. StackAt(u, frames[u], "handler", want[u])
    BY <1>a, <1>f DEF CpuOK, CpuAt
  <2>3. Len(frames[u]) = 1 /\ frames[u][1].scause # "fork"
    BY <1>f
  <2> QED BY <2>1, <2>2, <2>3 DEF Waiting
<1>g. p = Cur(h)
  OBVIOUS
<1>h. at'[h] \in {"ret", "handler"}
  BY <1>b, <1>d DEF TrapInv, TypesOK
<1> HIDE DEF p
<1>1. TypesOK' /\ panicked' = FALSE
  <2>1. frames' \in [Pid -> Seq(Frame)]
    <3>1. <<>> \in Seq(Frame) /\ frames \in [Pid -> Seq(Frame)]
      BY DEF TrapInv, TypesOK
    <3> QED BY <3>1
  <2>2. current_running' \in [Cpu -> Pid]
    BY <1>d DEF TrapInv, TypesOK
  <2>3. status' \in [Pid -> Statuses]
    BY <1>d DEF TrapInv, TypesOK, Statuses
  <2>4. at' \in [Cpu -> Places] /\ context' \in [Pid -> {"ret", "handler"}]
    BY <1>b, <1>d DEF TrapInv, TypesOK, Places
  <2> QED BY <2>1, <2>2, <2>3, <2>4 DEF TrapInv, TypesOK
<1>2. CpuOK(h)'
  BY <1>a, <1>b, <1>c, <1>d, <1>e, <1>f, <1>g, <1>h DEF TrapInv, TypesOK, CpuOK, Cur, Pid, OnCpu
<1>3. lock' = h <=> InKernel(h)'
  BY <1>a, <1>b, <1>c, <1>d, <1>e, <1>f, <1>g, <1>h, <1>1 DEF TrapInv, TypesOK, InKernel, BypassLock, Top, Cur, Pid, Places
<1>4. ASSUME NEW g \in Cpu \ {h}
      PROVE  /\ Cur(g)' = Cur(g) /\ at'[g] = at[g] /\ spp'[g] = spp[g] /\ Cur(h)' # Cur(g)
             /\ frames'[Cur(g)] = frames[Cur(g)] /\ kernel_sp'[Cur(g)] = kernel_sp[Cur(g)]
             /\ sepc'[Cur(g)] = sepc[Cur(g)] /\ want'[Cur(g)] = want[Cur(g)]
             /\ status'[Cur(g)] \in OnCpu
  <2>1. Cur(g) \in Pid /\ CpuOK(g) /\ Cur(g) # Cur(h)
    BY DEF TrapInv, TypesOK, Cur
  <2>2. Cur(h)' # Cur(g)
    BY <1>a, <1>b, <1>c, <1>d, <1>e, <1>f, <1>g, <1>h, <2>1 DEF TrapInv, TypesOK, Cur, CpuOK, OnCpu
  <2> QED BY <1>a, <1>b, <1>c, <1>d, <1>e, <1>f, <1>g, <1>h, <2>1, <2>2 DEF TrapInv, TypesOK, Cur, CpuOK, OnCpu
<1>0. PICK U : U = {Cur(h), q}
  OBVIOUS
<1>5. \A u \in U : PidOK(u)'
  <2> SUFFICES ASSUME NEW u \in U PROVE PidOK(u)'
    OBVIOUS
  <2>0. u \in Pid
    BY <1>a, <1>b, <1>c, <1>d, <1>e, <1>f, <1>g, <1>h, <1>0 DEF TrapInv, TypesOK, Cur
  <2>1. CASE u = q
    <3>1. Cur(h)' = u /\ status'[u] \in OnCpu /\ (u \in Cpu => status'[u] = "RUNNING" /\ sepc'[u] = want'[u])
      BY <1>a, <1>b, <1>c, <1>d, <1>e, <1>f, <1>g, <1>h, <2>1 DEF TrapInv, TypesOK, CpuOK, PidOK, Cur, OnCpu
    <3> QED BY <2>0, <3>1, PidOnCpu DEF TrapInv, TypesOK
  <2>2. CASE u # q /\ u = Cur(h)
    <3>1. status'[u] = st /\ context'[u] = "handler"
      BY <1>d, <1>g, <2>0, <2>2 DEF TrapInv, TypesOK
    <3>2. st # "FREE" => Waiting(u)'
      BY <1>f, <1>g, <2>0, <2>2
    <3>3. u \in Cpu => st = "READY" /\ sepc'[u] = want'[u]
      BY <1>a, <1>g, <2>2 DEF PidOK
    <3> QED BY <3>1, <3>2, <3>3 DEF PidOK, OnCpu
  <2> QED BY <1>0, <2>1, <2>2
<1>6. \A u \in Pid \ U :
        /\ status'[u] = status[u] /\ frames'[u] = frames[u] /\ context'[u] = context[u]
        /\ sepc'[u] = sepc[u] /\ want'[u] = want[u] /\ (Cur(h) = u => Cur(h)' = u)
  BY <1>a, <1>b, <1>c, <1>d, <1>e, <1>f, <1>g, <1>h, <1>0 DEF TrapInv, TypesOK, Cur
<1>7. lock' = lock \/ {lock, lock'} \subseteq {h, Free}
  BY <1>a, <1>b, <1>c, <1>d, <1>e, <1>f, <1>g, <1>h DEF TrapInv
<1> QED BY <1>1, <1>2, <1>3, <1>4, <1>5, <1>6, <1>7, OneCpuMoves

\* The timer: a process with one frame leaves, and stays ready.
LEMMA PreemptKeeps ==
  ASSUME TrapInv, NEW h \in Cpu, Preempt(h)
  PROVE  TrapInv'
<1>1. PICK q \in Successors(h, Ready \cup ({Cur(h)} \ Cpu)) : switch_to(h, q, "READY")
  BY Zenon DEF Preempt
<1>2. q \in Ready \/ q = h \/ q = Cur(h)
  BY <1>1 DEF Successors
<1>3. q \in Pid /\ at[h] = "handler" /\ frames[Cur(h)][Len(frames[Cur(h)])].scause = "irq"
  BY <1>2 DEF Preempt, InHandler, Top, Ready, Pid, Cur, TrapInv, TypesOK
<1>4. Len(frames[Cur(h)]) = 1
  BY <1>3 DEF TrapInv, CpuOK, CpuAt, StackAt, IdleStack, UserStack
<1>5. UNCHANGED frames /\ UNCHANGED <<spp, lock, kernel_sp, sepc, want, panicked>>
  BY DEF Preempt
<1> QED BY <1>1, <1>2, <1>3, <1>4, <1>5, SwitchKeeps

\* do_block() in a system call: the process has one frame.
LEMMA BlockKeeps ==
  ASSUME TrapInv, NEW h \in Cpu, Block(h)
  PROVE  TrapInv'
<1>1. PICK q \in Successors(h, Ready) : switch_to(h, q, "SLEEPING")
  BY Zenon DEF Block
<1>2. q \in Ready \/ q = h \/ q = Cur(h)
  BY <1>1 DEF Successors
<1>3. /\ q \in Pid /\ at[h] = "handler" /\ Cur(h) \notin Cpu
      /\ frames[Cur(h)][Len(frames[Cur(h)])].scause = "syscall"
  BY <1>2 DEF Block, SystemCall, InHandler, Top, Ready, Pid
<1>4. Len(frames[Cur(h)]) = 1
  BY <1>3 DEF TrapInv, CpuOK, CpuAt, StackAt, UserStack
<1>5. UNCHANGED frames /\ UNCHANGED <<spp, lock, kernel_sp, sepc, want, panicked>>
  BY DEF Block
<1> QED BY <1>1, <1>2, <1>3, <1>4, <1>5, SwitchKeeps

\* do_exit(): the kernel stack goes with the process.
LEMMA ExitKeeps ==
  ASSUME TrapInv, NEW h \in Cpu, Exit(h)
  PROVE  TrapInv'
<1>1. PICK q \in Successors(h, Ready) : switch_to(h, q, "FREE")
  BY Zenon DEF Exit
<1>2. q \in Ready \/ q = h \/ q = Cur(h)
  BY <1>1 DEF Successors
<1>3. q \in Pid /\ at[h] = "handler" /\ Cur(h) \in User /\ Cur(h) \notin Cpu
  BY <1>2 DEF Exit, Ready, Pid
<1>4. q # Cur(h)
  <2>1. status[Cur(h)] # "READY"
    BY DEF TrapInv, CpuOK, OnCpu
  <2> QED BY <1>1, <1>3, <2>1 DEF Successors, Ready
<1>5. frames' = [frames EXCEPT ![Cur(h)] = <<>>] /\ UNCHANGED <<spp, lock, kernel_sp, sepc, want, panicked>>
  BY DEF Exit
<1> QED BY <1>1, <1>2, <1>3, <1>4, <1>5, SwitchKeeps

\* A sleeping process is made ready.
LEMMA UnblockKeeps ==
  ASSUME TrapInv, NEW h \in Cpu, NEW q \in User, Unblock(h, q)
  PROVE  TrapInv'
<1>a. q \in Pid /\ status[q] = "SLEEPING" /\ status' = [status EXCEPT ![q] = "READY"]
      /\ UNCHANGED <<current_running, at, spp, lock, frames, kernel_sp, context, sepc, want, panicked>>
  BY DEF Unblock, Pid
<1>1. TypesOK' /\ panicked' = FALSE
  BY <1>a DEF TrapInv, TypesOK, Places, Statuses, Pid, Cur
<1>2. CpuOK(h)'
  BY <1>a DEF TrapInv, TypesOK, CpuOK, Cur, Pid, OnCpu
<1>3. lock' = h <=> InKernel(h)'
  <2>1. Cur(h)' = Cur(h) /\ at'[h] = at[h] /\ lock' = lock /\ frames'[Cur(h)] = frames[Cur(h)]
    BY <1>a DEF TrapInv, TypesOK, Cur, CpuOK, OnCpu
  <2>2. InKernel(h)' = InKernel(h)
    BY <2>1 DEF InKernel, BypassLock, Top
  <2> QED BY <2>1, <2>2 DEF TrapInv
<1>4. ASSUME NEW g \in Cpu \ {h}
      PROVE  /\ Cur(g)' = Cur(g) /\ at'[g] = at[g] /\ spp'[g] = spp[g] /\ Cur(h)' # Cur(g)
             /\ frames'[Cur(g)] = frames[Cur(g)] /\ kernel_sp'[Cur(g)] = kernel_sp[Cur(g)]
             /\ sepc'[Cur(g)] = sepc[Cur(g)] /\ want'[Cur(g)] = want[Cur(g)]
             /\ status'[Cur(g)] \in OnCpu
  <2>1. Cur(g) \in Pid /\ CpuOK(g) /\ Cur(g) # Cur(h)
    BY DEF TrapInv, TypesOK, Cur
  <2>2. Cur(h)' # Cur(g)
    BY <1>a, <2>1 DEF TrapInv, TypesOK, Cur, CpuOK, OnCpu
  <2> QED BY <1>a, <2>1, <2>2 DEF TrapInv, TypesOK, Cur, CpuOK, OnCpu
<1>0. PICK U : U = {q}
  OBVIOUS
<1>5. \A u \in U : PidOK(u)'
  BY <1>a, <1>0 DEF TrapInv, TypesOK, PidOK, Waiting, OnCpu, Cur
<1>6. \A u \in Pid \ U :
        /\ status'[u] = status[u] /\ frames'[u] = frames[u] /\ context'[u] = context[u]
        /\ sepc'[u] = sepc[u] /\ want'[u] = want[u] /\ (Cur(h) = u => Cur(h)' = u)
  BY <1>a, <1>0 DEF TrapInv, TypesOK, Cur
<1>7. lock' = lock \/ {lock, lock'} \subseteq {h, Free}
  BY <1>a DEF TrapInv
<1> QED BY <1>1, <1>2, <1>3, <1>4, <1>5, <1>6, <1>7, OneCpuMoves

\* do_kill(): a process on another CPU is marked, others are gone.
LEMMA KillKeeps ==
  ASSUME TrapInv, NEW h \in Cpu, NEW q \in User, Kill(h, q)
  PROVE  TrapInv'
<1>a. /\ q \in Pid /\ q \notin Cpu /\ q # Cur(h)
      /\ \/ status[q] = "RUNNING" /\ status' = [status EXCEPT ![q] = "EXITING"] /\ UNCHANGED frames
         \/ /\ status[q] \in {"READY", "SLEEPING"}
            /\ status' = [status EXCEPT ![q] = "FREE"] /\ frames' = [frames EXCEPT ![q] = <<>>]
      /\ UNCHANGED <<current_running, at, spp, lock, kernel_sp, context, sepc, want, panicked>>
  BY DEF Kill, Pid
<1>b. status[q] # "RUNNING" => \A g \in Cpu : Cur(g) # q
  BY <1>a DEF TrapInv, CpuOK, OnCpu
<1>c. <<>> \in Seq(Frame)
  OBVIOUS
<1>1. TypesOK' /\ panicked' = FALSE
  <2>1. status' \in [Pid -> Statuses]
    BY <1>a DEF TrapInv, TypesOK, Statuses
  <2>2. frames' \in [Pid -> Seq(Frame)]
    BY <1>a, <1>c DEF TrapInv, TypesOK
  <2> QED BY <1>a, <2>1, <2>2 DEF TrapInv, TypesOK
<1>2. CpuOK(h)'
  BY <1>a, <1>b, <1>c DEF TrapInv, TypesOK, CpuOK, Cur, Pid, OnCpu
<1>3. lock' = h <=> InKernel(h)'
  <2>1. Cur(h)' = Cur(h) /\ at'[h] = at[h] /\ lock' = lock /\ frames'[Cur(h)] = frames[Cur(h)]
    BY <1>a, <1>b, <1>c DEF TrapInv, TypesOK, Cur, CpuOK, OnCpu
  <2>2. InKernel(h)' = InKernel(h)
    BY <2>1 DEF InKernel, BypassLock, Top
  <2> QED BY <2>1, <2>2 DEF TrapInv
<1>4. ASSUME NEW g \in Cpu \ {h}
      PROVE  /\ Cur(g)' = Cur(g) /\ at'[g] = at[g] /\ spp'[g] = spp[g] /\ Cur(h)' # Cur(g)
             /\ frames'[Cur(g)] = frames[Cur(g)] /\ kernel_sp'[Cur(g)] = kernel_sp[Cur(g)]
             /\ sepc'[Cur(g)] = sepc[Cur(g)] /\ want'[Cur(g)] = want[Cur(g)]
             /\ status'[Cur(g)] \in OnCpu
  <2>1. Cur(g) \in Pid /\ CpuOK(g) /\ Cur(g) # Cur(h)
    BY DEF TrapInv, TypesOK, Cur
  <2>2. Cur(h)' # Cur(g)
    BY <1>a, <1>b, <1>c, <2>1 DEF TrapInv, TypesOK, Cur, CpuOK, OnCpu
  <2> QED BY <1>a, <1>b, <1>c, <2>1, <2>2 DEF TrapInv, TypesOK, Cur, CpuOK, OnCpu
<1>0. PICK U : U = {q}
  OBVIOUS
<1>5. \A u \in U : PidOK(u)'
  BY <1>a, <1>b, <1>c, <1>0 DEF TrapInv, TypesOK, PidOK, Waiting, OnCpu, Cur
<1>6. \A u \in Pid \ U :
        /\ status'[u] = status[u] /\ frames'[u] = frames[u] /\ context'[u] = context[u]
        /\ sepc'[u] = sepc[u] /\ want'[u] = want[u] /\ (Cur(h) = u => Cur(h)' = u)
  BY <1>a, <1>b, <1>c, <1>0 DEF TrapInv, TypesOK, Cur
<1>7. lock' = lock \/ {lock, lock'} \subseteq {h, Free}
  BY <1>a, <1>b, <1>c DEF TrapInv
<1> QED BY <1>1, <1>2, <1>3, <1>4, <1>5, <1>6, <1>7, OneCpuMoves

\* do_exec(): a new process with the frame of init_pcb_stack().
LEMMA ExecKeeps ==
  ASSUME TrapInv, NEW h \in Cpu, NEW q \in User, Exec(h, q)
  PROVE  TrapInv'
<1> DEFINE f == init_pcb_stack
           r == <<f>>
<1>a. f \in Frame /\ f.spp = "U" /\ f.scause = "none" /\ f.sepc = 0
  BY DEF init_pcb_stack, Frame
<1> HIDE DEF f
<1>b. r \in Seq(Frame) /\ Len(r) = 1 /\ r[1] = f
  BY <1>a
<1>c. /\ q \in Pid /\ q \notin Cpu /\ status[q] = "FREE"
      /\ status' = [status EXCEPT ![q] = "READY"] /\ frames' = [frames EXCEPT ![q] = r]
      /\ kernel_sp' = [kernel_sp EXCEPT ![q] = TRUE] /\ context' = [context EXCEPT ![q] = "ret"]
      /\ want' = [want EXCEPT ![q] = 0] /\ 0 \in 0 .. Pcs - 1
      /\ UNCHANGED <<current_running, at, spp, lock, sepc, panicked>>
  BY DEF Exec, NewProcess, Pid, f
<1> HIDE DEF r
<1>d. \A g \in Cpu : Cur(g) # q
  BY <1>c DEF TrapInv, CpuOK, OnCpu
<1>e. Waiting(q)'
  <2>1. UserStack(r, 0) /\ r[1].scause # "fork"
    BY <1>a, <1>b DEF UserStack, LeadsTo
  <2>2. frames'[q] = r /\ context'[q] = "ret" /\ want'[q] = 0
    BY <1>c DEF TrapInv, TypesOK
  <2> QED BY <1>b, <1>c, <2>1, <2>2 DEF Waiting, StackAt
<1>1. TypesOK' /\ panicked' = FALSE
  BY <1>b, <1>c, <1>d, <1>e DEF TrapInv, TypesOK, Places, Statuses, Pid, Cur
<1>2. CpuOK(h)'
  BY <1>b, <1>c, <1>d, <1>e DEF TrapInv, TypesOK, CpuOK, Cur, Pid, OnCpu
<1>3. lock' = h <=> InKernel(h)'
  <2>1. Cur(h)' = Cur(h) /\ at'[h] = at[h] /\ lock' = lock /\ frames'[Cur(h)] = frames[Cur(h)]
    BY <1>b, <1>c, <1>d, <1>e DEF TrapInv, TypesOK, Cur, CpuOK, OnCpu
  <2>2. InKernel(h)' = InKernel(h)
    BY <2>1 DEF InKernel, BypassLock, Top
  <2> QED BY <2>1, <2>2 DEF TrapInv
<1>4. ASSUME NEW g \in Cpu \ {h}
      PROVE  /\ Cur(g)' = Cur(g) /\ at'[g] = at[g] /\ spp'[g] = spp[g] /\ Cur(h)' # Cur(g)
             /\ frames'[Cur(g)] = frames[Cur(g)] /\ kernel_sp'[Cur(g)] = kernel_sp[Cur(g)]
             /\ sepc'[Cur(g)] = sepc[Cur(g)] /\ want'[Cur(g)] = want[Cur(g)]
             /\ status'[Cur(g)] \in OnCpu
  <2>1. Cur(g) \in Pid /\ CpuOK(g) /\ Cur(g) # Cur(h)
    BY DEF TrapInv, TypesOK, Cur
  <2>2. Cur(h)' # Cur(g)
    BY <1>b, <1>c, <1>d, <1>e, <2>1 DEF TrapInv, TypesOK, Cur, CpuOK, OnCpu
  <2> QED BY <1>b, <1>c, <1>d, <1>e, <2>1, <2>2 DEF TrapInv, TypesOK, Cur, CpuOK, OnCpu
<1>0. PICK U : U = {q}
  OBVIOUS
<1>5. \A u \in U : PidOK(u)'
  BY <1>b, <1>c, <1>d, <1>e, <1>0 DEF TrapInv, TypesOK, PidOK, Waiting, OnCpu, Cur
<1>6. \A u \in Pid \ U :
        /\ status'[u] = status[u] /\ frames'[u] = frames[u] /\ context'[u] = context[u]
        /\ sepc'[u] = sepc[u] /\ want'[u] = want[u] /\ (Cur(h) = u => Cur(h)' = u)
  BY <1>b, <1>c, <1>d, <1>e, <1>0 DEF TrapInv, TypesOK, Cur
<1>7. lock' = lock \/ {lock, lock'} \subseteq {h, Free}
  BY <1>b, <1>c, <1>d, <1>e DEF TrapInv
<1> QED BY <1>1, <1>2, <1>3, <1>4, <1>5, <1>6, <1>7, OneCpuMoves

\* do_fork(): the child has a copy of the only frame of its parent.
LEMMA ForkKeeps ==
  ASSUME TrapInv, NEW h \in Cpu, NEW q \in User, Fork(h, q)
  PROVE  TrapInv'
<1> DEFINE p == Cur(h)
           s == frames[p]
           f == s[1]
           r == <<f>>
<1>a. /\ p \in User /\ p \in Pid /\ p \notin Cpu /\ at[h] = "handler" /\ s \in Seq(Frame)
      /\ s[Len(s)].scause = "fork" /\ CpuAt(p, s, "handler", spp[h], kernel_sp[p], sepc[p], want[p])
  BY DEF TrapInv, TypesOK, Fork, InHandler, CpuOK, Cur, Pid, Top
<1>b. /\ Len(s) = 1 /\ f.scause = "fork" /\ spp[h] = "U" /\ kernel_sp[p] /\ UserStack(s, want[p])
      /\ CpuAt(p, s, "ret", spp[h], kernel_sp[p], sepc[p], want[p])
  BY <1>a DEF CpuAt, StackAt, UserStack
<1>c. f \in Frame
  BY <1>a, <1>b, ElementOfSeq
<1>d. /\ q \in Pid /\ q \notin Cpu /\ status[q] = "FREE" /\ at' = [at EXCEPT ![h] = "ret"]
      /\ status' = [status EXCEPT ![q] = "READY"] /\ frames' = [frames EXCEPT ![q] = r]
      /\ kernel_sp' = [kernel_sp EXCEPT ![q] = TRUE] /\ context' = [context EXCEPT ![q] = "ret"]
      /\ want' = [want EXCEPT ![q] = want[p]] /\ panicked' = FALSE
      /\ UNCHANGED <<current_running, spp, lock, sepc>>
  <2>1. panicked' = (panicked \/ spp[h] = "S" \/ ~kernel_sp[p] \/ Len(frames[p]) > 1)
    BY DEF Fork
  <2>2. ~panicked'
    <3>1. ~(Len(frames[p]) > 1) /\ ~(spp[h] = "S") /\ kernel_sp[p] /\ ~panicked
      BY <1>b DEF TrapInv
    <3> QED BY Zenon, <2>1, <3>1
  <2>3. panicked' = FALSE
    BY <2>1, <2>2
  <2> QED BY <2>3 DEF Fork, NewProcess, Pid
<1>e. f.spp = "U" /\ LeadsTo(f, want[p])
  BY <1>b DEF UserStack
<1> HIDE DEF f
<1>f. r \in Seq(Frame) /\ Len(r) = 1 /\ r[1] = f
  BY <1>c
<1> HIDE DEF r
<1>g. q # p /\ \A g \in Cpu : Cur(g) # q
  BY <1>d DEF TrapInv, CpuOK, OnCpu
<1>h. Waiting(q)'
  <2>1. UserStack(r, want[p])
    BY <1>e, <1>f DEF UserStack
  <2>2. frames'[q] = r /\ context'[q] = "ret" /\ want'[q] = want[p]
    BY <1>d DEF TrapInv, TypesOK
  <2> QED BY <1>d, <1>f, <2>1, <2>2 DEF Waiting, StackAt
<1> HIDE DEF s, p
<1>i. p = Cur(h) /\ s = frames[p]
  BY DEF s, p
<1>1. TypesOK' /\ panicked' = FALSE
  BY <1>a, <1>b, <1>d, <1>f, <1>g, <1>h, <1>i DEF TrapInv, TypesOK, Places, Statuses, Pid, Cur
<1>2. CpuOK(h)'
  BY <1>a, <1>b, <1>d, <1>f, <1>g, <1>h, <1>i DEF TrapInv, TypesOK, CpuOK, Cur, Pid, OnCpu
<1>3. lock' = h <=> InKernel(h)'
  BY <1>a, <1>b, <1>d, <1>f, <1>g, <1>h, <1>i, <1>1 DEF TrapInv, TypesOK, InKernel, BypassLock, Top, Cur, Pid, Places
<1>4. ASSUME NEW g \in Cpu \ {h}
      PROVE  /\ Cur(g)' = Cur(g) /\ at'[g] = at[g] /\ spp'[g] = spp[g] /\ Cur(h)' # Cur(g)
             /\ frames'[Cur(g)] = frames[Cur(g)] /\ kernel_sp'[Cur(g)] = kernel_sp[Cur(g)]
             /\ sepc'[Cur(g)] = sepc[Cur(g)] /\ want'[Cur(g)] = want[Cur(g)]
             /\ status'[Cur(g)] \in OnCpu
  <2>1. Cur(g) \in Pid /\ CpuOK(g) /\ Cur(g) # Cur(h)
    BY DEF TrapInv, TypesOK, Cur
  <2>2. Cur(h)' # Cur(g)
    BY <1>a, <1>b, <1>d, <1>f, <1>g, <1>h, <1>i, <2>1 DEF TrapInv, TypesOK, Cur, CpuOK, OnCpu
  <2> QED BY <1>a, <1>b, <1>d, <1>f, <1>g, <1>h, <1>i, <2>1, <2>2 DEF TrapInv, TypesOK, Cur, CpuOK, OnCpu
<1>0. PICK U : U = {Cur(h), q}
  OBVIOUS
<1>5. \A u \in U : PidOK(u)'
  <2> SUFFICES ASSUME NEW u \in U PROVE PidOK(u)'
    OBVIOUS
  <2>0. u \in Pid
    BY <1>a, <1>b, <1>d, <1>f, <1>g, <1>h, <1>i, <1>0 DEF TrapInv, TypesOK, Cur
  <2>1. CASE u = Cur(h)
    <3>1. Cur(h)' = u /\ status'[u] \in OnCpu /\ (u \in Cpu => status'[u] = "RUNNING" /\ sepc'[u] = want'[u])
      BY <1>a, <1>b, <1>d, <1>f, <1>g, <1>h, <1>i, <2>1 DEF TrapInv, TypesOK, CpuOK, PidOK, Cur, OnCpu
    <3> QED BY <2>0, <3>1, PidOnCpu DEF TrapInv, TypesOK
  <2>2. CASE u = q
    BY <1>a, <1>b, <1>d, <1>f, <1>g, <1>h, <1>i, <2>2 DEF TrapInv, TypesOK, PidOK, Waiting, OnCpu, Cur
  <2> QED BY <1>0, <2>1, <2>2
<1>6. \A u \in Pid \ U :
        /\ status'[u] = status[u] /\ frames'[u] = frames[u] /\ context'[u] = context[u]
        /\ sepc'[u] = sepc[u] /\ want'[u] = want[u] /\ (Cur(h) = u => Cur(h)' = u)
  BY <1>a, <1>b, <1>d, <1>f, <1>g, <1>h, <1>i, <1>0 DEF TrapInv, TypesOK, Cur
<1>7. lock' = lock \/ {lock, lock'} \subseteq {h, Free}
  BY <1>a, <1>b, <1>d, <1>f, <1>g, <1>h, <1>i DEF TrapInv
<1> QED BY <1>1, <1>2, <1>3, <1>4, <1>5, <1>6, <1>7, OneCpuMoves

\* interrupt_helper() returns.
LEMMA HandledKeeps ==
  ASSUME TrapInv, NEW h \in Cpu, Handled(h)
  PROVE  TrapInv'
<1> DEFINE p == Cur(h)
<1>a. p \in Pid /\ at[h] = "handler" /\ CpuAt(p, frames[p], "handler", spp[h], kernel_sp[p], sepc[p], want[p])
  BY DEF TrapInv, TypesOK, Handled, InHandler, CpuOK, Cur
<1>b. CpuAt(p, frames[p], "ret", spp[h], kernel_sp[p], sepc[p], want[p])
  BY <1>a DEF CpuAt, StackAt
<1>c. /\ at' = [at EXCEPT ![h] = "ret"]
      /\ UNCHANGED <<current_running, spp, lock, status, frames, kernel_sp, context, sepc, want, panicked>>
  BY DEF Handled
<1> HIDE DEF p
<1>d. p = Cur(h)
  BY DEF p
<1>1. TypesOK' /\ panicked' = FALSE
  BY <1>a, <1>b, <1>c, <1>d DEF TrapInv, TypesOK, Places, Statuses, Pid, Cur
<1>2. CpuOK(h)'
  BY <1>a, <1>b, <1>c, <1>d DEF TrapInv, TypesOK, CpuOK, Cur, Pid, OnCpu
<1>3. lock' = h <=> InKernel(h)'
  BY <1>a, <1>b, <1>c, <1>d, <1>1 DEF TrapInv, TypesOK, InKernel, BypassLock, Top, Cur, Pid, Places
<1>4. ASSUME NEW g \in Cpu \ {h}
      PROVE  /\ Cur(g)' = Cur(g) /\ at'[g] = at[g] /\ spp'[g] = spp[g] /\ Cur(h)' # Cur(g)
             /\ frames'[Cur(g)] = frames[Cur(g)] /\ kernel_sp'[Cur(g)] = kernel_sp[Cur(g)]
             /\ sepc'[Cur(g)] = sepc[Cur(g)] /\ want'[Cur(g)] = want[Cur(g)]
             /\ status'[Cur(g)] \in OnCpu
  <2>1. Cur(g) \in Pid /\ CpuOK(g) /\ Cur(g) # Cur(h)
    BY DEF TrapInv, TypesOK, Cur
  <2>2. Cur(h)' # Cur(g)
    BY <1>a, <1>b, <1>c, <1>d, <2>1 DEF TrapInv, TypesOK, Cur, CpuOK, OnCpu
  <2> QED BY <1>a, <1>b, <1>c, <1>d, <2>1, <2>2 DEF TrapInv, TypesOK, Cur, CpuOK, OnCpu
<1>0. PICK U : U = {Cur(h)}
  OBVIOUS
<1>5. \A u \in U : PidOK(u)'
  <2>1. /\ Cur(h)' = Cur(h) /\ Cur(h) \in Pid /\ status'[Cur(h)] \in OnCpu
        /\ Cur(h) \in Cpu => status'[Cur(h)] = "RUNNING" /\ sepc'[Cur(h)] = want'[Cur(h)]
    BY <1>a, <1>b, <1>c, <1>d DEF TrapInv, TypesOK, CpuOK, PidOK, Cur, OnCpu
  <2>2. PidOK(Cur(h))'
    BY <2>1, PidOnCpu
  <2> QED BY <1>0, <2>1, <2>2 DEF PidOK, Waiting
<1>6. \A u \in Pid \ U :
        /\ status'[u] = status[u] /\ frames'[u] = frames[u] /\ context'[u] = context[u]
        /\ sepc'[u] = sepc[u] /\ want'[u] = want[u] /\ (Cur(h) = u => Cur(h)' = u)
  BY <1>a, <1>b, <1>c, <1>d, <1>0 DEF TrapInv, TypesOK, Cur
<1>7. lock' = lock \/ {lock, lock'} \subseteq {h, Free}
  BY <1>a, <1>b, <1>c, <1>d DEF TrapInv
<1> QED BY <1>1, <1>2, <1>3, <1>4, <1>5, <1>6, <1>7, OneCpuMoves

\* ret_from_exception: sepc is moved and the lock is given back.
LEMMA LeaveKeeps ==
  ASSUME TrapInv, NEW h \in Cpu, Leave(h)
  PROVE  TrapInv'
<1> DEFINE p == Cur(h)
           s == frames[p]
           r == IF s[Len(s)].scause \in {"syscall", "fork"}
                THEN [s EXCEPT ![Len(s)].sepc = Following(@)] ELSE s
<1>a. /\ p \in Pid /\ at[h] = "ret" /\ s \in Seq(Frame) /\ StackAt(p, s, "ret", want[p]) /\ lock = h /\ lock # Free
  BY DEF TrapInv, TypesOK, Leave, CpuOK, CpuAt, Cur, InKernel
<1>b. /\ r \in Seq(Frame) /\ Len(r) = Len(s) /\ StackAt(p, r, "restore", want[p])
      /\ r[Len(r)].spp = s[Len(s)].spp
  <2>1. CASE p \in Cpu
    BY <1>a, <2>1 DEF StackAt, IdleStack
  <2>2. CASE p \notin Cpu
    <3>1. UserStack(s, want[p])
      BY <1>a, <2>2 DEF StackAt
    <3> QED BY <1>a, <2>2, <3>1, FrameMoved DEF StackAt
  <2> QED BY <2>1, <2>2
<1>c. CpuAt(p, r, "restore", spp[h], kernel_sp[p], sepc[p], want[p])
  BY <1>b DEF CpuAt
<1>d. /\ frames' = [frames EXCEPT ![p] = r] /\ at' = [at EXCEPT ![h] = "restore"]
      /\ UNCHANGED <<current_running, spp, status, kernel_sp, context, sepc, want>>
  BY <1>a DEF Leave, Top, TrapInv, TypesOK
<1>e. /\ panicked' = FALSE
      /\ IF BypassLock(p, s[Len(s)].spp) THEN lock' = lock ELSE lock' = Free
  BY <1>a DEF Leave, Top, TrapInv
<1> HIDE DEF p, s, r
<1>f. p = Cur(h) /\ s = frames[p]
  BY DEF p, s
<1>1. TypesOK' /\ panicked' = FALSE
  BY <1>a, <1>b, <1>c, <1>d, <1>e, <1>f DEF TrapInv, TypesOK, Places, Statuses, Pid, Cur
<1>2. CpuOK(h)'
  BY <1>a, <1>b, <1>c, <1>d, <1>e, <1>f DEF TrapInv, TypesOK, CpuOK, Cur, Pid, OnCpu
<1>3. lock' = h <=> InKernel(h)'
  BY <1>a, <1>b, <1>c, <1>d, <1>e, <1>f, <1>1 DEF TrapInv, TypesOK, InKernel, BypassLock, Top, Cur, Pid, Places
<1>4. ASSUME NEW g \in Cpu \ {h}
      PROVE  /\ Cur(g)' = Cur(g) /\ at'[g] = at[g] /\ spp'[g] = spp[g] /\ Cur(h)' # Cur(g)
             /\ frames'[Cur(g)] = frames[Cur(g)] /\ kernel_sp'[Cur(g)] = kernel_sp[Cur(g)]
             /\ sepc'[Cur(g)] = sepc[Cur(g)] /\ want'[Cur(g)] = want[Cur(g)]
             /\ status'[Cur(g)] \in OnCpu
  <2>1. Cur(g) \in Pid /\ CpuOK(g) /\ Cur(g) # Cur(h)
    BY DEF TrapInv, TypesOK, Cur
  <2>2. Cur(h)' # Cur(g)
    BY <1>a, <1>b, <1>c, <1>d, <1>e, <1>f, <2>1 DEF TrapInv, TypesOK, Cur, CpuOK, OnCpu
  <2> QED BY <1>a, <1>b, <1>c, <1>d, <1>e, <1>f, <2>1, <2>2 DEF TrapInv, TypesOK, Cur, CpuOK, OnCpu
<1>0. PICK U : U = {Cur(h)}
  OBVIOUS
<1>5. \A u \in U : PidOK(u)'
  <2>1. /\ Cur(h)' = Cur(h) /\ Cur(h) \in Pid /\ status'[Cur(h)] \in OnCpu
        /\ Cur(h) \in Cpu => status'[Cur(h)] = "RUNNING" /\ sepc'[Cur(h)] = want'[Cur(h)]
    BY <1>a, <1>b, <1>c, <1>d, <1>e, <1>f DEF TrapInv, TypesOK, CpuOK, PidOK, Cur, OnCpu
  <2>2. PidOK(Cur(h))'
    BY <2>1, PidOnCpu
  <2> QED BY <1>0, <2>1, <2>2 DEF PidOK, Waiting
<1>6. \A u \in Pid \ U :
        /\ status'[u] = status[u] /\ frames'[u] = frames[u] /\ context'[u] = context[u]
        /\ sepc'[u] = sepc[u] /\ want'[u] = want[u] /\ (Cur(h) = u => Cur(h)' = u)
  BY <1>a, <1>b, <1>c, <1>d, <1>e, <1>f, <1>0 DEF TrapInv, TypesOK, Cur
<1>7. lock' = lock \/ {lock, lock'} \subseteq {h, Free}
  BY <1>a, <1>b, <1>c, <1>d, <1>e, <1>f DEF TrapInv
<1> QED BY <1>1, <1>2, <1>3, <1>4, <1>5, <1>6, <1>7, OneCpuMoves

\* RESTORE_CONTEXT goes back to user code, to the idle loop or to the system call.
LEMMA RESTORE_CONTEXTKeeps ==
  ASSUME TrapInv, NEW h \in Cpu, RESTORE_CONTEXT(h)
  PROVE  TrapInv'
<1> DEFINE p == Cur(h)
           s == frames[p]
           r == Pop(s)
           m == s[Len(s)].spp
           pc == IF m = "U" THEN s[Len(s)].sepc ELSE sepc[p]
           a == IF BypassLock(p, m) THEN "handler" ELSE "run"
<1>a. /\ p \in Pid /\ at[h] = "restore" /\ s \in Seq(Frame) /\ StackAt(p, s, "restore", want[p])
      /\ p \in Cpu => sepc[p] = want[p]
  BY DEF TrapInv, TypesOK, RESTORE_CONTEXT, CpuOK, CpuAt, PidOK, Cur
<1>b. Len(s) \in {1, 2}
  BY <1>a DEF StackAt, IdleStack, RestoreStack, UserStack
<1>c. /\ r \in Seq(Frame) /\ (Len(s) = 1 => r = <<>>)
      /\ Len(s) = 2 => Len(r) = 1 /\ r[1] = s[1]
  BY <1>a, <1>b, FramePopped
<1>d. /\ frames' = [frames EXCEPT ![p] = r] /\ kernel_sp' = [kernel_sp EXCEPT ![p] = FALSE]
      /\ spp' = [spp EXCEPT ![h] = "U"] /\ at' = [at EXCEPT ![h] = a]
      /\ sepc' = [sepc EXCEPT ![p] = pc]
      /\ UNCHANGED <<current_running, lock, status, context, want, panicked>>
  BY <1>a DEF RESTORE_CONTEXT, Top, TrapInv, TypesOK
<1>e. pc \in 0 .. Pcs - 1
  <2>1. s[Len(s)] \in Frame
    <3>1. Len(s) \in 1 .. Len(s)
      BY <1>b
    <3> QED BY <1>a, <3>1, ElementOfSeq
  <2> QED BY <1>a, <2>1 DEF Frame, TrapInv, TypesOK
<1> HIDE DEF r, m
<1>f. CpuAt(p, r, a, "U", FALSE, pc, want[p]) /\ (p \in Cpu => pc = want[p])
  <2>1. CASE p \in Cpu
    BY <1>a, <1>c, <2>1 DEF StackAt, IdleStack, BypassLock, CpuAt, m
  <2>2. CASE p \notin Cpu /\ Len(s) = 1
    BY <1>a, <1>c, <2>2 DEF StackAt, RestoreStack, BypassLock, CpuAt, m
  <2>3. CASE p \notin Cpu /\ Len(s) = 2
    BY <1>a, <1>c, <2>3 DEF StackAt, RestoreStack, UserStack, BypassLock, CpuAt, m, Pid
  <2> QED BY <1>b, <2>1, <2>2, <2>3
<1>g. m = s[Len(s)].spp
  BY DEF m
<1>h. a = "handler" <=> BypassLock(p, m)
  OBVIOUS
<1>i. a \in {"handler", "run"}
  OBVIOUS
<1> HIDE DEF p, s, pc, a
<1>j. p = Cur(h) /\ s = frames[p]
  BY DEF p, s
<1>1. TypesOK' /\ panicked' = FALSE
  BY <1>a, <1>d, <1>c, <1>e, <1>f, <1>g, <1>h, <1>i, <1>j DEF TrapInv, TypesOK, Places, Statuses, Pid, Cur
<1>2. CpuOK(h)'
  BY <1>a, <1>d, <1>c, <1>e, <1>f, <1>g, <1>h, <1>i, <1>j DEF TrapInv, TypesOK, CpuOK, Cur, Pid, OnCpu
<1>3. lock' = h <=> InKernel(h)'
  BY <1>a, <1>d, <1>c, <1>e, <1>f, <1>g, <1>h, <1>i, <1>j, <1>1 DEF TrapInv, TypesOK, InKernel, BypassLock, Top, Cur, Pid, Places
<1>4. ASSUME NEW g \in Cpu \ {h}
      PROVE  /\ Cur(g)' = Cur(g) /\ at'[g] = at[g] /\ spp'[g] = spp[g] /\ Cur(h)' # Cur(g)
             /\ frames'[Cur(g)] = frames[Cur(g)] /\ kernel_sp'[Cur(g)] = kernel_sp[Cur(g)]
             /\ sepc'[Cur(g)] = sepc[Cur(g)] /\ want'[Cur(g)] = want[Cur(g)]
             /\ status'[Cur(g)] \in OnCpu
  <2>1. Cur(g) \in Pid /\ CpuOK(g) /\ Cur(g) # Cur(h)
    BY DEF TrapInv, TypesOK, Cur
  <2>2. Cur(h)' # Cur(g)
    BY <1>a, <1>d, <1>c, <1>e, <1>f, <1>g, <1>h, <1>i, <1>j, <2>1 DEF TrapInv, TypesOK, Cur, CpuOK, OnCpu
  <2> QED BY <1>a, <1>d, <1>c, <1>e, <1>f, <1>g, <1>h, <1>i, <1>j, <2>1, <2>2 DEF TrapInv, TypesOK, Cur, CpuOK, OnCpu
<1>0. PICK U : U = {Cur(h)}
  OBVIOUS
<1>5. \A u \in U : PidOK(u)'
  <2>1. /\ Cur(h)' = Cur(h) /\ Cur(h) \in Pid /\ status'[Cur(h)] \in OnCpu
        /\ Cur(h) \in Cpu => status'[Cur(h)] = "RUNNING" /\ sepc'[Cur(h)] = want'[Cur(h)]
    BY <1>a, <1>d, <1>c, <1>e, <1>f, <1>g, <1>h, <1>i, <1>j DEF TrapInv, TypesOK, CpuOK, PidOK, Cur, OnCpu
  <2>2. PidOK(Cur(h))'
    BY <2>1, PidOnCpu
  <2> QED BY <1>0, <2>1, <2>2 DEF PidOK, Waiting
<1>6. \A u \in Pid \ U :
        /\ status'[u] = status[u] /\ frames'[u] = frames[u] /\ context'[u] = context[u]
        /\ sepc'[u] = sepc[u] /\ want'[u] = want[u] /\ (Cur(h) = u => Cur(h)' = u)
  BY <1>a, <1>d, <1>c, <1>e, <1>f, <1>g, <1>h, <1>i, <1>j, <1>0 DEF TrapInv, TypesOK, Cur
<1>7. lock' = lock \/ {lock, lock'} \subseteq {h, Free}
  BY <1>a, <1>d, <1>c, <1>e, <1>f, <1>g, <1>h, <1>i, <1>j DEF TrapInv
<1> QED BY <1>1, <1>2, <1>3, <1>4, <1>5, <1>6, <1>7, OneCpuMoves

\* Every step of the CPUs keeps it.
LEMMA TrapStep ==
  ASSUME TrapInv, [TrapNext]_trapvars
  PROVE  TrapInv'
<1>1. CASE TrapNext
  BY <1>1, UserTrapKeeps, IdleTrapKeeps, NestedFaultKeeps, EnterKeeps, PreemptKeeps, BlockKeeps,
    ExitKeeps, HandledKeeps, UnblockKeeps, KillKeeps, ExecKeeps, ForkKeeps, LeaveKeeps,
    RESTORE_CONTEXTKeeps DEF TrapNext
<1>2. CASE UNCHANGED trapvars
  <2>1. /\ current_running' = current_running /\ at' = at /\ spp' = spp /\ lock' = lock
        /\ status' = status /\ frames' = frames /\ kernel_sp' = kernel_sp /\ context' = context
        /\ sepc' = sepc /\ want' = want /\ panicked' = panicked
    BY <1>2 DEF trapvars
  <2> QED BY <2>1 DEF TrapInv, TypesOK, CpuOK, PidOK, Waiting, InKernel, BypassLock, Top, Cur
<1> QED BY <1>1, <1>2

\* The invariant of the runs follows.
LEMMA TrapInvIsExclusive == TrapInv => KernelExclusive
<1> SUFFICES ASSUME TrapInv PROVE KernelExclusive
  OBVIOUS
<1>1. TrapTypeOK /\ ~panicked
  BY DEF TrapInv, TypesOK, TrapTypeOK, Places
<1>2. ASSUME NEW h \in Cpu, at[h] = "run"
      PROVE  frames[Cur(h)] = <<>> /\ sepc[Cur(h)] = want[Cur(h)]
  BY <1>2 DEF TrapInv, CpuOK, CpuAt, StackAt
<1> QED BY <1>1, <1>2 DEF TrapInv, KernelExclusive

\* However traps nest, and whoever is switched, forked or killed: exactly the CPU
\* in the kernel has the kernel lock, and user code goes on where it has to
\* (entry.S, lock_kernel(), unlock_kernel(), do_fork()).
THEOREM KernelIsExclusive == TrapSpec => []KernelExclusive
<1>1. TrapInit => TrapInv
  BY TrapInitially
<1>2. TrapInv /\ [TrapNext]_trapvars => TrapInv'
  BY TrapStep
<1>3. TrapInv => KernelExclusive
  BY TrapInvIsExclusive
<1> QED BY <1>1, <1>2, <1>3, PTL DEF TrapSpec

HIDE TrapAssumption
-----------------------------------------------------------------------------
(* LineInput.                                                               *)

USE LineAssumption

Char == Letter \cup {LF}

\* What a circular buffer with head h and tail t holds.
Held(h, t) == (t + QS - h) % QS
Slot(h, i) == (h + i - 1) % QS
After(k) == (k + 1) % QS
Before(k) == (k + QS - 1) % QS
Queued(b, h, t) == [i \in 1 .. Held(h, t) |-> b[Slot(h, i)]]
-----------------------------------------------------------------------------
(* The circular buffer.                                                     *)

\* The remainders that getchar() counts with.
LEMMA Remainder ==
  ASSUME NEW k \in 0 .. QS + QS - 1
  PROVE  k % QS = IF k < QS THEN k ELSE k - QS
PROOF OBVIOUS

\* How many characters there are between the head and the tail.
LEMMA HeldIs ==
  ASSUME NEW h \in 0 .. QS - 1, NEW t \in 0 .. QS - 1
  PROVE  /\ Held(h, t) \in 0 .. QS - 1
         /\ h <= t => Held(h, t) = t - h
         /\ t < h => Held(h, t) = t + QS - h
<1>1. t + QS - h \in 0 .. QS + QS - 1
  OBVIOUS
<1> QED BY <1>1, Remainder DEF Held

\* The slot of the character number i.
LEMMA SlotIs ==
  ASSUME NEW h \in 0 .. QS - 1, NEW i \in 1 .. QS
  PROVE  /\ Slot(h, i) \in 0 .. QS - 1
         /\ h + i - 1 < QS => Slot(h, i) = h + i - 1
         /\ h + i - 1 >= QS => Slot(h, i) = h + i - 1 - QS
<1>1. h + i - 1 \in 0 .. QS + QS - 1
  OBVIOUS
<1> QED BY <1>1, Remainder DEF Slot

\* The slot after a slot, and the one before.
LEMMA NextIs ==
  ASSUME NEW k \in 0 .. QS - 1
  PROVE  /\ After(k) \in 0 .. QS - 1 /\ Before(k) \in 0 .. QS - 1
         /\ (k < QS - 1 => After(k) = k + 1) /\ (k = QS - 1 => After(k) = 0)
         /\ (k > 0 => Before(k) = k - 1) /\ (k = 0 => Before(k) = QS - 1)
<1>1. k + 1 \in 0 .. QS + QS - 1 /\ k + QS - 1 \in 0 .. QS + QS - 1
  OBVIOUS
<1> QED BY <1>1, Remainder DEF After, Before

\* A buffer of characters holds a sequence of characters.
LEMMA ContentFacts ==
  ASSUME NEW h \in 0 .. QS - 1, NEW t \in 0 .. QS - 1, NEW b \in [0 .. QS - 1 -> Char]
  PROVE  /\ Queued(b, h, t) \in Seq(Char) /\ Len(Queued(b, h, t)) = Held(h, t)
         /\ \A i \in 1 .. Held(h, t) :
              Queued(b, h, t)[i] = b[Slot(h, i)]
<1> DEFINE n == Held(h, t)
<1>1. n \in 0 .. QS - 1
  BY HeldIs, SlotIs, NextIs
<1>2. \A i \in 1 .. n : Slot(h, i) \in 0 .. QS - 1
  <2>1. QS \in Nat /\ n \in Nat /\ n <= QS
    BY <1>1
  <2> HIDE DEF n
  <2>2. ASSUME NEW i \in 1 .. n PROVE Slot(h, i) \in 0 .. QS - 1
    <3>1. i \in 1 .. QS
      BY <2>1
    <3> QED BY <3>1, SlotIs
  <2> QED BY <2>2
<1>3. \A i \in 1 .. n : Queued(b, h, t)[i] = b[Slot(h, i)] /\ b[Slot(h, i)] \in Char
  BY <1>2 DEF Queued
<1>4. Queued(b, h, t) = [i \in 1 .. n |-> Queued(b, h, t)[i]]
  BY DEF Queued
<1>5. Queued(b, h, t) \in [1 .. n -> Char]
  BY <1>3, <1>4
<1> QED BY <1>1, <1>3, <1>5

\* A character enters at qtail.
LEMMA ContentEnters ==
  ASSUME NEW h \in 0 .. QS - 1, NEW t \in 0 .. QS - 1, NEW b \in [0 .. QS - 1 -> Char],
         NEW c \in Char, Held(h, t) < QS - 1
  PROVE  Queued([b EXCEPT ![t] = c], h, After(t)) = Append(Queued(b, h, t), c)
<1> DEFINE d == [b EXCEPT ![t] = c]
           s == After(t)
           q == Queued(b, h, t)
           r == Queued(d, h, s)
           n == Held(h, t)
<1>1. /\ s \in 0 .. QS - 1 /\ (t < QS - 1 => s = t + 1) /\ (t = QS - 1 => s = 0)
      /\ n \in 0 .. QS - 1 /\ (h <= t => n = t - h) /\ (t < h => n = t + QS - h)
      /\ n < QS - 1 /\ d \in [0 .. QS - 1 -> Char]
  BY NextIs, HeldIs
<1>2. Held(h, s) = n + 1
  <2> HIDE DEF s, n
  <2>1. (h <= s => Held(h, s) = s - h) /\ (s < h => Held(h, s) = s + QS - h)
    BY <1>1, HeldIs
  <2> QED BY <1>1, <2>1
<1>3. q \in Seq(Char) /\ Len(q) = n /\ r \in Seq(Char) /\ Len(r) = n + 1
      /\ (\A i \in 1 .. n : q[i] = b[Slot(h, i)]) /\ (\A i \in 1 .. n + 1 : r[i] = d[Slot(h, i)])
  <2>1. q \in Seq(Char) /\ Len(q) = n /\ (\A i \in 1 .. n : q[i] = b[Slot(h, i)])
    BY ContentFacts
  <2> HIDE DEF s, d, n, q
  <2>2. r \in Seq(Char) /\ Len(r) = Held(h, s) /\ (\A i \in 1 .. Held(h, s) : r[i] = d[Slot(h, i)])
    BY <1>1, ContentFacts
  <2> QED BY <1>2, <2>1, <2>2
<1> HIDE DEF q, r, n, s
<1>4. Append(q, c) \in Seq(Char) /\ Len(Append(q, c)) = n + 1
      /\ (\A i \in 1 .. n : Append(q, c)[i] = q[i]) /\ Append(q, c)[n + 1] = c
  BY <1>3, AppendProperties
<1>5. ASSUME NEW i \in 1 .. n + 1 PROVE r[i] = Append(q, c)[i]
  <2>1. /\ i \in 1 .. QS
        /\ Slot(h, i) \in 0 .. QS - 1 /\ (h + i - 1 < QS => Slot(h, i) = h + i - 1)
        /\ h + i - 1 >= QS => Slot(h, i) = h + i - 1 - QS
    <3>1. i \in 1 .. QS
      BY <1>1
    <3> QED BY <3>1, SlotIs
  <2>2. CASE i = n + 1
    <3>1. Slot(h, i) = t
      BY <1>1, <2>1, <2>2
    <3> QED BY <1>3, <1>4, <2>2, <3>1
  <2>3. CASE i \in 1 .. n
    <3>1. Slot(h, i) # t
      BY <1>1, <2>1, <2>3
    <3>2. d[Slot(h, i)] = b[Slot(h, i)]
      BY <2>1, <3>1
    <3> QED BY <1>3, <1>4, <2>3, <3>2
  <2>4. n \in Nat
    BY <1>1
  <2>5. i = n + 1 \/ i \in 1 .. n
    BY <2>4
  <2> QED BY <2>2, <2>3, <2>5
<1>6. r = Append(q, c)
  BY <1>3, <1>4, <1>5, SeqEqual
<1> QED BY <1>6 DEF q, r, s

\* A character leaves at qhead.
LEMMA ContentLeaves ==
  ASSUME NEW h \in 0 .. QS - 1, NEW t \in 0 .. QS - 1, NEW b \in [0 .. QS - 1 -> Char], h # t
  PROVE  /\ Queued(b, h, t) # <<>> /\ Head(Queued(b, h, t)) = b[h]
         /\ Queued(b, After(h), t) = Tail(Queued(b, h, t))
         /\ Held(After(h), t) = Held(h, t) - 1
<1> DEFINE g == After(h)
           q == Queued(b, h, t)
           r == Queued(b, g, t)
           n == Held(h, t)
<1>1. /\ g \in 0 .. QS - 1 /\ (h < QS - 1 => g = h + 1) /\ (h = QS - 1 => g = 0)
      /\ n \in 0 .. QS - 1 /\ (h <= t => n = t - h) /\ (t < h => n = t + QS - h)
  BY NextIs, HeldIs
<1>2. Held(g, t) = n - 1 /\ n > 0
  <2> HIDE DEF g, n
  <2>1. (g <= t => Held(g, t) = t - g) /\ (t < g => Held(g, t) = t + QS - g)
    BY <1>1, HeldIs
  <2> QED BY <1>1, <2>1
<1>3. q \in Seq(Char) /\ Len(q) = n /\ r \in Seq(Char) /\ Len(r) = n - 1
      /\ (\A i \in 1 .. n : q[i] = b[Slot(h, i)]) /\ (\A i \in 1 .. n - 1 : r[i] = b[Slot(g, i)])
  <2>1. q \in Seq(Char) /\ Len(q) = n /\ (\A i \in 1 .. n : q[i] = b[Slot(h, i)])
    BY ContentFacts
  <2> HIDE DEF g, n, q
  <2>2. r \in Seq(Char) /\ Len(r) = Held(g, t) /\ (\A i \in 1 .. Held(g, t) : r[i] = b[Slot(g, i)])
    BY <1>1, ContentFacts
  <2> QED BY <1>2, <2>1, <2>2
<1> HIDE DEF q, r, n, g
<1>4. q # <<>> /\ Tail(q) \in Seq(Char) /\ Len(Tail(q)) = n - 1 /\ \A i \in 1 .. n - 1 : Tail(q)[i] = q[i + 1]
  BY <1>2, <1>3, HeadTailProperties
<1>5. ASSUME NEW i \in 1 .. n - 1 PROVE r[i] = Tail(q)[i]
  <2>1. i \in 1 .. QS /\ i + 1 \in 1 .. QS /\ i + 1 \in 1 .. n
    BY <1>1
  <2>2. /\ Slot(g, i) \in 0 .. QS - 1 /\ (g + i - 1 < QS => Slot(g, i) = g + i - 1)
        /\ g + i - 1 >= QS => Slot(g, i) = g + i - 1 - QS
    BY <1>1, <2>1, SlotIs
  <2>3. /\ Slot(h, i + 1) \in 0 .. QS - 1 /\ (h + (i + 1) - 1 < QS => Slot(h, i + 1) = h + (i + 1) - 1)
        /\ h + (i + 1) - 1 >= QS => Slot(h, i + 1) = h + (i + 1) - 1 - QS
    BY <2>1, SlotIs
  <2>4. Slot(g, i) = Slot(h, i + 1)
    BY <1>1, <2>1, <2>2, <2>3
  <2> QED BY <1>3, <1>4, <2>1, <2>4
<1>6. q[1] = b[h]
  <2>1. 1 \in 1 .. QS /\ 1 \in 1 .. n
    BY <1>1, <1>2
  <2>2. Slot(h, 1) = h
    BY <2>1, SlotIs
  <2> QED BY <1>3, <2>1, <2>2
<1>7. r = Tail(q)
  BY <1>3, <1>4, <1>5, SeqEqual
<1> QED BY <1>2, <1>4, <1>6, <1>7 DEF q, r, n, g

\* A backspace takes the last character back.
LEMMA ContentDrops ==
  ASSUME NEW h \in 0 .. QS - 1, NEW t \in 0 .. QS - 1, NEW b \in [0 .. QS - 1 -> Char], h # t
  PROVE  Queued(b, h, Before(t)) = Front(Queued(b, h, t))
<1> DEFINE s == Before(t)
           q == Queued(b, h, t)
           r == Queued(b, h, s)
           n == Held(h, t)
<1>1. /\ s \in 0 .. QS - 1 /\ (t > 0 => s = t - 1) /\ (t = 0 => s = QS - 1)
      /\ n \in 0 .. QS - 1 /\ (h <= t => n = t - h) /\ (t < h => n = t + QS - h)
  BY NextIs, HeldIs
<1>2. Held(h, s) = n - 1 /\ n > 0
  <2> HIDE DEF s, n
  <2>1. (h <= s => Held(h, s) = s - h) /\ (s < h => Held(h, s) = s + QS - h)
    BY <1>1, HeldIs
  <2> QED BY <1>1, <2>1
<1>3. q \in Seq(Char) /\ Len(q) = n /\ r \in Seq(Char) /\ Len(r) = n - 1
      /\ (\A i \in 1 .. n : q[i] = b[Slot(h, i)]) /\ (\A i \in 1 .. n - 1 : r[i] = b[Slot(h, i)])
  <2>1. q \in Seq(Char) /\ Len(q) = n /\ (\A i \in 1 .. n : q[i] = b[Slot(h, i)])
    BY ContentFacts
  <2> HIDE DEF s, n, q
  <2>2. r \in Seq(Char) /\ Len(r) = Held(h, s) /\ (\A i \in 1 .. Held(h, s) : r[i] = b[Slot(h, i)])
    BY <1>1, ContentFacts
  <2> QED BY <1>2, <2>1, <2>2
<1> HIDE DEF q, r, n, s
<1>4. \A i \in 1 .. n - 1 : r[i] = q[i]
  BY <1>1, <1>3
<1>5. Front(q) \in Seq(Char) /\ Len(Front(q)) = n - 1 /\ \A i \in 1 .. n - 1 : Front(q)[i] = q[i]
  <2> DEFINE m == n - 1
  <2>1. m \in Int /\ 1 \in Int /\ (\A i \in 1 .. m : q[i] \in Char) /\ m - 1 + 1 = m
        /\ (IF 1 <= m THEN m ELSE 0) = m
    BY <1>1, <1>2, <1>3, ElementOfSeq
  <2> HIDE DEF m
  <2>2. /\ SubSeq(q, 1, m) \in Seq(Char) /\ Len(SubSeq(q, 1, m)) = IF 1 <= m THEN m - 1 + 1 ELSE 0
        /\ \A i \in 1 .. m - 1 + 1 : SubSeq(q, 1, m)[i] = q[1 + i - 1]
    BY <2>1, SubSeqProperties
  <2>3. \A i \in 1 .. m : 1 + i - 1 = i
    BY <2>1
  <2> QED BY <1>3, <2>1, <2>2, <2>3 DEF Front, m
<1>6. r = Front(q)
  BY <1>3, <1>4, <1>5, SeqEqual
<1> QED BY <1>6 DEF q, r, s
-----------------------------------------------------------------------------
(* Sequences.                                                               *)

\* Handing the first of the remaining characters over leaves the line the same.
LEMMA HeadMoves ==
  ASSUME NEW g \in Seq(Char), NEW q \in Seq(Char), q # <<>>
  PROVE  Append(g, Head(q)) \o Tail(q) = g \o q
<1> DEFINE r == Append(g, Head(q))
<1>1. /\ Head(q) \in Char /\ Head(q) = q[1] /\ Tail(q) \in Seq(Char) /\ Len(Tail(q)) = Len(q) - 1
      /\ \A i \in 1 .. Len(Tail(q)) : Tail(q)[i] = q[i + 1]
  BY HeadTailProperties
<1>2. r \in Seq(Char) /\ Len(r) = Len(g) + 1 /\ (\A i \in 1 .. Len(g) : r[i] = g[i]) /\ r[Len(g) + 1] = q[1]
  BY <1>1, AppendProperties
<1> HIDE DEF r
<1>3. /\ r \o Tail(q) \in Seq(Char) /\ Len(r \o Tail(q)) = Len(r) + Len(Tail(q))
      /\ \A i \in 1 .. Len(r) + Len(Tail(q)) :
           (r \o Tail(q))[i] = IF i <= Len(r) THEN r[i] ELSE Tail(q)[i - Len(r)]
  <2>1. r \in Seq(Char) /\ Tail(q) \in Seq(Char)
    BY <1>1, <1>2
  <2> QED BY <2>1, ConcatProperties
<1>4. /\ g \o q \in Seq(Char) /\ Len(g \o q) = Len(g) + Len(q)
      /\ \A i \in 1 .. Len(g) + Len(q) : (g \o q)[i] = IF i <= Len(g) THEN g[i] ELSE q[i - Len(g)]
  BY ConcatProperties
<1>5. Len(g) \in Nat /\ Len(q) \in Nat
  BY LenProperties
<1>6. ASSUME NEW i \in 1 .. Len(g) + Len(q) PROVE (r \o Tail(q))[i] = (g \o q)[i]
  <2>1. CASE i <= Len(g)
    BY <1>1, <1>2, <1>3, <1>4, <1>5, <2>1
  <2>2. CASE i = Len(g) + 1
    BY <1>1, <1>2, <1>3, <1>4, <1>5, <2>2
  <2>3. CASE i > Len(g) + 1
    <3>1. i - Len(r) \in 1 .. Len(Tail(q)) /\ i - Len(r) + 1 = i - Len(g)
      BY <1>1, <1>2, <1>5, <2>3
    <3> QED BY <1>1, <1>2, <1>3, <1>4, <1>5, <2>3, <3>1
  <2>4. i \in Int /\ Len(g) \in Int
    BY <1>5
  <2>5. i <= Len(g) \/ i = Len(g) + 1 \/ i > Len(g) + 1
    BY <2>4
  <2> QED BY <2>1, <2>2, <2>3, <2>5
<1>7. r \o Tail(q) = g \o q
  BY <1>1, <1>2, <1>3, <1>4, <1>5, <1>6, SeqEqual
<1> QED BY <1>7 DEF r
-----------------------------------------------------------------------------
(* The inductive invariant.                                                 *)

LineTypeOK ==
  /\ ibuf \in [0 .. QS - 1 -> Char] /\ qhead \in 0 .. QS - 1 /\ qtail \in 0 .. QS - 1
  /\ reading \in {"no", "getline", "typing"}
  /\ str \in Seq(Char) /\ len \in Nat
  /\ line \in Seq(Letter) /\ accepted \in Seq(Char) /\ got \in Seq(Char)

\* What was typed, what the buffer has and what the callers have agree.
Edited ==
  IF reading = "typing"
  THEN Queued(ibuf, qhead, qtail) = line /\ got = accepted
  ELSE got \o Queued(ibuf, qhead, qtail) = accepted

\* A line goes on only before LF, and while the caller's string has room.
Fits(s, n, a) ==
  /\ Len(s) < n /\ (\A i \in 1 .. Len(s) - 1 : s[i] # LF)
  /\ a # "no" => Len(s) < n - 1 /\ \A i \in 1 .. Len(s) : s[i] # LF

LineInv == LineTypeOK /\ Edited /\ Fits(str, len, reading)

\* The buffer as the model sees it, before and after a step.
LEMMA QueueIsContent ==
  Queue = Queued(ibuf, qhead, qtail) /\ Queue' = Queued(ibuf', qhead', qtail')
PROOF BY DEF Queue, Queued, Held, Slot

\* getline() gets character c and goes on with a.
LEMMA StringGrows ==
  ASSUME NEW s \in Seq(Char), NEW n \in Nat, Fits(s, n, "getline"), NEW c \in Char, NEW a,
         a # "no" => c # LF /\ Len(s) + 1 # n - 1
  PROVE  Append(s, c) \in Seq(Char) /\ Fits(Append(s, c), n, a)
<1> DEFINE r == Append(s, c)
<1>1. r \in Seq(Char) /\ Len(r) = Len(s) + 1 /\ (\A i \in 1 .. Len(s) : r[i] = s[i]) /\ r[Len(s) + 1] = c
  BY AppendProperties
<1>2. Len(s) \in Nat /\ Len(s) < n - 1 /\ (\A i \in 1 .. Len(s) : s[i] # LF)
  BY LenProperties DEF Fits
<1> HIDE DEF r
<1>3. Len(r) < n /\ \A i \in 1 .. Len(r) - 1 : r[i] # LF
  BY <1>1, <1>2
<1>4. ASSUME a # "no" PROVE Len(r) < n - 1 /\ \A i \in 1 .. Len(r) : r[i] # LF
  <2>1. Len(r) < n - 1
    BY <1>1, <1>2, <1>4
  <2>2. ASSUME NEW i \in 1 .. Len(r) PROVE r[i] # LF
    <3>1. i \in 1 .. Len(s) \/ i = Len(s) + 1
      BY <1>1, <1>2
    <3> QED BY <1>1, <1>2, <1>4, <3>1
  <2> QED BY <2>1, <2>2
<1>5. Fits(r, n, a)
  BY <1>3, <1>4 DEF Fits
<1> QED BY <1>1, <1>5 DEF r

\* Nothing typed, nothing read.
LEMMA LineInitially == LineInit => LineInv
<1> SUFFICES ASSUME LineInit PROVE LineInv
  OBVIOUS
<1>1. LineTypeOK
  <2>1. <<>> \in Seq(Char) /\ <<>> \in Seq(Letter)
    OBVIOUS
  <2> QED BY <2>1 DEF LineInit, LineTypeOK, Char
<1>2. Queued(ibuf, qhead, qtail) = <<>>
  <2>1. Queued(ibuf, qhead, qtail) \in Seq(Char) /\ Len(Queued(ibuf, qhead, qtail)) = Held(qhead, qtail)
    BY <1>1, ContentFacts DEF LineTypeOK
  <2>2. Held(qhead, qtail) = 0
    BY HeldIs DEF LineInit
  <2> QED BY <2>1, <2>2, EmptySeq
<1>3. Edited
  BY <1>2 DEF LineInit, Edited
<1>4. Fits(str, len, reading)
  BY DEF LineInit, Fits
<1> QED BY <1>1, <1>3, <1>4 DEF LineInv

\* getline() starts with an empty string.
LEMMA getlineKeeps ==
  ASSUME LineInv, NEW n \in Lens, getline(n)
  PROVE  LineInv'
<1>1. LineTypeOK'
  <2>1. <<>> \in Seq(Char) /\ n \in Nat
    OBVIOUS
  <2> QED BY <2>1 DEF LineInv, LineTypeOK, getline
<1>2. Edited'
  BY DEF LineInv, Edited, getline
<1>3. Fits(str, len, reading)'
  BY DEF getline, Fits
<1> QED BY <1>1, <1>2, <1>3 DEF LineInv

\* getchar() takes the first character of the buffer.
LEMMA getcharKeeps ==
  ASSUME LineInv, getchar
  PROVE  LineInv'
<1> DEFINE q == Queued(ibuf, qhead, qtail)
           c == ibuf[qhead]
           a == IF c = LF \/ Len(str) + 1 = len - 1 THEN "no" ELSE "getline"
<1>1. /\ qhead' = After(qhead) /\ str' = Append(str, c) /\ got' = Append(got, c) /\ reading' = a
      /\ UNCHANGED <<ibuf, qtail, len, line, accepted>> /\ qhead # qtail /\ reading = "getline"
  BY DEF getchar, QEMPTY, Deliver, After
<1>2. /\ q \in Seq(Char) /\ q # <<>> /\ Head(q) = c /\ c \in Char /\ qhead' \in 0 .. QS - 1
      /\ Queued(ibuf', qhead', qtail') = Tail(q) /\ got \o q = accepted
  <2>1. /\ qhead \in 0 .. QS - 1 /\ qtail \in 0 .. QS - 1 /\ ibuf \in [0 .. QS - 1 -> Char]
        /\ ibuf' = ibuf /\ qtail' = qtail
    BY <1>1 DEF LineInv, LineTypeOK
  <2>2. q \in Seq(Char) /\ q # <<>> /\ Head(q) = c /\ Queued(ibuf, After(qhead), qtail) = Tail(q)
    BY <1>1, <2>1, ContentFacts, ContentLeaves
  <2>3. c \in Char /\ After(qhead) \in 0 .. QS - 1
    BY <2>1, NextIs
  <2> QED BY <1>1, <2>1, <2>2, <2>3 DEF LineInv, Edited
<1>3. str' \in Seq(Char) /\ Fits(str', len, a)
  <2>1. Fits(str, len, "getline") /\ str \in Seq(Char) /\ len \in Nat
    BY <1>1 DEF LineInv, LineTypeOK
  <2>2. a # "no" => c # LF /\ Len(str) + 1 # len - 1
    OBVIOUS
  <2> HIDE DEF a, c
  <2> QED BY <1>1, <1>2, <2>1, <2>2, StringGrows
<1>4. a \in {"no", "getline"}
  OBVIOUS
<1> HIDE DEF q, a, c
<1>5. got' \in Seq(Char) /\ got' \o Tail(q) = accepted
  BY <1>1, <1>2, HeadMoves, AppendProperties DEF LineInv, LineTypeOK
<1>6. LineTypeOK'
  BY <1>1, <1>2, <1>3, <1>4, <1>5 DEF LineInv, LineTypeOK
<1>7. Edited'
  BY <1>1, <1>2, <1>4, <1>5 DEF Edited
<1>8. Fits(str, len, reading)'
  BY <1>1, <1>3
<1> QED BY <1>6, <1>7, <1>8 DEF LineInv

\* getchar() finds the buffer empty: what was accepted has all been handed over.
LEMMA getchar_waitsKeeps ==
  ASSUME LineInv, getchar_waits
  PROVE  LineInv'
<1>1. LineTypeOK'
  <2>1. <<>> \in Seq(Letter)
    OBVIOUS
  <2> QED BY <2>1 DEF LineInv, LineTypeOK, getchar_waits
<1>2. Edited'
  <2>1. /\ Queued(ibuf, qhead, qtail) \in Seq(Char)
        /\ Len(Queued(ibuf, qhead, qtail)) = Held(qhead, qtail) /\ Held(qhead, qtail) = 0
    <3>1. qhead \in 0 .. QS - 1 /\ qtail = qhead /\ ibuf \in [0 .. QS - 1 -> Char]
      BY DEF LineInv, LineTypeOK, getchar_waits, QEMPTY
    <3>2. Held(qhead, qtail) = 0
      BY <3>1, HeldIs
    <3> QED BY <3>1, <3>2, ContentFacts
  <2>2. Queued(ibuf, qhead, qtail) = <<>>
    BY <2>1, EmptySeq
  <2>3. got = accepted
    BY <2>2, ConcatEmptySeq DEF LineInv, LineTypeOK, Edited, getchar_waits
  <2> QED BY <2>2, <2>3 DEF Edited, getchar_waits
<1>3. Fits(str, len, reading)'
  BY DEF LineInv, Fits, getchar_waits
<1> QED BY <1>1, <1>2, <1>3 DEF LineInv

\* All but the last of some letters are letters.
LEMMA FrontInSeq ==
  ASSUME NEW S, NEW s \in Seq(S), s # <<>>
  PROVE  Front(s) \in Seq(S)
<1> DEFINE m == Len(s) - 1
<1>1. m \in Int /\ 1 \in Int /\ \A i \in 1 .. m : s[i] \in S
  BY LenProperties, ElementOfSeq
<1> HIDE DEF m
<1>2. SubSeq(s, 1, m) \in Seq(S)
  BY <1>1, SubSeqProperties
<1> QED BY <1>2 DEF Front, m

\* A backspace takes the last letter back, if there is one.
LEMMA TypeBackspaceKeeps ==
  ASSUME LineInv, TypeBackspace
  PROVE  LineInv'
<1>1. CASE QEMPTY
  BY <1>1 DEF LineInv, LineTypeOK, Edited, TypeBackspace
<1>2. CASE ~QEMPTY
  <2>1. /\ qtail' = Before(qtail) /\ line' = Front(line) /\ qhead # qtail /\ reading = "typing"
        /\ ibuf' = ibuf /\ qhead' = qhead /\ reading' = reading /\ str' = str /\ len' = len
        /\ accepted' = accepted /\ got' = got
    BY <1>2 DEF TypeBackspace, QEMPTY, Before
  <2>2. qhead \in 0 .. QS - 1 /\ qtail \in 0 .. QS - 1 /\ ibuf \in [0 .. QS - 1 -> Char]
    BY DEF LineInv, LineTypeOK
  <2>3. Queued(ibuf, qhead, Before(qtail)) = Front(line) /\ line # <<>> /\ Before(qtail) \in 0 .. QS - 1
    <3>1. Queued(ibuf, qhead, qtail) = line
      BY <2>1 DEF LineInv, Edited
    <3>2. Queued(ibuf, qhead, Before(qtail)) = Front(Queued(ibuf, qhead, qtail))
      BY <2>1, <2>2, ContentDrops
    <3>3. Queued(ibuf, qhead, qtail) # <<>>
      BY <2>1, <2>2, ContentLeaves
    <3>4. Before(qtail) \in 0 .. QS - 1
      BY <2>2, NextIs
    <3> QED BY <3>1, <3>2, <3>3, <3>4
  <2>4. Front(line) \in Seq(Letter)
    BY <2>3, FrontInSeq DEF LineInv, LineTypeOK
  <2>5. LineTypeOK'
    BY <2>1, <2>3, <2>4 DEF LineInv, LineTypeOK
  <2>6. Edited'
    BY <2>1, <2>3 DEF LineInv, Edited
  <2>7. Fits(str, len, reading)'
    BY <2>1 DEF LineInv
  <2> QED BY <2>5, <2>6, <2>7 DEF LineInv
<1> QED BY <1>1, <1>2

\* A line that is accepted, or that fills the buffer: its first letter is handed
\* over and LF enters.
LEMMA AcceptKeeps ==
  ASSUME LineInv, reading = "typing", qhead # qtail, Accept, UNCHANGED <<len, line>>
  PROVE  LineInv'
<1> DEFINE q == Queued(ibuf, qhead, qtail)
           c == ibuf[qhead]
           z == Append(q, LF)
           a == IF Len(str) + 1 = len - 1 THEN "no" ELSE "getline"
<1>1. /\ ibuf' = [ibuf EXCEPT ![qtail] = LF] /\ qhead' = After(qhead) /\ qtail' = After(qtail)
      /\ str' = Append(str, c) /\ got' = <<c>> /\ reading' = a /\ accepted' = Append(line, LF)
      /\ len' = len /\ line' = line
  BY DEF Accept, After
<1>2. /\ qhead \in 0 .. QS - 1 /\ qtail \in 0 .. QS - 1 /\ ibuf \in [0 .. QS - 1 -> Char]
      /\ LF \in Char /\ q = line /\ line \in Seq(Letter)
  BY DEF LineInv, LineTypeOK, Edited, Char
<1>3. /\ q \in Seq(Char) /\ q # <<>> /\ Head(q) = c /\ Queued(ibuf, After(qhead), qtail) = Tail(q)
      /\ Held(After(qhead), qtail) = Held(qhead, qtail) - 1 /\ Held(qhead, qtail) \in 0 .. QS - 1
  BY <1>2, ContentFacts, ContentLeaves, HeldIs
<1>4. After(qhead) \in 0 .. QS - 1 /\ After(qtail) \in 0 .. QS - 1
  BY <1>2, NextIs
<1>5. Queued(ibuf', qhead', qtail') = Append(Tail(q), LF)
  <2> HIDE DEF q
  <2>1. Held(After(qhead), qtail) < QS - 1
    BY <1>3
  <2>2. Queued([ibuf EXCEPT ![qtail] = LF], After(qhead), After(qtail))
          = Append(Queued(ibuf, After(qhead), qtail), LF)
    <3>1. /\ qtail \in 0 .. QS - 1 /\ ibuf \in [0 .. QS - 1 -> Char] /\ LF \in Char
          /\ After(qhead) \in 0 .. QS - 1
      BY <1>2, <1>4
    <3> QED BY <2>1, <3>1, ContentEnters
  <2> QED BY <1>1, <1>3, <2>2
<1>6. c \in Letter /\ c \in Char /\ c # LF
  <2>1. line # <<>> /\ c = Head(line)
    BY <1>2, <1>3
  <2>2. c \in Letter
    BY <1>2, <2>1, HeadTailProperties
  <2> QED BY <2>2 DEF Char
<1> HIDE DEF q, c
<1>7. <<c>> \o Append(Tail(q), LF) = z /\ z \in Seq(Char)
  <2>1. z \in Seq(Char) /\ z # <<>>
    BY <1>2, <1>3, AppendProperties
  <2>2. Head(z) = c /\ Tail(z) = Append(Tail(q), LF)
    BY <1>3, HeadTailAppend
  <2> HIDE DEF z
  <2>3. Append(<<>>, Head(z)) \o Tail(z) = <<>> \o z
    BY <2>1, HeadMoves, EmptySeq
  <2>4. Append(<<>>, c) = <<c>> /\ <<>> \o z = z
    BY <2>1, ConcatEmptySeq
  <2> QED BY <2>1, <2>2, <2>3, <2>4
<1>8. str' \in Seq(Char) /\ Fits(str', len, a)
  <2>1. Fits(str, len, "getline") /\ str \in Seq(Char) /\ len \in Nat
    BY DEF LineInv, LineTypeOK, Fits
  <2>2. a # "no" => c # LF /\ Len(str) + 1 # len - 1
    BY <1>6
  <2> HIDE DEF a
  <2> QED BY <1>1, <1>6, <2>1, <2>2, StringGrows
<1>9. a \in {"no", "getline"}
  OBVIOUS
<1> HIDE DEF a
<1>10. LineTypeOK'
  <2>1. ibuf' \in [0 .. QS - 1 -> Char]
    BY <1>1, <1>2
  <2>2. got' \in Seq(Char)
    BY <1>1, <1>6
  <2>3. accepted' \in Seq(Char)
    BY <1>1, <1>2, <1>7
  <2> QED BY <1>1, <1>2, <1>4, <1>8, <1>9, <2>1, <2>2, <2>3 DEF LineInv, LineTypeOK
<1>11. Edited'
  BY <1>1, <1>2, <1>5, <1>7, <1>9 DEF Edited
<1>12. Fits(str, len, reading)'
  BY <1>1, <1>8
<1> QED BY <1>10, <1>11, <1>12 DEF LineInv

\* Enter, with a line and without.
LEMMA TypeEnterKeeps ==
  ASSUME LineInv, TypeEnter
  PROVE  LineInv'
<1>1. CASE ~QEMPTY
  <2>1. reading = "typing" /\ qhead # qtail /\ Accept /\ UNCHANGED <<len, line>>
    BY <1>1 DEF TypeEnter, QEMPTY
  <2> QED BY <2>1, AcceptKeeps
<1>2. CASE QEMPTY
  <2>1. /\ str' = Append(str, LF) /\ reading' = "no" /\ got' = <<LF>> /\ accepted' = <<LF>>
        /\ ibuf' = ibuf /\ qhead' = qhead /\ qtail' = qtail /\ len' = len /\ line' = line
        /\ reading = "typing" /\ qhead = qtail
    BY <1>2 DEF TypeEnter, QEMPTY
  <2>2. LF \in Char /\ <<LF>> \in Seq(Char)
    BY DEF Char
  <2>3. Fits(str, len, "getline") /\ str \in Seq(Char) /\ len \in Nat
    BY <2>1 DEF LineInv, LineTypeOK, Fits
  <2>4. str' \in Seq(Char) /\ Fits(str', len', "no")
    BY <2>1, <2>2, <2>3, StringGrows
  <2>5. Queued(ibuf, qhead, qtail) = <<>>
    <3>1. qhead \in 0 .. QS - 1 /\ qtail = qhead /\ ibuf \in [0 .. QS - 1 -> Char]
      BY <2>1 DEF LineInv, LineTypeOK
    <3>2. Held(qhead, qtail) = 0
      BY <3>1, HeldIs
    <3>3. Queued(ibuf, qhead, qtail) \in Seq(Char) /\ Len(Queued(ibuf, qhead, qtail)) = 0
      BY <3>1, <3>2, ContentFacts
    <3> QED BY <3>3, EmptySeq
  <2>6. LineTypeOK'
    BY <2>1, <2>2, <2>4 DEF LineInv, LineTypeOK
  <2>7. Edited'
    <3>1. <<LF>> \o <<>> = <<LF>>
      BY <2>2, ConcatEmptySeq
    <3> QED BY <2>1, <2>5, <3>1 DEF Edited
  <2> QED BY <2>1, <2>4, <2>6, <2>7 DEF LineInv
<1> QED BY <1>1, <1>2

\* A letter enters the buffer, or ends the line when the buffer is full.
LEMMA TypeLetterKeeps ==
  ASSUME LineInv, NEW ch \in Letter, TypeLetter(ch)
  PROVE  LineInv'
<1>1. qhead \in 0 .. QS - 1 /\ qtail \in 0 .. QS - 1 /\ ibuf \in [0 .. QS - 1 -> Char] /\ ch \in Char
  BY DEF LineInv, LineTypeOK, Char
<1>2. /\ Held(qtail, qhead) = 1 => qhead # qtail
      /\ Held(qtail, qhead) # 1 => Held(qhead, qtail) < QS - 1
  <2>1. /\ (qtail <= qhead => Held(qtail, qhead) = qhead - qtail)
        /\ (qhead < qtail => Held(qtail, qhead) = qhead + QS - qtail)
    BY <1>1, HeldIs
  <2>2. /\ (qhead <= qtail => Held(qhead, qtail) = qtail - qhead)
        /\ (qtail < qhead => Held(qhead, qtail) = qtail + QS - qhead)
    BY <1>1, HeldIs
  <2> QED BY <1>1, <2>1, <2>2
<1>3. CASE QFULL
  <2>1. reading = "typing" /\ Accept /\ UNCHANGED <<len, line>>
    BY <1>3 DEF TypeLetter
  <2>2. qhead # qtail
    BY <1>2, <1>3 DEF QFULL, Held
  <2> QED BY <2>1, <2>2, AcceptKeeps
<1>4. CASE ~QFULL
  <2>1. /\ ibuf' = [ibuf EXCEPT ![qtail] = ch] /\ qtail' = After(qtail) /\ line' = Append(line, ch)
        /\ qhead' = qhead /\ reading' = reading /\ str' = str /\ accepted' = accepted /\ got' = got
        /\ len' = len /\ reading = "typing"
    BY <1>4 DEF TypeLetter, After
  <2>2. Held(qhead, qtail) < QS - 1
    BY <1>2, <1>4 DEF QFULL, Held
  <2>3. Queued(ibuf', qhead', qtail') = Append(Queued(ibuf, qhead, qtail), ch)
    <3>1. Queued([ibuf EXCEPT ![qtail] = ch], qhead, After(qtail))
            = Append(Queued(ibuf, qhead, qtail), ch)
      BY <1>1, <2>2, ContentEnters, ZenonT(90)
    <3> QED BY <2>1, <3>1
  <2>4. After(qtail) \in 0 .. QS - 1 /\ ibuf' \in [0 .. QS - 1 -> Char] /\ line' \in Seq(Letter)
    BY <1>1, <2>1, NextIs, AppendProperties DEF LineInv, LineTypeOK
  <2>5. LineTypeOK'
    BY <2>1, <2>4 DEF LineInv, LineTypeOK
  <2>6. Edited'
    BY <2>1, <2>3 DEF LineInv, Edited
  <2> QED BY <2>1, <2>5, <2>6 DEF LineInv
<1> QED BY <1>3, <1>4

\* Every step of the reader and of the keyboard keeps it.
LEMMA LineStep ==
  ASSUME LineInv, [LineNext]_linevars
  PROVE  LineInv'
<1>1. CASE LineNext
  BY <1>1, getlineKeeps, getcharKeeps, getchar_waitsKeeps, TypeBackspaceKeeps, TypeEnterKeeps,
    TypeLetterKeeps DEF LineNext
<1>2. CASE UNCHANGED linevars
  <2>1. /\ ibuf' = ibuf /\ qhead' = qhead /\ qtail' = qtail /\ reading' = reading /\ str' = str
        /\ len' = len /\ line' = line /\ accepted' = accepted /\ got' = got
    BY <1>2 DEF linevars
  <2> QED BY <2>1 DEF LineInv, LineTypeOK, Edited
<1> QED BY <1>1, <1>2

\* The invariant of the runs follows.
LEMMA LineInvIsAsTyped == LineInv => LineAsTyped
<1> SUFFICES ASSUME LineInv PROVE LineAsTyped
  OBVIOUS
<1>1. Queue = Queued(ibuf, qhead, qtail)
  BY QueueIsContent
<1>2. Len(Queue) < QS
  <2>1. Len(Queue) = Held(qhead, qtail) /\ Held(qhead, qtail) \in 0 .. QS - 1
    BY <1>1, ContentFacts, HeldIs DEF LineInv, LineTypeOK
  <2> QED BY <2>1
<1>3. IF reading = "typing" THEN Queue = line /\ got = accepted ELSE got \o Queue = accepted
  BY <1>1 DEF LineInv, Edited
<1>4. Len(str) < len /\ \A i \in 1 .. Len(str) - 1 : str[i] # LF
  BY DEF LineInv, Fits
<1> QED BY <1>2, <1>3, <1>4 DEF LineAsTyped

\* Nothing of a line is lost, doubled or mixed with an earlier one between the
\* keyboard and the callers of getline(), however the buffer wraps around
\* (getchar() and getline() of libs/glucose.c and tiny_libc).
THEOREM LinesAreAsTyped == LineSpec => []LineAsTyped
<1>1. LineInit => LineInv
  BY LineInitially
<1>2. LineInv /\ [LineNext]_linevars => LineInv'
  BY LineStep
<1>3. LineInv => LineAsTyped
  BY LineInvIsAsTyped
<1> QED BY <1>1, <1>2, <1>3, PTL DEF LineSpec
-----------------------------------------------------------------------------
(* Screen.                                                                  *)

\* Induction on the natural numbers, over a set.
LEMMA ScreenSetInduction ==
  ASSUME NEW T, 0 \in T, \A k \in Nat : k \in T => k + 1 \in T
  PROVE  Nat \subseteq T
<1> SUFFICES ASSUME Nat \ T # {} PROVE FALSE
  OBVIOUS
<1>1. PICK x \in Nat \ T : \A y \in Nat \ T : <<y, x>> \notin OpToRel(<, Nat)
  BY NatLessThanWellFounded, WFMin
<1>2. x # 0 /\ x - 1 \in Nat
  OBVIOUS
<1>3. x - 1 \in Nat \ T
  BY <1>2
<1>4. <<x - 1, x>> \in OpToRel(<, Nat)
  BY <1>2 DEF OpToRel
<1> QED BY <1>1, <1>3, <1>4
-----------------------------------------------------------------------------
(* The loops of screen_write() and screen_reflush()                         *)

\* The number that the folds take last from a set of numbers up to k + 1.
LEMMA GreatestTurn ==
  ASSUME NEW k \in Nat, NEW s \in SUBSET (1 .. k + 1), k + 1 \in s
  PROVE  Max(s) = k + 1 /\ s \ {k + 1} \in SUBSET (1 .. k)
<1>1. \A x \in s : x \in Int /\ k + 1 >= x
  OBVIOUS
<1>2. Max(s) \in s /\ \A y \in s : Max(s) >= y
  BY <1>1 DEF Max
<1>3. Max(s) \in Int /\ Max(s) >= k + 1 /\ k + 1 >= Max(s)
  BY <1>1, <1>2
<1>4. Max(s) = k + 1
  BY <1>3
<1>5. s \ {k + 1} \in SUBSET (1 .. k)
  OBVIOUS
<1> QED BY <1>4, <1>5

\* It is one of them.
LEMMA ScreenMaxIn ==
  ASSUME NEW n \in Nat, NEW s \in SUBSET (1 .. n), s # {}
  PROVE  Max(s) \in s
<1> DEFINE T == {k \in Nat : \A r \in SUBSET (1 .. k) : r # {} => Max(r) \in r}
<1>1. 0 \in T
  <2>1. \A r \in SUBSET (1 .. 0) : r = {}
    OBVIOUS
  <2> QED BY <2>1
<1>2. ASSUME NEW k \in Nat, k \in T PROVE k + 1 \in T
  <2>1. ASSUME NEW r \in SUBSET (1 .. k + 1), r # {} PROVE Max(r) \in r
    <3>1. CASE k + 1 \in r
      BY <3>1, GreatestTurn
    <3>2. CASE k + 1 \notin r
      <4>1. \A x \in r : x \in 1 .. k + 1 /\ x # k + 1
        BY <3>2
      <4>2. \A x \in r : x \in 1 .. k
        BY <4>1
      <4> QED BY <1>2, <2>1, <4>2
    <3> QED BY <3>1, <3>2
  <2> QED BY <2>1
<1>3. n \in T
  BY <1>1, <1>2, ScreenSetInduction
<1> QED BY <1>3

\* One turn of each loop, of which e is what does not change.
Turn(loop, e, t, k) ==
  IF loop = "send" THEN SendCell(t, k - 1, e.scr, e.old)
  ELSE screen_write_ch(t, e.buff[k], e.region)

\* g says what any part of the loop makes of b.
IsLoop(loop, e, b, n, g) ==
  g = [s \in SUBSET (1 .. n) |-> IF s = {} THEN b ELSE Turn(loop, e, g[s \ {Max(s)}], Max(s))]
\* t[k] is what k turns of the loop make of b.
Turns(loop, e, b, n, t) == t[0] = b /\ \A k \in 1 .. n : t[k] = Turn(loop, e, t[k - 1], k)

\* There is such a function: by induction on the turns.
LEMMA LoopExists ==
  ASSUME NEW loop, NEW e, NEW b, NEW n \in Nat
  PROVE  \E g : IsLoop(loop, e, b, n, g)
<1> DEFINE T == {k \in Nat : \E g : IsLoop(loop, e, b, k, g)}
<1>1. 0 \in T
  <2> DEFINE g == [s \in SUBSET (1 .. 0) |-> b]
  <2>1. SUBSET (1 .. 0) = {{}}
    OBVIOUS
  <2>2. IsLoop(loop, e, b, 0, g)
    BY <2>1 DEF IsLoop
  <2> QED BY <2>2
<1>2. ASSUME NEW k \in Nat, k \in T PROVE k + 1 \in T
  <2>1. PICK g : IsLoop(loop, e, b, k, g)
    BY <1>2
  <2> DEFINE h == [s \in SUBSET (1 .. k + 1) |->
                     IF k + 1 \in s THEN Turn(loop, e, g[s \ {k + 1}], k + 1) ELSE g[s]]
  <2>2. \A s \in SUBSET (1 .. k) : s \in SUBSET (1 .. k + 1) /\ h[s] = g[s]
    OBVIOUS
  <2>3. ASSUME NEW s \in SUBSET (1 .. k + 1)
        PROVE  h[s] = IF s = {} THEN b ELSE Turn(loop, e, h[s \ {Max(s)}], Max(s))
    <3>1. CASE k + 1 \in s
      BY <3>1, <2>2, GreatestTurn
    <3>2. CASE k + 1 \notin s
      <4>1. s \in SUBSET (1 .. k) /\ s \ {Max(s)} \in SUBSET (1 .. k)
        <5>1. \A x \in s : x \in 1 .. k + 1 /\ x # k + 1
          BY <3>2
        <5>2. \A x \in s : x \in 1 .. k
          BY <5>1
        <5> QED BY <5>2
      <4>2. g[s] = IF s = {} THEN b ELSE Turn(loop, e, g[s \ {Max(s)}], Max(s))
        BY <4>1, <2>1 DEF IsLoop
      <4> QED BY <4>1, <4>2, <2>2
    <3> QED BY <3>1, <3>2
  <2>4. IsLoop(loop, e, b, k + 1, h)
    BY <2>3 DEF IsLoop
  <2> HIDE DEF h
  <2> QED BY <2>4
<1> QED BY <1>1, <1>2, ScreenSetInduction

\* It counts the turns of the loop.
LEMMA LoopTurns ==
  ASSUME NEW loop, NEW e, NEW b, NEW n \in Nat, NEW g, IsLoop(loop, e, b, n, g)
  PROVE  \E t : Turns(loop, e, b, n, t) /\ g[1 .. n] = t[n]
<1> DEFINE t == [k \in 0 .. n |-> g[1 .. k]]
<1>1. t[0] = b
  <2>1. 1 .. 0 = {} /\ t[0] = g[1 .. 0]
    OBVIOUS
  <2>2. g[{}] = b
    BY DEF IsLoop
  <2> QED BY <2>1, <2>2
<1>2. ASSUME NEW k \in 1 .. n PROVE t[k] = Turn(loop, e, t[k - 1], k)
  <2>1. k - 1 \in Nat /\ 1 .. k \in SUBSET (1 .. (k - 1) + 1) /\ (k - 1) + 1 \in 1 .. k
    OBVIOUS
  <2>2. Max(1 .. k) = (k - 1) + 1
    BY <2>1, GreatestTurn
  <2>3. (k - 1) + 1 = k /\ (1 .. k) \ {k} = 1 .. k - 1
    OBVIOUS
  <2>4. 1 .. k # {} /\ 1 .. k \in SUBSET (1 .. n)
    <3>1. k \in 1 .. k
      OBVIOUS
    <3>2. \A i \in 1 .. k : i \in 1 .. n
      OBVIOUS
    <3> QED BY <3>1, <3>2
  <2>5. g[1 .. k] = Turn(loop, e, g[(1 .. k) \ {Max(1 .. k)}], Max(1 .. k))
    BY <2>4 DEF IsLoop
  <2>6. t[k] = g[1 .. k] /\ t[k - 1] = g[1 .. k - 1]
    OBVIOUS
  <2> QED BY <2>2, <2>3, <2>5, <2>6
<1>3. t[n] = g[1 .. n]
  OBVIOUS
<1> HIDE DEF t
<1>4. Turns(loop, e, b, n, t)
  BY <1>1, <1>2 DEF Turns
<1> QED BY <1>3, <1>4

\* What the folds of Reflush and Written make of b.
Sends(scr, old, b, n) ==
  FoldLeft(LAMBDA t, c : SendCell(t, c - 1, scr, old), b, [i \in 1 .. n |-> i])
Writes(region, b, buff) == FoldLeft(LAMBDA s, ch : screen_write_ch(s, ch, region), b, buff)

Sending(t, scr, old, b, n) ==
  /\ t[0] = b /\ Sends(scr, old, b, n) = t[n]
  /\ \A k \in 1 .. n : t[k] = SendCell(t[k - 1], k - 1, scr, old)

LEMMA SendTurns ==
  ASSUME NEW scr, NEW old, NEW b, NEW n, n \in Nat
  PROVE  \E t : Sending(t, scr, old, b, n)
<1> DEFINE D == 1 .. n
           e == [scr |-> scr, old |-> old]
           IsFold(g) == g = [s \in SUBSET D |->
                               IF s = {} THEN b
                               ELSE SendCell(g[s \ {Max(s)}], [i \in D |-> i][Max(s)] - 1, scr, old)]
<1>1. \A s \in SUBSET D : s # {} => [i \in D |-> i][Max(s)] = Max(s)
  <2>1. \A s \in SUBSET D : s # {} => Max(s) \in D
    BY ScreenMaxIn
  <2> QED BY <2>1
<1>2. ASSUME NEW g PROVE IsFold(g) <=> IsLoop("send", e, b, n, g)
  <2>1. \A s \in SUBSET D : s # {} =>
          Turn("send", e, g[s \ {Max(s)}], Max(s))
            = SendCell(g[s \ {Max(s)}], [i \in D |-> i][Max(s)] - 1, scr, old)
    BY <1>1 DEF Turn
  <2>2. [s \in SUBSET D |-> IF s = {} THEN b ELSE Turn("send", e, g[s \ {Max(s)}], Max(s))]
        = [s \in SUBSET D |-> IF s = {} THEN b
             ELSE SendCell(g[s \ {Max(s)}], [i \in D |-> i][Max(s)] - 1, scr, old)]
    BY <2>1
  <2> QED BY <2>2 DEF IsLoop
<1>3. PICK g : IsFold(g) /\ Sends(scr, old, b, n) = g[D]
  <2>1. \E g : IsFold(g)
    <3>1. PICK g : IsLoop("send", e, b, n, g)
      BY LoopExists
    <3>2. IsFold(g)
      BY <1>2, <3>1
    <3> QED BY <3>2
  <2>2. DOMAIN [i \in D |-> i] = D
    OBVIOUS
  <2> QED BY <2>1, <2>2 DEF Sends, FoldLeft, MapThenFoldSet
<1>4. IsLoop("send", e, b, n, g)
  BY <1>2, <1>3
<1> HIDE DEF IsFold, e
<1>5. PICK t : Turns("send", e, b, n, t) /\ g[1 .. n] = t[n]
  BY <1>4, LoopTurns
<1>6. t[0] = b /\ \A k \in 1 .. n : t[k] = SendCell(t[k - 1], k - 1, scr, old)
  BY <1>5 DEF Turns, Turn, e
<1> QED BY <1>3, <1>5, <1>6 DEF Sending

\* t lists the states of screen_write() between its n characters.
Writing(region, b, buff, n, t) ==
  /\ t[0] = b /\ Writes(region, b, buff) = t[n]
  /\ \A k \in 1 .. n : t[k] = screen_write_ch(t[k - 1], buff[k], region)

LEMMA WriteTurns ==
  ASSUME NEW region, NEW b, NEW buff, NEW n, n \in Nat, DOMAIN buff = 1 .. n
  PROVE  \E t : Writing(region, b, buff, n, t)
<1> DEFINE D == 1 .. n
           e == [buff |-> buff, region |-> region]
           IsFold(g) == g = [s \in SUBSET D |->
                               IF s = {} THEN b
                               ELSE screen_write_ch(g[s \ {Max(s)}], buff[Max(s)], region)]
<1>2. ASSUME NEW g PROVE IsFold(g) <=> IsLoop("write", e, b, n, g)
  <2>1. \A s \in SUBSET D : Turn("write", e, g[s \ {Max(s)}], Max(s))
                              = screen_write_ch(g[s \ {Max(s)}], buff[Max(s)], region)
    BY DEF Turn
  <2>2. [s \in SUBSET D |-> IF s = {} THEN b ELSE Turn("write", e, g[s \ {Max(s)}], Max(s))]
        = [s \in SUBSET D |-> IF s = {} THEN b
             ELSE screen_write_ch(g[s \ {Max(s)}], buff[Max(s)], region)]
    BY <2>1
  <2> QED BY <2>2 DEF IsLoop
<1>3. PICK g : IsFold(g) /\ Writes(region, b, buff) = g[D]
  <2>1. \E g : IsFold(g)
    <3>1. PICK g : IsLoop("write", e, b, n, g)
      BY LoopExists
    <3>2. IsFold(g)
      BY <1>2, <3>1
    <3> QED BY <3>2
  <2> QED BY <2>1 DEF Writes, FoldLeft, MapThenFoldSet
<1>4. IsLoop("write", e, b, n, g)
  BY <1>2, <1>3
<1> HIDE DEF IsFold, e
<1>5. PICK t : Turns("write", e, b, n, t) /\ g[1 .. n] = t[n]
  BY <1>4, LoopTurns
<1>6. t[0] = b /\ \A k \in 1 .. n : t[k] = screen_write_ch(t[k - 1], buff[k], region)
  BY <1>5 DEF Turns, Turn, e
<1> QED BY <1>3, <1>5, <1>6 DEF Writing
-----------------------------------------------------------------------------
(* Writing                                                                  *)

IsScreen(f) == f = [c \in Cell |-> f[c]]
At(x, y) == x \in 0 .. SCREEN_WIDTH - 1 /\ y \in 0 .. SCREEN_HEIGHT - 1
IsRegion(r) == r \in Regions \cup {NoRegion}
IsRecord(s) == s = [scr |-> s.scr, x |-> s.x, y |-> s.y, over |-> s.over] /\ IsScreen(s.scr)
\* A screen with a cursor on it, unless region r has let a scroll go past the buffer.
IsPen(s, r) ==
  /\ IsRecord(s) /\ s.over \in BOOLEAN
  /\ ~s.over => At(s.x, s.y)
  /\ s.over => BelowScreen(r)

\* The inductive invariant: besides what is claimed, the functions have the cells of
\* the screen, and what is claimed while no scroll has gone past the buffer stays true
\* of the state in which the model stops.
ScreenInv ==
  /\ overrun \in BOOLEAN /\ (overrun => \E p \in Writer : BelowScreen(cylim[p]))
  /\ IsScreen(new_screen) /\ IsScreen(old_screen)
  /\ terminal = [shows |-> old_screen, at |-> terminal.at]
  /\ torn \in Nat /\ (torn > 0 \/ new_screen = old_screen)
  /\ DOMAIN cursor = Writer /\ \A p \in Writer : At(cursor[p][1], cursor[p][2])
  /\ DOMAIN cylim = Writer /\ \A p \in Writer : IsRegion(cylim[p])

\* A new line stays on the screen, unless the region does not.
LEMMA LineFeedOK ==
  ASSUME NEW s, IsRecord(s), s.over = FALSE,
         s.y \in 0 .. SCREEN_HEIGHT - 1, NEW r, IsRegion(r)
  PROVE  IsPen(LineFeed(s, r), r)
<1> DEFINE limited == s.y = SCREEN_HEIGHT - 1
           y == IF limited THEN s.y ELSE s.y + 1
           l == r[1]
           h == r[2]
           scrolls == l >= 0 /\ h >= l /\ (y > h \/ limited)
           scr == [c \in Cell |-> CASE Y(c) = h -> Space
                                    [] Y(c) \in l .. h - 1 -> s.scr[c + SCREEN_WIDTH]
                                    [] OTHER -> s.scr[c]]
<1>1. SCREEN_WIDTH \in Nat \ {0} /\ SCREEN_HEIGHT \in Nat \ {0}
  BY ScreenAssumption
<1>2. y \in 0 .. SCREEN_HEIGHT - 1
  BY <1>1
<1>3. l \in Int /\ h \in Int
  <2>1. CASE r = NoRegion
    BY <2>1 DEF NoRegion
  <2>2. CASE r \in Regions
    BY <2>2, ScreenAssumption
  <2> QED BY <2>1, <2>2 DEF IsRegion
<1>4. CASE scrolls /\ h < SCREEN_HEIGHT
  <2>1. LineFeed(s, r) = [scr |-> scr, x |-> 0, y |-> h, over |-> FALSE]
    <3>1. ~ (scrolls /\ h >= SCREEN_HEIGHT)
      BY <1>1, <1>3, <1>4
    <3> QED BY <1>4, <3>1 DEF LineFeed
  <2>2. IsScreen(scr)
    BY DEF IsScreen
  <2>3. At(0, h)
    BY <1>1, <1>3, <1>4 DEF At
  <2> HIDE DEF scr, h
  <2> QED BY <2>1, <2>2, <2>3 DEF IsPen, IsRecord
<1>5. CASE ~ scrolls
  <2>1. LineFeed(s, r) = [s EXCEPT !.x = 0, !.y = y]
    BY <1>5 DEF LineFeed
  <2> HIDE DEF y
  <2>2. LineFeed(s, r) = [scr |-> s.scr, x |-> 0, y |-> y, over |-> FALSE]
    BY <2>1 DEF IsRecord
  <2>3. At(0, y)
    BY <1>1, <1>2 DEF At
  <2> QED BY <2>2, <2>3 DEF IsPen, IsRecord
<1>6. CASE scrolls /\ ~ (h < SCREEN_HEIGHT)
  <2>1. LineFeed(s, r) = [s EXCEPT !.over = TRUE]
    <3>1. scrolls /\ h >= SCREEN_HEIGHT
      BY <1>1, <1>3, <1>6
    <3> QED BY <1>6, <3>1 DEF LineFeed
  <2>2. BelowScreen(r)
    BY <1>1, <1>3, <1>6 DEF BelowScreen
  <2>3. LineFeed(s, r) = [scr |-> s.scr, x |-> s.x, y |-> s.y, over |-> TRUE]
    BY <2>1 DEF IsRecord
  <2> QED BY <2>2, <2>3 DEF IsPen, IsRecord
<1> QED BY <1>4, <1>5, <1>6

\* No character takes the cursor off the screen, unless the region reaches below it.
LEMMA CharacterOK ==
  ASSUME NEW s, NEW ch, NEW r, IsPen(s, r), IsRegion(r)
  PROVE  IsPen(screen_write_ch(s, ch, r), r)
<1>0. CASE s.over
  BY <1>0 DEF screen_write_ch
<1> SUFFICES ASSUME s.over = FALSE PROVE IsPen(screen_write_ch(s, ch, r), r)
  BY <1>0 DEF IsPen
<1>1. /\ IsRecord(s) /\ s = [scr |-> s.scr, x |-> s.x, y |-> s.y, over |-> FALSE] /\ IsScreen(s.scr)
      /\ s.x \in 0 .. SCREEN_WIDTH - 1 /\ s.y \in 0 .. SCREEN_HEIGHT - 1
      /\ SCREEN_WIDTH \in Nat \ {0} /\ SCREEN_HEIGHT \in Nat \ {0}
  BY ScreenAssumption DEF IsPen, IsRecord, At
<1>2. CASE ch = "LF"
  BY <1>1, <1>2, LineFeedOK DEF screen_write_ch
<1>3. CASE ch = "BS"
  <2>1. screen_write_ch(s, ch, r) = Backspace(s)
    BY <1>3 DEF screen_write_ch
  <2>2. CASE s.x > 0
    <3>1. Backspace(s) = [scr |-> s.scr, x |-> s.x - 1, y |-> s.y, over |-> FALSE]
      <4>1. Backspace(s) = [s EXCEPT !.x = @ - 1]
        BY <2>2 DEF Backspace
      <4> QED BY <1>1, <4>1
    <3>2. At(s.x - 1, s.y)
      BY <1>1, <2>2 DEF At
    <3> QED BY <1>1, <2>1, <3>1, <3>2 DEF IsPen, IsRecord
  <2>3. CASE s.x = 0 /\ s.y > 0
    <3>1. Backspace(s) = [scr |-> s.scr, x |-> SCREEN_WIDTH - 1, y |-> s.y - 1, over |-> FALSE]
      <4>1. Backspace(s) = [s EXCEPT !.x = SCREEN_WIDTH - 1, !.y = @ - 1]
        BY <2>3 DEF Backspace
      <4> QED BY <1>1, <4>1
    <3>2. At(SCREEN_WIDTH - 1, s.y - 1)
      BY <1>1, <2>3 DEF At
    <3> QED BY <1>1, <2>1, <3>1, <3>2 DEF IsPen, IsRecord
  <2>4. CASE ~ (s.x > 0) /\ ~ (s.x = 0 /\ s.y > 0)
    <3>1. Backspace(s) = s
      BY <2>4 DEF Backspace
    <3> QED BY <2>1, <3>1
  <2> QED BY <2>2, <2>3, <2>4
<1>4. CASE ch \notin {"LF", "BS"}
  <2> DEFINE t == [s EXCEPT !.scr[SCREEN_LOC(s.x, s.y)] = ch, !.x = @ + 1]
             scr == [s.scr EXCEPT ![SCREEN_LOC(s.x, s.y)] = ch]
  <2>1. t = [scr |-> scr, x |-> s.x + 1, y |-> s.y, over |-> FALSE]
    <3> DEFINE loc == SCREEN_LOC(s.x, s.y)
    <3> HIDE DEF loc
    <3>1. t = [s EXCEPT !.scr[loc] = ch, !.x = @ + 1] /\ scr = [s.scr EXCEPT ![loc] = ch]
      BY DEF loc
    <3> HIDE DEF t, scr
    <3>2. t = [s EXCEPT !.scr = scr, !.x = @ + 1]
      BY <3>1
    <3> QED BY <1>1, <3>2
  <2>2. IsScreen(scr)
    BY <1>1 DEF IsScreen
  <2>3. screen_write_ch(s, ch, r) = IF t.x >= SCREEN_WIDTH THEN LineFeed(t, r) ELSE t
    BY <1>4 DEF screen_write_ch
  <2> HIDE DEF t, scr
  <2>4. t.scr = scr /\ t.x = s.x + 1 /\ t.y = s.y /\ t.over = FALSE /\ IsRecord(t)
    BY <2>1, <2>2 DEF IsRecord
  <2>5. CASE t.x >= SCREEN_WIDTH
    BY <1>1, <2>3, <2>4, <2>5, LineFeedOK
  <2>6. CASE ~ (t.x >= SCREEN_WIDTH)
    <3>1. At(t.x, t.y)
      BY <1>1, <2>4, <2>6 DEF At
    <3> QED BY <2>3, <2>4, <2>6, <3>1 DEF IsPen
  <2> QED BY <2>5, <2>6
<1> QED BY <1>2, <1>3, <1>4

\* Nor does a whole write.
LEMMA WrittenOK ==
  ASSUME ScreenInv, NEW p \in Writer, NEW n \in Nat, NEW buff \in [1 .. n -> Character]
  PROVE  IsPen(Written(p, buff), cylim[p])
<1> DEFINE b == [scr |-> new_screen, x |-> cursor[p][1], y |-> cursor[p][2], over |-> FALSE]
           r == cylim[p]
<1>1. IsPen(b, r) /\ IsRegion(r)
  <2>1. IsScreen(new_screen) /\ At(cursor[p][1], cursor[p][2]) /\ IsRegion(r)
    BY DEF ScreenInv
  <2> QED BY <2>1 DEF IsPen, IsRecord
<1>2. Written(p, buff) = Writes(r, b, buff)
  BY DEF Written, Writes
<1> HIDE DEF b, r
<1>3. PICK t : /\ t[0] = b /\ Writes(r, b, buff) = t[n]
               /\ \A k \in 1 .. n : t[k] = screen_write_ch(t[k - 1], buff[k], r)
  <2>1. DOMAIN buff = 1 .. n
    OBVIOUS
  <2>2. \E t : Writing(r, b, buff, n, t)
    BY <2>1, WriteTurns
  <2> QED BY <2>2 DEF Writing
<1> DEFINE T == {k \in Nat : k <= n => IsPen(t[k], r)}
<1>4. 0 \in T
  BY <1>1, <1>3
<1>5. ASSUME NEW k \in Nat, k \in T PROVE k + 1 \in T
  <2> SUFFICES ASSUME k + 1 <= n PROVE IsPen(t[k + 1], r)
    OBVIOUS
  <2>1. IsPen(t[k], r) /\ k + 1 \in 1 .. n /\ (k + 1) - 1 = k
    BY <1>5
  <2>2. t[k + 1] = screen_write_ch(t[k], buff[k + 1], r)
    BY <1>3, <2>1
  <2> QED BY <1>1, <2>1, <2>2, CharacterOK
<1>6. n \in T
  <2> HIDE DEF T
  <2> QED BY <1>4, <1>5, ScreenSetInduction
<1>7. IsPen(Writes(r, b, buff), r)
  BY <1>3, <1>6
<1> QED BY <1>2, <1>7 DEF r
-----------------------------------------------------------------------------
(* The terminal                                                             *)

\* After k turns of screen_reflush() the terminal shows the first k cells of the
\* screen, and prints next after the cell that was sent last.
Sent(t, k, scr, old) ==
  /\ t = [shows |-> t.shows, at |-> t.at, last |-> t.last]
  /\ t.shows = [c \in Cell |-> IF c < k THEN scr[c] ELSE old[c]]
  /\ t.last # 0 - 2 => t.at = t.last + 1

LEMMA SentOK ==
  ASSUME NEW t, NEW k \in Cell, NEW scr, NEW old, Sent(t, k, scr, old)
  PROVE  Sent(SendCell(t, k, scr, old), k + 1, scr, old)
<1> DEFINE there == IF t.last # 0 - 2 /\ Consecutive(k, t.last) THEN t.at ELSE k
<1>1. Cell \subseteq Nat
  BY DEF Cell
<1>2. \A c \in Cell : (c < k + 1 <=> (c < k \/ c = k)) /\ ~ (k < k)
  BY <1>1
<1>3. CASE scr[k] = old[k]
  <2>1. SendCell(t, k, scr, old) = t
    BY <1>3 DEF SendCell
  <2>2. t.shows = [c \in Cell |-> IF c < k + 1 THEN scr[c] ELSE old[c]]
    BY <1>2, <1>3 DEF Sent
  <2> QED BY <2>1, <2>2 DEF Sent
<1>4. CASE scr[k] # old[k]
  <2>1. there = k
    BY DEF Consecutive, Sent
  <2>2. SendCell(t, k, scr, old)
          = [shows |-> [t.shows EXCEPT ![there] = scr[k]], at |-> there + 1, last |-> k]
    BY <1>4 DEF SendCell
  <2>3. [t.shows EXCEPT ![k] = scr[k]] = [c \in Cell |-> IF c < k + 1 THEN scr[c] ELSE old[c]]
    BY <1>2 DEF Sent
  <2> HIDE DEF there
  <2> QED BY <2>1, <2>2, <2>3 DEF Sent
<1> QED BY <1>3, <1>4

\* screen_reflush() brings the terminal up to date.
LEMMA ReflushOK ==
  ASSUME NEW scr, NEW old, NEW x, NEW y, IsScreen(scr), IsScreen(old), Reflush(scr, old, old, x, y)
  PROVE  /\ new_screen' = scr /\ old_screen' = scr /\ torn' = 0 /\ overrun' = overrun
         /\ terminal' = [shows |-> scr, at |-> terminal'.at]
<1> DEFINE n == SCREEN_WIDTH * SCREEN_HEIGHT
           b == [shows |-> old, at |-> 0, last |-> 0 - 2]
           sent == Sends(scr, old, b, n)
<1>1. n \in Nat /\ Cell = 0 .. n - 1
  BY ScreenAssumption DEF Cell
<1>2. /\ new_screen' = scr /\ old_screen' = scr /\ torn' = 0 /\ overrun' = overrun
      /\ terminal' = [shows |-> sent.shows, at |-> SCREEN_LOC(x, y)]
  <2>1. /\ new_screen' = scr /\ old_screen' = scr /\ torn' = 0
        /\ terminal' = [shows |-> sent.shows, at |-> SCREEN_LOC(x, y)]
    BY DEF Reflush, Sends
  <2>2. overrun' = overrun
    BY DEF Reflush
  <2> QED BY <2>1, <2>2
<1> HIDE DEF n, sent
<1>3. PICK t : /\ t[0] = b /\ sent = t[n]
               /\ \A k \in 1 .. n : t[k] = SendCell(t[k - 1], k - 1, scr, old)
  <2> HIDE DEF b
  <2>1. \E t : Sending(t, scr, old, b, n)
    BY <1>1, SendTurns
  <2> QED BY <2>1 DEF sent, Sending
<1> DEFINE T == {k \in Nat : k <= n => Sent(t[k], k, scr, old)}
<1>4. 0 \in T
  <2>1. old = [c \in Cell |-> IF c < 0 THEN scr[c] ELSE old[c]]
    <3>1. \A c \in Cell : ~ (c < 0)
      BY <1>1
    <3> QED BY <3>1 DEF IsScreen
  <2>2. Sent(b, 0, scr, old)
    BY <2>1 DEF Sent
  <2> QED BY <1>3, <2>2
<1>5. ASSUME NEW k \in Nat, k \in T PROVE k + 1 \in T
  <2> SUFFICES ASSUME k + 1 <= n PROVE Sent(t[k + 1], k + 1, scr, old)
    OBVIOUS
  <2>1. Sent(t[k], k, scr, old) /\ k \in Cell /\ k + 1 \in 1 .. n /\ (k + 1) - 1 = k
    BY <1>1, <1>5
  <2>2. t[k + 1] = SendCell(t[k], k, scr, old)
    BY <1>3, <2>1
  <2> QED BY <2>1, <2>2, SentOK
<1>6. n \in T
  <2> HIDE DEF T
  <2> QED BY <1>1, <1>4, <1>5, ScreenSetInduction
<1>7. sent.shows = scr
  <2>1. Sent(sent, n, scr, old)
    BY <1>1, <1>3, <1>6
  <2>2. \A c \in Cell : c < n
    BY <1>1
  <2> QED BY <2>1, <2>2 DEF Sent, IsScreen
<1> QED BY <1>2, <1>7
-----------------------------------------------------------------------------
(* The operations                                                           *)

LEMMA ScreenInitially == ScreenInit => ScreenInv
<1> SUFFICES ASSUME ScreenInit PROVE ScreenInv
  OBVIOUS
<1>1. IsScreen(Blank)
  BY DEF IsScreen, Blank
<1>2. At(0, 0)
  BY ScreenAssumption DEF At
<1>3. IsRegion(NoRegion)
  BY DEF IsRegion
<1> QED BY <1>1, <1>2, <1>3 DEF ScreenInit, ScreenInv

\* What every call but a write cut short and the two that only set something does.
LEMMA Reflushed ==
  ASSUME ScreenInv, NEW scr, NEW old, NEW x, NEW y, IsScreen(scr), IsScreen(old),
         Reflush(scr, old, old, x, y),
         DOMAIN cursor' = Writer, \A p \in Writer : At(cursor'[p][1], cursor'[p][2]),
         cylim' = cylim
  PROVE  ScreenInv'
<1>1. /\ new_screen' = scr /\ old_screen' = scr /\ torn' = 0 /\ overrun' = overrun
      /\ terminal' = [shows |-> scr, at |-> terminal'.at]
  BY ReflushOK
<1> QED BY <1>1 DEF ScreenInv

LEMMA ScreenStep ==
  ASSUME ScreenInv, [ScreenNext]_screenvars
  PROVE  ScreenInv'
<1>0. CASE UNCHANGED screenvars
  BY <1>0 DEF ScreenInv, screenvars
<1> SUFFICES ASSUME ScreenNext, overrun = FALSE PROVE ScreenInv'
  BY <1>0 DEF ScreenNext, ScreenInv
<1>1. /\ IsScreen(new_screen) /\ IsScreen(old_screen) /\ terminal.shows = old_screen
      /\ DOMAIN cursor = Writer /\ \A p \in Writer : At(cursor[p][1], cursor[p][2])
      /\ DOMAIN cylim = Writer /\ torn \in Nat
      /\ terminal = [shows |-> old_screen, at |-> terminal.at]
  BY DEF ScreenInv
<1>2. At(0, 0) /\ IsScreen(Blank) /\ IsRegion(NoRegion)
  BY ScreenAssumption DEF At, IsScreen, Blank, IsRegion
<1>3. ASSUME NEW p \in Writer, screen_reflush(p)
      PROVE  ScreenInv'
  BY <1>1, <1>3, Reflushed DEF screen_reflush
<1>4. ASSUME NEW p \in Writer, screen_clear(p)
      PROVE  ScreenInv'
  <2>1. DOMAIN cursor' = Writer /\ \A q \in Writer : At(cursor'[q][1], cursor'[q][2])
    BY <1>1, <1>2, <1>4 DEF screen_clear
  <2> QED BY <1>2, <1>4, <2>1, Reflushed DEF screen_clear
<1>5. ASSUME NEW p \in Writer, NEW n \in Nat, NEW buff \in [1 .. n -> Character],
             screen_write(p, buff)
      PROVE  ScreenInv'
  <2> DEFINE s == Written(p, buff)
  <2>1. IsPen(s, cylim[p]) /\ s.over = FALSE
    BY <1>5, WrittenOK DEF screen_write, IsPen
  <2>2. /\ Reflush(s.scr, old_screen, terminal.shows, s.x, s.y)
        /\ cursor' = [cursor EXCEPT ![p] = <<s.x, s.y>>] /\ cylim' = cylim
    BY <1>5 DEF screen_write
  <2> HIDE DEF s
  <2>3. DOMAIN cursor' = Writer /\ \A q \in Writer : At(cursor'[q][1], cursor'[q][2])
    BY <1>1, <2>1, <2>2 DEF IsPen
  <2>4. IsScreen(s.scr)
    BY <2>1 DEF IsPen, IsRecord
  <2> QED BY <1>1, <2>2, <2>3, <2>4, Reflushed
<1>6. ASSUME NEW p \in Writer, NEW n \in Nat, NEW buff \in [1 .. n -> Character],
             WriteCutShort(p, buff)
      PROVE  ScreenInv'
  <2> DEFINE s == Written(p, buff)
  <2>1. IsScreen(s.scr)
    BY WrittenOK DEF IsPen, IsRecord
  <2>2. /\ torn' = torn + 1 /\ new_screen' = s.scr /\ old_screen' = old_screen
        /\ cursor' = [cursor EXCEPT ![p] = <<0, 0>>]
        /\ cylim' = [cylim EXCEPT ![p] = NoRegion] /\ terminal' = terminal
        /\ overrun' = overrun
    BY <1>6 DEF WriteCutShort
  <2> HIDE DEF s
  <2>3. DOMAIN cursor' = Writer /\ \A q \in Writer : At(cursor'[q][1], cursor'[q][2])
    BY <1>1, <1>2, <2>2
  <2>4. DOMAIN cylim' = Writer /\ \A q \in Writer : IsRegion(cylim'[q])
    BY <1>1, <1>2, <2>2 DEF ScreenInv
  <2>5. torn' \in Nat /\ torn' > 0
    BY <1>1, <2>2
  <2> QED BY <1>1, <2>1, <2>2, <2>3, <2>4, <2>5 DEF ScreenInv
<1>7. ASSUME NEW p \in Writer, NEW a, NEW b, screen_rclear(p, a, b)
      PROVE  ScreenInv'
  <2> DEFINE cleared == [c \in Cell |-> IF Y(c) \in a .. b - 1 THEN Space ELSE new_screen[c]]
             scr == IF {a, b} \subseteq 0 .. SCREEN_HEIGHT - 1 THEN cleared ELSE new_screen
  <2>1. IsScreen(cleared)
    BY DEF IsScreen
  <2>2. IsScreen(scr)
    <3> HIDE DEF cleared
    <3> QED BY <1>1, <2>1
  <2>3. /\ Reflush(scr, old_screen, terminal.shows, cursor[p][1], cursor[p][2])
        /\ cursor' = cursor /\ cylim' = cylim
    BY <1>7 DEF screen_rclear
  <2> HIDE DEF scr
  <2> QED BY <1>1, <2>2, <2>3, Reflushed
<1>8. ASSUME NEW p \in Writer, NEW x \in 0 - 1 .. SCREEN_WIDTH, NEW y \in 0 - 1 .. SCREEN_HEIGHT,
             screen_move_cursor(p, x, y)
      PROVE  ScreenInv'
  <2> DEFINE cx == Clamp(x, SCREEN_WIDTH)
             cy == Clamp(y, SCREEN_HEIGHT)
  <2>1. At(cx, cy)
    BY ScreenAssumption DEF At, Clamp
  <2>2. /\ cursor' = [cursor EXCEPT ![p] = <<cx, cy>>]
        /\ terminal' = [terminal EXCEPT !.at = SCREEN_LOC(cx, cy)]
        /\ new_screen' = new_screen /\ old_screen' = old_screen /\ cylim' = cylim /\ torn' = torn
        /\ overrun' = overrun
    BY <1>8 DEF screen_move_cursor
  <2> HIDE DEF cx, cy
  <2>3. DOMAIN cursor' = Writer /\ \A q \in Writer : At(cursor'[q][1], cursor'[q][2])
    BY <1>1, <2>1, <2>2
  <2>4. terminal' = [shows |-> old_screen, at |-> terminal'.at]
    BY <1>1, <2>2
  <2> QED BY <2>2, <2>3, <2>4 DEF ScreenInv
<1>9. ASSUME NEW p \in Writer, NEW r \in Regions, screen_set_cylim(p, r)
      PROVE  ScreenInv'
  <2>1. DOMAIN cylim' = Writer /\ \A q \in Writer : IsRegion(cylim'[q])
    BY <1>1, <1>9 DEF ScreenInv, screen_set_cylim, IsRegion
  <2> QED BY <1>9, <2>1 DEF ScreenInv, screen_set_cylim
<1>10. ASSUME NEW p \in Writer, NEW n \in Nat, NEW buff \in [1 .. n -> Character],
              WriteOverruns(p, buff)
       PROVE  ScreenInv'
  <2>1. BelowScreen(cylim[p])
    BY <1>10, WrittenOK DEF WriteOverruns, IsPen
  <2>2. /\ overrun' = TRUE
        /\ UNCHANGED <<new_screen, old_screen, cursor, cylim, terminal, torn>>
    BY <1>10 DEF WriteOverruns
  <2>3. \E q \in Writer : BelowScreen(cylim'[q])
    BY <2>1, <2>2
  <2> QED BY <2>2, <2>3 DEF ScreenInv
<1>11. 1 .. SCR_WRITE_MAX \subseteq Nat
  OBVIOUS
<1> QED BY <1>3, <1>4, <1>5, <1>6, <1>7, <1>8, <1>9, <1>10, <1>11 DEF ScreenNext

\* Whatever processes print, clear and move, whatever regions they ask for, and however
\* often a write is cut short, the terminal shows what the kernel believes, and no
\* cursor leaves the screen, unless a region that ends below it has been asked for.
THEOREM ScreenIsSound == ScreenSpec => []ScreenSound
<1>1. ScreenInit => ScreenInv
  BY ScreenInitially
<1>2. ScreenInv /\ [ScreenNext]_screenvars => ScreenInv'
  BY ScreenStep
<1>3. ScreenInv => ScreenSound
  BY DEF ScreenInv, ScreenSound, At
<1> QED BY <1>1, <1>2, <1>3, PTL DEF ScreenSpec
-----------------------------------------------------------------------------
(* The image.                                                               *)

AllLayouts == BootLayouts \cup KernelLayouts \cup TaskLayouts
FilesOK ==
  /\ files \in [1 .. NFiles -> AllLayouts]
  /\ files[1] \in BootLayouts /\ files[2] \in KernelLayouts
  /\ \A i \in 3 .. NFiles : files[i] \in TaskLayouts
\* Bytes that the first n segments of a file take in the image.
Extent(ss, n) == (ss[n].v + ss[n].f) - ss[1].v
\* The first n segments ss of file i are in im from position p on.
Laid(ss, im, i, p, n) ==
  \A k \in 1 .. n : \A a \in ss[k].v .. ss[k].v + ss[k].f - 1 :
    p + (a - ss[1].v) \in DOMAIN im /\ im[p + (a - ss[1].v)] = Content(i, a)
\* The entry of a program with segments ss that starts at position p.
Entry(ss, p) ==
  [offset |-> p, f_size |-> Extent(ss, Len(ss)), v_addr |-> ss[1].v,
   m_size |-> ss[Len(ss)].v - ss[1].v + ss[Len(ss)].m]
Entries == [offset : Nat, f_size : Nat, v_addr : Nat, m_size : Nat]

\* Where createimage is in the image, and what of the file at hand is there.
CursorOK ==
  /\ fidx \in 1 .. NFiles + 1 /\ seg \in Nat \ {0} /\ phyaddr \in Nat /\ phyaddr0 \in Nat
  /\ IF fidx = NFiles + 1 THEN seg = 1 ELSE seg <= Len(files[fidx]) + 1
  /\ fidx = 1 => phyaddr0 = 0 /\ phyaddr = IF seg = 1 THEN 0 ELSE files[1][1].f
  /\ fidx > 1 => phyaddr >= SECTOR_SIZE
  /\ fidx > 1 /\ seg = 1 => phyaddr0 = 0
  /\ fidx > 1 /\ seg > 1 =>
       /\ phyaddr0 >= SECTOR_SIZE /\ phyaddr = phyaddr0 + Extent(files[fidx], seg - 1)
       /\ Laid(files[fidx], image, fidx, phyaddr0, seg - 1)
\* The kernel is behind the first sector, and its size is known.
KernelOK ==
  /\ nbytes_kernel \in Nat
  /\ fidx = 1 => nbytes_kernel = 0
  /\ fidx = 2 => /\ nbytes_kernel = phyaddr - SECTOR_SIZE
                 /\ (IF seg = 1 THEN phyaddr ELSE phyaddr0) = SECTOR_SIZE
  /\ fidx > 2 => /\ nbytes_kernel = Extent(files[2], Len(files[2]))
                 /\ Laid(files[2], image, 2, SECTOR_SIZE, Len(files[2]))
\* The programs written so far are where their entries say.
TaskAt(ss, im, j, e) ==
  \E p \in Nat : e = Entry(ss, p) /\ Laid(ss, im, j + 2, p, Len(ss))
TasksOK ==
  /\ taskinfo \in Seq(Entries)
  /\ Len(taskinfo) = IF fidx <= 2 THEN 0 ELSE fidx - 3
  /\ \A j \in 1 .. Len(taskinfo) : TaskAt(files[j + 2], image, j, taskinfo[j])
\* Nothing is written behind the position until the table is.
InfoOK ==
  IF info = {}
  THEN /\ DOMAIN image \subseteq 0 .. phyaddr - 1
       /\ boot = [left |-> 1, next |-> 0] /\ kmem = <<>> /\ ktasks = <<>> /\ umem = Nothing
  ELSE /\ fidx = NFiles + 1
       /\ info = {[kernel_size |-> NBYTES2SEC(nbytes_kernel), taskinfo_offset |-> phyaddr,
                   tasknum |-> NTasks]}
       /\ \A j \in 1 .. NTasks : /\ phyaddr + j - 1 \in DOMAIN image
                                 /\ image[phyaddr + j - 1] = <<"entry", taskinfo[j]>>
\* The sectors of the kernel that the boot block has read are in memory.
BootOK ==
  \/ boot = [left |-> 1, next |-> 0]
  \/ /\ boot \in [left : Nat, next : Nat \ {0}]
     /\ boot.next - 1 + boot.left = NBYTES2SEC(nbytes_kernel)
     /\ \A a \in 0 .. (boot.next - 1) * SECTOR_SIZE - 1 :
          SECTOR_SIZE + a \in DOMAIN image => a \in DOMAIN kmem /\ kmem[a] = image[SECTOR_SIZE + a]
\* The program that was loaded is whole.
Loaded(ss, u) ==
  /\ \A k \in 1 .. Len(ss) : \A a \in ss[k].v .. ss[k].v + ss[k].f - 1 :
       a - u.v \in DOMAIN u.bytes /\ u.bytes[a - u.v] = Content(u.task + 2, a)
  /\ \A k \in 1 .. Len(ss) : ss[k].v + ss[k].m - 1 - u.v \in DOMAIN u.bytes
ProgramOK == umem.task \in 0 .. NTasks /\ (umem.task # 0 => Loaded(files[umem.task + 2], umem))
ReadOK == BootOK /\ ktasks \in {<<>>, taskinfo} /\ ProgramOK

ImageInv == FilesOK /\ CursorOK /\ KernelOK /\ TasksOK /\ InfoOK /\ ReadOK
-----------------------------------------------------------------------------
\* Division by a positive number.
LEMMA DivisionIs ==
  ASSUME NEW x \in Nat, NEW d \in Nat \ {0}
  PROVE  /\ x \div d \in Nat /\ x % d \in 0 .. d - 1
         /\ x = d * (x \div d) + (x % d)
  OBVIOUS

\* What a layout is.
LEMMA LayoutIs ==
  ASSUME FilesOK, NEW i \in 1 .. NFiles
  PROVE  /\ Len(files[i]) \in Nat \ {0}
         /\ \A k \in 1 .. Len(files[i]) :
              /\ files[i][k].v \in Nat /\ files[i][k].f \in Nat /\ files[i][k].m \in Nat \ {0}
              /\ files[i][k].f <= files[i][k].m
         /\ \A k, l \in 1 .. Len(files[i]) :
              k < l => files[i][k].v + files[i][k].m <= files[i][l].v
<1>1. files[i] \in AllLayouts
  BY DEF FilesOK
<1>2. PICK s \in AllLayouts : s = files[i]
  BY <1>1
<1>3. /\ s \in Seq([v : Nat, f : Nat, m : Nat \ {0}]) /\ s # <<>>
      /\ \A k \in 1 .. Len(s) : s[k].f <= s[k].m
      /\ \A k, l \in 1 .. Len(s) : k < l => s[k].v + s[k].m <= s[l].v
  BY <1>2, ImageAssumption DEF AllLayouts
<1>4. Len(s) \in Nat \ {0} /\ \A k \in 1 .. Len(s) : s[k] \in [v : Nat, f : Nat, m : Nat \ {0}]
  <2> DEFINE R == [v : Nat, f : Nat, m : Nat \ {0}]
  <2>1. s \in Seq(R) /\ s # <<>>
    BY <1>3
  <2> HIDE DEF R
  <2>2. Len(s) \in Nat \ {0}
    BY <2>1, EmptySeq
  <2>3. s \in [1 .. Len(s) -> R]
    BY <2>1, LenProperties
  <2> QED BY <2>2, <2>3 DEF R
<1> QED BY <1>2, <1>3, <1>4

\* The constants.
LEMMA ImageNumbers ==
  /\ SECTOR_SIZE \in Nat \ {0} /\ PAGE_SIZE \in Nat \ {0}
  /\ ReadMax \in Nat \ {0} /\ NTasks \in Nat \ {0} /\ NFiles = NTasks + 2 /\ NFiles \in Nat
  BY ImageAssumption DEF NFiles

\* Extents grow with the segments, and later ones reach further.
LEMMA ExtentIs ==
  ASSUME FilesOK, NEW i \in 1 .. NFiles, NEW n \in 1 .. Len(files[i])
  PROVE  /\ Extent(files[i], n) \in Nat
         /\ files[i][1].v <= files[i][n].v
         /\ \A k \in 1 .. n :
              /\ files[i][1].v <= files[i][k].v
              /\ (files[i][k].v + files[i][k].f) - files[i][1].v <= Extent(files[i], n)
              /\ files[i][k].v + files[i][k].m <= files[i][n].v + files[i][n].m
<1> DEFINE s == files[i]
<1>1. /\ Len(s) \in Nat \ {0}
      /\ \A k \in 1 .. Len(s) : s[k].v \in Nat /\ s[k].f \in Nat /\ s[k].m \in Nat /\ s[k].f <= s[k].m
      /\ \A k, l \in 1 .. Len(s) : k < l => s[k].v + s[k].m <= s[l].v
  BY LayoutIs
<1> HIDE DEF s
<1>2. \A k \in 1 .. n : k \in 1 .. Len(s) /\ 1 \in 1 .. Len(s) /\ n \in 1 .. Len(s)
  BY <1>1 DEF s
<1>3. ASSUME NEW k \in 1 .. n
      PROVE  /\ s[1].v <= s[k].v /\ s[k].v + s[k].m <= s[n].v + s[n].m
             /\ s[k].v + s[k].f <= s[n].v + s[n].f
  <2>1. /\ s[k].v \in Nat /\ s[k].f \in Nat /\ s[k].m \in Nat /\ s[k].f <= s[k].m
        /\ s[1].v \in Nat /\ s[1].f \in Nat /\ s[1].m \in Nat
        /\ s[n].v \in Nat /\ s[n].f \in Nat /\ s[n].m \in Nat
    BY <1>1, <1>2
  <2>2. s[1].v <= s[k].v
    <3>1. CASE k = 1
      BY <2>1, <3>1
    <3>2. CASE k # 1
      <4> DEFINE u == s[1].v
                 w == s[1].m
                 x == s[k].v
      <4>1. u \in Nat /\ w \in Nat /\ x \in Nat
        BY <2>1
      <4>2. u + w <= x
        BY <1>1, <1>2, <3>2
      <4> HIDE DEF u, w, x
      <4>3. u <= x
        BY <4>1, <4>2
      <4>4. QED BY <4>3 DEF u, x
    <3>3. QED BY <3>1, <3>2
  <2>3. s[k].v + s[k].m <= s[n].v + s[n].m /\ s[k].v + s[k].f <= s[n].v + s[n].f
    <3>1. CASE k = n
      BY <2>1, <3>1
    <3>2. CASE k # n
      <4>1. s[k].v + s[k].m <= s[n].v
        <5>1. k < n
          BY <3>2
        <5>2. k \in 1 .. Len(s) /\ n \in 1 .. Len(s)
          BY <1>2
        <5> QED BY <1>1, <5>1, <5>2
      <4> DEFINE vk == s[k].v
                 fk == s[k].f
                 mk == s[k].m
                 vn == s[n].v
                 fn == s[n].f
                 mn == s[n].m
      <4>2. /\ vk \in Nat /\ fk \in Nat /\ mk \in Nat /\ vn \in Nat /\ fn \in Nat /\ mn \in Nat
            /\ fk <= mk /\ vk + mk <= vn
        BY <2>1, <4>1
      <4> HIDE DEF vk, fk, mk, vn, fn, mn
      <4>3. vk + mk <= vn + mn /\ vk + fk <= vn + fn
        BY <4>2
      <4>4. QED BY <4>3 DEF vk, fk, mk, vn, fn, mn
    <3>3. QED BY <3>1, <3>2
  <2>4. QED BY <2>2, <2>3
<1>4. n \in 1 .. n /\ s[1].v \in Nat /\ s[n].v \in Nat /\ s[n].f \in Nat
      /\ \A k \in 1 .. n : s[k].v \in Nat /\ s[k].f \in Nat
  BY <1>1, <1>2
<1>5. Extent(s, n) = (s[n].v + s[n].f) - s[1].v
  BY DEF Extent
<1>6. Extent(s, n) \in Nat
  <2> DEFINE u == s[1].v
             w == s[n].v
             x == s[n].f
  <2>1. u \in Nat /\ w \in Nat /\ x \in Nat /\ u <= w /\ Extent(s, n) = (w + x) - u
    BY <1>3, <1>4, <1>5
  <2> HIDE DEF u, w, x
  <2> QED BY <2>1
<1>7. ASSUME NEW k \in 1 .. n PROVE (s[k].v + s[k].f) - s[1].v <= Extent(s, n)
  <2> DEFINE u == s[1].v
             w == s[n].v + s[n].f
             x == s[k].v + s[k].f
  <2>1. u \in Nat /\ w \in Nat /\ x \in Nat
    <3>1. s[k].v \in Nat /\ s[k].f \in Nat /\ s[n].v \in Nat /\ s[n].f \in Nat /\ s[1].v \in Nat
      BY <1>4
    <3> DEFINE a == s[n].v
               b == s[n].f
               c == s[k].v
               d == s[k].f
    <3>2. a \in Nat /\ b \in Nat /\ c \in Nat /\ d \in Nat
      BY <3>1
    <3> HIDE DEF a, b, c, d
    <3>3. a + b \in Nat /\ c + d \in Nat
      BY <3>2
    <3> QED BY <3>1, <3>3 DEF a, b, c, d
  <2>2. x <= w
    BY <1>3
  <2>3. Extent(s, n) = w - u
    BY <1>5
  <2> HIDE DEF u, w, x
  <2>4. x - u <= w - u
    BY <2>1, <2>2
  <2> QED BY <2>3, <2>4 DEF u, x
<1> QED BY <1>3, <1>4, <1>6, <1>7 DEF s

\* New is im with positions from q on written.
Grows(im, new, q) ==
  /\ DOMAIN im \subseteq 0 .. q - 1 /\ DOMAIN im \subseteq DOMAIN new
  /\ \A o \in DOMAIN im : new[o] = im[o]

\* What is laid stays.
LEMMA LaidStays ==
  ASSUME NEW im, NEW new, NEW q, Grows(im, new, q), NEW ss, NEW i, NEW p, NEW n,
         Laid(ss, im, i, p, n)
  PROVE  Laid(ss, new, i, p, n)
  BY DEF Laid, Grows

LEMMA TaskStays ==
  ASSUME NEW im, NEW new, NEW q, Grows(im, new, q), NEW ss, NEW j, NEW e, TaskAt(ss, im, j, e)
  PROVE  TaskAt(ss, new, j, e)
  BY LaidStays DEF TaskAt

\* The entries of a file stay.
LEMMA TasksStay ==
  ASSUME TasksOK, NEW new, NEW q, Grows(image, new, q)
  PROVE  \A j \in 1 .. Len(taskinfo) : TaskAt(files[j + 2], new, j, taskinfo[j])
<1> SUFFICES ASSUME NEW j \in 1 .. Len(taskinfo)
             PROVE  TaskAt(files[j + 2], new, j, taskinfo[j])
  OBVIOUS
<1>1. TaskAt(files[j + 2], image, j, taskinfo[j])
  BY DEF TasksOK
<1> QED BY <1>1, TaskStays

-----------------------------------------------------------------------------
LEMMA ImageInitially == ImageInit => ImageInv
<1> SUFFICES ASSUME ImageInit PROVE ImageInv
  OBVIOUS
<1>1. NTasks \in Nat \ {0} /\ NFiles = NTasks + 2 /\ NFiles \in Nat
  BY ImageNumbers
<1>2. FilesOK
  BY DEF ImageInit, FilesOK, AllLayouts
<1>3. Len(files[1]) \in Nat
  BY <1>1, <1>2, LayoutIs
<1>4. CursorOK
  BY <1>1, <1>3 DEF ImageInit, CursorOK
<1>5. KernelOK
  BY DEF ImageInit, KernelOK
<1>6. TasksOK
  <2>1. taskinfo \in Seq(Entries) /\ Len(taskinfo) = 0
    BY EmptySeq DEF ImageInit
  <2> QED BY <2>1 DEF TasksOK, ImageInit
<1>7. InfoOK
  <2>1. DOMAIN image = {}
    BY DEF ImageInit
  <2> QED BY <2>1 DEF InfoOK, ImageInit
<1>8. ReadOK
  BY <1>1 DEF ReadOK, BootOK, ProgramOK, ImageInit, Nothing
<1> QED BY <1>2, <1>4, <1>5, <1>6, <1>7, <1>8 DEF ImageInv

\* createimage writes a segment behind what it has written.
LEMMA write_segmentKeeps ==
  ASSUME ImageInv, write_segment
  PROVE  ImageInv'
<1> DEFINE ss == files[fidx]
           v1 == ss[1].v
           v == ss[seg].v
           f == ss[seg].f
           p0 == IF phyaddr0 = 0 /\ fidx > 1 THEN phyaddr ELSE phyaddr0
           pos == IF fidx = 1 THEN phyaddr ELSE p0 + (v - v1)
<1>1. /\ SECTOR_SIZE \in Nat \ {0} /\ NTasks \in Nat \ {0} /\ NFiles = NTasks + 2 /\ NFiles \in Nat
  BY ImageNumbers
<1>2. /\ FilesOK /\ CursorOK /\ KernelOK /\ TasksOK /\ InfoOK /\ ReadOK
  BY DEF ImageInv
<1>3. /\ fidx \in 1 .. NFiles /\ seg \in 1 .. Len(ss) /\ seg \in Nat /\ Len(ss) \in Nat
      /\ phyaddr \in Nat /\ phyaddr0 \in Nat /\ fidx # NFiles + 1
  <2>1. fidx \in 1 .. NFiles /\ seg <= Len(ss) /\ seg \in Nat \ {0} /\ phyaddr \in Nat /\ phyaddr0 \in Nat
    BY <1>1, <1>2 DEF CursorOK, write_segment
  <2>2. Len(ss) \in Nat
    BY <1>2, <2>1, LayoutIs
  <2> QED BY <1>1, <2>1, <2>2
<1>4. info = {}
  BY <1>2, <1>3 DEF InfoOK
<1>5. /\ v \in Nat /\ f \in Nat /\ v1 \in Nat /\ v1 <= v
      /\ \A k \in 1 .. Len(ss) : ss[k].v \in Nat /\ ss[k].f \in Nat
  <2>1. \A k \in 1 .. Len(ss) : ss[k].v \in Nat /\ ss[k].f \in Nat
    BY <1>2, <1>3, LayoutIs
  <2>2. 1 \in 1 .. Len(ss)
    BY <1>3
  <2>3. v1 <= v
    BY <1>2, <1>3, ExtentIs
  <2> QED BY <1>3, <2>1, <2>2, <2>3
<1>6. \/ fidx = 1 /\ phyaddr0 = 0 /\ p0 = 0 /\ pos = phyaddr
      \/ fidx > 1 /\ seg = 1 /\ p0 = phyaddr /\ v = v1 /\ pos = phyaddr
      \/ /\ fidx > 1 /\ seg > 1 /\ p0 = phyaddr0 /\ pos = p0 + (v - v1)
         /\ seg - 1 \in 1 .. Len(ss) /\ phyaddr = phyaddr0 + Extent(ss, seg - 1)
         /\ ss[seg - 1].v + ss[seg - 1].f <= v
  <2>1. CASE fidx = 1
    BY <1>2, <2>1 DEF CursorOK
  <2>2. CASE fidx > 1 /\ seg = 1
    BY <1>2, <1>3, <1>5, <2>2 DEF CursorOK
  <2>3. CASE fidx > 1 /\ seg > 1
    <3>1. phyaddr0 # 0 /\ phyaddr = phyaddr0 + Extent(ss, seg - 1)
      BY <1>1, <1>2, <1>3, <2>3 DEF CursorOK
    <3>2. seg - 1 \in 1 .. Len(ss) /\ seg - 1 < seg
      BY <1>3, <2>3
    <3>3. /\ ss[seg - 1].v \in Nat /\ ss[seg - 1].f \in Nat /\ ss[seg - 1].m \in Nat
          /\ ss[seg - 1].f <= ss[seg - 1].m
      BY <1>2, <1>3, <3>2, LayoutIs
    <3>4. ss[seg - 1].v + ss[seg - 1].m <= v
      BY <1>2, <1>3, <3>2, LayoutIs
    <3> DEFINE a == ss[seg - 1].v
               b == ss[seg - 1].f
               c == ss[seg - 1].m
    <3>5. a \in Nat /\ b \in Nat /\ c \in Nat /\ b <= c /\ a + c <= v
      BY <3>3, <3>4
    <3> HIDE DEF a, b, c, v
    <3>6. a + b <= v
      BY <1>5, <3>5
    <3> QED BY <2>3, <3>1, <3>2, <3>6, <1>3 DEF a, b, c
  <2> QED BY <1>3, <2>1, <2>2, <2>3
<1>7. p0 \in Nat /\ pos \in Nat /\ phyaddr <= pos /\ (fidx > 1 => pos = p0 + (v - v1))
  <2>1. CASE fidx = 1
    BY <1>3, <1>6, <2>1
  <2>2. CASE fidx > 1 /\ seg = 1
    BY <1>3, <1>5, <1>6, <2>2
  <2>3. CASE fidx > 1 /\ seg > 1
    <3> DEFINE e == ss[seg - 1].v + ss[seg - 1].f
    <3>1. Extent(ss, seg - 1) = e - v1
      BY DEF Extent
    <3>2. e \in Nat
      BY <1>5, <1>6, <2>3
    <3>3. p0 = phyaddr0 /\ pos = p0 + (v - v1) /\ phyaddr = phyaddr0 + (e - v1) /\ e <= v
      BY <1>6, <2>3, <3>1
    <3> HIDE DEF e, v, v1, p0, pos
    <3> QED BY <1>3, <1>5, <3>2, <3>3
  <2> QED BY <1>3, <2>1, <2>2, <2>3
<1>8. /\ image' = [o \in DOMAIN image \cup pos .. pos + f - 1 |->
                     IF o \in pos .. pos + f - 1 THEN Content(fidx, v + o - pos) ELSE image[o]]
      /\ phyaddr' = pos + f /\ phyaddr0' = p0 /\ seg' = seg + 1
      /\ nbytes_kernel' = (IF fidx = 2 THEN nbytes_kernel + f ELSE nbytes_kernel)
      /\ files' = files /\ fidx' = fidx /\ taskinfo' = taskinfo /\ info' = info
      /\ boot' = boot /\ kmem' = kmem /\ ktasks' = ktasks /\ umem' = umem
  BY DEF write_segment
<1> HIDE DEF v, f, v1, p0, pos
<1>9. Grows(image, image', phyaddr) /\ DOMAIN image' \subseteq 0 .. phyaddr' - 1
  <2>1. DOMAIN image \subseteq 0 .. phyaddr - 1
    BY <1>2, <1>4 DEF InfoOK
  <2>2. DOMAIN image' = DOMAIN image \cup pos .. pos + f - 1
    BY <1>8
  <2>3. \A o \in DOMAIN image : o \notin pos .. pos + f - 1
    BY <1>3, <1>7, <2>1
  <2>4. \A o \in DOMAIN image : image'[o] = image[o]
    BY <1>8, <2>3
  <2>5. DOMAIN image' \subseteq 0 .. phyaddr' - 1
    BY <1>3, <1>5, <1>7, <1>8, <2>1, <2>2
  <2> QED BY <2>1, <2>2, <2>4, <2>5 DEF Grows
<1>10. fidx > 1 => Laid(ss, image', fidx, p0, seg)
  <2> SUFFICES ASSUME fidx > 1, NEW k \in 1 .. seg, NEW a \in ss[k].v .. ss[k].v + ss[k].f - 1
               PROVE  p0 + (a - v1) \in DOMAIN image' /\ image'[p0 + (a - v1)] = Content(fidx, a)
    BY DEF Laid, v1
  <2>1. CASE k = seg
    <3>1. a \in v .. v + f - 1
      BY <2>1 DEF v, f
    <3>2. a \in Int /\ p0 + (a - v1) = pos + (a - v) /\ p0 + (a - v1) \in pos .. pos + f - 1
          /\ v + (p0 + (a - v1)) - pos = a
      BY <1>5, <1>7, <3>1
    <3>3. PICK o : o = p0 + (a - v1)
      OBVIOUS
    <3>4. o \in pos .. pos + f - 1 /\ v + o - pos = a
      BY <3>2, <3>3
    <3>5. image'[o] = Content(fidx, v + o - pos) /\ o \in DOMAIN image'
      BY <1>8, <3>4
    <3> QED BY <3>3, <3>4, <3>5
  <2>2. CASE k # seg
    <3>1. seg > 1 /\ k \in 1 .. seg - 1
      BY <1>3, <2>2
    <3>2. Laid(ss, image, fidx, phyaddr0, seg - 1) /\ p0 = phyaddr0
      BY <1>2, <1>6, <3>1 DEF CursorOK
    <3>3. Laid(ss, image', fidx, p0, seg - 1)
      BY <1>9, <3>2, LaidStays
    <3> QED BY <3>1, <3>3 DEF Laid, v1
  <2> QED BY <2>1, <2>2
<1>11. fidx > 1 => phyaddr' = p0 + Extent(ss, seg)
  <2>1. Extent(ss, seg) = (v + f) - v1
    BY DEF Extent, v, f, v1
  <2> QED BY <1>5, <1>7, <1>8, <2>1
<1>12. fidx > 1 => p0 >= SECTOR_SIZE
  BY <1>1, <1>2, <1>3, <1>6 DEF CursorOK
<1>13. CursorOK'
  <2>1. seg' # 1 /\ seg' \in Nat \ {0} /\ seg' - 1 = seg /\ phyaddr' \in Nat /\ seg' <= Len(ss) + 1
        /\ phyaddr' >= phyaddr
    <3>1. seg' = seg + 1 /\ phyaddr' = pos + f
      BY <1>8
    <3>2. phyaddr \in Nat /\ pos \in Nat /\ f \in Nat /\ phyaddr <= pos
      BY <1>3, <1>5, <1>7
    <3>3. phyaddr' \in Nat /\ phyaddr' >= phyaddr
      BY <3>1, <3>2
    <3> QED BY <1>3, <3>1, <3>3
  <2>2. fidx = 1 => phyaddr0' = 0 /\ phyaddr' = files[1][1].f
    <3> SUFFICES ASSUME fidx = 1 PROVE phyaddr0' = 0 /\ phyaddr' = files[1][1].f
      OBVIOUS
    <3>1. files[1] \in BootLayouts /\ Len(files[1]) = 1
      BY <1>2, ImageAssumption DEF FilesOK
    <3>2. seg = 1 /\ f = files[1][1].f
      BY <1>3, <3>1 DEF f
    <3>3. phyaddr = 0
      BY <1>2, <3>2 DEF CursorOK
    <3> QED BY <1>5, <1>6, <1>8, <3>2, <3>3
  <2>3. fidx > 1 => phyaddr' >= SECTOR_SIZE
    BY <1>1, <1>2, <1>3, <2>1 DEF CursorOK
  <2>4. /\ fidx' \in 1 .. NFiles + 1 /\ phyaddr0' \in Nat
        /\ IF fidx' = NFiles + 1 THEN seg' = 1 ELSE seg' <= Len(files'[fidx']) + 1
    <3>1. fidx' = fidx /\ files' = files /\ fidx \in 1 .. NFiles + 1 /\ p0 \in Nat
          /\ phyaddr0' = p0 /\ fidx # NFiles + 1 /\ seg' <= Len(files[fidx]) + 1
      BY <1>1, <1>3, <1>7, <1>8, <2>1
    <3> QED BY <3>1
  <2>5. fidx > 1 => Laid(ss, image', fidx', phyaddr0', seg' - 1)
    BY <1>8, <1>10, <2>1
  <2>6. fidx' > 1 /\ seg' > 1 =>
          /\ phyaddr0' >= SECTOR_SIZE /\ phyaddr' = phyaddr0' + Extent(files'[fidx'], seg' - 1)
          /\ Laid(files'[fidx'], image', fidx', phyaddr0', seg' - 1)
    BY <1>8, <1>11, <1>12, <2>1, <2>5
  <2>7. fidx' = 1 => phyaddr0' = 0 /\ phyaddr' = IF seg' = 1 THEN 0 ELSE files'[1][1].f
    BY <1>8, <2>1, <2>2
  <2> QED BY <1>8, <2>1, <2>3, <2>4, <2>6, <2>7 DEF CursorOK
<1>14. KernelOK'
  <2>1. nbytes_kernel \in Nat /\ nbytes_kernel' \in Nat
    BY <1>2, <1>5, <1>8 DEF KernelOK
  <2>2. fidx = 1 => nbytes_kernel' = 0
    BY <1>2, <1>8 DEF KernelOK
  <2>3. ASSUME fidx = 2
        PROVE  nbytes_kernel' = phyaddr' - SECTOR_SIZE /\ phyaddr0' = SECTOR_SIZE /\ seg' # 1
    <3>1. nbytes_kernel = phyaddr - SECTOR_SIZE /\ p0 = SECTOR_SIZE
      BY <1>2, <1>3, <1>6, <2>3 DEF KernelOK
    <3>2. pos = phyaddr
      <4>1. CASE seg = 1
        BY <1>6, <2>3, <4>1
      <4>2. CASE seg # 1
        <5> DEFINE e == ss[seg - 1].v + ss[seg - 1].f
        <5>1. files[2] \in KernelLayouts
          BY <1>2 DEF FilesOK
        <5>2. seg - 1 \in 1 .. Len(files[2]) - 1
          BY <1>3, <2>3, <4>2
        <5>3. files[2][seg - 1].v + files[2][seg - 1].f = files[2][seg - 1 + 1].v
          BY <5>1, <5>2, ImageAssumption
        <5>4. seg - 1 + 1 = seg
          BY <1>3
        <5>5. e = v
          BY <2>3, <5>3, <5>4 DEF v
        <5>6. Extent(ss, seg - 1) = e - v1
          BY DEF Extent, v1
        <5>7. pos = p0 + (v - v1) /\ phyaddr = p0 + Extent(ss, seg - 1)
          BY <1>3, <1>6, <2>3, <4>2
        <5> QED BY <5>5, <5>6, <5>7
      <4> QED BY <4>1, <4>2
    <3> QED BY <1>1, <1>3, <1>5, <1>8, <2>3, <3>1, <3>2
  <2>4. ASSUME fidx > 2
        PROVE  nbytes_kernel' = Extent(files[2], Len(files[2]))
               /\ Laid(files[2], image', 2, SECTOR_SIZE, Len(files[2]))
    <3>1. nbytes_kernel' = nbytes_kernel
      BY <1>3, <1>8, <2>4
    <3>2. nbytes_kernel = Extent(files[2], Len(files[2]))
          /\ Laid(files[2], image, 2, SECTOR_SIZE, Len(files[2]))
      BY <1>2, <2>4 DEF KernelOK
    <3> QED BY <1>9, <3>1, <3>2, LaidStays
  <2> QED BY <1>8, <2>1, <2>2, <2>3, <2>4 DEF KernelOK
<1>15. TasksOK'
  <2>1. \A j \in 1 .. Len(taskinfo) : TaskAt(files[j + 2], image', j, taskinfo[j])
    BY <1>2, <1>9, TasksStay
  <2> QED BY <1>2, <1>8, <2>1 DEF TasksOK
<1>16. InfoOK'
  BY <1>2, <1>4, <1>8, <1>9 DEF InfoOK
<1>17. ReadOK'
  <2>1. boot = [left |-> 1, next |-> 0] /\ ktasks = <<>> /\ umem = Nothing
    BY <1>2, <1>4 DEF InfoOK
  <2> QED BY <1>1, <1>8, <2>1 DEF ReadOK, BootOK, ProgramOK, Nothing
<1>18. FilesOK'
  BY <1>2, <1>8 DEF FilesOK
<1> QED BY <1>13, <1>14, <1>15, <1>16, <1>17, <1>18 DEF ImageInv

\* The end of a file: its extent is what has been written since its first segment.
LEMMA EndFileKeeps ==
  ASSUME ImageInv, EndFile
  PROVE  ImageInv'
<1> DEFINE ss == files[fidx]
           n == Len(ss)
           e == [offset |-> phyaddr0, f_size |-> phyaddr - phyaddr0, v_addr |-> ss[1].v,
                 m_size |-> ss[n].v - ss[1].v + ss[n].m]
<1>1. /\ SECTOR_SIZE \in Nat \ {0} /\ NTasks \in Nat \ {0} /\ NFiles = NTasks + 2 /\ NFiles \in Nat
  BY ImageNumbers
<1>2. /\ FilesOK /\ CursorOK /\ KernelOK /\ TasksOK /\ InfoOK /\ ReadOK
  BY DEF ImageInv
<1>3. /\ fidx \in 1 .. NFiles /\ n \in Nat \ {0} /\ seg = n + 1 /\ seg > 1 /\ seg - 1 = n
      /\ phyaddr \in Nat /\ phyaddr0 \in Nat /\ fidx # NFiles + 1
  <2>1. fidx \in 1 .. NFiles /\ seg > n /\ seg <= n + 1 /\ seg \in Nat
        /\ phyaddr \in Nat /\ phyaddr0 \in Nat
    BY <1>1, <1>2 DEF CursorOK, EndFile
  <2>2. n \in Nat \ {0}
    BY <1>2, <2>1, LayoutIs
  <2> QED BY <1>1, <2>1, <2>2
<1>4. info = {}
  BY <1>2, <1>3 DEF InfoOK
<1>5. /\ phyaddr' = (IF fidx = 1 /\ phyaddr < SECTOR_SIZE THEN SECTOR_SIZE ELSE phyaddr)
      /\ taskinfo' = (IF fidx <= 2 THEN taskinfo ELSE Append(taskinfo, e))
      /\ fidx' = fidx + 1 /\ seg' = 1 /\ phyaddr0' = 0
      /\ files' = files /\ image' = image /\ nbytes_kernel' = nbytes_kernel /\ info' = info
      /\ boot' = boot /\ kmem' = kmem /\ ktasks' = ktasks /\ umem' = umem
  BY DEF EndFile, FileSize
<1>6. fidx > 1 => /\ phyaddr = phyaddr0 + Extent(ss, n) /\ phyaddr >= SECTOR_SIZE
                  /\ Laid(ss, image, fidx, phyaddr0, n)
  BY <1>2, <1>3 DEF CursorOK
<1>7. fidx = 1 => phyaddr' = SECTOR_SIZE
  <2>1. files[1] \in BootLayouts /\ files[1][1].f < SECTOR_SIZE
    BY <1>2, ImageAssumption DEF FilesOK
  <2> QED BY <1>2, <1>3, <1>5, <2>1 DEF CursorOK
<1>8. phyaddr' \in Nat /\ phyaddr' >= phyaddr /\ phyaddr' >= SECTOR_SIZE
  BY <1>1, <1>3, <1>5, <1>6, <1>7
<1>9. CursorOK'
  <2>1. fidx' \in 2 .. NFiles + 1
    BY <1>1, <1>3, <1>5
  <2>2. IF fidx' = NFiles + 1 THEN seg' = 1 ELSE seg' <= Len(files'[fidx']) + 1
    <3>1. CASE fidx' = NFiles + 1
      BY <1>5, <3>1
    <3>2. CASE fidx' # NFiles + 1
      <4>1. fidx + 1 \in 1 .. NFiles
        BY <1>1, <1>5, <2>1, <3>2
      <4>2. Len(files[fidx + 1]) \in Nat
        BY <1>2, <4>1, LayoutIs
      <4> QED BY <1>5, <3>2, <4>2
    <3> QED BY <3>1, <3>2
  <2> QED BY <1>1, <1>5, <1>8, <2>1, <2>2 DEF CursorOK
<1>10. Extent(ss, n) \in Nat /\ phyaddr0 + Extent(ss, n) - phyaddr0 = Extent(ss, n)
  <2>1. Extent(ss, n) \in Nat
    BY <1>2, <1>3, ExtentIs
  <2> QED BY <1>3, <2>1
<1>11. KernelOK'
  <2>1. nbytes_kernel' = nbytes_kernel /\ nbytes_kernel \in Nat
    BY <1>2, <1>5 DEF KernelOK
  <2>2. ASSUME fidx' = 2
        PROVE  nbytes_kernel' = phyaddr' - SECTOR_SIZE /\ phyaddr' = SECTOR_SIZE
    <3>1. fidx = 1
      BY <1>3, <1>5, <2>2
    <3> QED BY <1>1, <1>2, <1>7, <2>1, <3>1 DEF KernelOK
  <2>3. ASSUME fidx' > 2
        PROVE  nbytes_kernel = Extent(files[2], Len(files[2]))
               /\ Laid(files[2], image, 2, SECTOR_SIZE, Len(files[2]))
    <3>1. CASE fidx = 2
      <4>1. nbytes_kernel = phyaddr - SECTOR_SIZE /\ phyaddr0 = SECTOR_SIZE
        BY <1>2, <1>3, <3>1 DEF KernelOK
      <4>2. nbytes_kernel = Extent(ss, n)
        BY <1>1, <1>3, <1>6, <1>10, <3>1, <4>1
      <4> QED BY <1>6, <3>1, <4>1, <4>2
    <3>2. CASE fidx # 2
      <4>1. fidx > 2
        BY <1>3, <1>5, <2>3, <3>2
      <4> QED BY <1>2, <4>1 DEF KernelOK
    <3> QED BY <3>1, <3>2
  <2>4. fidx' # 1 /\ seg' = 1
    BY <1>3, <1>5
  <2> QED BY <1>5, <2>1, <2>2, <2>3, <2>4 DEF KernelOK
<1>12. TasksOK'
  <2>1. CASE fidx <= 2
    <3>1. Len(taskinfo) = 0 /\ taskinfo' = taskinfo /\ taskinfo \in Seq(Entries)
      BY <1>2, <1>5, <2>1 DEF TasksOK
    <3>2. IF fidx' <= 2 THEN TRUE ELSE fidx' - 3 = 0
      BY <1>3, <1>5, <2>1
    <3> QED BY <3>1, <3>2 DEF TasksOK
  <2>2. CASE fidx > 2
    <3>1. taskinfo \in Seq(Entries) /\ Len(taskinfo) = fidx - 3 /\ taskinfo' = Append(taskinfo, e)
      BY <1>2, <1>3, <1>5, <2>2 DEF TasksOK
    <3>2. e = Entry(ss, phyaddr0)
      BY <1>3, <1>6, <1>10, <2>2 DEF Entry
    <3>3. e \in Entries
      <4>1. ss[1].v \in Nat /\ ss[n].v \in Nat /\ ss[n].m \in Nat /\ ss[1].v <= ss[n].v
        BY <1>2, <1>3, LayoutIs, ExtentIs
      <4>2. ss[n].v - ss[1].v + ss[n].m \in Nat
        <5> DEFINE a == ss[1].v
                   b == ss[n].v
                   c == ss[n].m
        <5>1. a \in Nat /\ b \in Nat /\ c \in Nat /\ a <= b
          BY <4>1
        <5> HIDE DEF a, b, c
        <5>2. b - a + c \in Nat
          BY <5>1
        <5> QED BY <5>2 DEF a, b, c
      <4>3. phyaddr - phyaddr0 \in Nat
        BY <1>3, <1>6, <1>10, <2>2
      <4> QED BY <1>3, <4>1, <4>2, <4>3 DEF Entries
    <3> HIDE DEF e, ss
    <3>4. /\ taskinfo' \in Seq(Entries) /\ Len(taskinfo') = Len(taskinfo) + 1
          /\ taskinfo'[Len(taskinfo) + 1] = e
          /\ \A j \in 1 .. Len(taskinfo) : taskinfo'[j] = taskinfo[j]
      BY <3>1, <3>3, AppendProperties
    <3>5. Len(taskinfo') = fidx' - 3 /\ ~(fidx' <= 2)
      BY <1>3, <1>5, <2>2, <3>1, <3>4
    <3>6. ASSUME NEW j \in 1 .. Len(taskinfo')
          PROVE  TaskAt(files[j + 2], image, j, taskinfo'[j])
      <4>1. CASE j = Len(taskinfo) + 1
        <5>1. j + 2 = fidx
          BY <1>3, <3>1, <4>1
        <5>2. Laid(files[j + 2], image, j + 2, phyaddr0, Len(files[j + 2]))
              /\ e = Entry(files[j + 2], phyaddr0)
          BY <1>6, <2>2, <3>2, <5>1 DEF ss
        <5>3. taskinfo'[j] = e
          BY <3>4, <4>1
        <5> QED BY <1>3, <5>2, <5>3 DEF TaskAt
      <4>2. CASE j # Len(taskinfo) + 1
        <5>1. j \in 1 .. Len(taskinfo)
          BY <1>3, <3>1, <3>4, <4>2
        <5> QED BY <1>2, <3>4, <5>1 DEF TasksOK
      <4> QED BY <4>1, <4>2
    <3> QED BY <1>5, <3>4, <3>5, <3>6 DEF TasksOK
  <2> QED BY <1>3, <2>1, <2>2
<1>13. InfoOK'
  <2>1. DOMAIN image \subseteq 0 .. phyaddr' - 1
    BY <1>2, <1>3, <1>4, <1>8 DEF InfoOK
  <2> QED BY <1>2, <1>4, <1>5, <2>1 DEF InfoOK
<1>14. ReadOK'
  <2>1. boot = [left |-> 1, next |-> 0] /\ ktasks = <<>> /\ umem = Nothing
    BY <1>2, <1>4 DEF InfoOK
  <2> QED BY <1>1, <1>5, <2>1 DEF ReadOK, BootOK, ProgramOK, Nothing
<1>15. FilesOK'
  BY <1>2, <1>5 DEF FilesOK
<1> QED BY <1>9, <1>11, <1>12, <1>13, <1>14, <1>15 DEF ImageInv

\* The table goes behind everything else.
LEMMA write_img_infoKeeps ==
  ASSUME ImageInv, write_img_info
  PROVE  ImageInv'
<1>1. /\ SECTOR_SIZE \in Nat \ {0} /\ NTasks \in Nat \ {0} /\ NFiles = NTasks + 2 /\ NFiles \in Nat
  BY ImageNumbers
<1>2. /\ FilesOK /\ CursorOK /\ KernelOK /\ TasksOK /\ InfoOK /\ ReadOK
  BY DEF ImageInv
<1>3. fidx = NFiles + 1 /\ seg = 1 /\ phyaddr \in Nat /\ info = {}
  BY <1>1, <1>2 DEF CursorOK, write_img_info
<1> DEFINE new == phyaddr .. phyaddr + NTasks - 1
<1>4. /\ image' = [o \in DOMAIN image \cup new |->
                     IF o \in new THEN <<"entry", taskinfo[o - phyaddr + 1]>> ELSE image[o]]
      /\ info' = {[kernel_size |-> NBYTES2SEC(nbytes_kernel), taskinfo_offset |-> phyaddr,
                   tasknum |-> NTasks]}
      /\ files' = files /\ fidx' = fidx /\ seg' = seg /\ phyaddr' = phyaddr /\ phyaddr0' = phyaddr0
      /\ nbytes_kernel' = nbytes_kernel /\ taskinfo' = taskinfo
      /\ boot' = boot /\ kmem' = kmem /\ ktasks' = ktasks /\ umem' = umem
  BY DEF write_img_info
<1>5. Grows(image, image', phyaddr)
  <2>1. DOMAIN image \subseteq 0 .. phyaddr - 1
    BY <1>2, <1>3 DEF InfoOK
  <2>2. \A o \in DOMAIN image : o \notin new
    BY <1>3, <2>1
  <2> QED BY <1>4, <2>1, <2>2 DEF Grows
<1>6. CursorOK'
  BY <1>1, <1>2, <1>3, <1>4 DEF CursorOK
<1>7. KernelOK'
  <2>1. fidx > 2
    BY <1>1, <1>3
  <2>2. Laid(files[2], image', 2, SECTOR_SIZE, Len(files[2]))
    BY <1>2, <1>5, <2>1, LaidStays DEF KernelOK
  <2> QED BY <1>2, <1>4, <2>1, <2>2 DEF KernelOK
<1>8. TasksOK'
  <2>1. \A j \in 1 .. Len(taskinfo) : TaskAt(files[j + 2], image', j, taskinfo[j])
    BY <1>2, <1>5, TasksStay
  <2> QED BY <1>2, <1>4, <2>1 DEF TasksOK
<1>9. InfoOK'
  <2>1. ASSUME NEW j \in 1 .. NTasks
        PROVE  /\ phyaddr + j - 1 \in DOMAIN image'
               /\ image'[phyaddr + j - 1] = <<"entry", taskinfo[j]>>
    <3>1. PICK o : o = phyaddr + j - 1
      OBVIOUS
    <3>2. o \in new /\ o - phyaddr + 1 = j
      BY <1>1, <1>3, <3>1
    <3>3. o \in DOMAIN image' /\ image'[o] = <<"entry", taskinfo[o - phyaddr + 1]>>
      BY <1>4, <3>2
    <3> QED BY <3>1, <3>2, <3>3
  <2> QED BY <1>3, <1>4, <2>1 DEF InfoOK
<1>10. ReadOK'
  <2>1. boot = [left |-> 1, next |-> 0] /\ ktasks = <<>> /\ umem = Nothing
    BY <1>2, <1>3 DEF InfoOK
  <2> QED BY <1>1, <1>4, <2>1 DEF ReadOK, BootOK, ProgramOK, Nothing
<1>11. FilesOK'
  BY <1>2, <1>4 DEF FilesOK
<1> QED BY <1>6, <1>7, <1>8, <1>9, <1>10, <1>11 DEF ImageInv

\* What is read does not touch the image.
LEMMA ReadingKeeps ==
  ASSUME ImageInv, info # {}, files' = files, UNCHANGED createimage
  PROVE  FilesOK' /\ CursorOK' /\ KernelOK' /\ TasksOK' /\ InfoOK'
<1>1. /\ FilesOK /\ CursorOK /\ KernelOK /\ TasksOK /\ InfoOK
  BY DEF ImageInv
<1>2. /\ files' = files /\ fidx' = fidx /\ seg' = seg /\ image' = image /\ phyaddr' = phyaddr
      /\ phyaddr0' = phyaddr0 /\ nbytes_kernel' = nbytes_kernel /\ taskinfo' = taskinfo
      /\ info' = info
  BY DEF createimage
<1>3. FilesOK'
  BY <1>1, <1>2 DEF FilesOK
<1>4. CursorOK'
  BY <1>1, <1>2 DEF CursorOK
<1>5. KernelOK'
  BY <1>1, <1>2 DEF KernelOK
<1>6. TasksOK'
  BY <1>1, <1>2 DEF TasksOK
<1>7. InfoOK'
  BY <1>1, <1>2 DEF InfoOK
<1> QED BY <1>3, <1>4, <1>5, <1>6, <1>7

-----------------------------------------------------------------------------
(* Sectors and pages.                                                       *)

\* Multiples of a positive number.
LEMMA MultiplesIs ==
  ASSUME NEW d \in Nat \ {0}, NEW a \in Nat, NEW b \in Nat
  PROVE  /\ a * d \in Nat /\ (a + b) * d = a * d + b * d
         /\ (a < b => a * d + d <= b * d)
<1>1. a * d \in Nat /\ (a + b) * d = a * d + b * d
  OBVIOUS
<1>2. ASSUME a < b PROVE a * d + d <= b * d
  <2>1. PICK c \in Nat : b = (a + 1) + c
    <3>1. b - (a + 1) \in Nat /\ b = (a + 1) + (b - (a + 1))
      BY <1>2
    <3> QED BY <3>1
  <2>2. b * d = (a * d + d) + c * d /\ c * d \in Nat
    BY <2>1
  <2> QED BY <1>1, <2>2
<1> QED BY <1>1, <1>2

\* The sectors of n bytes have room for them.
LEMMA SectorsCover ==
  ASSUME NEW n \in Nat
  PROVE  NBYTES2SEC(n) \in Nat /\ n <= NBYTES2SEC(n) * SECTOR_SIZE
<1> DEFINE q == n \div SECTOR_SIZE
           r == n % SECTOR_SIZE
           d == SECTOR_SIZE
<1>1. d \in Nat \ {0} /\ q \in Nat /\ r \in 0 .. d - 1 /\ n = d * q + r
  BY ImageNumbers, DivisionIs
<1>2. NBYTES2SEC(n) = q + (IF r # 0 THEN 1 ELSE 0)
  BY DEF NBYTES2SEC
<1> HIDE DEF q, r, d
<1>3. d * q = q * d /\ (q + 1) * d = q * d + d /\ q * d \in Nat
  BY <1>1
<1>4. CASE r = 0
  BY <1>1, <1>2, <1>3, <1>4 DEF d
<1>5. CASE r # 0
  <2>1. NBYTES2SEC(n) = q + 1 /\ n <= (q + 1) * d
    BY <1>1, <1>2, <1>3, <1>5
  <2> QED BY <1>1, <2>1 DEF d
<1> QED BY <1>4, <1>5

\* The sector that a byte is in.
LEMMA SectorIs ==
  ASSUME NEW x \in Nat
  PROVE  /\ lbytes2sectors(x) \in Nat
         /\ lbytes2sectors(x) * SECTOR_SIZE \in Nat
         /\ lbytes2sectors(x) * SECTOR_SIZE <= x
         /\ x < lbytes2sectors(x) * SECTOR_SIZE + SECTOR_SIZE
<1> DEFINE q == x \div SECTOR_SIZE
           r == x % SECTOR_SIZE
           d == SECTOR_SIZE
<1>1. d \in Nat \ {0} /\ q \in Nat /\ r \in 0 .. d - 1 /\ x = d * q + r
  BY ImageNumbers, DivisionIs
<1>2. lbytes2sectors(x) = q
  BY DEF lbytes2sectors
<1> HIDE DEF q, r, d
<1>3. d * q = q * d /\ q * d \in Nat
  BY <1>1
<1>4. q * d <= x /\ x < q * d + d
  BY <1>1, <1>3
<1> QED BY <1>1, <1>2, <1>3, <1>4 DEF d

\* Reading from the sector of byte x to that of byte y gives every byte between them.
LEMMA ReadsAll ==
  ASSUME NEW x \in Nat, NEW y \in Nat, x <= y, NEW z \in x .. y,
         NEW first, first = lbytes2sectors(x), NEW n, n = lbytes2sectors(y) - first + 1
  PROVE  LET i == z - first * SECTOR_SIZE
         IN  /\ i \in DOMAIN sd_read(n, first)
             /\ (z \in DOMAIN image => sd_read(n, first)[i] = image[z])
<1> DEFINE d == SECTOR_SIZE
           last == lbytes2sectors(y)
           i == z - first * d
<1>1. d \in Nat \ {0}
  BY ImageNumbers
<1>2. /\ first \in Nat /\ last \in Nat /\ first * d \in Nat /\ last * d \in Nat
      /\ first * d <= x /\ y < last * d + d
  BY SectorIs
<1> HIDE DEF d, last
<1>3. first <= last
  <2>1. SUFFICES ASSUME last < first PROVE FALSE
    BY <1>2
  <2>2. last * d + d <= first * d
    BY <1>1, <1>2, <2>1, MultiplesIs
  <2> QED BY <1>1, <1>2, <2>2
<1>4. n \in Nat /\ (last + 1) * d = last * d + d /\ first + n = last + 1
  BY <1>1, <1>2, <1>3 DEF last
<1>5. (first + n) * d = first * d + n * d /\ n * d \in Nat
  BY <1>1, <1>2, <1>4, MultiplesIs
<1>6. i \in 0 .. n * d - 1 /\ first * d + i = z
  <2> DEFINE u == first * d
             w == n * d
             t == last * d
  <2>1. /\ u \in Nat /\ w \in Nat /\ t \in Nat /\ u <= x /\ y < t + d /\ u + w = t + d
        /\ i = z - u /\ z \in Nat /\ x <= z /\ z <= y
    BY <1>2, <1>4, <1>5
  <2> HIDE DEF u, w, t, i
  <2>2. i \in 0 .. w - 1 /\ u + i = z
    BY <1>1, <2>1
  <2> QED BY <2>2 DEF u, w
<1>7. PICK k : k = i
  OBVIOUS
<1>8. k \in 0 .. n * SECTOR_SIZE - 1 /\ first * SECTOR_SIZE + k = z
  BY <1>6, <1>7 DEF d
<1>9. k \in DOMAIN sd_read(n, first) /\ (z \in DOMAIN image => sd_read(n, first)[k] = image[z])
  BY <1>8 DEF sd_read
<1> QED BY <1>7, <1>9 DEF d

-----------------------------------------------------------------------------
(* Reading the image.                                                       *)

\* A read of the boot block adds the sectors that follow in memory.
LEMMA BootReadKeeps ==
  ASSUME ImageInv, BootRead
  PROVE  ImageInv'
<1> DEFINE d == SECTOR_SIZE
           K == NBYTES2SEC(nbytes_kernel)
           b == IF boot.next = 0 THEN PowerOn((CHOOSE x \in info : TRUE).kernel_size) ELSE boot
           n == IF ReadMax >= b.left THEN b.left ELSE ReadMax
           base == (b.next - 1) * d
           read == sd_read(n, b.next)
<1>1. d \in Nat \ {0} /\ ReadMax \in Nat \ {0} /\ NTasks \in Nat
  BY ImageNumbers
<1>2. KernelOK /\ InfoOK /\ ReadOK /\ info # {} /\ nbytes_kernel \in Nat /\ BootOK
  BY DEF ImageInv, BootRead, KernelOK, ReadOK
<1>3. K \in Nat
  BY <1>2, SectorsCover
<1>4. FilesOK' /\ CursorOK' /\ KernelOK' /\ TasksOK' /\ InfoOK'
  BY <1>2, ReadingKeeps DEF BootRead
<1>5. /\ kmem' = [a \in DOMAIN kmem \cup {base + i : i \in DOMAIN read} |->
                    IF a >= base THEN read[a - base] ELSE kmem[a]]
      /\ boot' = [left |-> b.left - n, next |-> b.next + n]
      /\ files' = files /\ image' = image /\ nbytes_kernel' = nbytes_kernel
      /\ taskinfo' = taskinfo /\ ktasks' = ktasks /\ umem' = umem
  BY DEF BootRead, createimage
<1>6. /\ b.left \in Nat /\ b.next \in Nat \ {0} /\ b.next - 1 + b.left = K
      /\ \A a \in 0 .. base - 1 :
           SECTOR_SIZE + a \in DOMAIN image => a \in DOMAIN kmem /\ kmem[a] = image[SECTOR_SIZE + a]
  <2>1. CASE boot.next = 0
    <3>1. (CHOOSE x \in info : TRUE).kernel_size = K
      BY <1>2 DEF InfoOK
    <3>2. b = [left |-> K, next |-> 1]
      BY <2>1, <3>1 DEF PowerOn
    <3>3. b.left = K /\ b.next = 1
      BY <3>2
    <3>4. base = 0
      BY <1>1, <3>3
    <3> HIDE DEF b, base
    <3> QED BY <1>3, <3>3, <3>4
  <2>2. CASE boot.next # 0
    BY <1>2, <2>2 DEF BootOK
  <2> QED BY <2>1, <2>2
<1> HIDE DEF b, d, K
<1>7. n \in Nat /\ n <= b.left
  BY <1>1, <1>6
<1> HIDE DEF n
<1>8. /\ b.left - n \in Nat /\ b.next + n \in Nat \ {0} /\ (b.next + n) - 1 + (b.left - n) = K
      /\ b.next - 1 \in Nat /\ (b.next + n) - 1 = (b.next - 1) + n
  BY <1>3, <1>6, <1>7
<1>9. /\ base \in Nat /\ n * d \in Nat /\ ((b.next + n) - 1) * d = base + n * d
      /\ b.next * d = base + d
  <2>1. ((b.next - 1) + n) * d = base + n * d /\ base \in Nat /\ n * d \in Nat
    BY <1>1, <1>7, <1>8, MultiplesIs
  <2>2. ((b.next - 1) + 1) * d = base + 1 * d
    BY <1>1, <1>8, MultiplesIs
  <2>3. (b.next - 1) + 1 = b.next /\ 1 * d = d
    BY <1>1, <1>6
  <2> HIDE DEF base
  <2> QED BY <1>8, <2>1, <2>2, <2>3
<1>10. ASSUME NEW a \in 0 .. ((b.next + n) - 1) * d - 1, SECTOR_SIZE + a \in DOMAIN image
       PROVE  a \in DOMAIN kmem' /\ kmem'[a] = image[SECTOR_SIZE + a]
  <2> HIDE DEF base
  <2>1. CASE a < base
    <3>1. a \in 0 .. base - 1 /\ ~(a >= base)
      BY <1>9, <2>1
    <3> QED BY <1>5, <1>6, <1>10, <3>1
  <2>2. CASE ~(a < base)
    <3>1. PICK i : i = a - base
      OBVIOUS
    <3>2. i \in 0 .. n * d - 1 /\ base + i = a /\ b.next * d + i = d + a /\ a >= base
      BY <1>1, <1>9, <2>2, <3>1
    <3>3. /\ i \in DOMAIN read
          /\ read[i] = IF b.next * d + i \in DOMAIN image THEN image[b.next * d + i] ELSE ZeroByte
      BY <3>2 DEF sd_read, d
    <3>4. read[i] = image[SECTOR_SIZE + a]
      BY <1>10, <3>2, <3>3 DEF d
    <3> HIDE DEF read
    <3>5. a \in DOMAIN kmem'
      BY <1>5, <3>2, <3>3
    <3>6. kmem'[a] = read[i]
      BY <1>5, <3>1, <3>2, <3>5
    <3> QED BY <3>4, <3>5, <3>6
  <2> QED BY <2>1, <2>2
<1>11. BootOK'
  <2>1. /\ boot' \in [left : Nat, next : Nat \ {0}]
        /\ boot'.next - 1 + boot'.left = NBYTES2SEC(nbytes_kernel')
    <3>1. boot'.next = b.next + n /\ boot'.left = b.left - n /\ nbytes_kernel' = nbytes_kernel
          /\ boot' = [left |-> b.left - n, next |-> b.next + n]
      BY <1>5
    <3> QED BY <1>8, <3>1 DEF K
  <2>2. \A a \in 0 .. (boot'.next - 1) * SECTOR_SIZE - 1 :
          SECTOR_SIZE + a \in DOMAIN image' => a \in DOMAIN kmem' /\ kmem'[a] = image'[SECTOR_SIZE + a]
    <3>1. boot'.next = b.next + n /\ image' = image
      BY <1>5
    <3>2. 0 .. (boot'.next - 1) * SECTOR_SIZE - 1 = 0 .. ((b.next + n) - 1) * d - 1
      BY <3>1 DEF d
    <3> QED BY <1>10, <3>1, <3>2, Zenon
  <2> QED BY <2>1, <2>2 DEF BootOK
<1>12. ReadOK'
  BY <1>2, <1>5, <1>11 DEF ReadOK, ProgramOK
<1> QED BY <1>4, <1>12 DEF ImageInv

\* The kernel gets the table that createimage wrote.
LEMMA init_taskinfoKeeps ==
  ASSUME ImageInv, init_taskinfo
  PROVE  ImageInv'
<1> DEFINE x == CHOOSE y \in info : TRUE
           first == lbytes2sectors(x.taskinfo_offset)
           last == lbytes2sectors(x.taskinfo_offset + x.tasknum - 1)
           read == sd_read(last - first + 1, first)
<1>1. NTasks \in Nat \ {0} /\ NFiles = NTasks + 2 /\ SECTOR_SIZE \in Nat \ {0}
  BY ImageNumbers
<1>2. /\ info # {} /\ CursorOK /\ TasksOK /\ InfoOK /\ ReadOK
  BY DEF ImageInv, init_taskinfo
<1>3. FilesOK' /\ CursorOK' /\ KernelOK' /\ TasksOK' /\ InfoOK'
  BY <1>2, ReadingKeeps DEF init_taskinfo
<1>4. x.taskinfo_offset = phyaddr /\ x.tasknum = NTasks
  BY <1>2 DEF InfoOK
<1>5. phyaddr \in Nat /\ fidx = NFiles + 1
  BY <1>2 DEF CursorOK, InfoOK
<1>6. /\ ktasks' = [i \in 1 .. x.tasknum |-> read[x.taskinfo_offset - first * SECTOR_SIZE + i - 1][2]]
      /\ files' = files /\ boot' = boot /\ kmem' = kmem /\ umem' = umem /\ image' = image
      /\ nbytes_kernel' = nbytes_kernel /\ taskinfo' = taskinfo
  BY DEF init_taskinfo, createimage
<1>7. Len(taskinfo) = NTasks /\ taskinfo \in Seq(Entries)
  BY <1>1, <1>2, <1>5 DEF TasksOK
<1>8. taskinfo = [i \in 1 .. NTasks |-> taskinfo[i]]
  BY <1>7
<1>9. ASSUME NEW i \in 1 .. NTasks
      PROVE  read[phyaddr - first * SECTOR_SIZE + i - 1][2] = taskinfo[i]
  <2> DEFINE z == phyaddr + i - 1
             y == phyaddr + NTasks - 1
             k == z - first * SECTOR_SIZE
  <2>1. y \in Nat /\ phyaddr <= y /\ z \in phyaddr .. y
    BY <1>1, <1>5
  <2>2. first = lbytes2sectors(phyaddr) /\ last = lbytes2sectors(y)
    BY <1>4
  <2>3. z \in DOMAIN image /\ image[z] = <<"entry", taskinfo[i]>>
    BY <1>2 DEF InfoOK
  <2> HIDE DEF z, y, first, last, x
  <2>4. read[z - first * SECTOR_SIZE] = image[z]
    BY <1>5, <2>1, <2>2, <2>3, ReadsAll
  <2>5. first * SECTOR_SIZE \in Nat
    BY <1>5, <2>2, SectorIs
  <2>6. phyaddr - first * SECTOR_SIZE + i - 1 = z - first * SECTOR_SIZE
    BY <1>5, <2>5 DEF z
  <2> QED BY <2>3, <2>4, <2>6
<1>10. ktasks' = [i \in 1 .. NTasks |-> read[phyaddr - first * SECTOR_SIZE + i - 1][2]]
  <2> HIDE DEF x, first, read
  <2> QED BY <1>4, <1>6
<1> HIDE DEF read, first
<1>11. ktasks' = taskinfo
  BY <1>8, <1>9, <1>10
<1>12. ReadOK'
  BY <1>2, <1>6, <1>11 DEF ReadOK, BootOK, ProgramOK
<1> QED BY <1>3, <1>12 DEF ImageInv

\* The pages of n bytes have room for them.
LEMMA PagesCover ==
  ASSUME NEW n \in Nat
  PROVE  LET q == (n + PAGE_SIZE - 1) \div PAGE_SIZE
         IN  q \in Nat /\ n <= q * PAGE_SIZE
<1> DEFINE d == PAGE_SIZE
           x == n + PAGE_SIZE - 1
           q == x \div d
           r == x % d
<1>1. d \in Nat \ {0} /\ x \in Nat /\ x = n + d - 1
  BY ImageNumbers
<1>2. q \in Nat /\ r \in 0 .. d - 1 /\ x = d * q + r
  BY <1>1, DivisionIs
<1>3. q \in Nat /\ n <= q * d
  <2> HIDE DEF d, x, q, r
  <2>1. d * q = q * d /\ q * d \in Nat
    BY <1>1, <1>2
  <2> QED BY <1>1, <1>2, <2>1
<1> QED BY <1>3

\* The pages of the file part are filled with what createimage wrote.
LEMMA load_task_imgKeeps ==
  ASSUME ImageInv, NEW i \in 1 .. NTasks, load_task_img(i)
  PROVE  ImageInv'
<1> DEFINE t == ktasks[i]
           ss == files[i + 2]
           start == lbytes2sectors(t.offset)
           ut_buf == sd_read(TaskSectors(t), start)
           uoffset == t.offset - start * SECTOR_SIZE
           Pages(n) == (n + PAGE_SIZE - 1) \div PAGE_SIZE
           pages == IF Pages(t.f_size) > Pages(t.m_size) THEN Pages(t.f_size) ELSE Pages(t.m_size)
           bytes == [a \in 0 .. pages * PAGE_SIZE - 1 |->
                      IF a >= t.f_size THEN Stale
                      ELSE IF uoffset + a \in DOMAIN ut_buf THEN ut_buf[uoffset + a] ELSE Stale]
<1>1. /\ NTasks \in Nat \ {0} /\ NFiles = NTasks + 2 /\ SECTOR_SIZE \in Nat \ {0}
      /\ PAGE_SIZE \in Nat \ {0}
  BY ImageNumbers
<1>2. FilesOK /\ CursorOK /\ TasksOK /\ InfoOK /\ ReadOK /\ ktasks # <<>>
  BY DEF ImageInv, load_task_img
<1>3. info # {} /\ fidx = NFiles + 1 /\ ktasks = taskinfo
  BY <1>2 DEF InfoOK, ReadOK
<1>4. FilesOK' /\ CursorOK' /\ KernelOK' /\ TasksOK' /\ InfoOK'
  BY <1>3, ReadingKeeps DEF load_task_img
<1>5. /\ umem' = [task |-> i, v |-> t.v_addr, bytes |-> bytes]
      /\ files' = files /\ boot' = boot /\ kmem' = kmem /\ ktasks' = ktasks /\ image' = image
      /\ nbytes_kernel' = nbytes_kernel /\ taskinfo' = taskinfo
  BY DEF load_task_img, createimage
<1>6. i + 2 \in 1 .. NFiles /\ i \in 1 .. Len(taskinfo)
  BY <1>1, <1>2, <1>3 DEF TasksOK
<1>7. PICK p \in Nat : t = Entry(ss, p) /\ Laid(ss, image, i + 2, p, Len(ss))
  BY <1>2, <1>3, <1>6 DEF TasksOK, TaskAt
<1> DEFINE N == Len(ss)
           F == Extent(ss, N)
           M == ss[N].v - ss[1].v + ss[N].m
<1>8. t.offset = p /\ t.f_size = F /\ t.v_addr = ss[1].v /\ t.m_size = M
  BY <1>7 DEF Entry
<1> HIDE DEF t
<1>9. /\ N \in Nat \ {0} /\ N \in 1 .. N /\ F \in Nat
      /\ \A k \in 1 .. N : /\ ss[k].v \in Nat /\ ss[k].f \in Nat /\ ss[k].m \in Nat \ {0}
                           /\ ss[1].v <= ss[k].v
                           /\ (ss[k].v + ss[k].f) - ss[1].v <= F
                           /\ ss[k].v + ss[k].m <= ss[N].v + ss[N].m
      /\ ss[1].v \in Nat
  <2>1. N \in Nat \ {0}
    BY <1>2, <1>6, LayoutIs
  <2>2. N \in 1 .. Len(ss) /\ 1 \in 1 .. N /\ N \in 1 .. N
    BY <2>1
  <2> QED BY <1>2, <1>6, <2>1, <2>2, LayoutIs, ExtentIs
<1>10. M \in Nat /\ \A k \in 1 .. N : ss[k].v + ss[k].m - 1 - ss[1].v \in 0 .. M - 1
  <2> DEFINE a == ss[1].v
             b == ss[N].v
             c == ss[N].m
  <2>1. a \in Nat /\ b \in Nat /\ c \in Nat /\ a <= b /\ M = b - a + c
    BY <1>9
  <2>2. ASSUME NEW k \in 1 .. N PROVE ss[k].v + ss[k].m - 1 - a \in 0 .. M - 1
    <3> DEFINE v == ss[k].v
               m == ss[k].m
    <3>1. v \in Nat /\ m \in Nat \ {0} /\ a <= v /\ v + m <= b + c
      BY <1>9
    <3> HIDE DEF a, b, c, v, m, M
    <3>2. v + m - 1 - a \in 0 .. M - 1
      BY <2>1, <3>1
    <3> QED BY <3>2 DEF v, m
  <2> HIDE DEF a, b, c, M
  <2>3. M \in Nat
    BY <2>1
  <2> QED BY <2>2, <2>3 DEF a
<1>11. pages * PAGE_SIZE \in Nat /\ F <= pages * PAGE_SIZE /\ M <= pages * PAGE_SIZE
  <2> HIDE DEF F, M
  <2> DEFINE q == Pages(F)
             r == Pages(M)
             d == PAGE_SIZE
  <2>1. q \in Nat /\ r \in Nat /\ F <= q * d /\ M <= r * d
    BY <1>9, <1>10, PagesCover
  <2>2. pages = IF q > r THEN q ELSE r
    BY <1>8
  <2> HIDE DEF q, r, d, pages
  <2>3. d \in Nat \ {0}
    BY <1>1 DEF d
  <2>4. q * d \in Nat /\ r * d \in Nat
    BY <2>1, <2>3, MultiplesIs
  <2>5. CASE q > r
    <3>1. r * d + d <= q * d
      BY <2>1, <2>3, <2>5, MultiplesIs
    <3>2. M <= q * d
      BY <1>10, <2>1, <2>3, <2>4, <3>1
    <3> QED BY <2>1, <2>2, <2>4, <2>5, <3>2 DEF d
  <2>6. CASE ~(q > r)
    <3>1. q = r \/ q * d + d <= r * d
      BY <2>1, <2>3, <2>6, MultiplesIs
    <3>2. F <= r * d
      <4>1. CASE q = r
        BY <2>1, <4>1
      <4>2. CASE q * d + d <= r * d
        <5> DEFINE u == q * d
                   w == r * d
        <5>1. u \in Nat /\ w \in Nat /\ F \in Nat /\ F <= u /\ u + d <= w /\ d \in Nat
          BY <1>9, <2>1, <2>3, <2>4, <4>2
        <5> HIDE DEF u, w
        <5>2. F <= w
          BY <5>1
        <5> QED BY <5>2 DEF w
      <4> QED BY <3>1, <4>1, <4>2
    <3> QED BY <2>1, <2>2, <2>4, <2>6, <3>2 DEF d
  <2> QED BY <2>5, <2>6
<1>12. DOMAIN bytes = 0 .. pages * PAGE_SIZE - 1
  OBVIOUS
<1> HIDE DEF pages
<1>13. ASSUME NEW k \in 1 .. N, NEW a \in ss[k].v .. ss[k].v + ss[k].f - 1
       PROVE  a - ss[1].v \in DOMAIN bytes /\ bytes[a - ss[1].v] = Content(i + 2, a)
  <2>1. PICK c : c = a - ss[1].v
    OBVIOUS
  <2>2. c \in 0 .. F - 1
    <3> DEFINE u == ss[1].v
               v == ss[k].v
               w == ss[k].f
    <3>1. u \in Nat /\ v \in Nat /\ w \in Nat /\ u <= v /\ (v + w) - u <= F /\ F \in Nat
          /\ a \in v .. v + w - 1 /\ c = a - u
      BY <1>9, <2>1
    <3> HIDE DEF u, v, w, F
    <3> QED BY <3>1
  <2>3. p + c \in DOMAIN image /\ image[p + c] = Content(i + 2, a)
    BY <1>7, <2>1 DEF Laid
  <2> HIDE DEF F, M
  <2>4. PICK z : z = p + c
    OBVIOUS
  <2>5. /\ z \in p .. p + F /\ p + F \in Nat /\ p <= p + F /\ c \in 0 .. pages * PAGE_SIZE - 1
        /\ ~(c >= F)
    <3> DEFINE w == pages * PAGE_SIZE
    <3>1. w \in Nat /\ F <= w /\ F \in Nat
      BY <1>9, <1>11
    <3> HIDE DEF w
    <3>2. c \in Nat /\ c < F
      BY <2>2, <3>1
    <3>3. c \in 0 .. w - 1 /\ ~(c >= F)
      BY <3>1, <3>2
    <3>4. z \in p .. p + F /\ p + F \in Nat /\ p <= p + F
      BY <2>4, <3>1, <3>2
    <3> QED BY <3>3, <3>4 DEF w
  <2>6. start = lbytes2sectors(p) /\ TaskSectors(t) = lbytes2sectors(p + F) - start + 1
    BY <1>8 DEF TaskSectors
  <2> HIDE DEF start
  <2>7. /\ z - start * SECTOR_SIZE \in DOMAIN ut_buf
        /\ ut_buf[z - start * SECTOR_SIZE] = image[z]
    <3>1. z \in DOMAIN image
      BY <2>3, <2>4
    <3> QED BY <2>5, <2>6, <3>1, ReadsAll
  <2>8. uoffset + c = z - start * SECTOR_SIZE
    <3>1. start * SECTOR_SIZE \in Nat
      BY <2>6, SectorIs
    <3> QED BY <1>8, <2>2, <2>4, <3>1
  <2> HIDE DEF ut_buf, uoffset
  <2>9. c \in DOMAIN bytes /\ bytes[c] = ut_buf[uoffset + c]
    BY <1>8, <2>5, <2>7, <2>8
  <2> QED BY <2>1, <2>3, <2>4, <2>7, <2>8, <2>9
<1>14. \A k \in 1 .. N : ss[k].v + ss[k].m - 1 - ss[1].v \in DOMAIN bytes
  <2> HIDE DEF bytes, M
  <2>1. 0 .. M - 1 \subseteq DOMAIN bytes
    BY <1>10, <1>11, <1>12
  <2> QED BY <1>10, <2>1
<1> HIDE DEF bytes
<1>15. Loaded(ss, umem')
  <2>1. umem'.task = i /\ umem'.v = ss[1].v /\ umem'.bytes = bytes
    BY <1>5, <1>8
  <2> QED BY <1>13, <1>14, <2>1 DEF Loaded
<1>16. ReadOK'
  <2>1. umem'.task = i /\ umem'.task + 2 = i + 2
    BY <1>5
  <2>2. ProgramOK'
    BY <1>1, <1>5, <1>15, <2>1 DEF ProgramOK
  <2>3. BootOK'
    BY <1>2, <1>5 DEF ReadOK, BootOK
  <2> QED BY <1>2, <1>5, <2>2, <2>3 DEF ReadOK
<1> QED BY <1>4, <1>16 DEF ImageInv

-----------------------------------------------------------------------------
LEMMA ImageStep == ImageInv /\ [ImageNext]_imagevars => ImageInv'
<1> SUFFICES ASSUME ImageInv, [ImageNext]_imagevars PROVE ImageInv'
  OBVIOUS
<1>1. CASE write_segment
  BY <1>1, write_segmentKeeps
<1>2. CASE EndFile
  BY <1>2, EndFileKeeps
<1>3. CASE write_img_info
  BY <1>3, write_img_infoKeeps
<1>4. CASE BootRead
  BY <1>4, BootReadKeeps
<1>5. CASE init_taskinfo
  BY <1>5, init_taskinfoKeeps
<1>6. CASE \E i \in 1 .. NTasks : load_task_img(i)
  BY <1>6, load_task_imgKeeps
<1>7. CASE UNCHANGED imagevars
  <2>1. /\ files' = files /\ fidx' = fidx /\ seg' = seg /\ image' = image /\ phyaddr' = phyaddr
        /\ phyaddr0' = phyaddr0 /\ nbytes_kernel' = nbytes_kernel /\ taskinfo' = taskinfo
        /\ info' = info /\ boot' = boot /\ kmem' = kmem /\ ktasks' = ktasks /\ umem' = umem
    BY <1>7 DEF imagevars
  <2> QED BY <2>1 DEF ImageInv, FilesOK, CursorOK, KernelOK, TasksOK, InfoOK, ReadOK, BootOK,
                      ProgramOK
<1> QED BY <1>1, <1>2, <1>3, <1>4, <1>5, <1>6, <1>7 DEF ImageNext

\* What the invariant says is LoadedWhole.
LEMMA ImageInvIsLoaded == ImageInv => LoadedWhole
<1> SUFFICES ASSUME ImageInv PROVE LoadedWhole
  OBVIOUS
<1>1. /\ SECTOR_SIZE \in Nat \ {0} /\ NTasks \in Nat \ {0} /\ NFiles = NTasks + 2
  BY ImageNumbers
<1>2. FilesOK /\ CursorOK /\ KernelOK /\ InfoOK /\ BootOK /\ ProgramOK
  BY DEF ImageInv, ReadOK
<1>3. ASSUME info # {}, boot.left = 0
      PROVE  Holds(kmem, 0, 2)
  <2> DEFINE ss == files[2]
             N == Len(ss)
             K == NBYTES2SEC(nbytes_kernel)
  <2>1. fidx > 2 /\ nbytes_kernel \in Nat
    BY <1>1, <1>2, <1>3 DEF InfoOK, KernelOK
  <2>2. nbytes_kernel = Extent(ss, N) /\ Laid(ss, image, 2, SECTOR_SIZE, N)
    BY <1>2, <2>1 DEF KernelOK
  <2>3. K \in Nat /\ nbytes_kernel <= K * SECTOR_SIZE
    BY <2>1, SectorsCover
  <2>4. /\ boot.next - 1 = K
        /\ \A a \in 0 .. (boot.next - 1) * SECTOR_SIZE - 1 :
             SECTOR_SIZE + a \in DOMAIN image => a \in DOMAIN kmem /\ kmem[a] = image[SECTOR_SIZE + a]
    BY <1>2, <1>3, <2>3 DEF BootOK
  <2>5. 2 \in 1 .. NFiles
    BY <1>1
  <2>6. N \in Nat \ {0} /\ N \in 1 .. N
    BY <1>2, <2>5, LayoutIs
  <2>7. ss[1].v = 0
    BY <1>2, ImageAssumption DEF FilesOK
  <2>8. ASSUME NEW k \in 1 .. N, NEW a \in ss[k].v .. ss[k].v + ss[k].f - 1
        PROVE  a - 0 \in DOMAIN kmem /\ kmem[a - 0] = Content(2, a)
    <3>1. /\ ss[k].v \in Nat /\ ss[k].f \in Nat
          /\ (ss[k].v + ss[k].f) - ss[1].v <= Extent(ss, N) /\ Extent(ss, N) \in Nat
      BY <1>2, <2>5, <2>6, LayoutIs, ExtentIs
    <3>2. SECTOR_SIZE + (a - ss[1].v) \in DOMAIN image
          /\ image[SECTOR_SIZE + (a - ss[1].v)] = Content(2, a)
      BY <2>2 DEF Laid
    <3>3. a \in Nat /\ a < nbytes_kernel /\ a - ss[1].v = a /\ a - 0 = a
      <4> DEFINE v == ss[k].v
                 f == ss[k].f
                 E == Extent(ss, N)
      <4>1. v \in Nat /\ f \in Nat /\ (v + f) - 0 <= E /\ E \in Nat /\ a \in v .. v + f - 1
            /\ nbytes_kernel = E
        BY <2>2, <2>7, <3>1
      <4> HIDE DEF v, f, E
      <4>2. a \in Nat /\ a < nbytes_kernel /\ a - 0 = a
        BY <4>1
      <4> QED BY <2>7, <4>2
    <3>4. K * SECTOR_SIZE \in Nat
      BY <1>1, <2>3, MultiplesIs
    <3> HIDE DEF ss, K
    <3>5. a \in 0 .. (boot.next - 1) * SECTOR_SIZE - 1
      BY <2>1, <2>3, <2>4, <3>3, <3>4
    <3> QED BY <2>4, <3>2, <3>3, <3>5
  <2> QED BY <2>8 DEF Holds
<1>4. ASSUME umem.task # 0
      PROVE  /\ Holds(umem.bytes, umem.v, umem.task + 2)
             /\ \A k \in 1 .. Len(files[umem.task + 2]) :
                  files[umem.task + 2][k].v + files[umem.task + 2][k].m - 1 - umem.v
                    \in DOMAIN umem.bytes
  BY <1>2, <1>4 DEF ProgramOK, Loaded, Holds
<1> QED BY <1>3, <1>4 DEF LoadedWhole

\* Whatever the layouts of kernel and programs, wherever their bytes lie in sectors,
\* pages and reads: what createimage wrote is what the boot block and load_task_img()
\* put into memory.
THEOREM ImagesAreLoadedWhole == ImageSpec => []LoadedWhole
<1>1. ImageInit => ImageInv
  BY ImageInitially
<1>2. ImageInv /\ [ImageNext]_imagevars => ImageInv'
  BY ImageStep
<1>3. ImageInv => LoadedWhole
  BY ImageInvIsLoaded
<1> QED BY <1>1, <1>2, <1>3, PTL DEF ImageSpec

-----------------------------------------------------------------------------
(* Syscalls.                                                                *)

\* f ++ g
LEMMA JoinedIs ==
  ASSUME NEW f, NEW g
  PROVE  /\ DOMAIN (f ++ g) = DOMAIN f \cup DOMAIN g
         /\ \A x \in DOMAIN f : (f ++ g)[x] = f[x]
         /\ \A x \in DOMAIN g \ DOMAIN f : (f ++ g)[x] = g[x]
BY DEF ++

\* f numbers its names from lo to hi, no two alike.
Numbers(f, lo, hi) ==
  \A x \in DOMAIN f : /\ f[x] \in Nat /\ lo <= f[x] /\ f[x] <= hi
                      /\ \A y \in DOMAIN f : f[x] = f[y] => x = y

\* names is a sequence of a given length.
IsListOf(names, size) == DOMAIN names = 1 .. size /\ Len(names) = size

\* Consecutive numbers for the entries of a sequence
LEMMA NumberedIs ==
  ASSUME NEW names, NEW size \in Nat, IsListOf(names, size),
         NEW n \in Nat, NEW hi \in Int, hi = n + size - 1
  PROVE  /\ DOMAIN Numbered(n, names) = ToSet(names)
         /\ Numbers(Numbered(n, names), n, hi)
<1> DEFINE f == Numbered(n, names)
           Place(s) == CHOOSE i \in 1 .. Len(names) : names[i] = s
<1>1. Len(names) = size /\ DOMAIN names = 1 .. size
  BY DEF IsListOf
<1>2. \A s \in ToSet(names) : \E i \in 1 .. Len(names) : names[i] = s
  BY <1>1 DEF ToSet
<1>3. \A s \in ToSet(names) : Place(s) \in 1 .. Len(names) /\ names[Place(s)] = s
  BY <1>2
<1>4. DOMAIN f = ToSet(names) /\ \A s \in ToSet(names) : f[s] = n + Place(s) - 1
  BY DEF Numbered
<1> HIDE DEF f, Place
<1>5. ASSUME NEW x \in DOMAIN f
      PROVE  /\ f[x] \in Nat /\ n <= f[x] /\ f[x] <= hi
             /\ \A y \in DOMAIN f : f[x] = f[y] => x = y
  <2>1. PICK i : i = Place(x) /\ i \in 1 .. Len(names) /\ names[i] = x /\ f[x] = n + i - 1
    BY <1>3, <1>4
  <2>2. f[x] \in Nat /\ n <= f[x] /\ f[x] <= hi
    BY <1>1, <2>1
  <2>3. ASSUME NEW y \in DOMAIN f, f[x] = f[y] PROVE x = y
    <3>1. PICK j : j = Place(y) /\ j \in 1 .. Len(names) /\ names[j] = y /\ f[y] = n + j - 1
      BY <1>3, <1>4
    <3>2. i = j
      BY <1>1, <2>1, <2>3, <3>1
    <3> QED BY <2>1, <3>1, <3>2
  <2> QED BY <2>2, <2>3
<1> QED BY <1>4, <1>5 DEF Numbers, f

\* Two ranges of numbers, one behind the other
LEMMA JoinedNumbers ==
  ASSUME NEW f, NEW g, NEW a \in Nat, NEW b \in Int, NEW c \in Nat, NEW d \in Int,
         Numbers(f, a, b), Numbers(g, c, d), b < c, a <= c, b <= d
  PROVE  Numbers(f ++ g, a, d)
<1> DEFINE h == f ++ g
<1>1. /\ DOMAIN h = DOMAIN f \cup DOMAIN g
      /\ \A x \in DOMAIN f : h[x] = f[x]
      /\ \A x \in DOMAIN g \ DOMAIN f : h[x] = g[x]
  BY DEF ++
<1> HIDE DEF h
<1>2. ASSUME NEW x \in DOMAIN h
      PROVE  /\ h[x] \in Nat /\ a <= h[x] /\ h[x] <= d
             /\ x \in DOMAIN f => h[x] = f[x] /\ h[x] <= b
             /\ x \notin DOMAIN f => x \in DOMAIN g /\ h[x] = g[x] /\ c <= h[x]
  <2>1. CASE x \in DOMAIN f
    BY <1>1, <2>1 DEF Numbers
  <2>2. CASE x \notin DOMAIN f
    BY <1>1, <1>2, <2>2 DEF Numbers
  <2> QED BY <2>1, <2>2
<1>3. ASSUME NEW x \in DOMAIN h, NEW y \in DOMAIN h, h[x] = h[y]
      PROVE  x = y
  <2>1. CASE x \in DOMAIN f /\ y \in DOMAIN f
    BY <1>2, <1>3, <2>1 DEF Numbers
  <2>2. CASE x \notin DOMAIN f /\ y \notin DOMAIN f
    BY <1>2, <1>3, <2>2 DEF Numbers
  <2>3. CASE x \in DOMAIN f /\ y \notin DOMAIN f
    BY <1>2, <1>3, <2>3
  <2>4. CASE x \notin DOMAIN f /\ y \in DOMAIN f
    BY <1>2, <1>3, <2>4
  <2> QED BY <2>1, <2>2, <2>3, <2>4
<1> QED BY <1>2, <1>3 DEF Numbers, h

\* The seven lists of consecutive numbers, as sequences and as sets
ProcessList == <<"exec", "exit", "sleep", "kill", "waitpid", "ps", "getpid",
                 "yield", "taskset", "fork", "thread_create", "thread_wait",
                 "thread_exit">>
ProcessNames == {"exec", "exit", "sleep", "kill", "waitpid", "ps", "getpid",
                 "yield", "taskset", "fork", "thread_create", "thread_wait",
                 "thread_exit"}
ScreenList == <<"screen_write", "bios_getchar", "move_cursor", "reflush",
                "clear", "rclear", "set_cylim", "ulog">>
ScreenNames == {"screen_write", "bios_getchar", "move_cursor", "reflush",
                "clear", "rclear", "set_cylim", "ulog"}
TimeList == <<"get_timebase", "get_tick">>
TimeNames == {"get_timebase", "get_tick"}
LockList == <<"mlock_init", "mlock_acquire", "mlock_release", "show_task",
              "barr_init", "barr_wait", "barr_destroy", "cond_init",
              "cond_wait", "cond_signal", "cond_broadcast", "cond_destroy",
              "mbox_open", "mbox_close", "mbox_send", "mbox_recv",
              "sema_init", "sema_up", "sema_down", "sema_destroy", "sbrk",
              "shm_get", "shm_dt">>
LockNames == {"mlock_init", "mlock_acquire", "mlock_release", "show_task",
              "barr_init", "barr_wait", "barr_destroy", "cond_init",
              "cond_wait", "cond_signal", "cond_broadcast", "cond_destroy",
              "mbox_open", "mbox_close", "mbox_send", "mbox_recv",
              "sema_init", "sema_up", "sema_down", "sema_destroy", "sbrk",
              "shm_get", "shm_dt"}
NetList == <<"net_send", "net_recv", "net_send_array", "net_recv_stream">>
NetNames == {"net_send", "net_recv", "net_send_array", "net_recv_stream"}
FileList == <<"mkfs", "fsinfo", "open", "close", "changedir", "read", "write",
              "lseek", "getpath", "readdir", "mkdir", "rm", "hlink">>
FileNames == {"mkfs", "fsinfo", "open", "close", "changedir", "read", "write",
              "lseek", "getpath", "readdir", "mkdir", "rm", "hlink"}
MemoryList == <<"kprint_avail_table">>
MemoryNames == {"kprint_avail_table"}

\* What each sequence holds, and its length
LEMMA ProcessListed ==
  Len(ProcessList) = 13 /\ DOMAIN ProcessList = 1 .. 13 /\ ToSet(ProcessList) = ProcessNames
<1>1. Len(ProcessList) = 13 /\ DOMAIN ProcessList = 1 .. 13
  BY DEF ProcessList
<1>2. ASSUME NEW s \in ProcessNames PROVE \E i \in 1 .. 13 : ProcessList[i] = s
  BY <1>2 DEF ProcessList, ProcessNames
<1>3. ASSUME NEW i \in 1 .. 13 PROVE ProcessList[i] \in ProcessNames
  <2>1. \/ i = 1 \/ i = 2 \/ i = 3 \/ i = 4 \/ i = 5 \/ i = 6
          \/ i = 7 \/ i = 8 \/ i = 9 \/ i = 10 \/ i = 11 \/ i = 12
          \/ i = 13
    BY <1>3
  <2> QED BY <2>1 DEF ProcessList, ProcessNames
<1> QED BY <1>1, <1>2, <1>3 DEF ToSet

\* The same of the next list
LEMMA ScreenListed ==
  Len(ScreenList) = 8 /\ DOMAIN ScreenList = 1 .. 8 /\ ToSet(ScreenList) = ScreenNames
<1>1. Len(ScreenList) = 8 /\ DOMAIN ScreenList = 1 .. 8
  BY DEF ScreenList
<1>2. ASSUME NEW s \in ScreenNames PROVE \E i \in 1 .. 8 : ScreenList[i] = s
  BY <1>2 DEF ScreenList, ScreenNames
<1>3. ASSUME NEW i \in 1 .. 8 PROVE ScreenList[i] \in ScreenNames
  <2>1. \/ i = 1 \/ i = 2 \/ i = 3 \/ i = 4 \/ i = 5 \/ i = 6
          \/ i = 7 \/ i = 8
    BY <1>3
  <2> QED BY <2>1 DEF ScreenList, ScreenNames
<1> QED BY <1>1, <1>2, <1>3 DEF ToSet

\* The same of the next list
LEMMA TimeListed ==
  Len(TimeList) = 2 /\ DOMAIN TimeList = 1 .. 2 /\ ToSet(TimeList) = TimeNames
<1>1. Len(TimeList) = 2 /\ DOMAIN TimeList = 1 .. 2
  BY DEF TimeList
<1>2. ASSUME NEW s \in TimeNames PROVE \E i \in 1 .. 2 : TimeList[i] = s
  BY <1>2 DEF TimeList, TimeNames
<1>3. ASSUME NEW i \in 1 .. 2 PROVE TimeList[i] \in TimeNames
  <2>1. \/ i = 1 \/ i = 2
    BY <1>3
  <2> QED BY <2>1 DEF TimeList, TimeNames
<1> QED BY <1>1, <1>2, <1>3 DEF ToSet

\* The same of the next list
LEMMA LockListed ==
  Len(LockList) = 23 /\ DOMAIN LockList = 1 .. 23 /\ ToSet(LockList) = LockNames
<1>1. Len(LockList) = 23 /\ DOMAIN LockList = 1 .. 23
  BY DEF LockList
<1>2. ASSUME NEW s \in LockNames PROVE \E i \in 1 .. 23 : LockList[i] = s
  BY <1>2 DEF LockList, LockNames
<1>3. ASSUME NEW i \in 1 .. 23 PROVE LockList[i] \in LockNames
  <2>1. \/ i = 1 \/ i = 2 \/ i = 3 \/ i = 4 \/ i = 5 \/ i = 6
          \/ i = 7 \/ i = 8 \/ i = 9 \/ i = 10 \/ i = 11 \/ i = 12
          \/ i = 13 \/ i = 14 \/ i = 15 \/ i = 16 \/ i = 17 \/ i = 18
          \/ i = 19 \/ i = 20 \/ i = 21 \/ i = 22 \/ i = 23
    BY <1>3
  <2> QED BY <2>1 DEF LockList, LockNames
<1> QED BY <1>1, <1>2, <1>3 DEF ToSet

\* The same of the next list
LEMMA NetListed ==
  Len(NetList) = 4 /\ DOMAIN NetList = 1 .. 4 /\ ToSet(NetList) = NetNames
<1>1. Len(NetList) = 4 /\ DOMAIN NetList = 1 .. 4
  BY DEF NetList
<1>2. ASSUME NEW s \in NetNames PROVE \E i \in 1 .. 4 : NetList[i] = s
  BY <1>2 DEF NetList, NetNames
<1>3. ASSUME NEW i \in 1 .. 4 PROVE NetList[i] \in NetNames
  <2>1. \/ i = 1 \/ i = 2 \/ i = 3 \/ i = 4
    BY <1>3
  <2> QED BY <2>1 DEF NetList, NetNames
<1> QED BY <1>1, <1>2, <1>3 DEF ToSet

\* The same of the next list
LEMMA FileListed ==
  Len(FileList) = 13 /\ DOMAIN FileList = 1 .. 13 /\ ToSet(FileList) = FileNames
<1>1. Len(FileList) = 13 /\ DOMAIN FileList = 1 .. 13
  BY DEF FileList
<1>2. ASSUME NEW s \in FileNames PROVE \E i \in 1 .. 13 : FileList[i] = s
  BY <1>2 DEF FileList, FileNames
<1>3. ASSUME NEW i \in 1 .. 13 PROVE FileList[i] \in FileNames
  <2>1. \/ i = 1 \/ i = 2 \/ i = 3 \/ i = 4 \/ i = 5 \/ i = 6
          \/ i = 7 \/ i = 8 \/ i = 9 \/ i = 10 \/ i = 11 \/ i = 12
          \/ i = 13
    BY <1>3
  <2> QED BY <2>1 DEF FileList, FileNames
<1> QED BY <1>1, <1>2, <1>3 DEF ToSet

\* The same of the next list
LEMMA MemoryListed ==
  Len(MemoryList) = 1 /\ DOMAIN MemoryList = 1 .. 1 /\ ToSet(MemoryList) = MemoryNames
<1>1. Len(MemoryList) = 1 /\ DOMAIN MemoryList = 1 .. 1
  BY DEF MemoryList
<1>2. ASSUME NEW s \in MemoryNames PROVE \E i \in 1 .. 1 : MemoryList[i] = s
  BY <1>2 DEF MemoryList, MemoryNames
<1>3. ASSUME NEW i \in 1 .. 1 PROVE MemoryList[i] \in MemoryNames
  BY <1>3 DEF MemoryList, MemoryNames
<1> QED BY <1>1, <1>2, <1>3 DEF ToSet

\* The numbers of the kernel: no two handlers share one, and each is below NUM_SYSCALLS.
LEMMA NumbersAreUnique ==
  /\ Numbers(KernelNumber, 0, 95)
  /\ DOMAIN KernelNumber = ProcessNames \cup ScreenNames \cup TimeNames \cup LockNames
                           \cup NetNames \cup FileNames \cup MemoryNames
<1> DEFINE N0 == Numbered(0, ProcessList)
           N20 == Numbered(20, ScreenList)
           N30 == Numbered(30, TimeList)
           N40 == Numbered(40, LockList)
           N70 == Numbered(70, NetList)
           N80 == Numbered(80, FileList)
           N95 == Numbered(95, MemoryList)
<1>1. Numbers(N0, 0, 12) /\ DOMAIN N0 = ProcessNames
  <2>1. 13 \in Nat /\ 0 \in Nat /\ 12 \in Int /\ 12 = 0 + 13 - 1
    OBVIOUS
  <2>2. IsListOf(ProcessList, 13)
    BY ProcessListed DEF IsListOf
  <2>3. Numbers(N0, 0, 12) /\ DOMAIN N0 = ToSet(ProcessList)
    BY <2>1, <2>2, NumberedIs, ZenonT(30)
  <2> QED BY <2>3, ProcessListed
<1>2. Numbers(N20, 20, 27) /\ DOMAIN N20 = ScreenNames
  <2>1. 8 \in Nat /\ 20 \in Nat /\ 27 \in Int /\ 27 = 20 + 8 - 1
    OBVIOUS
  <2>2. IsListOf(ScreenList, 8)
    BY ScreenListed DEF IsListOf
  <2>3. Numbers(N20, 20, 27) /\ DOMAIN N20 = ToSet(ScreenList)
    BY <2>1, <2>2, NumberedIs, ZenonT(30)
  <2> QED BY <2>3, ScreenListed
<1>3. Numbers(N30, 30, 31) /\ DOMAIN N30 = TimeNames
  <2>1. 2 \in Nat /\ 30 \in Nat /\ 31 \in Int /\ 31 = 30 + 2 - 1
    OBVIOUS
  <2>2. IsListOf(TimeList, 2)
    BY TimeListed DEF IsListOf
  <2>3. Numbers(N30, 30, 31) /\ DOMAIN N30 = ToSet(TimeList)
    BY <2>1, <2>2, NumberedIs, ZenonT(30)
  <2> QED BY <2>3, TimeListed
<1>4. Numbers(N40, 40, 62) /\ DOMAIN N40 = LockNames
  <2>1. 23 \in Nat /\ 40 \in Nat /\ 62 \in Int /\ 62 = 40 + 23 - 1
    OBVIOUS
  <2>2. IsListOf(LockList, 23)
    BY LockListed DEF IsListOf
  <2>3. Numbers(N40, 40, 62) /\ DOMAIN N40 = ToSet(LockList)
    BY <2>1, <2>2, NumberedIs, ZenonT(30)
  <2> QED BY <2>3, LockListed
<1>5. Numbers(N70, 70, 73) /\ DOMAIN N70 = NetNames
  <2>1. 4 \in Nat /\ 70 \in Nat /\ 73 \in Int /\ 73 = 70 + 4 - 1
    OBVIOUS
  <2>2. IsListOf(NetList, 4)
    BY NetListed DEF IsListOf
  <2>3. Numbers(N70, 70, 73) /\ DOMAIN N70 = ToSet(NetList)
    BY <2>1, <2>2, NumberedIs, ZenonT(30)
  <2> QED BY <2>3, NetListed
<1>6. Numbers(N80, 80, 92) /\ DOMAIN N80 = FileNames
  <2>1. 13 \in Nat /\ 80 \in Nat /\ 92 \in Int /\ 92 = 80 + 13 - 1
    OBVIOUS
  <2>2. IsListOf(FileList, 13)
    BY FileListed DEF IsListOf
  <2>3. Numbers(N80, 80, 92) /\ DOMAIN N80 = ToSet(FileList)
    BY <2>1, <2>2, NumberedIs, ZenonT(30)
  <2> QED BY <2>3, FileListed
<1>7. Numbers(N95, 95, 95) /\ DOMAIN N95 = MemoryNames
  <2>1. 1 \in Nat /\ 95 \in Nat /\ 95 \in Int /\ 95 = 95 + 1 - 1
    OBVIOUS
  <2>2. IsListOf(MemoryList, 1)
    BY MemoryListed DEF IsListOf
  <2>3. Numbers(N95, 95, 95) /\ DOMAIN N95 = ToSet(MemoryList)
    BY <2>1, <2>2, NumberedIs, ZenonT(30)
  <2> QED BY <2>3, MemoryListed
<1>8. KernelNumber = N0 ++ N20 ++ N30 ++ N40 ++ N70 ++ N80 ++ N95
  BY DEF KernelNumber, ProcessList, ScreenList, TimeList, LockList, NetList, FileList, MemoryList
<1> HIDE DEF N0, N20, N30, N40, N70, N80, N95
<1> DEFINE J1 == N0 ++ N20
<1>9. Numbers(J1, 0, 27) /\ DOMAIN J1 = DOMAIN N0 \cup ScreenNames
  <2>1. Numbers(J1, 0, 27)
    BY <1>1, <1>2, JoinedNumbers, SMTT(30)
  <2> QED BY <1>2, <2>1, JoinedIs
<1> HIDE DEF J1
<1> DEFINE J2 == J1 ++ N30
<1>10. Numbers(J2, 0, 31) /\ DOMAIN J2 = DOMAIN J1 \cup TimeNames
  <2>1. Numbers(J2, 0, 31)
    BY <1>9, <1>3, JoinedNumbers, SMTT(30)
  <2> QED BY <1>3, <2>1, JoinedIs
<1> HIDE DEF J2
<1> DEFINE J3 == J2 ++ N40
<1>11. Numbers(J3, 0, 62) /\ DOMAIN J3 = DOMAIN J2 \cup LockNames
  <2>1. Numbers(J3, 0, 62)
    BY <1>10, <1>4, JoinedNumbers, SMTT(30)
  <2> QED BY <1>4, <2>1, JoinedIs
<1> HIDE DEF J3
<1> DEFINE J4 == J3 ++ N70
<1>12. Numbers(J4, 0, 73) /\ DOMAIN J4 = DOMAIN J3 \cup NetNames
  <2>1. Numbers(J4, 0, 73)
    BY <1>11, <1>5, JoinedNumbers, SMTT(30)
  <2> QED BY <1>5, <2>1, JoinedIs
<1> HIDE DEF J4
<1> DEFINE J5 == J4 ++ N80
<1>13. Numbers(J5, 0, 92) /\ DOMAIN J5 = DOMAIN J4 \cup FileNames
  <2>1. Numbers(J5, 0, 92)
    BY <1>12, <1>6, JoinedNumbers, SMTT(30)
  <2> QED BY <1>6, <2>1, JoinedIs
<1> HIDE DEF J5
<1> DEFINE J6 == J5 ++ N95
<1>14. Numbers(J6, 0, 95) /\ DOMAIN J6 = DOMAIN J5 \cup MemoryNames
  <2>1. Numbers(J6, 0, 95)
    BY <1>13, <1>7, JoinedNumbers, SMTT(30)
  <2> QED BY <1>7, <2>1, JoinedIs
<1> HIDE DEF J6
<1>15. KernelNumber = J6
  BY <1>8 DEF J1, J2, J3, J4, J5, J6
<1> QED BY <1>1, <1>9, <1>10, <1>11, <1>12, <1>13, <1>14, <1>15

\* and the library has the same.
LEMMA SameNumbers == UserNumber = KernelNumber
BY DEF UserNumber, KernelNumber

\* The handlers by the number of their parameters
Handlers0 == {"exit", "getpid", "yield", "ps", "fork", "thread_exit",
              "bios_getchar", "reflush", "clear", "kprint_avail_table",
              "get_timebase", "get_tick", "fsinfo"}
Handlers1 == {"kill", "waitpid", "sleep", "thread_wait", "ulog", "mlock_init",
              "mlock_acquire", "mlock_release", "sema_up", "sema_down",
              "sema_destroy", "barr_wait", "barr_destroy", "mbox_open",
              "mbox_close", "sbrk", "shm_get", "shm_dt", "mkfs", "close",
              "changedir", "getpath", "mkdir", "rm"}
Handlers2 == {"screen_write", "move_cursor", "rclear", "set_cylim",
              "sema_init", "barr_init", "net_send", "net_recv_stream", "open",
              "readdir", "hlink"}
Handlers3 == {"exec", "mbox_send", "mbox_recv", "net_recv", "net_send_array",
              "read", "write", "lseek"}
Handlers4 == {"taskset", "thread_create"}
\* How many parameters each handler has
LEMMA HandlersAre ==
  /\ DOMAIN Handlers = Handlers0 \cup Handlers1 \cup Handlers2 \cup Handlers3 \cup Handlers4
  /\ \A h \in Handlers0 : Handlers[h] = 0
  /\ \A h \in Handlers1 : Handlers[h] = 1
  /\ \A h \in Handlers2 : Handlers[h] = 2
  /\ \A h \in Handlers3 : Handlers[h] = 3
  /\ \A h \in Handlers4 : Handlers[h] = 4
<1> DEFINE E0 == Each(0, Handlers0)
           E1 == Each(1, Handlers1)
           E2 == Each(2, Handlers2)
           E3 == Each(3, Handlers3)
           E4 == Each(4, Handlers4)
<1>1. Handlers = E0 ++ E1 ++ E2 ++ E3 ++ E4
  BY DEF Handlers, Handlers0, Handlers1, Handlers2, Handlers3, Handlers4
<1>2. DOMAIN E0 = Handlers0 /\ \A h \in Handlers0 : E0[h] = 0
  BY DEF Each
<1>3. DOMAIN E1 = Handlers1 /\ \A h \in Handlers1 : E1[h] = 1
  BY DEF Each
<1>4. DOMAIN E2 = Handlers2 /\ \A h \in Handlers2 : E2[h] = 2
  BY DEF Each
<1>5. DOMAIN E3 = Handlers3 /\ \A h \in Handlers3 : E3[h] = 3
  BY DEF Each
<1>6. DOMAIN E4 = Handlers4 /\ \A h \in Handlers4 : E4[h] = 4
  BY DEF Each
<1> HIDE DEF E0, E1, E2, E3, E4
<1> DEFINE J1 == E0 ++ E1
<1>7. Handlers1 \cap (Handlers0) = {}
  BY DEF Handlers0, Handlers1
<1>8. /\ DOMAIN J1 = Handlers0 \cup Handlers1
      /\ \A h \in Handlers0 : J1[h] = 0
      /\ \A h \in Handlers1 : J1[h] = 1
  <2>1. /\ DOMAIN J1 = DOMAIN E0 \cup DOMAIN E1
        /\ \A h \in DOMAIN E0 : J1[h] = E0[h]
        /\ \A h \in DOMAIN E1 \ DOMAIN E0 : J1[h] = E1[h]
    BY DEF ++
  <2> HIDE DEF J1
  <2> QED BY <1>7, <1>2, <1>3, <2>1
<1> HIDE DEF J1
<1> DEFINE J2 == J1 ++ E2
<1>9. Handlers2 \cap (Handlers0 \cup Handlers1) = {}
  BY DEF Handlers0, Handlers1, Handlers2
<1>10. /\ DOMAIN J2 = Handlers0 \cup Handlers1 \cup Handlers2
       /\ \A h \in Handlers0 : J2[h] = 0
       /\ \A h \in Handlers1 : J2[h] = 1
       /\ \A h \in Handlers2 : J2[h] = 2
  <2>1. /\ DOMAIN J2 = DOMAIN J1 \cup DOMAIN E2
        /\ \A h \in DOMAIN J1 : J2[h] = J1[h]
        /\ \A h \in DOMAIN E2 \ DOMAIN J1 : J2[h] = E2[h]
    BY DEF ++
  <2> HIDE DEF J2
  <2> QED BY <1>9, <1>8, <1>4, <2>1
<1> HIDE DEF J2
<1> DEFINE J3 == J2 ++ E3
<1>11. Handlers3 \cap (Handlers0 \cup Handlers1 \cup Handlers2) = {}
  BY DEF Handlers0, Handlers1, Handlers2, Handlers3
<1>12. /\ DOMAIN J3 = Handlers0 \cup Handlers1 \cup Handlers2 \cup Handlers3
       /\ \A h \in Handlers0 : J3[h] = 0
       /\ \A h \in Handlers1 : J3[h] = 1
       /\ \A h \in Handlers2 : J3[h] = 2
       /\ \A h \in Handlers3 : J3[h] = 3
  <2>1. /\ DOMAIN J3 = DOMAIN J2 \cup DOMAIN E3
        /\ \A h \in DOMAIN J2 : J3[h] = J2[h]
        /\ \A h \in DOMAIN E3 \ DOMAIN J2 : J3[h] = E3[h]
    BY DEF ++
  <2> HIDE DEF J3
  <2> QED BY <1>11, <1>10, <1>5, <2>1
<1> HIDE DEF J3
<1> DEFINE J4 == J3 ++ E4
<1>13. Handlers4 \cap (Handlers0 \cup Handlers1 \cup Handlers2 \cup Handlers3) = {}
  BY DEF Handlers0, Handlers1, Handlers2, Handlers3, Handlers4
<1>14. /\ DOMAIN J4 = Handlers0 \cup Handlers1 \cup Handlers2 \cup Handlers3 \cup Handlers4
       /\ \A h \in Handlers0 : J4[h] = 0
       /\ \A h \in Handlers1 : J4[h] = 1
       /\ \A h \in Handlers2 : J4[h] = 2
       /\ \A h \in Handlers3 : J4[h] = 3
       /\ \A h \in Handlers4 : J4[h] = 4
  <2>1. /\ DOMAIN J4 = DOMAIN J3 \cup DOMAIN E4
        /\ \A h \in DOMAIN J3 : J4[h] = J3[h]
        /\ \A h \in DOMAIN E4 \ DOMAIN J3 : J4[h] = E4[h]
    BY DEF ++
  <2> HIDE DEF J4
  <2> QED BY <1>13, <1>12, <1>6, <2>1
<1> HIDE DEF J4
<1>15. Handlers = J4
  BY <1>1 DEF J1, J2, J3, J4
<1> QED BY <1>14, <1>15

\* The wrappers in g pass what the handlers of their names take.
Agrees(g) == \A w \in DOMAIN g : w \in DOMAIN Handlers /\ g[w] = Handlers[w]
\* Two tables that agree with the handlers, joined
LEMMA JoinedAgree ==
  ASSUME NEW f, NEW g, Agrees(f), Agrees(g)
  PROVE  Agrees(f ++ g)
<1> DEFINE h == f ++ g
<1>1. /\ DOMAIN h = DOMAIN f \cup DOMAIN g
      /\ \A x \in DOMAIN f : h[x] = f[x]
      /\ \A x \in DOMAIN g \ DOMAIN f : h[x] = g[x]
  BY DEF ++
<1> HIDE DEF h
<1>2. ASSUME NEW w \in DOMAIN h PROVE w \in DOMAIN Handlers /\ h[w] = Handlers[w]
  <2>1. CASE w \in DOMAIN f
    BY <1>1, <2>1 DEF Agrees
  <2>2. CASE w \notin DOMAIN f
    BY <1>1, <1>2, <2>2 DEF Agrees
  <2> QED BY <2>1, <2>2
<1> QED BY <1>2 DEF Agrees, h

\* Names that are no calls
NoCalls == {"child", "number", "invalid_syscall", "no handler"} \cup ConditionWrappers

\* Each wrapper has a handler of its name, which takes what the wrapper passes; each
\* handler has a number, and at most four parameters.
LEMMA TablesAgree ==
  /\ \A w \in DOMAIN Wrappers : w \in DOMAIN Handlers /\ Wrappers[w] = Handlers[w]
  /\ DOMAIN Handlers \subseteq DOMAIN KernelNumber
  /\ DOMAIN Handlers \cap NoCalls = {}
  /\ \A h \in DOMAIN Handlers : Handlers[h] \in 0 .. 4
<1>1. Agrees(BasicWrappers)
  BY HandlersAre DEF Agrees, BasicWrappers, Each, ++, Handlers0, Handlers1, Handlers2, Handlers4
<1>2. Agrees(ProcessWrappers)
  BY HandlersAre DEF Agrees, ProcessWrappers, Each, ++, Handlers0, Handlers1, Handlers2, Handlers3,
                     Handlers4
<1>3. Agrees(SyncWrappers)
  BY HandlersAre DEF Agrees, SyncWrappers, Each, ++, Handlers1, Handlers2, Handlers3
<1>4. Agrees(MemoryNetWrappers)
  BY HandlersAre DEF Agrees, MemoryNetWrappers, Each, ++, Handlers0, Handlers1, Handlers2, Handlers3
<1>5. Agrees(FileWrappers)
  BY HandlersAre DEF Agrees, FileWrappers, Each, ++, Handlers0, Handlers1, Handlers2, Handlers3
<1>6. Agrees(Wrappers)
  <2>1. Agrees(BasicWrappers ++ ProcessWrappers)
    BY <1>1, <1>2, JoinedAgree
  <2>2. Agrees(BasicWrappers ++ ProcessWrappers ++ SyncWrappers)
    BY <1>3, <2>1, JoinedAgree
  <2>3. Agrees(BasicWrappers ++ ProcessWrappers ++ SyncWrappers ++ MemoryNetWrappers)
    BY <1>4, <2>2, JoinedAgree
  <2> QED BY <1>5, <2>3, JoinedAgree DEF Wrappers
<1> DEFINE Named == DOMAIN KernelNumber
<1>7. /\ ProcessNames \subseteq Named /\ ScreenNames \subseteq Named /\ TimeNames \subseteq Named
      /\ LockNames \subseteq Named /\ NetNames \subseteq Named /\ FileNames \subseteq Named
      /\ MemoryNames \subseteq Named
  BY NumbersAreUnique
<1> HIDE DEF Named
<1>8. Handlers0 \subseteq Named
  BY <1>7 DEF Handlers0, ProcessNames, ScreenNames, TimeNames, FileNames, MemoryNames
<1>9. Handlers1 \subseteq Named
  BY <1>7 DEF Handlers1, ProcessNames, ScreenNames, LockNames, FileNames
<1>10. Handlers2 \subseteq Named
  BY <1>7 DEF Handlers2, ScreenNames, LockNames, NetNames, FileNames
<1>11. Handlers3 \cup Handlers4 \subseteq Named
  BY <1>7 DEF Handlers3, Handlers4, ProcessNames, LockNames, NetNames, FileNames
<1>12. DOMAIN Handlers \subseteq Named
  BY <1>8, <1>9, <1>10, <1>11, HandlersAre
<1>13. /\ Handlers0 \cap NoCalls = {} /\ Handlers1 \cap NoCalls = {} /\ Handlers2 \cap NoCalls = {}
       /\ Handlers3 \cap NoCalls = {} /\ Handlers4 \cap NoCalls = {}
  BY DEF NoCalls, ConditionWrappers, Handlers0, Handlers1, Handlers2, Handlers3, Handlers4
<1>14. DOMAIN Handlers \cap NoCalls = {}
  BY <1>13, HandlersAre
<1>15. \A h \in DOMAIN Handlers : Handlers[h] \in 0 .. 4
  BY HandlersAre
<1> QED BY <1>6, <1>12, <1>14, <1>15 DEF Agrees, Named

\* The number of a wrapper is one of the table, and the table has its handler there.
LEMMA WrapperReachesItsHandler ==
  ASSUME NEW w \in DOMAIN Wrappers
  PROVE  /\ UserNumber[w] \in Nat /\ ~(UserNumber[w] >= NUM_SYSCALLS)
         /\ init_syscall(UserNumber[w]) = w
         /\ w \notin NoCalls /\ Handlers[w] = Wrappers[w] /\ Wrappers[w] \in 0 .. 4
<1>1. /\ w \in DOMAIN Handlers /\ Handlers[w] = Wrappers[w] /\ Wrappers[w] \in 0 .. 4
      /\ w \notin NoCalls /\ w \in DOMAIN KernelNumber
  BY TablesAgree
<1>2. UserNumber[w] \in Nat /\ UserNumber[w] <= 95
  BY <1>1, NumbersAreUnique, SameNumbers DEF Numbers
<1>3. ~(UserNumber[w] >= NUM_SYSCALLS)
  BY <1>2 DEF NUM_SYSCALLS
<1> DEFINE there == {h \in DOMAIN Handlers : KernelNumber[h] = UserNumber[w]}
<1>4. there = {w}
  <2>1. w \in there
    BY <1>1, SameNumbers
  <2>2. ASSUME NEW h \in there PROVE h = w
    <3>1. h \in DOMAIN KernelNumber /\ KernelNumber[h] = KernelNumber[w]
      BY TablesAgree, SameNumbers
    <3> QED BY <1>1, <3>1, NumbersAreUnique DEF Numbers
  <2> QED BY <2>1, <2>2
<1> HIDE DEF there
<1>5. init_syscall(UserNumber[w])
       = (IF there = {} THEN "invalid_syscall" ELSE CHOOSE h \in there : TRUE)
  BY DEF init_syscall, there
<1>6. init_syscall(UserNumber[w]) = w
  BY <1>4, <1>5
<1> QED BY <1>1, <1>2, <1>3, <1>6

\* A number from 0 on finds the handler that has it, if one has.
LEMMA NumberReachesItsHandler ==
  ASSUME NEW n \in Int, n >= 0
  PROVE  /\ Numbering(n) = {} => init_syscall(n) = "invalid_syscall"
         /\ Numbering(n) # {} => /\ init_syscall(n) \in Numbering(n)
                                /\ init_syscall(n) # "invalid_syscall"
<1>1. init_syscall(n)
        = (IF Numbering(n) = {} THEN "invalid_syscall" ELSE CHOOSE h \in Numbering(n) : TRUE)
  BY DEF init_syscall, Numbering
<1>2. \A h \in Numbering(n) : h # "invalid_syscall"
  BY TablesAgree DEF Numbering, NoCalls
<1> HIDE DEF Numbering
<1> QED BY <1>1, <1>2

\* No two handlers have the same number, and none has a number past the table.
LEMMA NumberingIs ==
  ASSUME NEW n \in Int
  PROVE  /\ \A h \in Numbering(n) : Numbering(n) = {h} /\ Handlers[h] \in 0 .. 4
         /\ n >= NUM_SYSCALLS => Numbering(n) = {}
<1>1. ASSUME NEW h \in Numbering(n), NEW g \in Numbering(n) PROVE g = h
  BY TablesAgree, NumbersAreUnique, SameNumbers DEF Numbering, Numbers
<1>2. \A h \in Numbering(n) : Handlers[h] \in 0 .. 4 /\ n <= 95
  BY TablesAgree, NumbersAreUnique, SameNumbers DEF Numbering, Numbers
<1>3. n >= NUM_SYSCALLS => Numbering(n) = {}
  BY <1>2 DEF NUM_SYSCALLS
<1> QED BY <1>1, <1>2, <1>3

\* What a handler of n parameters looks at, when m arguments are passed
LEMMA ArgumentsArePassed ==
  ASSUME NEW n \in 0 .. 4, NEW m \in n .. 5
  PROVE  SubSeq(Arguments(m), 1, n) = [i \in 1 .. n |-> i]
<1> DEFINE s == Arguments(m)
           t == SubSeq(s, 1, n)
<1>1. s \in Seq(Nat) /\ Len(s) = 5 /\ \A i \in 1 .. n : s[i] = i
  <2>1. s = [i \in 1 .. 5 |-> IF i <= m THEN i ELSE 0]
    BY DEF Arguments, Ignore
  <2>2. s \in [1 .. 5 -> Nat]
    BY <2>1
  <2> HIDE DEF s
  <2>3. s \in Seq(Nat) /\ Len(s) = 5
    <3>1. s \in Seq(Nat)
      <4>1. [1 .. 5 -> Nat] \in {[1 .. k -> Nat] : k \in Nat}
        OBVIOUS
      <4> QED BY <2>2, <4>1, SeqDef
    <3>2. DOMAIN s = 1 .. 5
      BY <2>2
    <3> QED BY <3>1, <3>2, LenProperties
  <2>4. ASSUME NEW i \in 1 .. n PROVE s[i] = i
    BY <2>1, <2>4
  <2> QED BY <2>3, <2>4
<1> HIDE DEF s
<1>2. /\ t \in Seq(Nat) /\ Len(t) = n
      /\ \A i \in 1 .. n : t[i] = s[i]
  BY <1>1, SubSeqProperties
<1>3. DOMAIN t = 1 .. n /\ t = [i \in DOMAIN t |-> t[i]]
  BY <1>2, LenProperties
<1> HIDE DEF t
<1> QED BY <1>1, <1>2, <1>3 DEF t, s

\* What the call w of a process has become
Answer(w) == <<w, [i \in 1 .. Wrappers[w] |-> i]>>
RegsLoaded(w, r) == r = [args |-> Arguments(Wrappers[w]), a7 |-> UserNumber[w]]
\* What a number has become: f is the handler it has reached, with its arguments.
RawAnswer(n, f) == n < 0 \/ \E h \in Numbering(n) : f = ResultOf(h)
RawOver(n) == n < 0 \/ Numbering(n) \subseteq NoReturn
InTrap(p) ==
  \/ asked[p] = "number" /\ raw[p] \in Int /\ regs[p] = [args |-> Arguments(5), a7 |-> raw[p]]
  \/ asked[p] \in DOMAIN Wrappers /\ RegsLoaded(asked[p], regs[p])
InCall(p) ==
  \/ asked[p] = "number" /\ raw[p] \in Int /\ RawAnswer(raw[p], running[p])
  \/ asked[p] \in DOMAIN Wrappers /\ running[p] = Answer(asked[p])
Answered(p) ==
  \/ /\ asked[p] = "number"
     /\ raw[p] < 0 \/ \E h \in Numbering(raw[p]) \ NoReturn : result[p] = ResultOf(h)
  \/ asked[p] \in {"child"} \cup ConditionWrappers /\ result[p] = Zero
  \/ asked[p] \in DOMAIN Wrappers \ NoReturn /\ result[p] = Answer(asked[p])
Over(p) ==
  \/ asked[p] \in NoReturn \cup {"child"}
  \/ asked[p] = "number" /\ RawOver(raw[p])
CallOf(p) ==
  /\ where[p] \in {"user", "trapped", "handler", "gone", "lost"}
  /\ where[p] = "user" => Answered(p)
  /\ where[p] = "trapped" => InTrap(p)
  /\ where[p] = "handler" => InCall(p)
  /\ where[p] = "gone" => Over(p)
  /\ where[p] = "lost" => asked[p] = "number" /\ raw[p] < 0

\* Every process has its call.
OneEach ==
  /\ DOMAIN where = Process /\ DOMAIN regs = Process /\ DOMAIN result = Process
  /\ DOMAIN running = Process /\ DOMAIN asked = Process /\ DOMAIN raw = Process

\* The inductive invariant: what the saved registers, the running handler and a0 hold on
\* the way from the wrapper and back
CallInv ==
  /\ OneEach
  /\ \A p \in Process : CallOf(p)

Same(q) ==
  /\ where'[q] = where[q] /\ regs'[q] = regs[q] /\ result'[q] = result[q]
  /\ running'[q] = running[q] /\ asked'[q] = asked[q] /\ raw'[q] = raw[q]
\* A step is about the processes of M alone.
LEMMA OthersKeepTheirCalls ==
  ASSUME CallInv, NEW M,
         OneEach',
         \A q \in Process : q \in M => CallOf(q)',
         \A q \in Process : q \notin M => Same(q)
  PROVE  CallInv'
<1>1. ASSUME NEW q \in Process, q \notin M PROVE CallOf(q)'
  <2>1. CallOf(q) /\ Same(q)
    BY <1>1 DEF CallInv
  <2>2. Answered(q) => Answered(q)'
    BY <2>1 DEF Answered, Same
  <2>3. InTrap(q) => InTrap(q)'
    BY <2>1 DEF InTrap, Same
  <2>4. InCall(q) => InCall(q)'
    BY <2>1 DEF InCall, Same
  <2>5. Over(q) => Over(q)'
    BY <2>1 DEF Over, Same
  <2> HIDE DEF Answered, InTrap, InCall, Over
  <2> QED BY <2>1, <2>2, <2>3, <2>4, <2>5 DEF CallOf, Same
<1> QED BY <1>1 DEF CallInv

\* The step of one process; a fork moves two.
LEMMA WrapperStep ==
  ASSUME CallInv, NEW p \in Process, NEW w \in DOMAIN Wrappers, invoke_syscall(p, w)
  PROVE  CallInv'
<1>1. CallOf(p)'
  BY DEF CallInv, OneEach, invoke_syscall, CallOf, InTrap, RegsLoaded
<1>2. \A q \in Process : q \notin {p} => Same(q)
  BY DEF CallInv, OneEach, invoke_syscall, Same
<1>3. OneEach'
  BY DEF CallInv, invoke_syscall, OneEach
<1> QED BY <1>1, <1>2, <1>3, OthersKeepTheirCalls

\* A number that a program puts in a7 itself is marked as one.
LEMMA RawStep ==
  ASSUME CallInv, NEW p \in Process, NEW n \in RawNumbers, RawCall(p, n)
  PROVE  CallInv'
<1>1. CallOf(p)'
  BY SyscallsAssumption DEF CallInv, OneEach, RawCall, CallOf, InTrap
<1>2. \A q \in Process : q \notin {p} => Same(q)
  BY DEF CallInv, OneEach, RawCall, Same
<1>3. OneEach'
  BY DEF CallInv, RawCall, OneEach
<1> QED BY <1>1, <1>2, <1>3, OthersKeepTheirCalls

\* A wrapper of a condition variable gives 0 at once.
LEMMA ConditionStep ==
  ASSUME CallInv, NEW p \in Process, NEW w \in ConditionWrappers, ConditionCall(p, w)
  PROVE  CallInv'
<1>1. CallOf(p)'
  BY DEF CallInv, OneEach, ConditionCall, CallOf, Answered
<1>2. \A q \in Process : q \notin {p} => Same(q)
  BY DEF CallInv, OneEach, ConditionCall, Same
<1>3. OneEach'
  BY DEF CallInv, ConditionCall, OneEach
<1> QED BY <1>1, <1>2, <1>3, OthersKeepTheirCalls

\* What handle_syscall() does with the word f at the process's number
Dispatched(p, f) ==
  \/ /\ regs[p].a7 >= NUM_SYSCALLS \/ f = "invalid_syscall"
     /\ where' = [where EXCEPT ![p] = "gone"]
     /\ regs' = [regs EXCEPT ![p] = NoRegs] /\ UNCHANGED running
  \/ /\ f \in DOMAIN Handlers
     /\ running' = [running EXCEPT ![p] = <<f, SubSeq(regs[p].args, 1, Handlers[f])>>]
     /\ where' = [where EXCEPT ![p] = "handler"] /\ UNCHANGED regs
  \/ /\ f = "no handler"
     /\ where' = [where EXCEPT ![p] = "lost"] /\ UNCHANGED <<regs, running>>

\* It is a step of p alone.
LEMMA DispatchMoves ==
  ASSUME CallInv, NEW p \in Process, NEW f, Dispatched(p, f), UNCHANGED <<result, asked, raw>>,
         CallOf(p)'
  PROVE  CallInv'
<1>1. \A q \in Process : q \notin {p} => Same(q)
  BY DEF CallInv, OneEach, Dispatched, Same
<1>2. OneEach'
  BY DEF CallInv, OneEach, Dispatched
<1> QED BY <1>1, <1>2, OthersKeepTheirCalls

\* handle_syscall() runs the wrapper's handler with the wrapper's arguments, and the handler
\* of a number that a program has put in a7, or ends it; a negative number may do anything.
LEMMA DispatchStep ==
  ASSUME CallInv, NEW p \in Process, handle_syscall(p)
  PROVE  CallInv'
<1> DEFINE n == regs[p].a7
<1>1. PICK f \in WordAt(n) : Dispatched(p, f)
  BY DEF handle_syscall, Dispatched
<1>2. where[p] = "trapped" /\ InTrap(p) /\ UNCHANGED <<result, asked, raw>> /\ OneEach
  BY DEF CallInv, CallOf, handle_syscall
<1>6. asked[p] = "number" => asked[p] \notin DOMAIN Wrappers
  BY WrapperReachesItsHandler DEF NoCalls
<1>3. CASE asked[p] = "number" /\ raw[p] < 0
  <2>0. raw[p] \in Int
    BY <1>2, <1>3, <1>6 DEF InTrap
  <2>2. where'[p] \in {"gone", "handler", "lost"}
    BY <1>1, <1>2 DEF Dispatched, OneEach
  <2>3. InCall(p)' /\ Over(p)' /\ asked'[p] = "number" /\ raw'[p] < 0
    BY <1>2, <1>3, <2>0 DEF InCall, Over, RawOver, RawAnswer
  <2>1. CallOf(p)'
    BY <2>2, <2>3 DEF CallOf
  <2> QED BY <1>1, <1>2, <2>1, DispatchMoves
<1>4. CASE asked[p] = "number" /\ ~(raw[p] < 0)
  <2>1. n = raw[p] /\ n \in Int /\ n >= 0 /\ regs[p].args = Arguments(5)
    <3>1. raw[p] \in Int /\ regs[p] = [args |-> Arguments(5), a7 |-> raw[p]]
      BY <1>2, <1>4, <1>6 DEF InTrap
    <3> QED BY <1>4, <3>1
  <2>2. f = init_syscall(n)
    <3>1. ~(n < 0)
      BY <2>1
    <3> HIDE DEF n
    <3> QED BY <1>1, <3>1 DEF WordAt
  <2>3. CASE n >= NUM_SYSCALLS \/ f = "invalid_syscall"
    <3>1. Numbering(n) = {}
      BY <2>1, <2>2, <2>3, NumberReachesItsHandler, NumberingIs
    <3>2. f = "invalid_syscall"
      BY <2>1, <2>2, <3>1, NumberReachesItsHandler
    <3>3. f \notin DOMAIN Handlers
      BY <3>2, TablesAgree DEF NoCalls
    <3>4. where' = [where EXCEPT ![p] = "gone"]
      BY <1>1, <3>2, <3>3 DEF Dispatched
    <3>5. RawOver(raw[p])
      BY <2>1, <3>1 DEF RawOver
    <3>6. CallOf(p)'
      BY <1>2, <1>4, <3>4, <3>5 DEF OneEach, CallOf, Over
    <3> QED BY <1>1, <1>2, <3>6, DispatchMoves
  <2>4. CASE ~(n >= NUM_SYSCALLS) /\ f # "invalid_syscall"
    <3>1. f \in Numbering(n) /\ Handlers[f] \in 0 .. 4
      BY <2>1, <2>2, <2>4, NumberReachesItsHandler, NumberingIs
    <3>2. f \in DOMAIN Handlers
      BY <3>1 DEF Numbering
    <3>3. f # "no handler"
      BY <3>2, TablesAgree DEF NoCalls
    <3>4. SubSeq(regs[p].args, 1, Handlers[f]) = [i \in 1 .. Handlers[f] |-> i]
      BY <2>1, <3>1, ArgumentsArePassed
    <3>5. /\ running' = [running EXCEPT ![p] = ResultOf(f)]
          /\ where' = [where EXCEPT ![p] = "handler"]
      BY <1>1, <2>4, <3>3, <3>4 DEF Dispatched, ResultOf
    <3>6. InCall(p)'
      BY <1>2, <1>4, <2>1, <3>1, <3>5 DEF OneEach, InCall, RawAnswer
    <3>7. CallOf(p)'
      BY <1>2, <3>5, <3>6 DEF OneEach, CallOf
    <3> QED BY <1>1, <1>2, <3>7, DispatchMoves
  <2> QED BY <2>3, <2>4
<1>5. CASE asked[p] # "number"
  <2> DEFINE w == asked[p]
  <2>1. w \in DOMAIN Wrappers /\ RegsLoaded(w, regs[p])
    BY <1>2, <1>5 DEF InTrap
  <2>2. n = UserNumber[w] /\ regs[p].args = Arguments(Wrappers[w])
    BY <2>1 DEF RegsLoaded
  <2>3. /\ f = w /\ ~(n >= NUM_SYSCALLS) /\ w \notin NoCalls
        /\ Handlers[w] = Wrappers[w] /\ Wrappers[w] \in 0 .. 4
    <3>1. ~(n < 0) /\ init_syscall(n) = w
      BY <2>1, <2>2, WrapperReachesItsHandler
    <3> HIDE DEF n
    <3>2. f = w
      BY <1>1, <3>1 DEF WordAt
    <3> QED BY <2>1, <2>2, <3>2, WrapperReachesItsHandler
  <2>4. SubSeq(regs[p].args, 1, Handlers[w]) = [i \in 1 .. Wrappers[w] |-> i]
    BY <2>2, <2>3, ArgumentsArePassed
  <2>5. /\ running' = [running EXCEPT ![p] = Answer(w)]
        /\ where' = [where EXCEPT ![p] = "handler"]
    BY <1>1, <2>3, <2>4 DEF Dispatched, Answer, NoCalls
  <2>6. CallOf(p)'
    BY <1>2, <2>1, <2>5 DEF OneEach, CallOf, InCall
  <2> QED BY <1>1, <1>2, <2>6, DispatchMoves
<1> QED BY <1>3, <1>4, <1>5

\* What the handler of p has become is what the program asked for.
LEMMA HandlerAnswers ==
  ASSUME NEW p \in Process, Finished(p), InCall(p)
  PROVE  \/ /\ asked[p] = "number"
            /\ raw[p] < 0 \/ \E h \in Numbering(raw[p]) \ NoReturn : running[p] = ResultOf(h)
         \/ asked[p] \in DOMAIN Wrappers \ NoReturn /\ running[p] = Answer(asked[p])
<1>1. CASE running[p] = Answer(asked[p]) /\ asked[p] \in DOMAIN Wrappers
  <2>1. running[p][1] = asked[p]
    BY <1>1 DEF Answer
  <2> QED BY <1>1, <2>1 DEF Finished, NoReturn
<1>2. CASE asked[p] = "number" /\ RawAnswer(raw[p], running[p])
  <2>1. ASSUME NEW h \in Numbering(raw[p]), running[p] = ResultOf(h) PROVE h \notin NoReturn
    <3>1. running[p][1] = h
      BY <2>1 DEF ResultOf
    <3> QED BY <3>1 DEF Finished, NoReturn
  <2> QED BY <1>2, <2>1 DEF RawAnswer
<1> QED BY <1>1, <1>2 DEF InCall

\* A handler that returns, do_fork() without room included, puts its own result in a0.
LEMMA BackStep ==
  ASSUME CallInv, NEW p \in Process, Finished(p), BackToUser(p, running[p]), UNCHANGED <<asked, raw>>
  PROVE  CallInv'
<1>1. InCall(p)
  BY DEF CallInv, OneEach, CallOf, Finished
<1>2. CallOf(p)'
  BY <1>1, HandlerAnswers DEF CallInv, OneEach, CallOf, Answered, BackToUser
<1>3. \A q \in Process : q \notin {p} => Same(q)
  BY DEF CallInv, OneEach, BackToUser, Same
<1>4. OneEach'
  BY DEF CallInv, BackToUser, OneEach
<1> QED BY <1>2, <1>3, <1>4, OthersKeepTheirCalls

\* do_fork() gives its result to the parent and 0 to the child.
LEMMA ForkStep ==
  ASSUME CallInv, NEW p \in Process, NEW q \in Process \ {p}, ForkReturn(p, q)
  PROVE  CallInv'
<1>1. Finished(p) /\ InCall(p)
  BY DEF CallInv, OneEach, CallOf, Finished, ForkReturn
<1>2. CallOf(p)'
  BY <1>1, HandlerAnswers DEF CallInv, OneEach, CallOf, Answered, ForkReturn
<1>3. CallOf(q)'
  BY DEF CallInv, OneEach, CallOf, Answered, ForkReturn, ForkChild
<1>4. \A r \in Process : r \notin {p, q} => Same(r)
  BY DEF CallInv, OneEach, ForkReturn, Same
<1>5. OneEach'
  BY DEF CallInv, OneEach, ForkReturn
<1>6. \A r \in Process : r \in {p, q} => CallOf(r)'
  BY <1>2, <1>3
<1> QED BY <1>4, <1>5, <1>6, OthersKeepTheirCalls

\* A call that does not return was one of the two that do not, or a raw number.
LEMMA ExitStep ==
  ASSUME CallInv, NEW p \in Process, ExitCall(p)
  PROVE  CallInv'
<1>1. InCall(p) /\ running[p][1] \in NoReturn
  BY DEF CallInv, OneEach, CallOf, ExitCall, Finished, NoReturn
<1>2. Over(p)
  <2>1. CASE asked[p] \in DOMAIN Wrappers /\ running[p] = Answer(asked[p])
    BY <1>1, <2>1 DEF Answer, Over
  <2>2. CASE asked[p] = "number" /\ raw[p] \in Int /\ RawAnswer(raw[p], running[p])
    <3>1. ASSUME NEW h \in Numbering(raw[p]), running[p] = ResultOf(h)
          PROVE  Numbering(raw[p]) \subseteq NoReturn
      <4>1. running[p][1] = h
        BY <3>1 DEF ResultOf
      <4> QED BY <1>1, <2>2, <4>1, NumberingIs
    <3> QED BY <2>2, <3>1 DEF RawAnswer, Over, RawOver
  <2> QED BY <1>1, <2>1, <2>2 DEF InCall
<1>3. CallOf(p)'
  BY <1>2 DEF CallInv, OneEach, CallOf, ExitCall, Over
<1>4. \A q \in Process : q \notin {p} => Same(q)
  BY DEF CallInv, OneEach, ExitCall, Same
<1>5. OneEach'
  BY DEF CallInv, ExitCall, OneEach
<1> QED BY <1>3, <1>4, <1>5, OthersKeepTheirCalls

\* One process runs, and no call was made.
LEMMA CallInvInit == SysInit => CallInv
BY DEF SysInit, CallInv, OneEach, CallOf, Answered, Over

\* Every step keeps the invariant.
LEMMA CallInvNext == CallInv /\ [SysNext]_sysvars => CallInv'
<1> SUFFICES ASSUME CallInv, [SysNext]_sysvars PROVE CallInv'
  OBVIOUS
<1>1. ASSUME NEW p \in Process, NEW w \in DOMAIN Wrappers, invoke_syscall(p, w) PROVE CallInv'
  BY <1>1, WrapperStep
<1>2. ASSUME NEW p \in Process, NEW w \in ConditionWrappers, ConditionCall(p, w) PROVE CallInv'
  BY <1>2, ConditionStep
<1>3. ASSUME NEW p \in Process, NEW n \in RawNumbers, RawCall(p, n) PROVE CallInv'
  BY <1>3, RawStep
<1>4. ASSUME NEW p \in Process, handle_syscall(p) PROVE CallInv'
  BY <1>4, DispatchStep
<1>5. ASSUME NEW p \in Process, Return(p) PROVE CallInv'
  BY <1>5, BackStep DEF Return
<1>6. ASSUME NEW p \in Process, ForkFails(p) PROVE CallInv'
  BY <1>6, BackStep DEF ForkFails
<1>7. ASSUME NEW p \in Process, ExitCall(p) PROVE CallInv'
  BY <1>7, ExitStep
<1>8. ASSUME NEW p \in Process, NEW q \in Process \ {p}, ForkReturn(p, q) PROVE CallInv'
  BY <1>8, ForkStep
<1>9. CASE UNCHANGED sysvars
  <2> DEFINE M == {}
  <2>1. \A q \in Process : q \notin M => Same(q)
    BY <1>9 DEF Same, sysvars
  <2>2. \A q \in Process : q \in M => CallOf(q)'
    OBVIOUS
  <2>3. OneEach'
    BY <1>9 DEF CallInv, OneEach, sysvars
  <2> HIDE DEF M
  <2> QED BY <2>1, <2>2, <2>3, OthersKeepTheirCalls
<1> QED BY <1>1, <1>2, <1>3, <1>4, <1>5, <1>6, <1>7, <1>8, <1>9 DEF SysNext

\* The invariant is stronger than the property.
LEMMA CallInvGives == CallInv => CallsAnswered
<1> SUFFICES ASSUME CallInv, NEW p \in Process
             PROVE  LET w == asked[p]  n == raw[p] IN
                      CASE where[p] = "gone" ->
                             \/ w \in NoReturn \cup {"child"}
                             \/ w = "number" /\ (n < 0 \/ Numbering(n) \subseteq NoReturn)
                        [] where[p] = "lost" -> w = "number" /\ n < 0
                        [] where[p] = "user" /\ w = "number" ->
                             n < 0 \/ \E h \in Numbering(n) \ NoReturn : result[p] = ResultOf(h)
                        [] where[p] = "user" /\ w \in {"child"} \cup ConditionWrappers ->
                             result[p] = Zero
                        [] where[p] = "user" /\ w \notin {"child", "number"} \cup ConditionWrappers ->
                             /\ w \notin NoReturn
                             /\ result[p] = <<w, [i \in 1 .. Wrappers[w] |-> i]>>
                        [] OTHER -> TRUE
  BY DEF CallsAnswered
<1>1. CallOf(p)
  BY DEF CallInv
<1>2. CASE where[p] = "gone"
  BY <1>1, <1>2 DEF CallOf, Over, RawOver
<1>5. CASE where[p] = "lost"
  BY <1>1, <1>5 DEF CallOf
<1>3. CASE where[p] = "user"
  <2>1. Answered(p)
    BY <1>1, <1>3 DEF CallOf
  <2>2. asked[p] \in DOMAIN Wrappers => asked[p] \notin NoCalls
    BY WrapperReachesItsHandler
  <2>3. "number" \notin {"child"} \cup ConditionWrappers
    BY DEF ConditionWrappers
  <2>4. CASE asked[p] = "number"
    BY <1>3, <2>1, <2>2, <2>3, <2>4 DEF Answered, NoCalls
  <2>5. CASE asked[p] \in {"child"} \cup ConditionWrappers
    BY <1>3, <2>1, <2>2, <2>3, <2>5 DEF Answered, NoCalls
  <2>6. CASE asked[p] \notin {"child", "number"} \cup ConditionWrappers
    BY <1>3, <2>1, <2>6 DEF Answered, NoReturn, Answer
  <2> QED BY <2>4, <2>5, <2>6
<1>4. CASE where[p] \notin {"gone", "lost", "user"}
  BY <1>4
<1> QED BY <1>2, <1>3, <1>4, <1>5

\* The theorem: CallsAnswered of Syscalls, for any set of processes and any numbers that
\* programs put in a7, negative ones too: every wrapper reaches its own handler with its own
\* arguments and gets that handler's result, whatever the other processes call meanwhile, and
\* only a negative number makes the kernel call what is no handler.
THEOREM CallsAreAnswered == SysSpec => []CallsAnswered
<1>1. SysInit => CallInv
  BY CallInvInit
<1>2. CallInv /\ [SysNext]_sysvars => CallInv'
  BY CallInvNext
<1>3. CallInv => CallsAnswered
  BY CallInvGives
<1> QED BY <1>1, <1>2, <1>3, PTL DEF SysSpec
=============================================================================
