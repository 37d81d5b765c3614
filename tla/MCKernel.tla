------------------------------ MODULE MCKernel ------------------------------
(* Parts of the kernel and of the system around it that are modelled one   *)
(* by one, side by side: a behaviour is one of a single part, and the      *)
(* others stay as they are initially.                                      *)
EXTENDS Trap, Syscalls, Kmalloc, Umalloc, Screen, LineInput, Image, Boot

VARIABLE part    \* the model that moves

\* Scrolling regions, on the screen and not; and segments of a file, with the sizes
\* around sectors, reads and pages.
MCRegions == {<<0, 1>>, <<1, 1>>, <<0, 2>>, <<0 - 1, 1>>}
One(v, f, m) == <<[v |-> v, f |-> f, m |-> m]>>
MCBoot == {One(0, 2, 2)}
MCKernels == {One(0, n, n + 1) : n \in 3 .. 9} \cup {One(0, 3, 3) \o One(3, n, n + 2) : n \in 1 .. 3}
MCTasks == {One(8, n, n + 5) : n \in {1, 3, 4, 7, 8, 9}}
             \cup {One(8, 3, 3) \o One(8 + 3 + g, n, n + 2) : g \in {0, 1, 5}, n \in {0, 2, 4}}

\* Numbers with a handler and without, around both ends of the table
MCRaw == {0 - 1, 3, 13, 43, 48, 94, 95, 96, 97}

Parts == {"traps", "calls", "kheap", "uheap", "screen", "line", "image", "boot"}

\* A part that stays as it is has one initial state.
Sample == [i \in 1 .. NTasks + 2 |->
             IF i = 1 THEN One(0, 2, 2) ELSE IF i = 2 THEN One(0, 3, 4) ELSE One(8, 1, 6)]
Init ==
  /\ part \in Parts
  /\ SysInit /\ (part = "calls" \/ where[CHOOSE p \in Process : TRUE] = "user")
  /\ HeapInit /\ UheapInit /\ ScreenInit /\ LineInit
  /\ TrapInit /\ (part = "traps" \/ status[CHOOSE p \in User : TRUE] = "READY")
  /\ BootInit /\ (part = "boot" \/ ncpu = 2)
  /\ \/ part = "image"
     \/ part # "image" /\ files = Sample
  /\ ImageInit

Traps == part = "traps" /\ TrapNext
  /\ UNCHANGED <<part, sysvars, heapvars, uheapvars, screenvars, linevars, imagevars, bootvars>>
Calls == part = "calls" /\ SysNext
  /\ UNCHANGED <<part, trapvars, heapvars, uheapvars, screenvars, linevars, imagevars, bootvars>>
KernelHeap == part = "kheap" /\ HeapNext
  /\ UNCHANGED <<part, trapvars, sysvars, uheapvars, screenvars, linevars, imagevars, bootvars>>
UserHeap == part = "uheap" /\ UheapNext
  /\ UNCHANGED <<part, trapvars, sysvars, heapvars, screenvars, linevars, imagevars, bootvars>>
Screens == part = "screen" /\ ScreenNext
  /\ UNCHANGED <<part, trapvars, sysvars, heapvars, uheapvars, linevars, imagevars, bootvars>>
Lines == part = "line" /\ LineNext
  /\ UNCHANGED <<part, trapvars, sysvars, heapvars, uheapvars, screenvars, imagevars, bootvars>>
Images == part = "image" /\ ImageNext
  /\ UNCHANGED <<part, trapvars, sysvars, heapvars, uheapvars, screenvars, linevars, bootvars>>
Boots == part = "boot" /\ BootNext
  /\ UNCHANGED <<part, trapvars, sysvars, heapvars, uheapvars, screenvars, linevars, imagevars>>

Next ==
  \/ Traps \/ Calls \/ KernelHeap \/ UserHeap
  \/ Screens \/ Lines \/ Images \/ Boots

vars == <<part, trapvars, sysvars, heapvars, uheapvars, screenvars, linevars, imagevars, bootvars>>
Spec == Init /\ [][Next]_vars
=============================================================================
