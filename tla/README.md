# TLA+ specifications of GlucOS

GlucOS is a small operating system for RISC-V (RV64, two harts): processes and
threads, locks and mailboxes, paged memory with swapping and copy-on-write, a
file system, and a network stack with a stream protocol. This directory holds
TLA+ models of its kernel, of the boot and of the parts of its user library that
have state, the TLC configurations that check them on small instances, and TLAPS
proofs. The modelled build is the default one:
`MULTITHREADING = 1`, `NCPU = 2`, `NIC = 1`.

To check: `tlc -config MCProc.cfg MCProc` (likewise for the other runs listed in
`PROJECT.json`); to prove: `tlapm M.tla` for each module `M` whose name ends in
`_proofs`.

## 1. The system

### How the kernel runs

Every trap takes the one kernel lock (`lock_kernel()` in `kernel/smp/smp.c`,
called from `exception_handler_entry` in `arch/riscv/kernel/entry.S`) and gives
it back on the way out. Inside the kernel a hart gives up control only in
`do_scheduler()`, called from the timer, from `do_block()`, `do_sleep()`,
`do_exit()` and the like. So the unit of interleaving is the stretch between two
calls of `do_scheduler()`: a system call that does not block is one atomic step,
one that blocks is a step up to `do_block()` and another one from the wake-up on.
User code, the TLBs of the harts, the timer, the NIC and the network run freely
beside that. This is what makes the code hard: what a process looked at before
`do_block()` has changed when it comes back; processes are killed while they
wait, while they run on the other hart, or after they were woken and before they
ran; and queues, frames, blocks and PCBs are handed from one to the other on each
of these paths.

### Inventory

| Component | State it keeps | Operations | Hard behaviour | What makes it correct |
|---|---|---|---|---|
| Process table, scheduler, threads (`kernel/sched`) | PCBs with status, queue, CPU mask; circular rings `ready_queue`, `sleep_queue`, a `wait_queue` per PCB, block queues of resources; `current_running[]`; `pid_glush` | create, fork, thread create, exit, kill, wait, sleep, block, unblock, taskset, schedule, timer | kill of a process whose threads run on the other hart; rings changed while they are walked; restart of the shell | a PCB is on one CPU or in one ring, dead threads never run, waiters are woken, the search for the next process never fails, every killed process goes |
| Mutexes, semaphores, barriers (`kernel/locking/lock.c`) | status, owner, value, count, block queue | acquire, release, init, up, down, wait, destroy, release of what a killed process held | wake-up before ownership, barging, kills of waiters, reuse of a handle | mutual exclusion, counts match the queue, nobody is stranded |
| Mailboxes (`kernel/locking/mbox.c`) | ring buffer, sender and receiver queues, owner | open, close, send, recv | senders and receivers wait for each other, close while they wait | bytes come out in order, once, and waiters whose condition holds are woken |
| Virtual memory (`kernel/mm/mm.c`, `kernel/irq/irq.c`, `kernel/sched/sched-fork.c`) | `pg_charmap[]`, `pg_uva[]`, page tables, TLBs | page fault, fork, copy-on-write, sbrk, exit | two harts with TLBs that cannot be flushed remotely; allocation inside a fault evicts other pages | frames have one owner or a correct count; a process reads what it wrote |
| Swap (`kernel/mm/mm-swap.c`) | clock hand, `spg_charmap[]`, swapped pages | swap out, swap in | victim of the same process, full swap area | no page or slot is lost |
| Shared pages (`kernel/mm/mm-shared.c`) | `shm_ctrl[]`, counts | get, detach | last user exits while others come | as above |
| Kernel heap (`kernel/mm/malloc-g.c`) | blocks with header and foot, circular list of the free ones | `kmalloc_g()`, `kfree_g()` | coalescing on both sides, remainders too small to keep | blocks fill the heap, the list has the free ones, none is given twice |
| GFS (`kernel/fs`) | superblock, two bitmaps, inodes, directory and pointer blocks, open-file list, descriptors and current directory of every process | open, close, read, write, lseek, mkdir, remove, link, chdir, mkfs; fork and exit | disk full half-way through, removal of trees in use, sizes at pointer-block boundaries | bitmaps agree with the inodes, the tree is a tree, files read back, what is in use stays |
| GFS block cache (`gfs-cache.c`, `gfs0.c`) | cached blocks with their last use, copies of bitmaps and inodes, the disk | read, write, allocate, mkfs, mount, restart | eviction, writes past the cache, failed writes that leave an inode changed in memory only, what survives a restart | GFS sees a disk without a cache |
| GNTP receiver (`kernel/net/net-gntp.c`) | interval list, timeout counter, buffer | receive stream | loss, duplication, reordering, timeouts | every byte in its place, the call ends |
| Network card and calls (`kernel/net/net.c`, `drivers/e1000.c`) | two descriptor rings, interrupt causes and masks, two block queues | send, send array, recv, interrupt, timer | the card moves while a call looks at it; reading a register clears causes of others | frames in order and whole; nobody sleeps for ever on what is there |
| Traps and kernel lock (`arch/riscv/kernel/entry.S`, `kernel/smp/smp.c`, `kernel/irq/irq.c`) | the lock, frames on kernel stacks, where each hart is | trap, nested fault, switch, return, first run of a new process | a lock taken by one process is given back by another; a fault inside a call | exactly the hart in the kernel has the lock; a program goes on where it was |
| System call interface (`tiny_libc/syscall.c`, `kernel/syscall`, `init_syscall()`) | saved registers, the table of handlers | some sixty wrappers, dispatch, return, fork's two returns | two lists of numbers that no header shares; calls that block while others are made; a number compared with one end of the table only | every wrapper reaches its handler with its arguments and gets its result |
| Screen (`drivers/screen.c`) | new and old buffer, cursor and scrolling region of each process | write, move, clear, scroll, reflush | only changes are sent; a write cut short | the terminal shows the buffer, cursors stay on the screen, except with a region that nobody has checked |
| Loader and image (`tools/createimage`, `bootblock.S`, `kernel/loader`) | the image, its table of programs, memory | create, boot, read the table, load | files that end inside sectors, reads limited to 64 sectors | every byte of a segment at its address |
| Boot (`arch/riscv/boot`, `head.S`, `start.S`, `init/main.c`) | page tables, temporary mapping, both harts | wake-up of the second hart, removal of the mapping, start of the shell | two harts on one set of tables; a page table reused while it is mapped | no hart runs unmapped, no process gets a table in use |
| Line input (`libs/glucose.c`, `tiny_libc`) | circular buffer | `getchar()`, `getline()` | full buffer, lines longer than the caller's array | what is typed is what is read |
| User heap (`tiny_libc/umalloc.c`) | circular free list | `malloc()`, `free()`, `morecore()` | coalescing, `sbrk` failure | nothing lost or given twice |
| Formatting and string libraries, user programs, `tools/deflate` | none that is shared | | | |

Components interact through calls under the kernel lock: locks, mailboxes and the
NIC use `do_block()`/`do_unblock()`; `do_kill()` calls `ress_release_killed()`,
`free_pages_of_proc()`, `close_all_files()`; a page fault may swap; fork copies
PCB, page table and descriptors. Every trap rests on `Trap`'s lock, every call on
the dispatch of `Syscalls`; that the kernel lock makes the stretches between two
switches atomic is what the other modules take from `Trap`.

`PROJECT.json` lists the hazards line by line, with the properties that cover
them or the reason why none does.

## 2. Modules

| Module | Models | State | Actions |
|---|---|---|---|
| `ProcTypes` | the types that `Proc` and `Sched` share | | |
| `Proc` | processes and threads without the order inside queues: what the scheduler promises the rest of the kernel | `pcb`, `current`, `glush`, `due` | one per system call, timer, wake-up of a resource, passing of time |
| `Sched` | the same with the rings as sequences, the scan order of `do_scheduler()`, walks that unlink, and every `panic_g()` | `status`, `mask`, `queue`, `current`, `glush`, `due`, `panic` | the same traps; a handler threads a state record through the C functions it calls |
| `PcbList` | `lpcb_del_node()` on a queue as a sequence, shared by the rings of `Sched`, the locks and the card | | |
| `LockTypes`, `Mutex`, `Semaphore`, `Barrier` | one lock of each kind and its users | the C struct, a `pc` per process, a ghost of what was granted | the system calls, the rest of a call after its wake-up, kill |
| `Mailbox`, `MailboxFifo` | a mailbox; the byte FIFO it implements | ring buffer with head and tail, two queues | open, close, send, recv, resume, kill |
| `Locks` | mutex, semaphore, barrier and mailbox together, so that a kill strikes everything a process uses | who uses what | composes the actions |
| `Nic` | the card's rings, the network calls, the interrupt | ring pointers and frames, `icr`, `ims`, block queues, who is in the kernel | send, recv and their continuations, interrupt, timer, kill; the card sends and receives |
| `Memory` | frames, swap, shared pages, leaf page tables, TLBs | one record `mem`, `shm`, `seg_end`, `current`; ghosts `own`, `common` (what a program expects to read), `leaked` | translate, store, page fault, fork, create, sbrk, shm get/detach, exit, switch |
| `GfsFile` | pointers, blocks and bytes of one file on a shared disk | bitmap, pointer slots, block contents, `size`, `pos` | write, read, lseek, remove, other files |
| `Gfs` | directories, links, bitmaps, open-file list, descriptors, current directories | one record `fs`, `flist`, `fds`, `cwd` | open, creat, close, mkdir, remove, hlink, changedir, mkfs, create, fork, exit |
| `GfsCache`, `GfsDisk` | cache, bitmap and inode copies over the disk; the disk without a cache they implement | disk, copies, cached blocks; ghosts for the last use and for unsaved inodes | read, write, allocate, free, inodes, failed write, mkfs, mount, restart |
| `Gntp` | the stream receiver, a lossy network, an external sender | interval list, buffer, `time`, `seq_max`, ring, frames in flight | the two branches of the receive loop, wake-up, network and sender steps |
| `Trap` | trap entry and exit, kernel lock, frames | where each hart is, `lock`, frames of each process | trap, lock, handlers, nested fault, switch, kill, unlock, restore |
| `Syscalls` | wrappers, numbers, table, dispatch | saved registers and call of each process | call, raw number, dispatch, return |
| `Kmalloc`, `Umalloc` | the two heaps | headers, feet, links, starting point | allocate, free, `morecore()` |
| `Screen`, `LineInput` | output and input of characters | buffers, cursors, terminal; circular buffer, line so far | the driver's calls; keys, `getchar()`, `getline()` |
| `Image` | createimage, boot block and loader | image, memory | write the image, boot, read the table, load |
| `Boot` | both harts from the boot block to the shell | place and paging of each hart, page tables, lock, IPI | one per stretch of `main()`, `main_s()` and the assembly before them |

`MC*.tla` give values and symmetry sets. `MCWaking`, `MCStorage` and `MCKernel`
also put modules that do not act on each other side by side: a variable `part`
says which of them moves, and the others stay in their initial state. So a
behaviour of such a run is a behaviour of one module, and its state space is the
sum and not the product of theirs.

A definition whose comment says
"Mutant of X" is a plausible bug of X; `PROJECT.json` says which property finds
it. No run uses mutants.

### Correspondence with the code

*Proc and Sched.* A thread is a pair of PID and TID. Status values are those of
`task_status_t` plus FREE. The queue a PCB is linked in is `phead`. In `Sched` a
ring is a sequence whose first element is the head; `lpcb_insert_node()`,
`lpcb_del_node()`, the walk of `check_sleeping()` and the scan of
`do_scheduler()` (reaping EXITED and ZOMBIE PCBs on its way) keep their order.
A walk is a fold over its turns, each of which takes the state and the PCB the walk is
at and leaves others or ends the walk; a walk that had not ended after one turn more
than the ring is long would be recorded as a panic, so `SchedInv` shows that walks end.
What a handler does by values that the model does not have is an oracle: how many
sleepers of each NIC queue `check_sleeping_on_nic()` lets go, how many of every other
resource `ress_release_killed()` lets go for each process killed in the handler
(any number from none to all, as the loops of `net.c` and `lock.c` do), and whether
there is memory for a new shell.
`Sched` is shown to implement `Proc` (`ImplementsProc`).

*Locks.* A call is split at its `do_block()`. `do_unblock()` makes the process
"woken"; it goes on when the scheduler picks it, and until then another process
may take the lock. `Kill` is `ress_release_killed()` for everything the process
uses. A *scenario* says who uses what and who may be killed; it never changes.

*Mailbox.* The ring has one slot more than it holds bytes, as in the code.
Messages carry who sent them and the byte's number, so that `ImplementsFifo`
notices any byte that is lost, doubled or moved.

*Memory.* A page-table entry has the place of the page (frame, swap slot, none)
and the bits A, W, COW and SHARED. A hart fills its TLB by itself (`Walk`) and
stores through it (`Store`), without a look at the page table; `switch_to` flushes
it, the fault handler flushes one page, `swap_to_disk()` the local TLB. Swapping
picks its victim by the clock with the code's conditions. A panic sets
`mem.halt`; running out of victims or of swap space has a halt of its own, since
`docs/README-P4.md:134` accepts them.

*GfsFile.* The direct pointers, `idptr`, its pointers, `diptr` and its two levels
form one sequence of slots, in file order, which is the order in which
`do_write()` fills invalid pointers. Byte *i*, when written by a program, has the
value *i* + 1. The recursive call of `do_write()` for zero padding, the four error
exits and what each leaves behind in `pos`, `size` and the pointers are kept.

*Gfs.* Directory blocks hold `DENT_PER_BLOCK` entries, "." and ".." among them.
`GFS_add_dentry()` writes the block at once and leaves the inode to its caller,
so a failing caller leaves what the code leaves. The two exits of `do_mkdir()` that
free the new inode may leave an entry that names it (ghost `dangling`); the comment there
says that this is not dealt with, and the model stops. `GFS_remove_file_or_dir()` is
recursive, as in the code. The kernel copy `gfsc_inodes` is the only copy of an
inode that is read, so inode writes are simple assignments.

*GfsCache.* An operation returns through `cout`, and `GfsDisk` says what a disk
without a cache would return. Bitmaps are written by sectors; that two inodes
share a sector and that `mkfs` writes past the cache are kept. A restart keeps the
disk and nothing else. `do_write()` works on the copy of the inode in memory, and
three exits (and the end of its process by a page fault) come before
`GFS_write_inode()`: `do_write_fails`. The copy is then ahead of the disk (ghost
`unsaved`) until an inode of the same sector is written; a restart before that brings
back the inode as it was. `GfsDisk` says so too: it has the inodes that would come
back (`saved`). `gfsc_lru_aseq[]` is a function from places to
slots that an access shifts, as the loop in the code does; the ghost `newer` is the
order of last use it has to reproduce.

*Nic.* A call holds the kernel lock but not the card: it is cut where it reads a
register, so that the card's `Transmit` and `Receive` come in between. Frames are
numbered in the order of their queueing or arrival.

*Trap.* `at` says where a hart is between the trap and `sret`; the frames of a
process are a sequence, longer than one when a page fault hits inside a call.
Handlers are reduced to who runs next and what they push or pop.

*Syscalls.* The user's and the kernel's lists of numbers are written down from
their two headers, the table from `init_syscall()`. Argument *i* is the value *i*,
so a swapped or dropped one is seen in the result. `handle_syscall()` compares the
signed number only with the end of the table: for a negative one `WordAt` allows any
word, a handler or not; when it calls what is no handler, the process is "lost" and the
model stops.

*Kmalloc, Umalloc.* Memory is counted in units of a header. The free lists are
functions from header to header, walked as the code does.

*Screen, LineInput.* A terminal prints, wraps and moves its cursor by escape sequences;
`screen_reflush()` sends what differs. `screen_set_cylim()` stores any two integers; a
scroll that goes past the buffer sets `overrun`, and the model stops. A key is an action
inside `getchar()`'s loop.

*Image.* A byte is named by file and address, so `LoadedWhole` notices one that is
lost, moved or overwritten. *Boot.* Page tables are numbered as `setup_vm()` and
`init_mm()` take them; `Fetches` is what a hart needs to go on.

*Gntp.* `dlist` is the list from `dlh` on. A turn of the loop with a frame is
`Packet`, one without is `Idle`, which ends in `do_block()`. The sender is not in
the repository; it is assumed to send every segment once and to answer RSD.

## 3. Runs

| Run | Instance | What it shows |
|---|---|---|
| `proc` | 2 CPUs, PIDs up to 3 (the two idle processes included), 2 threads each, 5 PCBs, one resource | `ProcInv` holds in all interleavings, the table never overflows (`TableFits`), a thread of a killed process never gets back to a live status (`KilledStaysKilled`) |
| `sched` | the same size, system calls for life and death, fair timers | `SchedInv`: no panic, no PCB in two rings; `Sched` implements `Proc`; killed processes exit, exited ones are reaped, ready ones run |
| `sched_block` | 2 CPUs; two user processes that sleep, wait for the card and change CPU affinity, or three that also wait for a lock; exec, exit, kill | `SchedInv`, refinement, `cpu_mask` respected, due sleepers woken by the walk of `check_sleeping()`, while one handler lets any number of waiters go, also in the middle of a walk |
| `sched_sleepers` | 3 processes that sleep, fork and exit | **violation**: an exited PCB may never be reaped |
| `sync` | 3 processes that may all be killed; mutex, semaphore and barrier together, or a mailbox of 2 bytes with messages of 1 and 2 | exclusion and counts (`MutexInv`, `SemInv`, `BarrierInv`), queues and room (`MailboxInv`), the mailbox implements a FIFO; waiters and receivers are stranded only by a kill |
| `mailbox_closed` | the same mailbox | **violation**: a waiter of a closed mailbox may miss the close |
| `waking` | 3 processes at a mutex or a barrier, nobody killed; or 2 processes at a card with 3 and 3 descriptors, sends of 1 and 2 frames, receptions of 1 and 2, kills | whoever waits is woken; frames leave and arrive in order, none overwritten |
| `memory` | 2 harts, 2 processes, 2 frames, 1 swap page, 2 pages, 1 shared key | frames and swap slots accounted for and no panic, no TLB entry to a frame that was lost, every process reads its own data |
| `fork_tlb` | the same | **violation**: the parent's stale TLB entry lets it write the child's page after fork |
| `storage` | names: 2 processes, 2 names, 4 inodes, 4 blocks of 3 entries, 1 descriptor each, 2 links; one file: 1 direct pointer, 2 pointers per block, 2-byte blocks, 7 blocks, positions to 9, another file; cache: 4 blocks in 3 slots, or 2 bitmap sectors of 2 bits and 3 inodes, 2 in a sector | tree and bitmaps agree and what is in use is kept; block accounting in every failure and exact read-back; the cache is coherent and implements a disk without a cache, failed writes and restarts included |
| `gntp` | segments of 2, 1 and 2 bytes, request of 4, sender's window of 3, 2 faults, ring of 2 | exact delivery and completion |
| `kernel` | traps: 2 CPUs, 2 users; calls: 2 processes, all wrappers, raw numbers below the table, at its holes and at its end; heaps of 16 and 15 units; screen of 3 by 2, regions on it, below it and none; input buffer of 4; image with sectors and pages of 4 bytes, 2 programs; boot with 1 and 2 harts, 5 page tables | the kernel lock excludes and every trap returns to its place (`KernelExclusive`); calls reach their handlers (`CallsAnswered`); both heaps are sound; the terminal shows the screen; lines are read as typed; images are loaded whole; the boot is safe |

### Bounds and why they suffice

*proc, sched.* Two CPUs have an idle process each; besides them there are one or
two user processes with two threads each. That is enough for a killer on
one CPU and a victim with one thread running on the other CPU and one waiting,
for a table that is full when the shell restarts, and for a zombie thread next to
an exited main thread. Timers need no counter: `due` says which sleepers' time
has come. In `sched_block`, two user processes are a receiver and a sleeper, or two
receivers, for the timer to wake at once; with three, two wait for what the third
one holds when it is killed. The three keep the CPU affinity they
start with and do not sleep (the constraint `TwoOrThree` of `MCSched`).

*sync, waking.* Three processes are an owner, a woken waiter and one that
barges in. A ring of two bytes wraps in every position. With three descriptors the
transmit ring is full after two frames, so that a send of two has to wait half-way;
half of the receive ring is one frame, so one reception is the timer's business
and the other one is not. All processes of a scenario of `waking` do the same, so
one of them is watched. `MaxDebt` and `MaxCredit` bound the semaphore.

*memory.* Two frames for up to four private pages make every allocation swap; one
swap slot makes swap fill up; two processes share, fork, and exit in either
order. Values 0 and 1 tell apart stale and new data.

*storage, one file.* The file needs direct, indirect and two double indirect pointer
blocks for five data blocks; eight blocks would be needed and there are seven, so
writes fail at each of the borders. `MaxPos`, `MaxLen`, `MaxOther` are bounds.

*storage, names.* A directory with a second name needs the indirect block. Four blocks let
a directory with two blocks exist and the disk run out in each step of `do_mkdir`
and `GFS_add_dentry()`. Paths have at most one directory before the last name;
with the current directory they still reach every inode.

*storage, cache.* Four blocks in three slots evict on every pattern of use, and
allocation crosses from one bitmap sector to the next. One value is enough: a
block is old, written, or the new root. Two of three inodes share a sector, so the
write of one saves what a failed write has made of the other. Blocks, and the bitmap
with the inodes, take turns (`OnlyBlocks`, `OnlyTables`): no operation but `mkfs` and
a restart touches both. The proof covers them together.

*kernel.* Two CPUs and two users give a holder, a waiter for the lock, a process
to switch to and one to kill. In the heaps, blocks of all sizes fit between
neighbours that are free or not, with remainders just below and above what is
kept, and `sbrk` runs out. On a screen of three by two every write wraps or
scrolls; `MaxTorn` bounds writes cut short. The regions are the whole screen, its last line,
one that ends below it and one that begins above it. A buffer of four is filled by a line
longer than a caller's array of 2 and 3. Segments end just before, at and after
the border of a sector, a page and a read (`ReadMax`, 64 in the code).

*gntp.* Three segments are needed for a segment that joins both neighbours; two faults
lose an answer and its repetition. The window has room for the first two segments only:
the third waits for an acknowledgement, which may be lost. `GNTP_TIMEOUT = 1` keeps the
two thresholds of the timeout apart.

### Fairness

*sched:* each CPU keeps taking timer interrupts (`set_preempt()` re-arms the timer
before it reschedules; user mode and the idle loops run with interrupts on), a
killed thread in user mode enters the kernel at its next trap, and time passes.
*waking:* the scheduler runs woken processes (shown by `sched`), programs release
the mutex they hold, and those at a barrier keep coming: without that no lock
could be shown to serve anyone. Whoever is in the kernel goes on, and the card
sends what is queued; strong fairness of the interrupt handler and of the timer's
`check_sleeping_on_nic()`, because both need the kernel lock, which system calls
take again and again, and a pending interrupt is taken at the latest in user code.
Nobody has to send frames to this machine. *sync:* its temporal properties are
action properties and need none. *gntp:* the receiver runs (it is woken by the
timer), a frame that is not among the `MaxFaults` lost ones arrives, and the
sender sends and answers. `Boot` has one assumption about time, `DelayIsEnough`:
the three seconds that `main()` waits are enough for the second hart to arrive.

Deadlock is not checked in `memory` (the model ends when memory and swap are
exhausted, as the system does), `storage` (the names stop after a dangling
entry), `gntp` (the call returns) and `kernel` (an image is loaded once, processes
of the call and trap models end, and the calls and the screen stop after a
negative number or a region below the screen has led out of the model).

### Findings

* `sched_sleepers`: `do_scheduler()` reaps only what it scans before it finds a
  process to run, and woken sleepers are put right behind the current PCB.
* `mailbox_closed`: a woken waiter infers the close from `opid`, which a new open
  may have set again.
* `fork_tlb`: `do_fork()` makes the parent's pages read-only in the page table and
  flushes no TLB.

Not run as violations, but seen in the models and listed as hazards: circles of
`do_waitpid()` through a child thread; `do_mkdir()` on a full disk leaves an entry
without an inode (`Gfs` stops there); a write that fails leaves an inode in memory which
the disk does not have, and whether it gets there depends on its neighbours (`unsaved`
in `GfsCache`); a negative call number makes the kernel call what lies before the table
(`Syscalls` stops there), and a scrolling region that ends below the screen takes a new
line past the buffer (`Screen` stops there); `do_open()` below a regular file loses an
inode (`leaky` in `Gfs`); a write that gets too few blocks may raise `size` past them
(`short` in `GfsFile`); a killed process that was woken for a mutex strands the other
waiters (`StrandedOnlyByKill` shows that nothing else does).

## 4. Proofs

A component's theorems are in a module of its own that extends it. They hold for
every value of the constants that its assumptions allow.

| Module | Theorem | What holds | Of |
|---|---|---|---|
| `Proc_proofs` | `ProcInvariant` | `ProcInv` | `Proc` |
| | `TableNeverOverflows` | `TableFits` | `Proc` |
| | `KilledNeverReturns` | `KilledStaysKilled` | `Proc` |
| `Sched_proofs` | `SchedIsSound` | `SchedInv` | `Sched` |
| | `SchedImplementsProc` | `ImplementsProc`: the rings refine `Proc` | `Sched` |
| | `SleepersAreWoken` | `DueAreWoken` | `Sched` |
| | `AffinityIsRespected` | `AffinityRespected` | `Sched` |
| `Waking_proofs` | `MutexCorrect`, `SemaphoreCorrect`, `BarrierCorrect` | `MutexInv`, `SemInv`, `BarrierInv` | `Locks` |
| | `MutexWakesKept` | `StrandedOnlyByKill` | `Locks` |
| | `MailboxCorrect` | `MailboxInv` | `Locks` |
| | `ReceiversServed` | `ReceiverStrandedOnlyByKill` | `Locks` |
| | `MailboxIsFifo` | `ImplementsFifo`: the mailbox refines `MailboxFifo` | `Locks` |
| | `RingsKeepFrames` | `RingsSound` | `Nic` |
| `Storage_proofs` | `CacheIsCoherent` | `CacheCoherent` | `GfsCache` |
| | `CacheIsInvisible` | `ImplementsDisk`: the cache refines `GfsDisk` | `GfsCache` |
| | `FileBlocksAreAccounted` | `BlocksAccounted` | `GfsFile` |
| | `FileReadsBack` | `ReadsBack` | `GfsFile` |
| `Memory_proofs` | `MemoryAccountsForFrames` | `FramesAccounted` | `Memory` |
| | `TlbsKeepNoLostFrame` | `TlbMapsOwnFrames` | `Memory` |
| | `PagesKeepTheirContents` | `OwnMemory` | `Memory` |
| `Gntp_proofs` | `StreamIsDeliveredAsSent` | `DeliveredAsSent` | `Gntp` |
| `Kernel_proofs` | `KernelIsExclusive` | `KernelExclusive` | `Trap` |
| | `BootIsSafe` | `BootSafe` | `Boot` |
| | `LinesAreAsTyped` | `LineAsTyped` | `LineInput` |
| | `ScreenIsSound` | `ScreenSound` | `Screen` |
| | `ImagesAreLoadedWhole` | `LoadedWhole` | `Image` |
| | `CallsAreAnswered` | `CallsAnswered` | `Syscalls` |
| `Heap_proofs` | `HeapIsSound` | `HeapSound` | `Kmalloc` |
| | `UheapIsSound` | `UheapSound` | `Umalloc` |

`Storage_proofs`, `Waking_proofs`, `Heap_proofs` and `Kernel_proofs` prove about the
component's own specification, which the runs `storage`, `waking` and `kernel` put
beside others that it does not share a variable with. A module that proves about
several components has one part for each, which rests on that component's own
assumption; lemmas on folds, walks and lists that several parts need come first.

### Assumptions

They are the `ASSUME`s of the modelled components, which TLC evaluates in the runs.
`ConstantsAssumption`: at least one CPU, PIDs for the idle processes, and a table
with room for more than those (`NCPU` and `UPROC_MAX` in the code).
`SchedAssumption`: the block queues are finitely many, and those of the network card
are among them.
`LockAssumption`: the PID that means "no owner" is nobody's, counts are
integers. `MailboxAssumption`: messages have 1 to
`MAX_MBOX_LENGTH` bytes, since both calls refuse others. `MemoryAssumption`:
there is a frame, a segment holds the image, the image fits into the frames,
processes are finitely many (`UPROC_MAX`), and the marks for a free and a shared
frame, a hart without a process, keys and page contents are told apart; there may
be no swap area. `TrapAssumption`: the idle loops are not user processes, the
free lock is no CPU, and there are two addresses or more, so that a trap has a
following instruction. `LineAssumption`: buffers of two characters or more (one slot
stays free) and a line feed that is not a letter. `GfsCacheAssumption`: sizes are
positive and the bitmap has a bit for each block, as `mkfs` computes it.
`GfsFileAssumption`: sizes are positive and positions end where the double indirect
block does. `GfsFileBlocksAssumption`: one inode can point at every block of the disk,
since 2^30 / 4096 blocks (`GFS_SIZE`) are fewer than the 10 + 1 + 1024 + 1 + 1024 * 1025
slots; so blocks run out before pointers do.
`KmallocAssumption`: requests are at least a header, a foot and a unit, as
`kmalloc_g()` rounds them, and the least remainder worth keeping (`EU`) is such a block
too. `UmallocAssumption`: requests have a header and a unit or more, and `morecore()`
asks for something. `ScreenAssumption`: no size is 0; a region is any two integers.
`NicAssumption`: each ring has two descriptors or more, one send fits into the ring
and a receiver asks for a frame at least.
`GntpAssumption`: finitely many cuts between segments, of which 0 is one, a request
that does not reach beyond the last, and a window, a timeout and a ring that are not 0.
`ImageAssumption`: the linker puts loadable segments in ascending order, apart and none
of them empty; the boot block has one, which fits into a sector; `riscv.lds` leaves no gap
between the segments of the kernel, which starts where it is linked.
`SyscallsAssumption`: what a program puts in `a7` is an integer, of either sign.
`BootAssumption`: there are more page tables than the three `setup_vm()` takes.
`Boot` has two harts, 0 and 1, as the code has.

### Inductive invariants

*Processes.* `ProcInv` is inductive. Its parts: types; `OneCpuEach` (a thread is on
at most one CPU, and is then RUNNING or on its way out); `QueueMatchesStatus` (the
queue a PCB is in follows from its status); `NoDanglingWait` (nobody sleeps in the
wait_queue of a freed PCB); `DyingTogether` (the threads of a killed process are
all dying); `IdleAvailable` (each CPU's idle process stays ready for it);
`MainThreadAlive`, `GlushAlive`, `DueSleeps`. `OneCpuEach` alone is not inductive:
that `do_scheduler()` picks a thread that no other CPU runs needs
`QueueMatchesStatus`; that reaping frees nothing in use needs `DyingTogether`; that
waking the waiters of a freed PCB leaves none behind needs `NoDanglingWait`; and
that there is always something to pick needs `IdleAvailable`.
The argument follows the code's calls. Lemmas about `Wake`, `KillThreads`,
`DoKill`, `AddThread`, restart of the shell, the scan and the switch of
`do_scheduler()` each say that the table they return is good if the one they get
is (`GoodTab`), and that it follows from it (`Follows`: the dead stay dead, and a
table that fits still fits); one lemma per trap puts them together. `TableFits` and
`KilledStaysKilled` come from the same lemmas. That the table fits after a restart
of the shell is the one place where a PCB is added outside a system call that has
checked for room: a dead one was freed before.

*Scheduler.* `SchedIInv` is the invariant of `Proc` for the table that the rings stand
for, and `Linked(State, c)` for every CPU: each PCB is in the one ring that its
status calls for, no ring has a PCB twice, and CPU `c` runs a PCB that is in
`ready_queue`. `SchedInv` alone is not inductive: that a walk ends, and finds a
PCB to run, needs the idle processes; that nothing frees a PCB that a CPU runs
needs `OneCpuEach` and `DyingTogether`. `Linked` holds in the middle of a handler too, so
every C function has a lemma that says what it leaves of a linked state (`Did`: who was
woken, freed, told to exit, created).
The hard part is that `do_scheduler()` and `check_sleeping()` walk a ring while they
change it. `Ahead` says that a walk which is at `p` meets `x` before it is back where it
began, in so many steps; unlinking other PCBs, linking woken ones behind the current
one and a new shell at the tail keep it (`AheadDel`, `AheadIns`, `AheadApp`). The walks
are folds over their turns, and induction over the turns (`TurnInduction`) shows that
each thread that may run is ahead until the walk meets it, that nothing it reaps is the
PCB it goes on from, and that it ends within one turn more than the ring is long: the
one for a shell that is started again. So the walk does what `Proc` leaves to a choice:
some of the dead are reaped, and an eligible thread is found if there is one
(`ScanIs`, `SchedulerMaps`). Each handler then is a step of `Proc` (`TimerMaps`,
`KillMaps`, `BlockMaps`, ...), and what is proved of `Proc` carries the invariant on.
By `ImplementsProc` the theorems about `Proc` are theorems about the rings.

*Locks.* `MutexInv`, `SemInv` and `BarrierInv` are inductive as the runs state
them, since each relates the C struct to the program counters of its users:
whoever is in the queue is at the point after `do_block()`, and the ghost counts
what was granted. A kill is one lemma per lock. In `StrandedOnlyByKill` every action
but the kill is shown to leave a woken process, an owner, or nobody in the queue.

*Mailbox.* `MailboxInv` adds to the types where the processes of both queues are
and that the count agrees with head and tail. The refinement maps the ring to the
sequence of its bytes from head to tail. A call copies its message byte by byte, in
a fold; induction over the number of bytes copied (`EnterFold`) shows that a
fold over any message puts it behind the bytes that are there, around the end of
the ring too. That a sender never sleeps beside room (part of `MailboxInv`) rests
on `recv` waking every blocked sender; `ReceiverStrandedOnlyByKill` says that the
first receiver may sleep beside its bytes only after the one ahead of it was killed.

*Block cache.* `CacheCoherent` says of an inode that memory and disk differ only if a
failed write has left it so (`unsaved`). It is inductive once the types (`CacheTypeOK`) and
`BitsInPlace` (each sector's bits are blocks of that sector) are added. It includes
that `gfsc_lru_aseq[]` is a permutation of the slots ordered by the ghost
`newer`. Each operation has a lemma that what it leaves is coherent and one that the
disk without a cache makes the same step with the same result (the write of an inode
saves those of its sector that differ); eviction needs no write-back
because writes go through, which is what coherence says.

*Memory.* `MemInv` is the conjunction of the three properties with `Working`, which
holds until `mem.halt` is set; a step that exhausts the memory leaves what there was
to look at (lemma `Stopped`). `Working` says that the tables and pages are sound
(`Sound`), that TLB entries are mapped (`TlbOk`), that the ghost's keys are those
of shared memory pages (`Keyed`), and that nothing is mapped beyond `seg_end`
(`Within`). `FramesAccounted` is not inductive: eviction changes the PTE at
`pg_uva[f]` of `pg_charmap[f]`, so that PTE must be private and in memory
(`PteOk`, `FrameOk`); the copies of one copy-on-write frame are the same page of
different processes (`CowUsers`), or `swap_from_disk()` and `do_fork()` would count
one process twice; each process uses a key's frame once (`Shm`), or `opid` and the
count of `shm_page_dt()` would part. Between `alloc_page()` and the PTE that
follows, one frame is owned and mapped by nobody: `Frames` takes the set of those
frames, which is empty between two traps. `TlbMapsOwnFrames` rests on a process
running on one hart (`OneHart`) and on `swap_to_disk()` passing over frames of
processes on other harts.
Lemmas follow the C helpers (`FreePage`, `SwapToDisk`, `AllocPage`, `DropCow`,
`CopyOnWrite`, `ForkPage`, `Detach`, ...): each returns sound memory, one frame
given out, or a halt with "no victim" or "swap full", and each flushes enough of the
local TLB. That is also the proof that no `panic_g()` among them is reached. The
three loops over pages, `do_fork()`, `load_task_img()` and `free_pages_of_proc()`,
are folds; induction over the turns (`LoopTurns`, `ForksAre`, `LoadsAre`,
`FreesAre`) carries soundness through them, and stops at a turn that exhausts the
memory.

*Network card.* A ring is a pair of positions with the numbers of its first and its
next frame (`RingOK`), and both rings of the card are one: the driver puts at one end
and the card takes at the other, or the other way round. The proof is arithmetic modulo
the length of the ring and modulo twice that length (`DistGrows`, `DistBehind`,
`RingPut`, `RingGet`). `RingsSound` is not inductive: `e1000_poll()` looks at the
DD bit of the next descriptor and not at RDH, so outside of the frames that wait there
must be none (`RestEmpty`), and a woken sender must still have a number of frames to
ask for (`AsksOK`). A put never reaches the frames that wait: for the transmit ring
because of the test in `e1000_transmit()`, for the receive ring because RDT is one
behind the first frame to take and the card stops there.

*Stream.* `GntpInv` says that the interval list is sorted with gaps and begins at 0
(`ListOK`), and that the buffer has exactly the bytes of the list (`BufferOK`). An
insertion replaces the nodes it touches by one (the lemmas before `GntpStep`), so the list
covers what it covered and the new segment, whatever the order, overlap or
repetition of the segments; the call returns when the first node reaches the end, and
then every byte is in it. The counter of timeouts is bounded in the same invariant.

*Traps.* `TrapInv` says for each place a hart can be in what the lock, the frames of
its process and the privilege bit must be (`CpuOK`), and for a process that no hart
runs that its last frame is the one of the switch (`PidOK`). That the lock is given
back by a process that did not take it is fine because the lock belongs to the
hart, which is the part `lock = h <=> InKernel(h)`.

*Boot.* `BootInv` lists for each place of either hart the state of paging, tables and
lock (`PlacesOK`, `LockOK`), and who uses each table (`TablesOK`); `BootSafe` alone says
nothing about a hart that will need a table later.

*Line input.* `LineInv` relates the string so far, the ghost of the line as edited
and the caller's length (`Edited`, `Fits`); `Queued` is the circular buffer as a
sequence, and taking and putting a character are lemmas about it.

*One file.* Blocks are given out in ascending order to the slots that a call lacks
(`Ascending`), and `RoomForBlocks` says when enough are free; from there `BlocksAccounted`
follows by itself, also when the disk runs out half-way. `ReadsBack` needs `InOrder`:
while no write was cut short (`short`), the slots in use are exactly those that
`GFS_nbytes2blocks(size)` counts. A byte's block and place come from division by
`BLOCK_SIZE`, and a write may cover any part of any number of blocks; that it
leaves every other byte alone (`WrittenAt`) rests on no block being in two slots.

*Kernel heap.* `HeapInv` says that the blocks tile the heap (`HeadsOK`, by `Tiles`), that
each foot names its head (`FeetOK`), that `next` and `last` are one ring around the free
blocks (`LinksOK`, by `Ring`) and that the blocks in use are what was given out
(`UsedOK`). `Ring` says that any set of free blocks which is not empty and closed under
`next` has all of them, so it needs no order and no length; from it the walk of
`kmalloc_g()` meets every free block. `kfree_g()` has a lemma for each
of its four cases, which inserts into the ring, grows a block in place, or removes one.

*User heap.* `UheapInv` says that the circular list ascends except at one place
(`SortedList`), that list and blocks in use tile the memory got by `morecore()`
(`Filled`), and that no two free blocks touch (`Apart`). `free()` coalesces at both sides
of the place it finds, and is shown to find the one place there is; `morecore()` frees what
`sbrk` gave, and is the only way the memory grows.

*Screen.* `ScreenSound` is nearly inductive: `ScreenInv` adds the types of regions.
`LineFeedOK` says that a new line stays on the screen for any region, or goes past the
buffer with one that ends below it. The reflush leaves out unchanged cells, so that the
terminal's own cursor, which wraps and moves by itself, must be where the driver thinks
it is whenever a cell is sent; induction over the cells (`Shows`) shows that.

*Image.* `createimage` goes back in the image only within the file it is at, so `ImageInv`
says for each file done, and for the segments of the one being written, which byte is
where (`Laid`, in `CursorOK`, `KernelOK`, `TasksOK`), and what is behind the position is
not written yet. `BootOK` adds that memory has the sectors read so far. The rest is
division: that as many sectors as `NBYTES2SEC()` and `lbytes2sectors()` count hold the last
byte of a file wherever it starts in a sector (`SectorsCover`), and as many pages
the last byte of a program in memory (`PagesCover`).

*Syscalls* (`Kernel_proofs`). `CallInv` follows each call from the wrapper and back:
while the process is trapped, its saved registers are those that the wrapper of what it
`asked` for loads; while its handler runs, `running` is that handler with exactly the
wrapper's arguments; back in user mode, `result` is what that handler returned. For a
number that the program put in `a7` itself (`raw`) the same is said of the handler with
that number; a negative one is left out there, and only with one can a process be
"lost". A step changes that for the process that takes it, and for the child of a fork
(`OthersKeepTheirCalls`). What it rests on is said of the tables as they are written in
the code, once: no two handlers share a number and all are below `NUM_SYSCALLS`
(`NumbersAreUnique`, list by list), the library's list is the same (`SameNumbers`), and
every wrapper has a handler of its name with as many parameters as the wrapper passes
(`TablesAgree`). So entry `a7` of the table is the wrapper's handler
(`WrapperReachesItsHandler`).

### Only model-checked

* Liveness (`ExitedIsReaped`, `ReadyRuns`, `WaitersAreWoken`,
  `NobodyMissesTheCard`, `Completes`) is beyond the prover.
* `Gfs` uses recursive operators, which a module with a theorem cannot reach:
  `GFS_remove_file_or_dir()` calls itself for what is in a directory. So `TreeSound`
  and `InUseIsKept` stay with TLC.
* `ForkIsolates` of `Memory` does not hold (run `fork_tlb`); `OwnMemory` is proved
  with the stores it is about recorded in `leaked`.

## 5. Plan

Done: the models, in the order processes and scheduler; locks and mailbox; memory;
files; name space; stream receiver; kernel lock and traps; network card; system
call interface; block cache; heaps; screen and line input; image and boot. Then
the proofs of section 4. Next:

1. The removal of trees in `Gfs` as a fold over finite steps, as the walks of `Sched`
   are, so that `TreeSound` can be proved.
2. Threads that share a page table in `Memory`; the path walk with
   `path_squeeze()` against a reference.

## 6. Not modelled

* Page-table pages, `pf_ymr`, `ioremap()` (used at boot only), kernel stacks and
  register contents: they follow the PCB and add no behaviour but exhaustion,
  which panics. Threads of one process on two harts with a TLB each: the run would
  take too long.
* Path strings and `path_squeeze()`, `nwr` of descriptors, directory listing and
  `fsinfo`: `Gfs` takes names that are already separated.
* Frame headers, addresses and register layout of the card; the TCP header that
  GNTP restores; a full send ring during GNTP.
* ELF parsing, `printf()`, `printk()`, string functions, matrices (`LA-MAT.c`):
  sequential code without shared state. `tools/deflate` is a third party's library
  that no target of the build uses.
* User programs: the models let a program make any call at any time.
* Power failure inside one GFS operation: GFS has no recovery code. `GfsCache`
  has restarts between operations.
* Failure of `kmalloc_g()` outside process creation and `dlist_insert()`.
* Hazards without a property, with the reasons in `PROJECT.json`: circles of
  `do_waitpid()`, a page fault that ends a process inside a mailbox's spin lock,
  the other hart's TLB after copy-on-write in a threaded process, `do_mkdir()` on
  a full disk. Two more effects are behaviour of the code that `Nic` shows and
  that nothing promises to exclude: in `check_sleeping_on_nic()` a receiver that
  wants much holds up those behind it, and other senders may keep the ring from
  ever running empty, which is what a blocked sender waits for.
