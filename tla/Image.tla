------------------------------- MODULE Image -------------------------------
(***************************************************************************)
(* The image: createimage.c lays the segments of the boot block, of the    *)
(* kernel and of the programs out in it; the boot block reads the kernel   *)
(* from it, init_taskinfo() the table of programs, and load_task_img() a   *)
(* program.  Each of them computes sectors and offsets of its own from     *)
(* what createimage left in the first sector and in the table.             *)
(*                                                                         *)
(* A byte is the name of its file with its virtual address; addresses of   *)
(* the kernel are relative to where it is linked.  An entry of the table   *)
(* takes one byte.                                                         *)
(***************************************************************************)
EXTENDS Integers, Sequences, FiniteSets, FiniteSetsExt

CONSTANTS
  SECTOR_SIZE, PAGE_SIZE,
  ReadMax,           \* sectors of one read of the disk (64)
  BootLayouts, KernelLayouts, TaskLayouts,
                     \* loadable segments of a file: sequences of [v, f, m], with the
                     \* virtual address, the size in the file and that in memory
  NTasks             \* user programs in the image

ASSUME ImageAssumption ==
  /\ {SECTOR_SIZE, PAGE_SIZE, ReadMax, NTasks} \subseteq Nat \ {0}
  \* The linker puts loadable segments in ascending order, apart and none empty.
  /\ \A s \in BootLayouts \cup KernelLayouts \cup TaskLayouts :
       /\ s \in Seq([v : Nat, f : Nat, m : Nat \ {0}]) /\ s # <<>>
       /\ \A i \in 1 .. Len(s) : s[i].f <= s[i].m
       /\ \A i, j \in 1 .. Len(s) : i < j => s[i].v + s[i].m <= s[j].v
  /\ \A s \in BootLayouts : Len(s) = 1 /\ s[1].f < SECTOR_SIZE
  \* riscv.lds leaves no gap between two segments of the kernel.
  /\ \A s \in KernelLayouts : s[1].v = 0 /\ \A i \in 1 .. Len(s) - 1 : s[i].v + s[i].f = s[i + 1].v

VARIABLES
  files,             \* the segments of each input file of createimage
  fidx, seg,         \* the loops of create_image()
  image, phyaddr,    \* the bytes written to the image, and the position in it
  phyaddr0,          \* position of the first segment of the file, 0 if there is none yet
  nbytes_kernel, taskinfo,
  info,              \* kernel_size, taskinfo_offset and tasknum in the first sector
  boot,              \* the boot block: sectors still to read and the next one
  kmem,              \* memory from the address of the kernel on
  ktasks,            \* taskinfo[] of the kernel
  umem               \* memory of the program last loaded, with its number

imagevars == <<files, fidx, seg, image, phyaddr, phyaddr0, nbytes_kernel, taskinfo,
               info, boot, kmem, ktasks, umem>>

ZeroByte == <<"zero", 0>>
Stale == <<"old", 0>>                                \* what was in memory before
Nothing == [task |-> 0, v |-> 0, bytes |-> <<>>]
Name(i) == CASE i = 1 -> "bootblock" [] i = 2 -> "main" [] OTHER -> "task"
Content(i, v) == <<Name(i), i, v>>
NBYTES2SEC(n) == n \div SECTOR_SIZE + (IF n % SECTOR_SIZE # 0 THEN 1 ELSE 0)
lbytes2sectors(n) == n \div SECTOR_SIZE
NFiles == 2 + NTasks
createimage == <<fidx, seg, image, phyaddr, phyaddr0, nbytes_kernel, taskinfo, info>>
-----------------------------------------------------------------------------
(* createimage                                                             *)

\* write_segment(): the distance of two segments is as in memory, except in the boot
\* block.
write_segment ==
  LET s == files[fidx][seg]
      p0 == IF phyaddr0 = 0 /\ fidx > 1 THEN phyaddr ELSE phyaddr0
      at == IF fidx = 1 THEN phyaddr ELSE p0 + (s.v - files[fidx][1].v) IN
  /\ fidx <= NFiles /\ seg <= Len(files[fidx])
  /\ image' = [o \in DOMAIN image \cup at .. at + s.f - 1 |->
       IF o \in at .. at + s.f - 1 THEN Content(fidx, s.v + o - at) ELSE image[o]]
  /\ phyaddr' = at + s.f /\ phyaddr0' = p0
  /\ nbytes_kernel' = IF fidx = 2 THEN nbytes_kernel + s.f ELSE nbytes_kernel
  /\ seg' = seg + 1
  /\ UNCHANGED <<files, fidx, taskinfo, info, boot, kmem, ktasks, umem>>

\* f_size of a program that starts at offset
FileSize(offset, ss) == phyaddr - offset

\* The end of a file: the boot block is padded, a program gets its entry.
EndFile ==
  LET ss == files[fidx]  n == Len(ss)
      offset == phyaddr0 IN
  /\ fidx <= NFiles /\ seg > Len(files[fidx])
  /\ phyaddr' = IF fidx = 1 /\ phyaddr < SECTOR_SIZE THEN SECTOR_SIZE ELSE phyaddr
  /\ taskinfo' = IF fidx <= 2 THEN taskinfo
                 ELSE Append(taskinfo, [offset |-> offset, f_size |-> FileSize(offset, ss),
                                        v_addr |-> ss[1].v,
                                        m_size |-> ss[n].v - ss[1].v + ss[n].m])
  /\ fidx' = fidx + 1 /\ seg' = 1 /\ phyaddr0' = 0
  /\ UNCHANGED <<files, image, nbytes_kernel, info, boot, kmem, ktasks, umem>>

write_img_info ==
  /\ fidx > NFiles /\ info = {}
  /\ image' = [o \in DOMAIN image \cup phyaddr .. phyaddr + NTasks - 1 |->
       IF o \in phyaddr .. phyaddr + NTasks - 1 THEN <<"entry", taskinfo[o - phyaddr + 1]>>
       ELSE image[o]]
  /\ info' = {[kernel_size |-> NBYTES2SEC(nbytes_kernel), taskinfo_offset |-> phyaddr,
               tasknum |-> NTasks]}
  /\ UNCHANGED <<files, fidx, seg, phyaddr, phyaddr0, nbytes_kernel, taskinfo, boot, kmem, ktasks, umem>>
-----------------------------------------------------------------------------
(* Booting from it                                                         *)

\* bios_sd_read(): n sectors from sector s on
sd_read(n, s) == [i \in 0 .. n * SECTOR_SIZE - 1 |->
                    IF s * SECTOR_SIZE + i \in DOMAIN image THEN image[s * SECTOR_SIZE + i] ELSE ZeroByte]

PowerOn(kernel_size) == [left |-> kernel_size, next |-> 1]
\* The loop of bootblock.S: at most ReadMax sectors of the kernel at a time
BootRead ==
  /\ info # {} /\ boot.left # 0
  /\ LET b == IF boot.next = 0 THEN PowerOn((CHOOSE x \in info : TRUE).kernel_size) ELSE boot
         n == IF ReadMax >= b.left THEN b.left ELSE ReadMax
         base == (b.next - 1) * SECTOR_SIZE
         read == sd_read(n, b.next) IN
     /\ kmem' = [a \in DOMAIN kmem \cup {base + i : i \in DOMAIN read} |->
                   IF a >= base THEN read[a - base] ELSE kmem[a]]
     /\ boot' = [left |-> b.left - n, next |-> b.next + n]
  /\ UNCHANGED <<files, createimage, ktasks, umem>>

\* init_taskinfo() reads the sectors that the table is in.
init_taskinfo ==
  /\ info # {} /\ boot.left = 0 /\ ktasks = <<>>
  /\ LET x == CHOOSE y \in info : TRUE
         first == lbytes2sectors(x.taskinfo_offset)
         last == lbytes2sectors(x.taskinfo_offset + x.tasknum - 1)
         read == sd_read(last - first + 1, first) IN
     ktasks' = [i \in 1 .. x.tasknum |-> read[x.taskinfo_offset - first * SECTOR_SIZE + i - 1][2]]
  /\ UNCHANGED <<files, createimage, boot, kmem, umem>>

\* Mutant of TaskSectors: without the last sector.
TaskSectorsShort(t) == lbytes2sectors(t.offset + t.f_size) - lbytes2sectors(t.offset)
\* taski_sectors
TaskSectors(t) == lbytes2sectors(t.offset + t.f_size) - lbytes2sectors(t.offset) + 1
\* load_task_img(): the pages of the file part are filled from the image, the others
\* of the program are only allocated.
load_task_img(i) ==
  LET t == ktasks[i]
      start == lbytes2sectors(t.offset)
      ut_buf == sd_read(TaskSectors(t), start)
      uoffset == t.offset - start * SECTOR_SIZE
      Pages(n) == (n + PAGE_SIZE - 1) \div PAGE_SIZE
      pages == IF Pages(t.f_size) > Pages(t.m_size) THEN Pages(t.f_size) ELSE Pages(t.m_size) IN
  /\ ktasks # <<>>
  /\ t.v_addr % PAGE_SIZE = 0 /\ TaskSectors(t) <= ReadMax
  /\ umem' = [task |-> i, v |-> t.v_addr,
              bytes |-> [a \in 0 .. pages * PAGE_SIZE - 1 |->
                 IF a >= t.f_size THEN Stale
                 ELSE IF uoffset + a \in DOMAIN ut_buf THEN ut_buf[uoffset + a] ELSE Stale]]
  /\ UNCHANGED <<files, createimage, boot, kmem, ktasks>>
-----------------------------------------------------------------------------
ImageInit ==
  /\ files \in [1 .. NFiles -> BootLayouts \cup KernelLayouts \cup TaskLayouts]
  /\ files[1] \in BootLayouts /\ files[2] \in KernelLayouts
  /\ \A i \in 3 .. NFiles : files[i] \in TaskLayouts
  /\ fidx = 1 /\ seg = 1 /\ image = <<>>
  /\ phyaddr = 0 /\ phyaddr0 = 0 /\ nbytes_kernel = 0 /\ taskinfo = <<>> /\ info = {}
  /\ boot = [left |-> 1, next |-> 0] /\ kmem = <<>> /\ ktasks = <<>> /\ umem = Nothing
ImageNext ==
  \/ write_segment \/ EndFile \/ write_img_info
  \/ BootRead \/ init_taskinfo
  \/ \E i \in 1 .. NTasks : load_task_img(i)
ImageSpec == ImageInit /\ [][ImageNext]_imagevars
-----------------------------------------------------------------------------
\* Every byte of every segment of file i is in mem, at its distance from address v.
Holds(mem, v, i) ==
  \A k \in 1 .. Len(files[i]) : \A a \in files[i][k].v .. files[i][k].v + files[i][k].f - 1 :
    a - v \in DOMAIN mem /\ mem[a - v] = Content(i, a)

\* Whatever the sizes of the files and their position relative to sectors and reads:
\* the boot block brings the whole kernel into memory, and a program that is loaded
\* has all its segments at their addresses, with memory up to the end of the last.
LoadedWhole ==
  /\ info # {} /\ boot.left = 0 => Holds(kmem, 0, 2)
  /\ umem.task # 0 =>
       /\ Holds(umem.bytes, umem.v, umem.task + 2)
       /\ LET ss == files[umem.task + 2] IN
          \A k \in 1 .. Len(ss) : ss[k].m > 0 => ss[k].v + ss[k].m - 1 - umem.v \in DOMAIN umem.bytes
=============================================================================
