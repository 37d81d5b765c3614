------------------------------ MODULE GfsFile ------------------------------
(***************************************************************************)
(* The blocks of one GFS file (kernel/fs/gfs-file.c): do_write() with its  *)
(* block allocation, zero padding and errors on a full disk, do_read(),    *)
(* do_lseek() and removal, while other files take and give back blocks.    *)
(*                                                                         *)
(* The direct, indirect and double indirect pointers of the inode form one *)
(* sequence of slots, in the order in which do_write() fills them; a slot  *)
(* holds a data block or a block of pointers.  Byte i, when a program      *)
(* writes it, gets the value i + 1, so that a byte of the wrong block or   *)
(* of the wrong place is recognised.                                       *)
(***************************************************************************)
EXTENDS Integers, FiniteSets, Sequences, SequencesExt, FiniteSetsExt

CONSTANTS
  FDirect,         \* INODE_NDPTR: direct pointers
  FPtrsPerBlock,   \* BLOCK_SIZE / sizeof(uint32_t)
  BLOCK_SIZE,      \* bytes of a block
  FBlocks,         \* data blocks of the disk
  MaxPos, MaxLen,  \* bounds of positions and of the length of one call
  MaxOther         \* bound of the blocks of other files

ASSUME GfsFileAssumption ==
  /\ {FDirect, FPtrsPerBlock, BLOCK_SIZE, FBlocks, MaxLen} \subseteq Nat \ {0}
  /\ MaxOther \in Nat
  /\ MaxPos \in 0..BLOCK_SIZE * (FDirect + FPtrsPerBlock * (1 + FPtrsPerBlock))

VARIABLES
  used,      \* the block bitmap
  ptr,       \* the pointer slots of the inode
  data,      \* contents of the disk blocks
  size, pos, \* inode.size, fds[fd].pos
  other,     \* blocks of other files
  content,   \* ghost: what was last written at each position
  short      \* ghost: a write of this file did not get all its blocks

filevars == <<used, ptr, data, size, pos, other, content, short>>

FBlock == 1..FBlocks
NoBlock == 0                     \* INODE_INVALID_PTR
Unset == 0 - 1                   \* a byte that nobody has written
Byte == 0..BLOCK_SIZE-1
Position == 0..MaxPos-1
NP == FPtrsPerBlock
Single == FDirect + 1        \* slot of idptr
Double == Single + NP + 1        \* slot of diptr
NSlots == Double + NP * (NP + 1)
FSlot == 1..NSlots

\* One inode can point at every block of the disk: 2^30 / 4096 blocks (GFS_SIZE)
\* against 10 + 1 + 1024 + 1 + 1024 * 1025 slots.
ASSUME GfsFileBlocksAssumption == FBlocks <= NSlots

\* The slot of pointer block l of the double indirect block, and that of the
\* k-th data block of the file (both from 0).
L1Slot(l) == Double + 1 + l * (NP + 1)
DataSlot(k) ==
  IF k < FDirect THEN k + 1
  ELSE IF k < FDirect + NP THEN Single + 1 + (k - FDirect)
  ELSE LET d == k - FDirect - NP IN L1Slot(d \div NP) + 1 + (d % NP)

SlotOf(i) == DataSlot(i \div BLOCK_SIZE)
Covered(p, i) == p[SlotOf(i)] # NoBlock
-----------------------------------------------------------------------------
\* The members of a set of numbers in ascending order.
Ascending(S) ==
  [j \in 1..Cardinality(S) |-> CHOOSE x \in S : Cardinality({y \in S : y < x}) = j - 1]

udiv(x, d) == (x + (d - 1)) \div d

\* Mutant of GFS_nbytes2blocks: the indirect block itself is not counted.
NBytesNoIndirect(n) == udiv(n, BLOCK_SIZE)
\* GFS_nbytes2blocks(): blocks of a file of n bytes, pointer blocks included
GFS_nbytes2blocks(n) ==
  LET direct == FDirect * BLOCK_SIZE   single == NP * BLOCK_SIZE IN
  IF n <= direct THEN udiv(n, BLOCK_SIZE)
  ELSE IF n - direct <= single THEN FDirect + 1 + udiv(n - direct, BLOCK_SIZE)
  ELSE LET rest == n - direct - single IN
       FDirect + 1 + 1 + NP + udiv(rest, BLOCK_SIZE) + udiv(rest, NP * BLOCK_SIZE)

\* GFS_alloc_in_bitmap(): the first n free blocks, or all there are
AllocBlocks(n) ==
  LET free == Ascending(FBlock \ used)
      got == SubSeq(free, 1, Min({n, Len(free)})) IN
  [aptr |-> got, used |-> used \cup ToSet(got)]

\* The part of do_write() that gives the new blocks to the invalid pointers, in
\* file order.
Fill(p, aptr) ==
  LET free == Ascending({s \in FSlot : p[s] = NoBlock}) IN
  [s \in FSlot |-> IF \E j \in 1..Min({Len(aptr), Len(free)}) : free[j] = s
                  THEN aptr[CHOOSE j \in 1..Len(aptr) : free[j] = s] ELSE p[s]]

\* write_file_on_ptr_arr() along the pointers p, called for the direct, the
\* indirect and the double indirect blocks: bytes are written up to the first
\* one that has no block.  Stopping among the pointers of the double indirect
\* block is not noticed.
Put(p, from, len) ==
  LET holes == {i \in from..from+len-1 : ~Covered(p, i)}
      stop == IF holes = {} THEN from + len ELSE Min(holes)
      k == stop \div BLOCK_SIZE
      l == (k - FDirect - NP) \div NP
      noticed == \/ k < FDirect + NP \/ p[Double] = NoBlock
                 \/ p[L1Slot(l)] # NoBlock /\ l + 1 < NP /\ p[L1Slot(l + 1)] # NoBlock IN
  [n |-> stop - from,
   ret |-> IF holes = {} THEN "all" ELSE IF noticed THEN "error" ELSE "less"]

\* What do_write() puts at position i: zero when its buf is NULL.
ByteAt(zero, i) == IF zero THEN 0 ELSE i + 1

\* The blocks after bytes from..from+n-1 are written.
Written(d, p, from, n, zero) ==
  [b \in FBlock |-> [o \in Byte |->
     LET is == {i \in from..from+n-1 : p[SlotOf(i)] = b /\ i % BLOCK_SIZE = o}
     IN IF is = {} THEN d[b][o] ELSE ByteAt(zero, CHOOSE i \in is : TRUE)]]
Noted(c, from, n, zero) ==
  [i \in Position |-> IF i \in from..from+n-1 THEN ByteAt(zero, i) ELSE c[i]]

\* do_write() of len bytes at pos.  Blocks stay with the inode even when the
\* write fails.
do_write(len) ==
  LET need == GFS_nbytes2blocks(pos + len) - GFS_nbytes2blocks(size)
      a == IF need > 0 THEN AllocBlocks(need) ELSE [aptr |-> <<>>, used |-> used]
      p == Fill(ptr, a.aptr)
      npd == Max({0, pos - size})
      z == Put(p, size, npd)          \* the recursive do_write(fd, NULL, npd)
      zdata == Written(data, p, size, z.n, TRUE)
      zcont == Noted(content, size, z.n, TRUE)
      w == Put(p, pos, len) IN
  /\ pos + len <= MaxPos
  /\ used' = a.used /\ ptr' = p
  /\ short' = (short \/ Len(a.aptr) < need)
  /\ IF z.ret # "all"
     THEN /\ data' = zdata /\ content' = zcont
          /\ size' = pos
          /\ pos' = IF z.ret = "error" THEN size ELSE pos
     ELSE /\ data' = Written(zdata, p, pos, w.n, FALSE)
          /\ content' = Noted(zcont, pos, w.n, FALSE)
          /\ IF w.ret = "error" THEN pos' = pos /\ size' = Max({size, pos})
             ELSE pos' = pos + len /\ size' = Max({size, pos + len})
  /\ UNCHANGED other

\* do_read() of at most len bytes; it fails without effect at a byte that has
\* no block.
do_read(len) ==
  LET n == Min({len, size - pos}) IN
  /\ pos < size
  /\ \A i \in pos..pos+n-1 : Covered(ptr, i)
  /\ pos' = pos + n
  /\ UNCHANGED <<used, ptr, data, size, other, content, short>>

\* do_lseek(), whatever whence is
do_lseek(at) ==
  /\ pos' = at
  /\ UNCHANGED <<used, ptr, data, size, other, content, short>>

\* The disk, where blocks of no file hold bytes that nobody expects.
Forgotten(B) == [b \in FBlock |-> IF b \in B THEN [o \in Byte |-> Unset] ELSE data[b]]

\* Mutant of RemoveFile: only the blocks that the size accounts for are freed.
RemoveBySize ==
  /\ used' = used \ {ptr[SlotOf(i)] : i \in 0..size-1}
  /\ ptr' = [s \in FSlot |-> NoBlock]
  /\ size' = 0 /\ pos' = 0 /\ content' = [i \in Position |-> Unset]
  /\ UNCHANGED <<data, other, short>>

\* GFS_remove_file_or_dir() of the closed file, then do_open() of a new one
RemoveFile ==
  /\ used' = used \ {ptr[s] : s \in FSlot}
  /\ ptr' = [s \in FSlot |-> NoBlock]
  /\ size' = 0 /\ pos' = 0 /\ content' = [i \in Position |-> Unset]
  /\ short' = FALSE
  /\ data' = Forgotten({ptr[s] : s \in FSlot})
  /\ UNCHANGED other

\* Another file gets a block or gives one back.
OtherTakes ==
  LET a == AllocBlocks(1) IN
  /\ Cardinality(other) < MaxOther /\ a.aptr # <<>>
  /\ used' = a.used /\ other' = other \cup ToSet(a.aptr)
  /\ UNCHANGED <<ptr, data, size, pos, content, short>>
OtherFrees(b) ==
  /\ b \in other
  /\ other' = other \ {b} /\ used' = used \ {b}
  /\ UNCHANGED <<ptr, data, size, pos, content, short>>

\* A file as do_open() creates it on a disk whose blocks hold old data.
FileInit ==
  /\ used = {} /\ ptr = [s \in FSlot |-> NoBlock] /\ size = 0 /\ pos = 0
  /\ data = [b \in FBlock |-> [o \in Byte |-> Unset]]
  /\ other = {} /\ content = [i \in Position |-> Unset] /\ short = FALSE

FileNext ==
  \/ \E len \in 1..MaxLen : do_write(len) \/ do_read(len)
  \/ \E at \in 0..MaxPos : do_lseek(at)
  \/ RemoveFile \/ OtherTakes
  \/ \E b \in FBlock : OtherFrees(b)

FileSpec == FileInit /\ [][FileNext]_filevars
-----------------------------------------------------------------------------
FileTypeOK ==
  /\ used \subseteq FBlock /\ other \subseteq FBlock
  /\ ptr \in [FSlot -> FBlock \cup {NoBlock}]
  /\ size \in 0..MaxPos /\ pos \in 0..MaxPos /\ short \in BOOLEAN

\* Every block that the bitmap marks belongs to exactly one pointer of this file
\* or to another file: a write that fails half-way and the removal that follows
\* lose no block and give none to two owners.
BlocksAccounted ==
  /\ FileTypeOK
  /\ used = other \cup ({ptr[s] : s \in FSlot} \ {NoBlock})
  /\ \A s, t \in FSlot : ptr[s] = ptr[t] /\ ptr[s] # NoBlock => s = t
  /\ \A s \in FSlot : ptr[s] \notin other

\* Unless a write did not get its blocks, every byte below size reads back as what
\* was last written there, or as zero where a seek left a gap: never as the old
\* content of the block.
ReadsBack ==
  ~short => \A i \in 0..size-1 : /\ Covered(ptr, i)
                                 /\ data[ptr[SlotOf(i)]][i % BLOCK_SIZE] = content[i]
                                 /\ content[i] # Unset
=============================================================================
