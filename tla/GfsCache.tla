------------------------------ MODULE GfsCache ------------------------------
(***************************************************************************)
(* The cache of GFS (kernel/fs/gfs-cache.c) and the bitmap, inode and      *)
(* superblock operations of gfs0.c on it, over a disk that survives a      *)
(* restart of the machine while the memory does not.  GFS calls run under  *)
(* the kernel lock and wait for nothing, so each is one action.            *)
(***************************************************************************)
EXTENDS Naturals, FiniteSets, FiniteSetsExt

CONSTANTS
  CBlocks,         \* data blocks that are read and written, numbered from 1
  CacheSlots,      \* gfsc_blocks_num
  SectorBits,      \* bits in a sector of the bitmap
  BitSectors,      \* its sectors
  NInodes, InodesPerSector,
  Value, Old, Root, NoSuper     \* contents, and no superblock on the disk

ASSUME GfsCacheAssumption ==
  /\ {CBlocks, CacheSlots, SectorBits, BitSectors, NInodes, InodesPerSector} \subseteq Nat \ {0}
  /\ CBlocks <= SectorBits * BitSectors

VARIABLES
  disk,            \* .super, .blocks, .bitmap (its sectors) and .inodes
  bitmap, inodes,  \* the copies of these two in memory
  tag, block,      \* gfsc_blocks[]
  gfsc_lru_aseq,   \* the cache block of each place in the access sequence
  cout,            \* what the last operation returned
  newer,           \* ghost: <<x, y>> when block x was used more recently than y
  unsaved          \* ghost: the inodes a failed do_write() has changed in memory only

cachevars == <<disk, bitmap, inodes, tag, block, gfsc_lru_aseq, cout, newer, unsaved>>
blockcache == <<tag, block, gfsc_lru_aseq, newer>>
inodecopy == <<inodes, unsaved>>

NoTag == 0                       \* the tag of an invalid block
GBlock == 1 .. CBlocks
CSlot == 0 .. CacheSlots - 1
GIno == 0 .. NInodes - 1
Bit == 0 .. SectorBits * BitSectors - 1
BitSector == 0 .. BitSectors - 1
SectorOf(i) == i \div SectorBits
InSector(s) == {i \in Bit : SectorOf(i) = s}
-----------------------------------------------------------------------------
(* The cache of blocks                                                     *)

gfsc_search(b) == {s \in CSlot : tag[s] = b}

\* glru_scan_or_evict(): the first invalid cache block, or the least recently used
glru_scan_or_evict ==
  IF gfsc_search(NoTag) # {} THEN Min(gfsc_search(NoTag)) ELSE gfsc_lru_aseq[CacheSlots - 1]

\* Mutant of glru_aseq_move: a block keeps its place.
AseqStays(s) == gfsc_lru_aseq
\* glru_aseq_move(): the cache blocks before s move back by one place, s to the head.
glru_aseq_move(s) ==
  LET place == CHOOSE i \in CSlot : gfsc_lru_aseq[i] = s IN
  [i \in CSlot |-> IF i = 0 THEN s
                  ELSE IF i <= place THEN gfsc_lru_aseq[i - 1] ELSE gfsc_lru_aseq[i]]

\* Cache block s now holds block b with content v, as the most recently used.
Touch(s, b, v) ==
  /\ tag' = [tag EXCEPT ![s] = b] /\ block' = [block EXCEPT ![s] = v]
  /\ gfsc_lru_aseq' = glru_aseq_move(s)
  /\ newer' = {p \in newer : p[1] # b /\ p[2] # b} \cup {<<b, x>> : x \in GBlock \ {b}}

gfsc_read_block(b) ==
  LET hit == gfsc_search(b)
      s == IF hit # {} THEN Min(hit) ELSE glru_scan_or_evict
      v == IF hit # {} THEN block[s] ELSE disk.blocks[b] IN
  /\ Touch(s, b, v) /\ cout' = <<"is", v>>
  /\ UNCHANGED <<disk, bitmap, inodecopy>>

gfsc_write_block(b, v) ==
  LET hit == gfsc_search(b)  s == IF hit # {} THEN Min(hit) ELSE glru_scan_or_evict IN
  /\ Touch(s, b, v) /\ cout' = <<"ok">>
  /\ disk' = [disk EXCEPT !.blocks[b] = v]
  /\ UNCHANGED <<bitmap, inodecopy>>
-----------------------------------------------------------------------------
(* The bitmap and the inodes, all of which are in memory                   *)

\* GFS_alloc_in_bitmap(): the first n free bits; the sectors in which there was a
\* free bit, up to the last one looked at, are written.
GFS_alloc_in_bitmap(n) ==
  LET free == Bit \ UNION {bitmap[s] : s \in BitSector}
      got == {i \in free : Cardinality({j \in free : j < i}) < n}
      seen == {s \in BitSector : Cardinality({j \in free : SectorOf(j) < s}) < n
                                 /\ free \cap InSector(s) # {}} IN
  /\ bitmap' = [s \in BitSector |-> bitmap[s] \cup (got \cap InSector(s))]
  /\ disk' = [disk EXCEPT !.bitmap = [s \in BitSector |->
                IF s \in seen THEN bitmap'[s] ELSE disk.bitmap[s]]]
  /\ cout' = <<"got", got>>
  /\ UNCHANGED <<inodecopy, blockcache>>

GFS_free_in_bitmap(i) ==
  /\ bitmap' = [bitmap EXCEPT ![SectorOf(i)] = @ \ {i}]
  /\ disk' = [disk EXCEPT !.bitmap[SectorOf(i)] = bitmap'[SectorOf(i)]]
  /\ cout' = <<"ok">> /\ UNCHANGED <<inodecopy, blockcache>>

GFS_read_inode(i) ==
  cout' = <<"is", inodes[i]>> /\ UNCHANGED <<disk, bitmap, inodecopy, blockcache>>

BesideInode(i) == {j \in GIno : j \div InodesPerSector = i \div InodesPerSector}

\* GFS_write_inode() writes the sector of the inode as it is in memory.  (The caller
\* may have changed the copy in memory in place before, within the same call.)
GFS_write_inode(i, v) ==
  /\ inodes' = [inodes EXCEPT ![i] = v]
  /\ disk' = [disk EXCEPT !.inodes = [j \in GIno |->
       IF j \in BesideInode(i) THEN inodes'[j] ELSE disk.inodes[j]]]
  /\ unsaved' = unsaved \ BesideInode(i)
  /\ cout' = <<"ok">> /\ UNCHANGED <<bitmap, blockcache>>

\* do_write() that has changed pointers or size through pinode, which points into
\* gfsc_inodes[], and returns -8, -9 or -10, or ends with its process in a page
\* fault, before it gets to GFS_write_inode().
do_write_fails(i, v) ==
  /\ inodes' = [inodes EXCEPT ![i] = v]
  /\ unsaved' = unsaved \cup {i}
  /\ cout' = <<"error">> /\ UNCHANGED <<disk, bitmap, blockcache>>
-----------------------------------------------------------------------------
(* Creating and mounting a file system                                     *)

\* Mutant of GFS_cache_init: the tags are left as they are.
CacheInitKeepsTags(d) ==
  /\ bitmap' = d.bitmap /\ inodes' = d.inodes /\ unsaved' = {}
  /\ UNCHANGED blockcache
\* GFS_cache_init(): bitmap and inodes are read from disk d, all blocks are invalid.
GFS_cache_init(d) ==
  /\ bitmap' = d.bitmap /\ inodes' = d.inodes /\ unsaved' = {}
  /\ tag' = [s \in CSlot |-> NoTag]
  /\ gfsc_lru_aseq' = [i \in CSlot |-> i] /\ newer' = {}
  /\ UNCHANGED block

\* GFS_check() finds a valid superblock.
GFS_check == disk.super = "valid"

\* do_mkfs(): GFS_init() empties the bitmap on the disk, mounts, and then makes "/"
\* with inode 0 and the first block, writing that block past the cache.
MakeFileSystem(force) ==
  LET d == [disk EXCEPT !.super = "valid", !.bitmap = [s \in BitSector |-> {}]]
      e == [d EXCEPT !.bitmap[0] = {0}, !.inodes[0] = Root, !.blocks[1] = Root] IN
  /\ force \/ ~GFS_check
  /\ GFS_cache_init(e) /\ disk' = e /\ cout' = <<"ok">>

\* The machine restarts; main() mounts the file system, or makes one when there is
\* none.  What the memory held is lost.
Restart ==
  /\ GFS_check
  /\ GFS_cache_init(disk)
  /\ cout' = <<"ok">> /\ UNCHANGED disk

Mounted == GFS_check
CacheInit ==
  /\ disk = [super |-> NoSuper, blocks |-> [b \in GBlock |-> Old],
             bitmap |-> [s \in BitSector |-> {}], inodes |-> [i \in GIno |-> Old]]
  /\ bitmap = disk.bitmap /\ inodes = disk.inodes
  /\ tag = [s \in CSlot |-> NoTag] /\ block = [s \in CSlot |-> Old]
  /\ gfsc_lru_aseq = [i \in CSlot |-> i] /\ newer = {}
  /\ unsaved = {} /\ cout = <<"ok">>

CacheNext ==
  \/ \E force \in BOOLEAN : MakeFileSystem(force)
  \/ Restart
  \/ /\ Mounted
     /\ \/ \E b \in GBlock : gfsc_read_block(b) \/ \E v \in Value : gfsc_write_block(b, v)
        \/ \E n \in 1 .. SectorBits * BitSectors : GFS_alloc_in_bitmap(n)
        \/ \E i \in Bit : GFS_free_in_bitmap(i)
        \/ \E i \in GIno :
             \/ GFS_read_inode(i)
             \/ \E v \in Value : GFS_write_inode(i, v) \/ do_write_fails(i, v)

CacheSpec == CacheInit /\ [][CacheNext]_cachevars
-----------------------------------------------------------------------------
\* The cache, the copies in memory and the sector writes are invisible: GFS behaves
\* as the disk of GfsDisk, also after mkfs, which writes past the cache, and across a
\* restart.  That brings back all but the inodes that a failed do_write() changed
\* last: those as they were when an inode of their sector was last written.
Disk == INSTANCE GfsDisk WITH
  Block <- GBlock, Ino <- GIno, Bits <- Bit, out <- cout,
  store <- [blocks |-> disk.blocks, used |-> UNION {disk.bitmap[s] : s \in BitSector},
            inodes |-> inodes, saved |-> disk.inodes]
ImplementsDisk == Disk!DiskSpec

\* The copies in memory are as on the disk, although only sectors of it are written,
\* but for the inodes that failed writes have left behind; no block is cached twice
\* and every cached one is as on the disk; every cache block has its one place in the
\* sequence that eviction relies on; and that sequence orders the cached blocks by
\* their last use.
CacheCoherent ==
  /\ bitmap = disk.bitmap
  /\ \A i \in GIno : inodes[i] # disk.inodes[i] => i \in unsaved
  /\ \A s \in CSlot : tag[s] # NoTag => block[s] = disk.blocks[tag[s]]
  /\ \A s, t \in CSlot : tag[s] = tag[t] /\ tag[s] # NoTag => s = t
  /\ \A s \in CSlot : \E i \in CSlot : \A j \in CSlot : gfsc_lru_aseq[j] = s <=> j = i
  /\ \A i, j \in CSlot :
       LET x == tag[gfsc_lru_aseq[i]]  y == tag[gfsc_lru_aseq[j]] IN
       i < j /\ x # NoTag /\ y # NoTag => <<x, y>> \in newer
=============================================================================
