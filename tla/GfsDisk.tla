------------------------------ MODULE GfsDisk ------------------------------
(***************************************************************************)
(* What the rest of GFS takes the disk for: data blocks, a bitmap and      *)
(* inodes that read back as they were last written.  A restart keeps all   *)
(* but what a failed write of a file has made of its inode.                *)
(***************************************************************************)
EXTENDS Naturals, FiniteSets

CONSTANTS
  Block, Value,    \* data blocks and what a block or an inode may hold
  Ino,             \* inodes
  Bits,            \* the bits of the bitmap of blocks, numbered from 0
  Old, Root        \* contents nobody has written; the content of "/" and its inode

VARIABLES
  store,           \* .blocks, .used, .inodes, and .saved, the inodes after a restart
  out              \* what the last operation returned

diskvars == <<store, out>>
-----------------------------------------------------------------------------
ReadBlock(b) == out' = <<"is", store.blocks[b]>> /\ UNCHANGED store
WriteBlock(b, v) == store' = [store EXCEPT !.blocks[b] = v] /\ out' = <<"ok">>
ReadInode(i) == out' = <<"is", store.inodes[i]>> /\ UNCHANGED store
\* The inodes J, changed by writes that failed, are saved with inode i.
WriteInode(i, v) ==
  /\ \E J \in SUBSET Ino :
       LET now == [store.inodes EXCEPT ![i] = v] IN
       store' = [blocks |-> store.blocks, used |-> store.used, inodes |-> now,
                 saved |-> [j \in Ino |-> IF j \in {i} \cup J THEN now[j] ELSE store.saved[j]]]
  /\ out' = <<"ok">>
FailedWrite(i, v) == store' = [store EXCEPT !.inodes[i] = v] /\ out' = <<"error">>
Restart == store' = [store EXCEPT !.inodes = store.saved] /\ out' = <<"ok">>

\* The first n free bits, or all there are.
FirstFree(U, n) == {i \in Bits \ U : Cardinality({j \in Bits \ U : j < i}) < n}
Alloc(n) ==
  /\ store' = [store EXCEPT !.used = @ \cup FirstFree(@, n)]
  /\ out' = <<"got", FirstFree(store.used, n)>>
FreeBit(i) == store' = [store EXCEPT !.used = @ \ {i}] /\ out' = <<"ok">>

\* An empty file system: inode 0 is "/", which has the first block; the other
\* blocks keep what they held, and the other inodes what was saved.
Mkfs(b) ==
  /\ LET all == [store.saved EXCEPT ![0] = Root] IN
     store' = [blocks |-> [store.blocks EXCEPT ![b] = Root], used |-> {0},
               inodes |-> all, saved |-> all]
  /\ out' = <<"ok">>

DiskInit ==
  /\ store = [blocks |-> [b \in Block |-> Old], used |-> {},
              inodes |-> [i \in Ino |-> Old], saved |-> [i \in Ino |-> Old]]
  /\ out = <<"ok">>
DiskNext ==
  \/ \E b \in Block : ReadBlock(b) \/ Mkfs(b) \/ \E v \in Value : WriteBlock(b, v)
  \/ \E i \in Ino : ReadInode(i) \/ \E v \in Value : WriteInode(i, v) \/ FailedWrite(i, v)
  \/ \E n \in 1 .. Cardinality(Bits) : Alloc(n)
  \/ \E i \in Bits : FreeBit(i)
  \/ Restart
DiskSpec == DiskInit /\ [][DiskNext]_diskvars
=============================================================================
