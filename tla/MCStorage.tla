------------------------------ MODULE MCStorage ------------------------------
(* The three layers of GFS side by side: the name space (Gfs), the blocks  *)
(* of one file (GfsFile), and the cache over the disk (GfsCache).  A       *)
(* behaviour is one of a single layer; the others stay as they are         *)
(* initially.  Of the cache it is one of the blocks or one of the tables,  *)
(* bitmap and inodes: no operation but mkfs and a restart touches both.    *)
EXTENDS Gfs, GfsFile, GfsCache

VARIABLE part    \* the layer that moves

StorageInit == part \in {"names", "file", "blocks", "tables"} /\ Init /\ FileInit /\ CacheInit

Names == part = "names" /\ Next /\ UNCHANGED <<part, filevars, cachevars>>
File == part = "file" /\ FileNext /\ UNCHANGED <<part, vars, cachevars>>
\* Bitmap and inodes stay as mkfs leaves them, or no block is cached.
OnlyBlocks ==
  /\ \A i \in GIno : inodes'[i] \notin Value
  /\ UNION {bitmap'[s] : s \in BitSector} \subseteq {0}
OnlyTables == \A s \in CSlot : tag'[s] = NoTag
Cache ==
  /\ CacheNext /\ UNCHANGED <<part, vars, filevars>>
  /\ \/ part = "blocks" /\ OnlyBlocks
     \/ part = "tables" /\ OnlyTables

StorageNext == Names \/ File \/ Cache
StorageSpec == StorageInit /\ [][StorageNext]_<<part, vars, filevars, cachevars>>

\* Processes and names are interchangeable.
Perms == Permutations(Proc) \cup Permutations(Name)
=============================================================================
