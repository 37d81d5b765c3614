-------------------------------- MODULE Gfs --------------------------------
(***************************************************************************)
(* The name space of GFS (kernel/fs/gfs-dir.c, gfs-file.c, gfs-path.c,     *)
(* gfs-flist.c): directories and hard links, the bitmaps, the list of open *)
(* files, descriptors and current directories of several processes.        *)
(*                                                                         *)
(* System calls run under the kernel lock and GFS waits for nothing, so    *)
(* each is one action.  The data blocks of files are the subject of module *)
(* GfsFile and are left out here; what a free inode or block still holds   *)
(* is never read and is cleared.                                           *)
(***************************************************************************)
EXTENDS Integers, Sequences, FiniteSets, FiniteSetsExt, SequencesExt, TLC

CONSTANTS
  Proc, Name,      \* processes; file names other than "." and ".."
  NINODE, NBlocks, \* inodes and data blocks of the disk
  INODE_NDPTR, PtrsPerBlock, DENT_PER_BLOCK, OFILE_MAX, NLINK_MAX

ASSUME GfsAssumption ==
  {NINODE, NBlocks, INODE_NDPTR, PtrsPerBlock, DENT_PER_BLOCK, OFILE_MAX, NLINK_MAX}
     \subseteq Nat \ {0}

VARIABLES
  fs,       \* the disk: bitmaps, inodes and directory blocks
  flist,    \* nproc of the open-file node of each inode, 0 if it has none
  live,     \* processes that exist
  fds,      \* pcb.fds[]: the inode each descriptor refers to
  cwd,      \* pcb.cur_ino
  leaky,    \* ghost: a failed call has left bits set in a bitmap
  dangling  \* ghost: a do_mkdir() that failed has left its entry in the parent

vars == <<fs, flist, live, fds, cwd, leaky, dangling>>

Ino == 0..NINODE-1
Block == 1..NBlocks
None == 0 - 1                  \* DENTRY_INVALID_INO, no descriptor
Invalid == 0                   \* INODE_INVALID_PTR
Fd == 1..OFILE_MAX
NDENTRIES == (INODE_NDPTR + PtrsPerBlock) * DENT_PER_BLOCK
Direct == 1..INODE_NDPTR
IdPtr == INODE_NDPTR + 1       \* the slot of idptr, then those of its block
Indirect == IdPtr+1..IdPtr+PtrsPerBlock
Slot == 1..IdPtr+PtrsPerBlock

NoEntry == [name |-> ".", ino |-> None]
Empty == [j \in 1..DENT_PER_BLOCK |-> NoEntry]
NoPtr == [s \in Slot |-> Invalid]
NewFile == [type |-> "file", nlink |-> 1, size |-> 0, ptr |-> NoPtr]
NewDir == [type |-> "dir", nlink |-> 1, size |-> 0, ptr |-> NoPtr]
Blank == [type |-> "free", nlink |-> 0, size |-> 0, ptr |-> NoPtr]
-----------------------------------------------------------------------------
\* The places of the entries of a directory inode, and the entries.
Places(f, node) ==
  {<<node.ptr[s], j>> : s \in {t \in Direct \cup Indirect : node.ptr[t] # Invalid},
                        j \in 1..DENT_PER_BLOCK}
Used(f, node) == {x \in Places(f, node) : f.dent[x[1]][x[2]].ino # None}
Dentries(f, node) == {f.dent[x[1]][x[2]] : x \in Used(f, node)}

search_dentry_in_dir_inode(f, node, name) ==
  IF node.type = "dir" /\ \E e \in Dentries(f, node) : e.name = name
  THEN (CHOOSE e \in Dentries(f, node) : e.name = name).ino ELSE None

\* path_anal() from the directory start
path_anal(start, names) ==
  FoldLeft(LAMBDA ino, n : IF ino = None THEN None
                           ELSE search_dentry_in_dir_inode(fs, fs.inode[ino], n), start, names)

\* Paths lead from the root or the current directory through at most one directory
\* to a last name: path_anal_2() gives the inode of the parent and that name.
Prefix == {<<>>} \cup {<<n>> : n \in Name \cup {".."}}
path_anal_2(p) == {path_anal(d, dir) : d \in {0, cwd[p]}, dir \in Prefix} \ {None}
Child(pp, name) == search_dentry_in_dir_inode(fs, fs.inode[pp], name)
Found(p) == {Child(pp, name) : pp \in path_anal_2(p), name \in Name} \ {None}

\* GFS_alloc_in_bitmap() of one inode or block: the first that is free
FreeInodes(f) == Ino \ f.ibm
FreeBlocks(f) == Block \ f.bbm

\* Entry e goes to the first free place of block slot s, which is allocated when
\* it is not there.
PutEntry(f, node, s, e) ==
  IF node.ptr[s] # Invalid
  THEN LET b == node.ptr[s]   j == Min({k \in 1..DENT_PER_BLOCK : f.dent[b][k] = NoEntry}) IN
       [rt |-> 0, f |-> [f EXCEPT !.dent[b][j] = e], node |-> [node EXCEPT !.size = @ + 1]]
  ELSE IF FreeBlocks(f) = {} THEN [rt |-> 2, f |-> f, node |-> node]
  ELSE LET b == Min(FreeBlocks(f)) IN
       [rt |-> 0,
        f |-> [f EXCEPT !.bbm = @ \cup {b}, !.dent[b] = [Empty EXCEPT ![1] = e]],
        node |-> [node EXCEPT !.size = @ + 1, !.ptr[s] = b]]

\* GFS_add_dentry(): the directory block is written at once, the inode only by
\* the caller.
GFS_add_dentry(f, node, name, ino) ==
  LET e == [name |-> name, ino |-> ino]
      room(n) == {s \in Slot \ {IdPtr} : \/ n.ptr[s] = Invalid
                                         \/ \E j \in 1..DENT_PER_BLOCK : f.dent[n.ptr[s]][j] = NoEntry}
      fail(rt, g, n) == [rt |-> rt, f |-> g, node |-> n] IN
  IF node.type # "dir" THEN fail(0 - 1, f, node)
  ELSE IF node.size >= NDENTRIES THEN fail(1, f, node)
  ELSE IF room(node) \cap Direct # {} THEN PutEntry(f, node, Min(room(node) \cap Direct), e)
  ELSE IF node.ptr[IdPtr] # Invalid
  THEN IF room(node) = {} THEN fail(0 - 3, f, node) ELSE PutEntry(f, node, Min(room(node)), e)
  ELSE IF FreeBlocks(f) = {} THEN fail(2, f, node)
  ELSE LET b == Min(FreeBlocks(f)) IN
       PutEntry([f EXCEPT !.bbm = @ \cup {b}], [node EXCEPT !.ptr[IdPtr] = b], IdPtr + 1, e)

\* Directory blocks and inodes that nothing uses are cleared.
FreeInode(f, ino) == [f EXCEPT !.ibm = @ \ {ino}, !.inode[ino] = Blank]
FreeBlocksOf(f, B) ==
  [f EXCEPT !.bbm = @ \ B, !.dent = [b \in Block |-> IF b \in B THEN Empty ELSE @[b]]]

\* Mutant of Occupied: only the current directories count, not the open files.
OccupiedAsCwd(ino) == ino = 0 \/ \E p \in live : cwd[p] = ino
\* flist_search() # NULL; the root is always in the list
Occupied(ino) == ino = 0 \/ flist[ino] > 0

\* GFS_remove_file_or_dir() with rm_dentries_on_ptr_arr(): entries below that are
\* occupied stay, with the directories that lead to them; a block without such an
\* entry is freed, even when it holds "." and "..".
RECURSIVE GFS_remove_file_or_dir(_, _)
GFS_remove_file_or_dir(f, ino) ==
  LET node == f.inode[ino]
      own == {x \in Used(f, node) : f.dent[x[1]][x[2]].name \in Name}
      removeEntry(x, acc) ==
        LET r == GFS_remove_file_or_dir(acc.f, acc.f.dent[x[1]][x[2]].ino) IN
        IF r.rt = 2 THEN [acc EXCEPT !.f = r.f, !.left = @ \cup {x[1]}]
        ELSE [acc EXCEPT !.f = [r.f EXCEPT !.dent[x[1]][x[2]] = NoEntry], !.gone = @ + 1]
      done == FoldSet(removeEntry, [f |-> f, gone |-> 0, left |-> {}], own)
      size == node.size - done.gone
      kept == {s \in Direct \cup Indirect : node.ptr[s] \in done.left}
      keptAll == IF kept \cap Indirect # {} THEN kept \cup {IdPtr} ELSE kept
      freed == {node.ptr[s] : s \in Slot \ keptAll} \ {Invalid}
      g == FreeBlocksOf(done.f, freed) IN
  IF Occupied(ino) THEN [rt |-> 2, f |-> f]
  ELSE IF node.type = "file"
  THEN IF node.nlink >= 2 THEN [rt |-> 1, f |-> [f EXCEPT !.inode[ino].nlink = @ - 1]]
       ELSE [rt |-> 0, f |-> FreeInode(f, ino)]
  ELSE IF size > 2
  THEN [rt |-> 2, f |-> [g EXCEPT !.inode[ino].size = size,
                           !.inode[ino].ptr = [s \in Slot |-> IF s \in keptAll THEN @[s] ELSE Invalid]]]
  ELSE [rt |-> 0, f |-> FreeInode(g, ino)]
-----------------------------------------------------------------------------
\* flist_inc_fnode() and flist_dec_fnode(); the root is not counted.
Inc(l, ino) == IF ino = 0 THEN l ELSE [l EXCEPT ![ino] = @ + 1]
Dec(l, ino) == IF ino = 0 THEN l ELSE [l EXCEPT ![ino] = @ - 1]

\* A failed call leaves what it did to the disk: f.
LeftBehind(f) ==
  /\ fs' = f
  /\ leaky' = (leaky \/ f.bbm # fs.bbm \/ f.ibm # fs.ibm)
  /\ UNCHANGED <<flist, live, fds, cwd>>
Failed(f) == LeftBehind(f) /\ UNCHANGED dangling

\* An entry names a free inode.
Dangling(f) ==
  \E d \in f.ibm : f.inode[d].type = "dir" /\ \E e \in Dentries(f, f.inode[d]) : e.ino \notin f.ibm

FreeFd(p) == {fd \in Fd : fds[p][fd] = None}
OpenFd(p, ino) ==
  /\ fds' = [fds EXCEPT ![p][Min(FreeFd(p))] = ino]
  /\ flist' = Inc(flist, ino)
  /\ UNCHANGED <<live, cwd, leaky, dangling>>

\* do_open() of a file that exists
do_open(p, ino) ==
  /\ FreeFd(p) # {}
  /\ fs.inode[ino].type = "file"
  /\ OpenFd(p, ino) /\ UNCHANGED fs

\* do_open() with O_CREAT of a file that does not exist
do_open_creat(p, pp, name) ==
  LET tino == Min(FreeInodes(fs))
      f == [fs EXCEPT !.ibm = @ \cup {tino}]
      a == GFS_add_dentry(f, fs.inode[pp], name, tino) IN
  /\ FreeFd(p) # {}
  /\ Child(pp, name) = None /\ FreeInodes(fs) # {}
  /\ CASE a.rt = 0 -> /\ fs' = [a.f EXCEPT !.inode = [@ EXCEPT ![tino] = NewFile, ![pp] = a.node]]
                      /\ OpenFd(p, tino)
       [] a.rt \in {1, 2} -> Failed(FreeInode(a.f, tino))
       [] OTHER -> Failed(a.f)

do_close(p, fd) ==
  /\ fds[p][fd] # None
  /\ flist' = Dec(flist, fds[p][fd])
  /\ fds' = [fds EXCEPT ![p][fd] = None]
  /\ UNCHANGED <<fs, live, cwd, leaky, dangling>>

\* There is no block for the new directory: its inode is freed, and its entry stays in
\* the parent if that has not got a block for it.
HalfMade(f) == LeftBehind(f) /\ dangling' = Dangling(f)

\* do_mkdir(): the entry in the parent, then "." and ".." in the new directory,
\* then both inodes.
do_mkdir(pp, name) ==
  LET tino == Min(FreeInodes(fs))
      f == [fs EXCEPT !.ibm = @ \cup {tino}]
      a == GFS_add_dentry(f, fs.inode[pp], name, tino)
      dot == GFS_add_dentry(a.f, NewDir, ".", tino)
      ddot == GFS_add_dentry(dot.f, dot.node, "..", pp) IN
  /\ fs.inode[pp].type = "dir"
  /\ fs.inode[pp].size < NDENTRIES
  /\ Child(pp, name) = None /\ FreeInodes(fs) # {}
  /\ IF a.rt = 2 THEN Failed(FreeInode(a.f, tino))
     ELSE IF a.rt # 0 THEN Failed(a.f)
     ELSE IF dot.rt # 0 THEN HalfMade(FreeInode(dot.f, tino))
     ELSE IF ddot.rt # 0 THEN HalfMade(FreeInode(ddot.f, tino))
     ELSE /\ fs' = [ddot.f EXCEPT !.inode = [@ EXCEPT ![pp] = a.node, ![tino] = ddot.node]]
          /\ UNCHANGED <<flist, live, fds, cwd, leaky, dangling>>

\* do_remove(); when something below is occupied, the rest is gone nevertheless
do_remove(pp, name) ==
  LET tino == Child(pp, name)
      r == GFS_remove_file_or_dir(fs, tino)
      at == CHOOSE x \in Used(fs, fs.inode[pp]) : fs.dent[x[1]][x[2]].name = name IN
  /\ tino # None
  /\ fs' = IF r.rt = 2 THEN r.f
           ELSE [r.f EXCEPT !.dent[at[1]][at[2]] = NoEntry, !.inode[pp].size = @ - 1]
  /\ UNCHANGED <<flist, live, fds, cwd, leaky, dangling>>

\* Mutant of do_hlink: the source inode is written before the entry is added.
do_hlinkEarly(sino, pp, name) ==
  LET s == [fs EXCEPT !.inode[sino].nlink = @ + 1]
      a == GFS_add_dentry(s, fs.inode[pp], name, sino) IN
  /\ fs.inode[sino].type = "file"
  /\ fs.inode[sino].nlink < NLINK_MAX
  /\ Child(pp, name) = None
  /\ IF a.rt # 0 THEN Failed(a.f)
     ELSE /\ fs' = [a.f EXCEPT !.inode[pp] = a.node]
          /\ UNCHANGED <<flist, live, fds, cwd, leaky, dangling>>
\* do_hlink()
do_hlink(sino, pp, name) ==
  LET a == GFS_add_dentry(fs, fs.inode[pp], name, sino) IN
  /\ fs.inode[sino].type = "file"
  /\ fs.inode[sino].nlink < NLINK_MAX
  /\ Child(pp, name) = None
  /\ IF a.rt # 0 THEN Failed(a.f)
     ELSE /\ fs' = [a.f EXCEPT !.inode = [@ EXCEPT ![sino].nlink = @ + 1, ![pp] = a.node]]
          /\ UNCHANGED <<flist, live, fds, cwd, leaky, dangling>>

\* do_changedir() to an inode that path_anal() has found
do_changedir(p, ino) ==
  /\ ino # cwd[p] /\ fs.inode[ino].type = "dir"
  /\ flist' = Inc(Dec(flist, cwd[p]), ino)
  /\ cwd' = [cwd EXCEPT ![p] = ino]
  /\ UNCHANGED <<fs, live, fds, leaky, dangling>>

\* create_proc(): the current directory of the caller, no open file
create_proc(q, dir) ==
  /\ q \notin live
  /\ live' = live \cup {q}
  /\ cwd' = [cwd EXCEPT ![q] = dir]
  /\ flist' = Inc(flist, dir)
  /\ UNCHANGED <<fs, fds, leaky, dangling>>

\* do_fork(), do_thread_create(): fd_init() shares the open files
do_fork(p, q) ==
  /\ p \in live /\ q \notin live
  /\ live' = live \cup {q}
  /\ cwd' = [cwd EXCEPT ![q] = cwd[p]]
  /\ fds' = [fds EXCEPT ![q] = fds[p]]
  /\ flist' = Inc(FoldSet(LAMBDA fd, l : IF fds[p][fd] = None THEN l ELSE Inc(l, fds[p][fd]),
                          flist, Fd), cwd[p])
  /\ UNCHANGED <<fs, leaky, dangling>>

\* The end of a process: close_all_files() and the current directory
Exit(p) ==
  /\ p \in live
  /\ live' = live \ {p}
  /\ flist' = Dec(FoldSet(LAMBDA fd, l : IF fds[p][fd] = None THEN l ELSE Dec(l, fds[p][fd]),
                          flist, Fd), cwd[p])
  /\ fds' = [fds EXCEPT ![p] = [fd \in Fd |-> None]]
  /\ cwd' = [cwd EXCEPT ![p] = 0]
  /\ UNCHANGED <<fs, leaky, dangling>>

\* A disk as GFS_init() makes it: the root with "." and "..".
Fresh ==
  [ibm |-> {0}, bbm |-> {1},
   inode |-> [i \in Ino |-> IF i = 0 THEN [NewDir EXCEPT !.size = 2, !.ptr[1] = 1] ELSE Blank],
   dent |-> [b \in Block |-> IF b = 1 THEN [Empty EXCEPT ![1] = [name |-> ".", ino |-> 0],
                                                        ![2] = [name |-> "..", ino |-> 0]]
                             ELSE Empty]]

\* do_mkfs() by force; GFS_init() refuses while anything but the root is open
do_mkfs ==
  /\ \A i \in Ino : flist[i] = 0
  /\ fs' = Fresh /\ leaky' = FALSE
  /\ UNCHANGED <<flist, live, fds, cwd, dangling>>

Init ==
  /\ fs = Fresh /\ live = {} /\ leaky = FALSE /\ dangling = FALSE
  /\ flist = [i \in Ino |-> 0]
  /\ fds = [p \in Proc |-> [fd \in Fd |-> None]]
  /\ cwd = [p \in Proc |-> 0]

Call(p) ==
  \/ \E ino \in Found(p) : do_open(p, ino)
  \/ \E pp \in path_anal_2(p), name \in Name :
       \/ do_open_creat(p, pp, name) \/ do_mkdir(pp, name) \/ do_remove(pp, name)
       \/ \E sino \in Found(p) : do_hlink(sino, pp, name)
  \/ \E fd \in Fd : do_close(p, fd)
  \/ \E ino \in path_anal_2(p) : do_changedir(p, ino)
  \/ do_mkfs

\* The model stops once a do_mkdir() has left an entry that names a free inode.
Next ==
  /\ ~dangling
  /\ \E p \in Proc : \/ p \in live /\ Call(p)
                     \/ Exit(p)
                     \/ \E d \in {0} \cup {cwd[q] : q \in live} : create_proc(p, d)
                     \/ \E q \in Proc : do_fork(p, q)

Spec == Init /\ [][Next]_vars
-----------------------------------------------------------------------------
Dirs == {i \in fs.ibm : fs.inode[i].type = "dir"}
Links(i) == {<<d, x>> \in Dirs \X (Block \X (1..DENT_PER_BLOCK)) :
               x \in Used(fs, fs.inode[d]) /\ fs.dent[x[1]][x[2]].ino = i
                                           /\ fs.dent[x[1]][x[2]].name \in Name}

TypeOK ==
  /\ fs.ibm \subseteq Ino /\ fs.bbm \subseteq Block
  /\ flist \in [Ino -> Nat] /\ live \subseteq Proc
  /\ fds \in [Proc -> [Fd -> Ino \cup {None}]] /\ cwd \in [Proc -> Ino]

\* The directories form a tree over the bitmaps: a file has as many names as its
\* nlink says and a directory exactly one, size counts the names, no name occurs twice
\* in a directory, none names a free inode, no block belongs to two inodes, and unless
\* a call has failed half-way, every bit of the bitmaps is accounted for.
TreeSound ==
  ~dangling =>
    /\ TypeOK /\ ~Dangling(fs)
    /\ \A i \in fs.ibm \ {0} :
         \/ leaky /\ Links(i) = {}
         \/ Cardinality(Links(i)) = fs.inode[i].nlink
    /\ \A d \in Dirs : fs.inode[d].size =
         2 + Cardinality({x \in Used(fs, fs.inode[d]) : fs.dent[x[1]][x[2]].name \in Name})
    /\ \A d \in Dirs : \A x, y \in Used(fs, fs.inode[d]) :
         fs.dent[x[1]][x[2]].name = fs.dent[y[1]][y[2]].name => x = y
    /\ LET owned == {<<i, s>> \in fs.ibm \X Slot : fs.inode[i].ptr[s] # Invalid}
           block(o) == fs.inode[o[1]].ptr[o[2]] IN
       /\ \A o, q \in owned : block(o) = block(q) => o = q
       /\ {block(o) : o \in owned} \subseteq fs.bbm
       /\ ~leaky => {block(o) : o \in owned} = fs.bbm

\* A file that some process has open, and a current directory, are never removed
\* under it: each keeps a node in the open-file list with one count per use, its
\* inode stays allocated, and a chain of names leads to it from the root.
InUseIsKept ==
  ~dangling =>
    LET users(i) == {<<p, fd>> \in live \X Fd : fds[p][fd] = i}
        dirsAt(i) == {p \in live : cwd[p] = i}
        step(S) == S \cup {e.ino : e \in UNION {Dentries(fs, fs.inode[d]) : d \in S \cap Dirs}}
        reach == FoldLeft(LAMBDA S, n : step(S), {0}, [n \in 1..NINODE |-> n]) IN
    \A i \in Ino \ {0} :
      /\ flist[i] = Cardinality(users(i)) + Cardinality(dirsAt(i))
      /\ flist[i] > 0 => i \in fs.ibm /\ i \in reach
      /\ users(i) # {} => fs.inode[i].type = "file"
      /\ dirsAt(i) # {} => fs.inode[i].type = "dir"
=============================================================================
