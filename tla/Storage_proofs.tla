--------------------------- MODULE Storage_proofs ---------------------------
(* Proofs about two layers of GFS.  GfsCache, for any number of blocks,     *)
(* cache blocks, sectors and inodes: the cache is coherent, its replacement *)
(* sequence is the order of the last uses, and GFS over it behaves as a     *)
(* disk without a cache, also across a restart.  GfsFile, for every         *)
(* number of direct pointers, pointers of a block, bytes of a block and     *)
(* blocks: none is lost or in two places, and what is written reads back.   *)
EXTENDS GfsCache, GfsFile, SequenceTheorems, FiniteSetTheorems, NaturalsInduction,
        WellFoundedInduction, TLAPS

(* The block cache.                                                         *)

Content == Value \cup {Old, Root}
DiskType ==
  [super : {"valid", NoSuper}, blocks : [GBlock -> Content],
   bitmap : [BitSector -> SUBSET Bit], inodes : [GIno -> Content]]
CacheTypeOK ==
  /\ disk \in DiskType /\ inodes \in [GIno -> Content]
  /\ tag \in [CSlot -> GBlock \cup {NoTag}] /\ block \in [CSlot -> Content]
  /\ gfsc_lru_aseq \in [CSlot -> CSlot]

\* Every bit is kept in the sector it belongs to.
BitsInPlace == \A s \in BitSector : disk.bitmap[s] \subseteq InSector(s)

\* The parts of CacheCoherent, of the values it relates.
OnlyUnsaved(ino, on, un) == \A i \in GIno : ino[i] # on[i] => i \in un
AsOnDisk(tg, bl, on) == \A s \in CSlot : tg[s] # NoTag => bl[s] = on[tg[s]]
OnceEach(tg) == \A s, t \in CSlot : tg[s] = tg[t] /\ tg[s] # NoTag => s = t
OnePlace(seq) == \A s \in CSlot : \E i \in CSlot : \A j \in CSlot : seq[j] = s <=> j = i
ByLastUse(tg, seq, nw) ==
  \A i, j \in CSlot :
    i < j /\ tg[seq[i]] # NoTag /\ tg[seq[j]] # NoTag => <<tg[seq[i]], tg[seq[j]]>> \in nw

\* The inductive invariant.
GfsCacheInv == CacheTypeOK /\ BitsInPlace /\ CacheCoherent

\* The blocks in use according to the sectors f of a bitmap.
UsedIn(f) == UNION {f[s] : s \in BitSector}
\* What GfsDisk sees of disk d with the inodes ino in memory.
StoreOf(d, ino) ==
  [blocks |-> d.blocks, used |-> UsedIn(d.bitmap), inodes |-> ino, saved |-> d.inodes]

-----------------------------------------------------------------------------
(* Numbers.                                                                *)

\* The minimum of a set of cache blocks is one of them.
LEMMA MinInSet ==
  ASSUME NEW S \in SUBSET Nat, S # {}
  PROVE  Min(S) \in S
<1>1. PICK x \in S : \A y \in S : <<y, x>> \notin OpToRel(<, Nat)
  BY NatLessThanWellFounded, WFMin
<1>2. \A y \in S : x <= y
  <2> SUFFICES ASSUME NEW y \in S, y < x PROVE FALSE
    OBVIOUS
  <2>1. <<y, x>> \in OpToRel(<, Nat)
    BY DEF OpToRel
  <2> QED BY <1>1, <2>1
<1>3. \E z \in S : \A y \in S : z <= y
  BY <1>2
<1> QED BY <1>3 DEF Min

\* A bit belongs to one sector of the bitmap, the first one to the first.
LEMMA SectorFacts ==
  /\ 0 \in Bit /\ SectorOf(0) = 0 /\ 0 \in BitSector
  /\ \A i \in Bit : SectorOf(i) \in BitSector /\ i \in InSector(SectorOf(i))
  /\ \A s \in BitSector : InSector(s) \in SUBSET Bit
<1> USE GfsCacheAssumption
<1> DEFINE K == SectorBits * BitSectors
<1>1. SectorBits \in Nat \ {0} /\ BitSectors \in Nat \ {0} /\ K \in Nat \ {0}
  OBVIOUS
<1>2. 0 \in Bit /\ 0 \in BitSector
  BY <1>1 DEF Bit, BitSector
<1>3. SectorOf(0) = 0
  BY <1>1 DEF SectorOf
<1>4. ASSUME NEW i \in Bit
      PROVE  SectorOf(i) \in BitSector
  <2>1. i \in Nat /\ i < SectorBits * BitSectors
    BY <1>1 DEF Bit
  <2> DEFINE q == i \div SectorBits
  <2>2. q \in Nat /\ SectorBits * q <= i
    BY <1>1, <2>1
  <2> HIDE DEF q
  <2>3. SectorBits * q < SectorBits * BitSectors
    BY <1>1, <2>1, <2>2
  <2>4. q < BitSectors
    <3> SUFFICES ASSUME q >= BitSectors PROVE FALSE
      BY <1>1, <2>2
    <3>1. PICK d \in Nat : q = BitSectors + d
      <4>1. q - BitSectors \in Nat /\ q = BitSectors + (q - BitSectors)
        BY <1>1, <2>2
      <4> QED BY <4>1
    <3>2. SectorBits * q = SectorBits * BitSectors + SectorBits * d
      BY <1>1, <3>1
    <3>3. SectorBits * d \in Nat
      BY <1>1, <3>1
    <3> QED BY <1>1, <2>2, <2>3, <3>2, <3>3
  <2> QED BY <1>1, <2>2, <2>4 DEF SectorOf, BitSector, q
<1> QED BY <1>2, <1>3, <1>4 DEF InSector

\* There are finitely many bits.
LEMMA BitFinite == IsFiniteSet(Bit) /\ Cardinality(Bit) = SectorBits * BitSectors
<1> DEFINE K == SectorBits * BitSectors
<1>1. K \in Nat \ {0}
  BY GfsCacheAssumption
<1> HIDE DEF K
<1>2. IsFiniteSet(0 .. K - 1) /\ Cardinality(0 .. K - 1) = K
  BY <1>1, FS_Interval
<1> QED BY <1>2 DEF K, Bit

-----------------------------------------------------------------------------
(* The sectors of the bitmap.                                              *)

\* A bit is in use when it is set in its sector.
LEMMA UsedInIs ==
  ASSUME NEW f, NEW i
  PROVE  i \in UsedIn(f) <=> \E s \in BitSector : i \in f[s]
BY DEF UsedIn

\* Setting the bits of G sector by sector adds G to the blocks in use.
LEMMA BitsAdded ==
  ASSUME NEW f, NEW G \in SUBSET Bit, NEW g,
         \A s \in BitSector : g[s] = f[s] \cup (G \cap InSector(s))
  PROVE  UsedIn(g) = UsedIn(f) \cup G
<1>1. ASSUME NEW i PROVE i \in UsedIn(g) <=> i \in UsedIn(f) \cup G
  <2>1. i \in UsedIn(g) <=> \E s \in BitSector : i \in f[s] \/ (i \in G /\ i \in InSector(s))
    BY UsedInIs
  <2>2. i \in G => \E s \in BitSector : i \in InSector(s)
    BY SectorFacts
  <2> QED BY <2>1, <2>2, UsedInIs
<1> QED BY <1>1

\* Clearing a bit in its sector takes it from the blocks in use.
LEMMA BitRemoved ==
  ASSUME NEW f \in [BitSector -> SUBSET Bit], \A s \in BitSector : f[s] \subseteq InSector(s),
         NEW i \in Bit
  PROVE  UsedIn([f EXCEPT ![SectorOf(i)] = @ \ {i}]) = UsedIn(f) \ {i}
<1> DEFINE g == [f EXCEPT ![SectorOf(i)] = @ \ {i}]
<1>1. \A s \in BitSector : g[s] = IF s = SectorOf(i) THEN f[s] \ {i} ELSE f[s]
  OBVIOUS
<1>2. \A s \in BitSector : i \in f[s] => s = SectorOf(i)
  BY DEF InSector
<1> HIDE DEF g
<1>3. ASSUME NEW j PROVE j \in UsedIn(g) <=> j \in UsedIn(f) \ {i}
  BY <1>1, <1>2, UsedInIs
<1> QED BY <1>3 DEF g

\* The sectors GFS_alloc_in_bitmap() writes are all those in which it sets a bit.
LEMMA SectorsWritten ==
  ASSUME NEW free \in SUBSET Bit, NEW n, n \in Nat,
         NEW i \in free, Cardinality({j \in free : j < i}) < n
  PROVE  Cardinality({j \in free : SectorOf(j) < SectorOf(i)}) < n
<1> USE GfsCacheAssumption
<1> DEFINE A == {j \in free : SectorOf(j) < SectorOf(i)}
           B == {j \in free : j < i}
<1>1. A \in SUBSET B
  <2> SUFFICES ASSUME NEW j \in free, SectorOf(j) < SectorOf(i), ~(j < i) PROVE FALSE
    OBVIOUS
  <2>1. i \in Nat /\ j \in Nat /\ i <= j /\ SectorBits \in Nat \ {0}
    <3>1. SectorBits * BitSectors \in Nat
      OBVIOUS
    <3> QED BY <3>1 DEF Bit
  <2>2. i \div SectorBits <= j \div SectorBits
    BY <2>1
  <2>3. i \div SectorBits \in Nat /\ j \div SectorBits \in Nat
    BY <2>1
  <2> QED BY <2>2, <2>3 DEF SectorOf
<1>2. IsFiniteSet(B)
  <2>1. B \in SUBSET Bit
    OBVIOUS
  <2> QED BY <2>1, BitFinite, FS_Subset
<1>3. IsFiniteSet(A) /\ Cardinality(A) <= Cardinality(B)
  BY <1>1, <1>2, FS_Subset
<1>4. Cardinality(A) \in Nat /\ Cardinality(B) \in Nat
  BY <1>2, <1>3, FS_CardinalityType
<1> QED BY <1>3, <1>4

-----------------------------------------------------------------------------
(* The cache of blocks.                                                    *)

\* GfsCacheInv by its parts.
LEMMA PartsOfGfsCacheInv ==
  GfsCacheInv <=>
    /\ CacheTypeOK /\ BitsInPlace /\ bitmap = disk.bitmap
    /\ OnlyUnsaved(inodes, disk.inodes, unsaved)
    /\ AsOnDisk(tag, block, disk.blocks) /\ OnceEach(tag) /\ OnePlace(gfsc_lru_aseq)
    /\ ByLastUse(tag, gfsc_lru_aseq, newer)
BY Zenon DEF GfsCacheInv, CacheCoherent, OnlyUnsaved, AsOnDisk, OnceEach, OnePlace, ByLastUse

\* The same of the next state.
LEMMA GfsCacheInvFromParts ==
  ASSUME CacheTypeOK', BitsInPlace', bitmap' = disk'.bitmap,
         OnlyUnsaved(inodes', disk'.inodes, unsaved'),
         AsOnDisk(tag', block', disk'.blocks), OnceEach(tag'), OnePlace(gfsc_lru_aseq'),
         ByLastUse(tag', gfsc_lru_aseq', newer')
  PROVE  GfsCacheInv'
<1>1. CacheCoherent'
  BY DEF CacheCoherent, OnlyUnsaved, AsOnDisk, OnceEach, OnePlace, ByLastUse
<1> QED BY <1>1 DEF GfsCacheInv

\* glru_aseq_move() puts s first and keeps the order of the others.
LEMMA MoveFacts ==
  ASSUME gfsc_lru_aseq \in [CSlot -> CSlot], OnePlace(gfsc_lru_aseq), NEW s \in CSlot
  PROVE  /\ glru_aseq_move(s) \in [CSlot -> CSlot]
         /\ glru_aseq_move(s)[0] = s /\ 0 \in CSlot
         /\ OnePlace(glru_aseq_move(s))
         /\ \A j \in CSlot \ {0} : glru_aseq_move(s)[j] # s
         /\ \A i, j \in CSlot \ {0} : i < j =>
              \E k, l \in CSlot : /\ k < l /\ glru_aseq_move(s)[i] = gfsc_lru_aseq[k]
                                  /\ glru_aseq_move(s)[j] = gfsc_lru_aseq[l]
<1> DEFINE Q == gfsc_lru_aseq
           N == glru_aseq_move(s)
           At(p, i) == IF i <= p THEN i - 1 ELSE i
<1>1. PICK p \in CSlot : \A j \in CSlot : Q[j] = s <=> j = p
  BY DEF OnePlace
<1>2. (CHOOSE i \in CSlot : Q[i] = s) = p
  BY <1>1
<1>3. N = [i \in CSlot |-> IF i = 0 THEN s ELSE IF i <= p THEN Q[i - 1] ELSE Q[i]]
  BY <1>2, Zenon DEF glru_aseq_move
<1>4. 0 \in CSlot /\ CSlot \subseteq Nat
  BY GfsCacheAssumption DEF CSlot
<1>5. \A i \in CSlot \ {0} : At(p, i) \in CSlot /\ At(p, i) # p
  BY <1>1, GfsCacheAssumption DEF CSlot
<1>6. \A i \in CSlot \ {0} : N[i] = Q[At(p, i)]
  BY <1>3
<1>7. N[0] = s
  BY <1>3, <1>4
<1>8. N \in [CSlot -> CSlot]
  <2>1. \A i \in CSlot : N[i] \in CSlot
    BY <1>5, <1>6, <1>7
  <2> QED BY <1>3, <2>1
<1> HIDE DEF N
<1>9. \A j \in CSlot \ {0} : N[j] # s
  BY <1>1, <1>5, <1>6
<1>10. \A i, j \in CSlot \ {0} : i < j => At(p, i) < At(p, j)
  BY <1>1, GfsCacheAssumption DEF CSlot
<1>11. \A i, j \in CSlot \ {0} : At(p, i) = At(p, j) => i = j
  BY <1>1, GfsCacheAssumption DEF CSlot
<1>12. \A k \in CSlot \ {p} : \E i \in CSlot \ {0} : At(p, i) = k
  <2> SUFFICES ASSUME NEW k \in CSlot \ {p} PROVE \E i \in CSlot \ {0} : At(p, i) = k
    OBVIOUS
  <2>1. CASE k < p
    <3>1. k + 1 \in CSlot \ {0} /\ At(p, k + 1) = k
      BY <1>1, <2>1, GfsCacheAssumption DEF CSlot
    <3> QED BY <3>1
  <2>2. CASE ~(k < p)
    <3>1. k \in CSlot \ {0} /\ At(p, k) = k
      BY <1>1, <2>2, GfsCacheAssumption DEF CSlot
    <3> QED BY <3>1
  <2> QED BY <2>1, <2>2
<1> HIDE DEF At
<1>13. OnePlace(N)
  <2> SUFFICES ASSUME NEW t \in CSlot
               PROVE  \E i \in CSlot : \A j \in CSlot : N[j] = t <=> j = i
    BY DEF OnePlace
  <2>1. CASE t = s
    BY <1>4, <1>7, <1>9, <2>1
  <2>2. CASE t # s
    <3>1. PICK k \in CSlot : \A j \in CSlot : Q[j] = t <=> j = k
      BY DEF OnePlace
    <3>2. k # p
      BY <1>1, <2>2, <3>1
    <3>3. PICK i \in CSlot \ {0} : At(p, i) = k
      BY <1>12, <3>2
    <3>4. ASSUME NEW j \in CSlot PROVE N[j] = t <=> j = i
      BY <1>5, <1>6, <1>7, <1>11, <2>2, <3>1, <3>3
    <3> QED BY <3>4
  <2> QED BY <2>1, <2>2
<1>14. ASSUME NEW i \in CSlot \ {0}, NEW j \in CSlot \ {0}, i < j
       PROVE  \E k, l \in CSlot : k < l /\ N[i] = Q[k] /\ N[j] = Q[l]
  BY <1>5, <1>6, <1>10, <1>14
<1> QED BY <1>4, <1>7, <1>8, <1>9, <1>13, <1>14 DEF N

\* The cache block that gfsc_read_block() and gfsc_write_block() use for block b:
\* the one that holds b, an invalid one, or the least recently used.
LEMMA SlotFacts ==
  ASSUME CacheTypeOK, OnceEach(tag), NEW b \in GBlock, NEW s,
         s = IF gfsc_search(b) # {} THEN Min(gfsc_search(b)) ELSE glru_scan_or_evict
  PROVE  /\ s \in CSlot
         /\ \A t \in CSlot \ {s} : tag[t] # b
         /\ gfsc_search(b) # {} => tag[s] = b
<1>1. b # NoTag /\ CSlot \subseteq Nat /\ CacheSlots - 1 \in CSlot
  BY GfsCacheAssumption DEF GBlock, NoTag, CSlot
<1>2. CASE gfsc_search(b) # {}
  <2>1. s \in gfsc_search(b)
    BY <1>1, <1>2, MinInSet DEF gfsc_search
  <2> QED BY <1>1, <2>1 DEF gfsc_search, OnceEach
<1>3. CASE gfsc_search(b) = {}
  <2>1. \A t \in CSlot : tag[t] # b
    BY <1>3 DEF gfsc_search
  <2>2. glru_scan_or_evict \in CSlot
    <3>1. CASE gfsc_search(NoTag) # {}
      <4>1. Min(gfsc_search(NoTag)) \in gfsc_search(NoTag)
        BY <1>1, <3>1, MinInSet DEF gfsc_search
      <4> QED BY <3>1, <4>1 DEF glru_scan_or_evict, gfsc_search
    <3>2. CASE gfsc_search(NoTag) = {}
      BY <1>1, <3>2 DEF glru_scan_or_evict, CacheTypeOK
    <3> QED BY <3>1, <3>2
  <2> QED BY <1>3, <2>1, <2>2
<1> QED BY <1>2, <1>3

\* The cache stays coherent when cache block s takes block b with the content that
\* b has on the disk.
LEMMA TouchKeeps ==
  ASSUME CacheTypeOK, NEW on, AsOnDisk(tag, block, disk.blocks), OnceEach(tag),
         OnePlace(gfsc_lru_aseq), ByLastUse(tag, gfsc_lru_aseq, newer),
         NEW s \in CSlot, NEW b \in GBlock, NEW v \in Content,
         \A t \in CSlot \ {s} : tag[t] # b,
         Touch(s, b, v), on[b] = v, \A x \in GBlock \ {b} : on[x] = disk.blocks[x]
  PROVE  /\ tag' \in [CSlot -> GBlock \cup {NoTag}] /\ block' \in [CSlot -> Content]
         /\ gfsc_lru_aseq' \in [CSlot -> CSlot]
         /\ AsOnDisk(tag', block', on) /\ OnceEach(tag') /\ OnePlace(gfsc_lru_aseq')
         /\ ByLastUse(tag', gfsc_lru_aseq', newer')
<1>1. /\ tag \in [CSlot -> GBlock \cup {NoTag}] /\ block \in [CSlot -> Content]
      /\ gfsc_lru_aseq \in [CSlot -> CSlot]
  BY DEF CacheTypeOK
<1>2. /\ tag' \in [CSlot -> GBlock \cup {NoTag}] /\ block' \in [CSlot -> Content]
      /\ \A t \in CSlot : tag'[t] = IF t = s THEN b ELSE tag[t]
      /\ \A t \in CSlot : block'[t] = IF t = s THEN v ELSE block[t]
  BY <1>1 DEF Touch
<1>3. gfsc_lru_aseq' = glru_aseq_move(s)
  BY DEF Touch
<1>4. /\ gfsc_lru_aseq' \in [CSlot -> CSlot] /\ OnePlace(gfsc_lru_aseq')
      /\ gfsc_lru_aseq'[0] = s
      /\ \A j \in CSlot \ {0} : gfsc_lru_aseq'[j] # s
      /\ \A i, j \in CSlot \ {0} : i < j =>
           \E k, l \in CSlot : /\ k < l /\ gfsc_lru_aseq'[i] = gfsc_lru_aseq[k]
                               /\ gfsc_lru_aseq'[j] = gfsc_lru_aseq[l]
  BY <1>1, <1>3, MoveFacts
<1>5. AsOnDisk(tag', block', on)
  BY <1>1, <1>2 DEF AsOnDisk
<1>6. OnceEach(tag')
  BY <1>2 DEF OnceEach
<1>7. \A x, y \in GBlock : x # b /\ y # b /\ <<x, y>> \in newer => <<x, y>> \in newer'
  BY DEF Touch
<1>8. \A y \in GBlock : y # b => <<b, y>> \in newer'
  BY DEF Touch
<1>9. ASSUME NEW i \in CSlot, NEW j \in CSlot, i < j,
             tag'[gfsc_lru_aseq'[i]] # NoTag, tag'[gfsc_lru_aseq'[j]] # NoTag
      PROVE  <<tag'[gfsc_lru_aseq'[i]], tag'[gfsc_lru_aseq'[j]]>> \in newer'
  <2>1. j # 0 /\ j \in CSlot \ {0}
    BY <1>9, GfsCacheAssumption DEF CSlot
  <2>2. PICK t \in CSlot : t = gfsc_lru_aseq'[j] /\ t # s
    BY <1>4, <2>1
  <2>3. tag'[t] = tag[t] /\ tag[t] # b /\ tag[t] # NoTag /\ tag[t] \in GBlock
    BY <1>1, <1>2, <1>9, <2>2
  <2>4. CASE i = 0
    <3>1. tag'[gfsc_lru_aseq'[i]] = b
      BY <1>2, <1>4, <2>4
    <3> QED BY <1>8, <2>2, <2>3, <3>1
  <2>5. CASE i # 0
    <3>1. PICK u \in CSlot : u = gfsc_lru_aseq'[i] /\ u # s
      BY <1>4, <2>5
    <3>2. tag'[u] = tag[u] /\ tag[u] # b /\ tag[u] # NoTag /\ tag[u] \in GBlock
      BY <1>1, <1>2, <1>9, <3>1
    <3>3. PICK k \in CSlot, l \in CSlot : k < l /\ u = gfsc_lru_aseq[k] /\ t = gfsc_lru_aseq[l]
      BY <1>4, <1>9, <2>1, <2>2, <2>5, <3>1
    <3>4. <<tag[u], tag[t]>> \in newer
      BY <2>3, <3>2, <3>3 DEF ByLastUse
    <3> QED BY <1>7, <2>2, <2>3, <3>1, <3>2, <3>4
  <2> QED BY <2>4, <2>5
<1>10. ByLastUse(tag', gfsc_lru_aseq', newer')
  BY <1>9 DEF ByLastUse
<1> QED BY <1>2, <1>4, <1>5, <1>6, <1>10
-----------------------------------------------------------------------------
(* The operations.  Each keeps the invariant and is a step of GfsDisk.     *)

\* gfsc_read_block() returns what the disk holds.
LEMMA ReadKeeps ==
  ASSUME GfsCacheInv, NEW b \in GBlock, gfsc_read_block(b)
  PROVE  GfsCacheInv' /\ Disk!ReadBlock(b)
<1> DEFINE hit == gfsc_search(b)
<1>1. PICK s : s = IF hit # {} THEN Min(hit) ELSE glru_scan_or_evict
  OBVIOUS
<1>2. PICK v : v = IF hit # {} THEN block[s] ELSE disk.blocks[b]
  OBVIOUS
<1>3. Touch(s, b, v) /\ cout' = <<"is", v>> /\ UNCHANGED <<disk, bitmap, inodes, unsaved>>
  BY <1>1, <1>2, Zenon DEF gfsc_read_block, inodecopy
<1>4. /\ CacheTypeOK /\ BitsInPlace /\ bitmap = disk.bitmap
      /\ OnlyUnsaved(inodes, disk.inodes, unsaved)
      /\ AsOnDisk(tag, block, disk.blocks) /\ OnceEach(tag) /\ OnePlace(gfsc_lru_aseq)
      /\ ByLastUse(tag, gfsc_lru_aseq, newer)
  BY PartsOfGfsCacheInv
<1>5. /\ s \in CSlot /\ \A t \in CSlot \ {s} : tag[t] # b
      /\ hit # {} => tag[s] = b
  BY <1>1, <1>4, SlotFacts
<1>6. b # NoTag /\ disk.blocks[b] \in Content
  <2>1. disk.blocks \in [GBlock -> Content]
    BY <1>4 DEF CacheTypeOK, DiskType
  <2>2. b # NoTag
    BY GfsCacheAssumption DEF GBlock, NoTag
  <2> QED BY <2>1, <2>2
<1>7. v = disk.blocks[b]
  BY <1>2, <1>4, <1>5, <1>6 DEF AsOnDisk
<1>8. PICK on : on = disk.blocks
  OBVIOUS
<1>9. /\ tag' \in [CSlot -> GBlock \cup {NoTag}] /\ block' \in [CSlot -> Content]
      /\ gfsc_lru_aseq' \in [CSlot -> CSlot]
      /\ AsOnDisk(tag', block', on) /\ OnceEach(tag') /\ OnePlace(gfsc_lru_aseq')
      /\ ByLastUse(tag', gfsc_lru_aseq', newer')
  <2>1. v \in Content /\ on[b] = v /\ \A x \in GBlock \ {b} : on[x] = disk.blocks[x]
    BY <1>6, <1>7, <1>8
  <2> QED BY <1>3, <1>4, <1>5, <2>1, TouchKeeps
<1>10. on = disk'.blocks /\ CacheTypeOK' /\ BitsInPlace' /\ bitmap' = disk'.bitmap
       /\ OnlyUnsaved(inodes', disk'.inodes, unsaved')
  BY <1>3, <1>4, <1>8, <1>9 DEF CacheTypeOK, BitsInPlace
<1>11. GfsCacheInv'
  BY <1>9, <1>10, GfsCacheInvFromParts
<1>12. Disk!ReadBlock(b)
  BY <1>3, <1>7 DEF Disk!ReadBlock
<1> QED BY <1>11, <1>12

\* gfsc_write_block() writes the cache and the disk.
LEMMA WriteKeeps ==
  ASSUME GfsCacheInv, NEW b \in GBlock, NEW v \in Value, gfsc_write_block(b, v)
  PROVE  GfsCacheInv' /\ Disk!WriteBlock(b, v)
<1> DEFINE hit == gfsc_search(b)
<1>1. PICK s : s = IF hit # {} THEN Min(hit) ELSE glru_scan_or_evict
  OBVIOUS
<1>3. /\ Touch(s, b, v) /\ cout' = <<"ok">> /\ UNCHANGED <<bitmap, inodes, unsaved>>
      /\ disk' = [disk EXCEPT !.blocks[b] = v]
  BY <1>1, Zenon DEF gfsc_write_block, inodecopy
<1>4. /\ CacheTypeOK /\ BitsInPlace /\ bitmap = disk.bitmap
      /\ OnlyUnsaved(inodes, disk.inodes, unsaved)
      /\ AsOnDisk(tag, block, disk.blocks) /\ OnceEach(tag) /\ OnePlace(gfsc_lru_aseq)
      /\ ByLastUse(tag, gfsc_lru_aseq, newer)
  BY PartsOfGfsCacheInv
<1>5. s \in CSlot /\ \A t \in CSlot \ {s} : tag[t] # b
  BY <1>1, <1>4, SlotFacts
<1>6. /\ disk'.blocks = [disk.blocks EXCEPT ![b] = v]
      /\ disk'.bitmap = disk.bitmap /\ disk'.inodes = disk.inodes
      /\ disk' \in DiskType
  BY <1>3, <1>4 DEF CacheTypeOK, DiskType, Content
<1>8. PICK on : on = disk'.blocks
  OBVIOUS
<1>9. /\ tag' \in [CSlot -> GBlock \cup {NoTag}] /\ block' \in [CSlot -> Content]
      /\ gfsc_lru_aseq' \in [CSlot -> CSlot]
      /\ AsOnDisk(tag', block', on) /\ OnceEach(tag') /\ OnePlace(gfsc_lru_aseq')
      /\ ByLastUse(tag', gfsc_lru_aseq', newer')
  <2>1. v \in Content /\ on[b] = v /\ \A x \in GBlock \ {b} : on[x] = disk.blocks[x]
    BY <1>4, <1>6, <1>8 DEF Content, CacheTypeOK, DiskType
  <2> QED BY <1>3, <1>4, <1>5, <2>1, TouchKeeps
<1>10. CacheTypeOK' /\ BitsInPlace' /\ bitmap' = disk'.bitmap
       /\ OnlyUnsaved(inodes', disk'.inodes, unsaved')
  BY <1>3, <1>4, <1>6, <1>9 DEF CacheTypeOK, BitsInPlace
<1>11. GfsCacheInv'
  BY <1>8, <1>9, <1>10, GfsCacheInvFromParts
<1>12. Disk!WriteBlock(b, v)
  <2>1. StoreOf(disk', inodes') = [StoreOf(disk, inodes) EXCEPT !.blocks[b] = v]
    <3>1. StoreOf(disk', inodes') = [blocks |-> disk'.blocks, used |-> UsedIn(disk'.bitmap),
                            inodes |-> inodes', saved |-> disk'.inodes]
      BY DEF StoreOf
    <3>2. [StoreOf(disk, inodes) EXCEPT !.blocks[b] = v]
            = [blocks |-> [disk.blocks EXCEPT ![b] = v], used |-> UsedIn(disk.bitmap),
               inodes |-> inodes, saved |-> disk.inodes]
      BY DEF StoreOf
    <3> QED BY <1>3, <1>6, <3>1, <3>2
  <2> QED BY <1>3, <2>1 DEF Disk!WriteBlock, StoreOf, UsedIn
<1> QED BY <1>11, <1>12

\* An operation that leaves the cache of blocks and the blocks on the disk alone.
LEMMA BlocksStay ==
  ASSUME GfsCacheInv, UNCHANGED blockcache, disk' \in DiskType,
         disk'.blocks = disk.blocks, BitsInPlace',
         bitmap' = disk'.bitmap, inodes' \in [GIno -> Content],
         OnlyUnsaved(inodes', disk'.inodes, unsaved')
  PROVE  GfsCacheInv'
<1>1. /\ CacheTypeOK /\ AsOnDisk(tag, block, disk.blocks) /\ OnceEach(tag)
      /\ OnePlace(gfsc_lru_aseq) /\ ByLastUse(tag, gfsc_lru_aseq, newer)
  BY PartsOfGfsCacheInv
<1>2. /\ tag' = tag /\ block' = block /\ gfsc_lru_aseq' = gfsc_lru_aseq /\ newer' = newer
  BY DEF blockcache
<1>3. CacheTypeOK'
  BY <1>1, <1>2 DEF CacheTypeOK
<1>4. /\ AsOnDisk(tag', block', disk'.blocks) /\ OnceEach(tag')
      /\ OnePlace(gfsc_lru_aseq') /\ ByLastUse(tag', gfsc_lru_aseq', newer')
  BY <1>1, <1>2
<1> QED BY <1>3, <1>4, GfsCacheInvFromParts

\* GFS_alloc_in_bitmap() writes every sector in which it sets a bit.
LEMMA AllocKeeps ==
  ASSUME GfsCacheInv, NEW n \in 1 .. SectorBits * BitSectors, GFS_alloc_in_bitmap(n)
  PROVE  GfsCacheInv' /\ Disk!Alloc(n)
<1> DEFINE free == Bit \ UsedIn(bitmap)
           Low(i) == {j \in free : j < i}
           got == {i \in free : Cardinality(Low(i)) < n}
           Before(s) == {j \in free : SectorOf(j) < s}
           seen == {s \in BitSector : Cardinality(Before(s)) < n /\ free \cap InSector(s) # {}}
<1>1. /\ bitmap' = [s \in BitSector |-> bitmap[s] \cup (got \cap InSector(s))]
      /\ disk' = [disk EXCEPT !.bitmap = [s \in BitSector |->
                    IF s \in seen THEN bitmap'[s] ELSE disk.bitmap[s]]]
      /\ cout' = <<"got", got>>
      /\ UNCHANGED <<inodes, unsaved, blockcache>>
  BY Zenon DEF GFS_alloc_in_bitmap, UsedIn, inodecopy
<1>2. /\ disk \in DiskType /\ BitsInPlace /\ bitmap = disk.bitmap
      /\ OnlyUnsaved(inodes, disk.inodes, unsaved)
      /\ bitmap \in [BitSector -> SUBSET Bit]
  BY PartsOfGfsCacheInv DEF CacheTypeOK, DiskType
<1>3. n \in Nat
  BY GfsCacheAssumption
<1>4. got \in SUBSET Bit
  OBVIOUS
<1>5. \A s \in BitSector \ seen : got \cap InSector(s) = {}
  <2> SUFFICES ASSUME NEW s \in BitSector, NEW i \in got, i \in InSector(s)
               PROVE  s \in seen
    OBVIOUS
  <2>1. free \in SUBSET Bit /\ i \in free /\ SectorOf(i) = s
        /\ Cardinality({j \in free : j < i}) < n
    BY DEF InSector
  <2> HIDE DEF free
  <2>2. Cardinality({j \in free : SectorOf(j) < SectorOf(i)}) < n
    BY <1>3, <2>1, SectorsWritten
  <2> QED BY <2>1, <2>2
<1> HIDE DEF got, seen
<1>6. disk'.bitmap = bitmap'
  <2>1. disk'.bitmap = [s \in BitSector |-> IF s \in seen THEN bitmap'[s] ELSE disk.bitmap[s]]
    BY <1>1, <1>2 DEF DiskType
  <2>2. \A s \in BitSector : s \notin seen => bitmap'[s] = disk.bitmap[s]
    BY <1>1, <1>2, <1>5
  <2> QED BY <1>1, <2>1, <2>2
<1>7. /\ disk'.super = disk.super /\ disk'.blocks = disk.blocks /\ disk'.inodes = disk.inodes
      /\ \A s \in BitSector : bitmap'[s] = bitmap[s] \cup (got \cap InSector(s))
      /\ bitmap' \in [BitSector -> SUBSET Bit]
  BY <1>1, <1>2, <1>4 DEF DiskType
<1>8. disk' \in DiskType
  <2> DEFINE bm == [s \in BitSector |-> IF s \in seen THEN bitmap'[s] ELSE disk.bitmap[s]]
  <2>1. disk' = [disk EXCEPT !.bitmap = bm] /\ bm \in [BitSector -> SUBSET Bit]
    BY <1>1, <1>2, <1>7 DEF DiskType
  <2> HIDE DEF bm
  <2> QED BY <1>2, <2>1 DEF DiskType
<1>9. BitsInPlace'
  BY <1>2, <1>6, <1>7 DEF BitsInPlace
<1>10. GfsCacheInv'
  <2>1. inodes \in [GIno -> Content]
    BY PartsOfGfsCacheInv DEF CacheTypeOK
  <2> QED BY <1>1, <1>2, <1>6, <1>7, <1>8, <1>9, <2>1, BlocksStay
<1>11. UsedIn(disk'.bitmap) = UsedIn(disk.bitmap) \cup got
  BY <1>2, <1>4, <1>6, <1>7, BitsAdded
<1>12. got = Disk!FirstFree(UsedIn(disk.bitmap), n)
  <2> DEFINE F(U) == {i \in Bit \ U : Cardinality({j \in Bit \ U : j < i}) < n}
  <2>1. got = F(UsedIn(bitmap))
    BY DEF got
  <2>2. Disk!FirstFree(UsedIn(disk.bitmap), n) = F(UsedIn(disk.bitmap))
    BY Zenon DEF Disk!FirstFree, Disk!Cardinality, Cardinality
  <2> HIDE DEF F, free
  <2> QED BY <1>2, <2>1, <2>2
<1>13. Disk!Alloc(n)
  <2>1. StoreOf(disk', inodes') = [StoreOf(disk, inodes) EXCEPT !.used = @ \cup Disk!FirstFree(@, n)]
    <3>1. StoreOf(disk', inodes') = [blocks |-> disk'.blocks, used |-> UsedIn(disk'.bitmap),
                            inodes |-> inodes', saved |-> disk'.inodes]
      BY DEF StoreOf
    <3>2. PICK U : U = UsedIn(disk.bitmap) \cup got
      OBVIOUS
    <3>3. StoreOf(disk, inodes).used = UsedIn(disk.bitmap)
      BY DEF StoreOf
    <3>4. [StoreOf(disk, inodes) EXCEPT !.used = @ \cup Disk!FirstFree(@, n)]
            = [StoreOf(disk, inodes) EXCEPT !.used = U]
      BY <1>12, <3>2, <3>3, Zenon
    <3>5. [StoreOf(disk, inodes) EXCEPT !.used = U]
            = [blocks |-> disk.blocks, used |-> U, inodes |-> inodes, saved |-> disk.inodes]
      BY DEF StoreOf
    <3> QED BY <1>1, <1>7, <1>11, <3>1, <3>2, <3>4, <3>5
  <2>2. cout' = <<"got", Disk!FirstFree(StoreOf(disk, inodes).used, n)>>
    BY <1>1, <1>12 DEF StoreOf
  <2> QED BY <2>1, <2>2 DEF Disk!Alloc, StoreOf, UsedIn
<1> QED BY <1>10, <1>13

\* GFS_free_in_bitmap() writes the sector of the bit.
LEMMA FreeKeeps ==
  ASSUME GfsCacheInv, NEW i \in Bit, GFS_free_in_bitmap(i)
  PROVE  GfsCacheInv' /\ Disk!FreeBit(i)
<1> DEFINE k == SectorOf(i)
<1>1. /\ disk \in DiskType /\ BitsInPlace /\ bitmap = disk.bitmap
      /\ OnlyUnsaved(inodes, disk.inodes, unsaved)
      /\ disk.bitmap \in [BitSector -> SUBSET Bit] /\ inodes \in [GIno -> Content]
  BY PartsOfGfsCacheInv DEF CacheTypeOK, DiskType
<1>2. k \in BitSector
  BY SectorFacts
<1>3. /\ bitmap' = [disk.bitmap EXCEPT ![k] = @ \ {i}]
      /\ disk' = [disk EXCEPT !.bitmap[k] = bitmap'[k]]
      /\ cout' = <<"ok">> /\ UNCHANGED <<inodes, unsaved, blockcache>>
  BY <1>1 DEF GFS_free_in_bitmap, inodecopy
<1> HIDE DEF k
<1>4. bitmap'[k] = disk.bitmap[k] \ {i} /\ bitmap' \in [BitSector -> SUBSET Bit]
  BY <1>1, <1>2, <1>3
<1>5. /\ disk'.super = disk.super /\ disk'.blocks = disk.blocks /\ disk'.inodes = disk.inodes
      /\ disk'.bitmap = [disk.bitmap EXCEPT ![k] = bitmap'[k]]
      /\ disk' \in DiskType
  BY <1>1, <1>2, <1>3, <1>4 DEF DiskType
<1>6. disk'.bitmap = bitmap'
  BY <1>3, <1>4, <1>5
<1>7. BitsInPlace'
  BY <1>1, <1>3, <1>6 DEF BitsInPlace
<1>8. GfsCacheInv'
  BY <1>1, <1>3, <1>5, <1>6, <1>7, BlocksStay
<1>9. UsedIn(disk'.bitmap) = UsedIn(disk.bitmap) \ {i}
  BY <1>1, <1>3, <1>6, BitRemoved DEF BitsInPlace, k
<1>10. Disk!FreeBit(i)
  <2>1. StoreOf(disk', inodes') = [StoreOf(disk, inodes) EXCEPT !.used = @ \ {i}]
    <3>1. StoreOf(disk', inodes') = [blocks |-> disk'.blocks, used |-> UsedIn(disk'.bitmap),
                            inodes |-> inodes', saved |-> disk'.inodes]
      BY DEF StoreOf
    <3>2. [StoreOf(disk, inodes) EXCEPT !.used = @ \ {i}]
            = [blocks |-> disk.blocks, used |-> UsedIn(disk.bitmap) \ {i},
               inodes |-> inodes, saved |-> disk.inodes]
      BY DEF StoreOf
    <3> QED BY <1>3, <1>5, <1>9, <3>1, <3>2
  <2> QED BY <1>3, <2>1 DEF Disk!FreeBit, StoreOf, UsedIn
<1> QED BY <1>8, <1>10

\* GFS_read_inode() reads the copy in memory.
LEMMA ReadInodeKeeps ==
  ASSUME GfsCacheInv, NEW i \in GIno, GFS_read_inode(i)
  PROVE  GfsCacheInv' /\ Disk!ReadInode(i)
<1>1. /\ disk \in DiskType /\ BitsInPlace /\ bitmap = disk.bitmap
      /\ OnlyUnsaved(inodes, disk.inodes, unsaved) /\ inodes \in [GIno -> Content]
  BY PartsOfGfsCacheInv DEF CacheTypeOK
<1>2. UNCHANGED <<disk, bitmap, inodes, unsaved, blockcache>> /\ cout' = <<"is", inodes[i]>>
  BY DEF GFS_read_inode, inodecopy
<1>3. BitsInPlace'
  BY <1>1, <1>2 DEF BitsInPlace
<1>4. GfsCacheInv'
  BY <1>1, <1>2, <1>3, BlocksStay
<1>5. Disk!ReadInode(i)
  BY <1>2 DEF Disk!ReadInode
<1> QED BY <1>4, <1>5

\* GFS_write_inode() writes the sector of the inode: with it those that a failed write
\* has left behind, if they are in that sector.
LEMMA WriteInodeKeeps ==
  ASSUME GfsCacheInv, NEW i \in GIno, NEW v \in Value, GFS_write_inode(i, v)
  PROVE  GfsCacheInv' /\ Disk!WriteInode(i, v)
<1> DEFINE B == BesideInode(i)
           ino == [j \in GIno |-> IF j \in B THEN inodes'[j] ELSE disk.inodes[j]]
<1>1. /\ disk \in DiskType /\ BitsInPlace /\ bitmap = disk.bitmap
      /\ OnlyUnsaved(inodes, disk.inodes, unsaved) /\ inodes \in [GIno -> Content]
      /\ disk.inodes \in [GIno -> Content]
  BY PartsOfGfsCacheInv DEF CacheTypeOK, DiskType
<1>2. /\ inodes' = [inodes EXCEPT ![i] = v] /\ disk' = [disk EXCEPT !.inodes = ino]
      /\ unsaved' = unsaved \ B /\ cout' = <<"ok">> /\ UNCHANGED <<bitmap, blockcache>>
  BY Zenon DEF GFS_write_inode
<1>3. i \in B /\ B \in SUBSET GIno
  BY DEF BesideInode
<1>4. ino \in [GIno -> Content] /\ inodes' \in [GIno -> Content]
  BY <1>1, <1>2 DEF Content
<1>5. OnlyUnsaved(inodes', ino, unsaved')
  <2> SUFFICES ASSUME NEW j \in GIno, inodes'[j] # ino[j] PROVE j \in unsaved \ B
    BY <1>2 DEF OnlyUnsaved
  <2>1. j \notin B /\ inodes'[j] # disk.inodes[j]
    OBVIOUS
  <2>2. inodes'[j] = inodes[j]
    BY <1>1, <1>2, <1>3, <2>1
  <2> QED BY <1>1, <2>1, <2>2 DEF OnlyUnsaved
<1>6. \A j \in GIno : ino[j] = IF j \in {i} \cup B THEN inodes'[j] ELSE disk.inodes[j]
  BY <1>3
<1> HIDE DEF ino, B
<1>7. /\ disk'.super = disk.super /\ disk'.blocks = disk.blocks /\ disk'.inodes = ino
      /\ disk'.bitmap = disk.bitmap /\ disk' \in DiskType
  BY <1>1, <1>2, <1>4 DEF DiskType
<1>8. BitsInPlace'
  BY <1>1, <1>7 DEF BitsInPlace
<1>9. GfsCacheInv'
  BY <1>1, <1>2, <1>4, <1>5, <1>7, <1>8, BlocksStay
<1>10. Disk!WriteInode(i, v)
  <2> DEFINE now == [StoreOf(disk, inodes).inodes EXCEPT ![i] = v]
             all == [j \in GIno |-> IF j \in {i} \cup B THEN now[j]
                                    ELSE StoreOf(disk, inodes).saved[j]]
  <2>1. now = inodes' /\ all = ino
    <3>1. now = inodes'
      BY <1>2 DEF StoreOf
    <3>2. \A j \in GIno : all[j] = ino[j]
      BY <1>6, <3>1 DEF StoreOf
    <3> QED BY <1>4, <3>1, <3>2
  <2> HIDE DEF now, all
  <2>2. StoreOf(disk', inodes') = [blocks |-> disk.blocks, used |-> UsedIn(disk.bitmap),
                                   inodes |-> now, saved |-> all]
    BY <1>7, <2>1 DEF StoreOf
  <2>3. StoreOf(disk, inodes).blocks = disk.blocks /\ StoreOf(disk, inodes).used = UsedIn(disk.bitmap)
    BY DEF StoreOf
  <2>4. \E J \in SUBSET GIno :
          StoreOf(disk', inodes')
            = [blocks |-> StoreOf(disk, inodes).blocks, used |-> StoreOf(disk, inodes).used,
               inodes |-> now,
               saved |-> [j \in GIno |-> IF j \in {i} \cup J THEN now[j]
                                        ELSE StoreOf(disk, inodes).saved[j]]]
    BY <1>3, <2>2, <2>3, Zenon DEF all
  <2> QED BY <1>2, <2>4, Zenon DEF Disk!WriteInode, StoreOf, UsedIn, now
<1> QED BY <1>9, <1>10

\* do_write() that fails leaves its inode to be saved later, or never.
LEMMA FailedWriteKeeps ==
  ASSUME GfsCacheInv, NEW i \in GIno, NEW v \in Value, do_write_fails(i, v)
  PROVE  GfsCacheInv' /\ Disk!FailedWrite(i, v)
<1>1. /\ disk \in DiskType /\ BitsInPlace /\ bitmap = disk.bitmap
      /\ OnlyUnsaved(inodes, disk.inodes, unsaved) /\ inodes \in [GIno -> Content]
  BY PartsOfGfsCacheInv DEF CacheTypeOK
<1>2. /\ inodes' = [inodes EXCEPT ![i] = v] /\ unsaved' = unsaved \cup {i}
      /\ cout' = <<"error">> /\ UNCHANGED <<disk, bitmap, blockcache>>
  BY DEF do_write_fails
<1>3. OnlyUnsaved(inodes', disk'.inodes, unsaved') /\ inodes' \in [GIno -> Content]
  BY <1>1, <1>2 DEF OnlyUnsaved, Content
<1>4. BitsInPlace'
  BY <1>1, <1>2 DEF BitsInPlace
<1>5. GfsCacheInv'
  BY <1>1, <1>2, <1>3, <1>4, BlocksStay
<1>6. Disk!FailedWrite(i, v)
  <2>1. StoreOf(disk', inodes') = [StoreOf(disk, inodes) EXCEPT !.inodes[i] = v]
    BY <1>2 DEF StoreOf
  <2> QED BY <1>2, <2>1 DEF Disk!FailedWrite, StoreOf, UsedIn
<1> QED BY <1>5, <1>6
-----------------------------------------------------------------------------
(* Mounting and creating a file system.                                    *)

\* GFS_cache_init() leaves a coherent cache, an empty one, over any disk.
LEMMA CacheInitKeeps ==
  ASSUME CacheTypeOK, NEW d \in DiskType, \A s \in BitSector : d.bitmap[s] \subseteq InSector(s),
         disk' = d, GFS_cache_init(d)
  PROVE  GfsCacheInv'
<1>1. /\ bitmap' = d.bitmap /\ inodes' = d.inodes /\ unsaved' = {} /\ tag' = [s \in CSlot |-> NoTag]
      /\ gfsc_lru_aseq' = [i \in CSlot |-> i] /\ block' = block
  BY DEF GFS_cache_init
<1>2. CacheTypeOK' /\ OnlyUnsaved(inodes', disk'.inodes, unsaved')
  BY <1>1 DEF CacheTypeOK, DiskType, OnlyUnsaved
<1>3. \A s \in CSlot : tag'[s] = NoTag /\ gfsc_lru_aseq'[s] = s
  BY <1>1
<1>4. AsOnDisk(tag', block', disk'.blocks) /\ OnceEach(tag')
  BY <1>3 DEF AsOnDisk, OnceEach
<1>5. OnePlace(gfsc_lru_aseq') /\ ByLastUse(tag', gfsc_lru_aseq', newer')
  BY <1>3 DEF OnePlace, ByLastUse
<1>6. BitsInPlace'
  BY DEF BitsInPlace
<1> QED BY <1>1, <1>2, <1>4, <1>5, <1>6, GfsCacheInvFromParts

\* A restart keeps what is on the disk.
LEMMA RestartKeeps ==
  ASSUME GfsCacheInv, Restart
  PROVE  GfsCacheInv' /\ Disk!Restart
<1>1. CacheTypeOK /\ BitsInPlace /\ disk \in DiskType
  BY PartsOfGfsCacheInv DEF CacheTypeOK
<1>2. PICK d : d = disk
  OBVIOUS
<1>3. GFS_cache_init(d) /\ disk' = d /\ cout' = <<"ok">>
  BY <1>2 DEF Restart
<1>4. GfsCacheInv'
  BY <1>1, <1>2, <1>3, CacheInitKeeps DEF BitsInPlace
<1>5. StoreOf(disk', inodes') = [StoreOf(disk, inodes) EXCEPT !.inodes = StoreOf(disk, inodes).saved]
  BY <1>2, <1>3 DEF StoreOf, GFS_cache_init
<1> QED BY <1>3, <1>4, <1>5 DEF Disk!Restart, StoreOf, UsedIn

\* do_mkfs() leaves an empty file system, whatever was on the disk.
LEMMA MakeFileSystemKeeps ==
  ASSUME GfsCacheInv, NEW force \in BOOLEAN, MakeFileSystem(force)
  PROVE  GfsCacheInv' /\ 1 \in GBlock /\ Disk!Mkfs(1)
<1>1. /\ CacheTypeOK /\ disk \in DiskType /\ 0 \in BitSector /\ 0 \in Bit
      /\ 0 \in InSector(0) /\ 0 \in GIno /\ 1 \in GBlock
  BY PartsOfGfsCacheInv, SectorFacts, GfsCacheAssumption DEF CacheTypeOK, GIno, GBlock
<1> DEFINE d == [disk EXCEPT !.super = "valid", !.bitmap = [s \in BitSector |-> {}]]
<1>2. PICK e : e = [d EXCEPT !.bitmap[0] = {0}, !.inodes[0] = Root, !.blocks[1] = Root]
  OBVIOUS
<1>3. disk' = e /\ GFS_cache_init(e) /\ cout' = <<"ok">>
  BY <1>2, Zenon DEF MakeFileSystem
<1>4. /\ d \in DiskType /\ d.blocks = disk.blocks /\ d.inodes = disk.inodes
      /\ d.super = "valid" /\ d.bitmap = [s \in BitSector |-> {}]
  BY <1>1 DEF DiskType
<1> HIDE DEF d
<1>5. /\ e.super = "valid" /\ e.blocks = [disk.blocks EXCEPT ![1] = Root]
      /\ e.inodes = [disk.inodes EXCEPT ![0] = Root]
      /\ e.bitmap = [d.bitmap EXCEPT ![0] = {0}]
      /\ e = [super |-> e.super, blocks |-> e.blocks, bitmap |-> e.bitmap, inodes |-> e.inodes]
  BY <1>2, <1>4 DEF DiskType
<1>6. \A s \in BitSector : e.bitmap[s] = IF s = 0 THEN {0} ELSE {}
  BY <1>1, <1>4, <1>5
<1>7. e \in DiskType
  <2>1. e.blocks \in [GBlock -> Content] /\ e.inodes \in [GIno -> Content]
    BY <1>1, <1>5 DEF DiskType, Content
  <2>2. e.bitmap \in [BitSector -> SUBSET Bit]
    BY <1>1, <1>4, <1>5
  <2> QED BY <1>5, <2>1, <2>2 DEF DiskType
<1>8. \A s \in BitSector : e.bitmap[s] \subseteq InSector(s)
  BY <1>1, <1>6
<1>9. GfsCacheInv'
  BY <1>1, <1>3, <1>7, <1>8, CacheInitKeeps
<1>10. UsedIn(e.bitmap) = {0}
  <2>1. ASSUME NEW i PROVE i \in UsedIn(e.bitmap) <=> i \in {0}
    BY <1>1, <1>6, UsedInIs
  <2> QED BY <2>1
<1>11. Disk!Mkfs(1)
  <2>1. StoreOf(disk', inodes') = [blocks |-> [disk.blocks EXCEPT ![1] = Root], used |-> {0},
                                   inodes |-> [disk.inodes EXCEPT ![0] = Root],
                                   saved |-> [disk.inodes EXCEPT ![0] = Root]]
    BY <1>3, <1>5, <1>10 DEF StoreOf, GFS_cache_init
  <2> QED BY <1>3, <2>1 DEF Disk!Mkfs, StoreOf, UsedIn
<1> QED BY <1>1, <1>9, <1>11
-----------------------------------------------------------------------------
(* The invariant is inductive, and GfsDisk is implemented.                 *)

\* A machine with no file system on its disk.
LEMMA CacheInitially == CacheInit => GfsCacheInv /\ Disk!DiskInit
<1> SUFFICES ASSUME CacheInit PROVE GfsCacheInv /\ Disk!DiskInit
  OBVIOUS
<1>1. /\ disk.blocks = [b \in GBlock |-> Old] /\ disk.inodes = [i \in GIno |-> Old]
      /\ disk.bitmap = [s \in BitSector |-> {}] /\ disk \in DiskType
  BY DEF CacheInit, DiskType, Content
<1>2. CacheTypeOK
  BY <1>1 DEF CacheInit, CacheTypeOK, Content
<1>3. BitsInPlace
  BY <1>1 DEF BitsInPlace
<1>4. \A s \in CSlot : tag[s] = NoTag /\ gfsc_lru_aseq[s] = s
  BY DEF CacheInit
<1>5. AsOnDisk(tag, block, disk.blocks) /\ OnceEach(tag)
  BY <1>4 DEF AsOnDisk, OnceEach
<1>6. OnePlace(gfsc_lru_aseq) /\ ByLastUse(tag, gfsc_lru_aseq, newer)
  BY <1>4 DEF OnePlace, ByLastUse
<1>7. UNION {disk.bitmap[s] : s \in BitSector} = {}
  BY <1>1
<1>8. OnlyUnsaved(inodes, disk.inodes, unsaved)
  BY DEF CacheInit, OnlyUnsaved
<1> QED BY <1>1, <1>2, <1>3, <1>5, <1>6, <1>7, <1>8, PartsOfGfsCacheInv DEF CacheInit, Disk!DiskInit

\* Every step keeps the invariant and is a step of GfsDisk or changes nothing there.
LEMMA CacheStep ==
  GfsCacheInv /\ [CacheNext]_cachevars => GfsCacheInv' /\ [Disk!DiskNext]_Disk!diskvars
<1> DEFINE Kept == GfsCacheInv' /\ [Disk!DiskNext]_Disk!diskvars
<1> SUFFICES ASSUME GfsCacheInv, [CacheNext]_cachevars PROVE Kept
  OBVIOUS
<1> HIDE DEF CacheNext
<1>1. CASE UNCHANGED cachevars
  <2>1. GfsCacheInv'
    BY <1>1 DEF cachevars, GfsCacheInv, CacheTypeOK, BitsInPlace, CacheCoherent
  <2>2. UNCHANGED Disk!diskvars
    BY <1>1 DEF cachevars, Disk!diskvars
  <2> QED BY <2>1, <2>2
<1>2. ASSUME NEW force \in BOOLEAN, MakeFileSystem(force) PROVE Kept
  <2>1. GfsCacheInv' /\ 1 \in GBlock /\ Disk!Mkfs(1)
    BY <1>2, MakeFileSystemKeeps
  <2> QED BY <2>1 DEF Disk!DiskNext
<1>3. ASSUME Restart PROVE Kept
  <2>1. GfsCacheInv' /\ Disk!Restart
    BY <1>3, RestartKeeps
  <2> QED BY <2>1 DEF Disk!DiskNext
<1>4. ASSUME NEW b \in GBlock, gfsc_read_block(b) PROVE Kept
  BY <1>4, ReadKeeps DEF Disk!DiskNext
<1>5. ASSUME NEW b \in GBlock, NEW v \in Value, gfsc_write_block(b, v) PROVE Kept
  BY <1>5, WriteKeeps DEF Disk!DiskNext
<1>6. ASSUME NEW n \in 1 .. SectorBits * BitSectors, GFS_alloc_in_bitmap(n) PROVE Kept
  <2>1. Disk!Cardinality(Bit) = Cardinality(Bit)
    BY Zenon DEF Disk!Cardinality, Cardinality
  <2>2. n \in 1 .. Disk!Cardinality(Bit)
    BY <2>1, BitFinite
  <2>3. GfsCacheInv' /\ Disk!Alloc(n)
    BY <1>6, AllocKeeps
  <2> QED BY <2>2, <2>3, Zenon DEF Disk!DiskNext
<1>7. ASSUME NEW i \in Bit, GFS_free_in_bitmap(i) PROVE Kept
  BY <1>7, FreeKeeps DEF Disk!DiskNext
<1>8. ASSUME NEW i \in GIno, GFS_read_inode(i) PROVE Kept
  BY <1>8, ReadInodeKeeps DEF Disk!DiskNext
<1>9. ASSUME NEW i \in GIno, NEW v \in Value, GFS_write_inode(i, v) PROVE Kept
  BY <1>9, WriteInodeKeeps DEF Disk!DiskNext
<1>10. ASSUME NEW i \in GIno, NEW v \in Value, do_write_fails(i, v) PROVE Kept
  BY <1>10, FailedWriteKeeps DEF Disk!DiskNext
<1> HIDE DEF Kept
<1> QED BY <1>1, <1>2, <1>3, <1>4, <1>5, <1>6, <1>7, <1>8, <1>9, <1>10 DEF CacheNext

\* The copies in memory are as on the disk but for inodes that a failed do_write() has
\* left behind, no block is cached twice or stale, and gfsc_lru_aseq[] orders the cached blocks by their last use, whatever GFS reads,
\* writes, allocates and frees, and across restarts and mkfs.
THEOREM CacheIsCoherent == CacheSpec => []CacheCoherent
<1>1. GfsCacheInv => CacheCoherent
  BY DEF GfsCacheInv
<1> QED BY <1>1, CacheInitially, CacheStep, PTL DEF CacheSpec

\* GFS reads back from its cache, its copies and, after a restart, its disk what it
\* would from the disk of GfsDisk, which forgets at a restart what a failed
\* do_write() has made of an inode, unless that was saved with another one.
THEOREM CacheIsInvisible == CacheSpec => ImplementsDisk
<1> QED BY CacheInitially, CacheStep, PTL DEF CacheSpec, ImplementsDisk, Disk!DiskSpec
-----------------------------------------------------------------------------
(* The blocks of a file: division.                                          *)

\* Division with remainder.
LEMMA DivIs ==
  ASSUME NEW x \in Nat, NEW d \in Nat \ {0}
  PROVE  /\ x \div d \in Nat /\ x % d \in 0 .. d - 1
         /\ x = d * (x \div d) + (x % d)
OBVIOUS

LEMMA DivUnique ==
  ASSUME NEW d \in Nat \ {0}, NEW q \in Nat, NEW r \in 0 .. d - 1, NEW x \in Nat, x = d * q + r
  PROVE  x \div d = q /\ x % d = r
<1>1. x \div d \in Nat /\ x % d \in 0 .. d - 1 /\ x = d * (x \div d) + (x % d)
  BY DivIs
<1> DEFINE q1 == x \div d
           r1 == x % d
<1> HIDE DEF q1, r1
<1>2. d * q + r = d * q1 + r1 /\ q1 \in Nat /\ r1 \in 0 .. d - 1
  BY <1>1 DEF q1, r1
<1>3. q <= q1
  <2> SUFFICES ASSUME q1 < q PROVE FALSE
    BY <1>2
  <2>1. q1 + 1 <= q
    BY <1>2
  <2>2. d * (q1 + 1) <= d * q
    BY <1>2, <2>1
  <2>3. d * (q1 + 1) = d * q1 + d
    BY <1>2
  <2> QED BY <1>2, <2>2, <2>3
<1>4. q1 <= q
  <2> SUFFICES ASSUME q < q1 PROVE FALSE
    BY <1>2
  <2>1. q + 1 <= q1
    BY <1>2
  <2>2. d * (q + 1) <= d * q1
    BY <1>2, <2>1
  <2>3. d * (q + 1) = d * q + d
    BY <1>2
  <2> QED BY <1>2, <2>2, <2>3
<1>5. q1 = q
  BY <1>2, <1>3, <1>4
<1> QED BY <1>2, <1>5 DEF q1, r1
-----------------------------------------------------------------------------
(* Slots and sizes: the blocks of a file, counted in file order.            *)

\* Products keep the order.
LEMMA TimesMono ==
  ASSUME NEW d \in Nat, NEW a \in Int, NEW b \in Int, a <= b
  PROVE  d * a <= d * b
<1>1. b - a \in Nat
  OBVIOUS
<1>2. d * (b - a) >= 0
  BY <1>1
<1>3. d * (b - a) = d * b - d * a
  OBVIOUS
<1> QED BY <1>2, <1>3

LEMMA TimesLess ==
  ASSUME NEW d \in Nat, NEW a \in Int, NEW b \in Int, d * a < d * b
  PROVE  a < b
<1> SUFFICES ASSUME b <= a PROVE FALSE
  OBVIOUS
<1>1. d * b <= d * a
  BY TimesMono
<1> QED BY <1>1

\* udiv() rounds up.
LEMMA UdivIs ==
  ASSUME NEW x \in Nat, NEW d \in Nat \ {0}
  PROVE  udiv(x, d) \in Nat /\ x <= d * udiv(x, d) /\ d * udiv(x, d) < x + d
<1> DEFINE y == x + (d - 1)
<1>1. y \in Nat
  OBVIOUS
<1>2. y \div d \in Nat /\ y % d \in 0 .. d - 1 /\ y = d * (y \div d) + (y % d)
  BY <1>1, DivIs
<1>3. udiv(x, d) = y \div d
  BY DEF udiv
<1> DEFINE q == y \div d
           r == y % d
<1>4. x + (d - 1) = d * q + r /\ r \in 0 .. d - 1 /\ q \in Nat
  BY <1>2
<1> HIDE DEF q, r
<1>5. d * q \in Int
  BY <1>4
<1>6. x <= d * q /\ d * q < x + d
  BY <1>4, <1>5
<1> QED BY <1>3, <1>4, <1>6 DEF q

LEMMA UdivUnique ==
  ASSUME NEW x \in Nat, NEW d \in Nat \ {0}, NEW u \in Nat, x <= d * u, d * u < x + d
  PROVE  udiv(x, d) = u
<1> DEFINE y == x + (d - 1)
           r == y - d * u
<1>1. d * u \in Int
  OBVIOUS
<1>2. y \in Nat /\ r \in 0 .. d - 1 /\ y = d * u + r
  BY <1>1
<1>3. y \div d = u
  <2> HIDE DEF y, r
  <2> QED BY <1>2, DivUnique
<1> QED BY <1>3 DEF udiv

\* udiv() is the least quotient that covers x.
LEMMA UdivLeast ==
  ASSUME NEW x \in Nat, NEW d \in Nat \ {0}, NEW u \in Int, x <= d * u
  PROVE  udiv(x, d) <= u
<1> DEFINE v == udiv(x, d)
<1>1. v \in Nat /\ d * v < x + d
  BY UdivIs
<1> HIDE DEF v
<1>2. d * v < d * (u + 1)
  <2>1. d * (u + 1) = d * u + d /\ d * u \in Int /\ d * v \in Int
    BY <1>1
  <2> QED BY <1>1, <2>1
<1>3. v < u + 1
  BY <1>1, <1>2, TimesLess
<1>4. v <= u
  BY <1>1, <1>3
<1> QED BY <1>4 DEF v

LEMMA UdivMono ==
  ASSUME NEW x \in Nat, NEW y \in Nat, NEW d \in Nat \ {0}, x <= y
  PROVE  udiv(x, d) <= udiv(y, d)
<1> DEFINE v == udiv(y, d)
<1>1. v \in Nat /\ y <= d * v
  BY UdivIs
<1>2. x <= d * v
  <2> HIDE DEF v
  <2>1. d * v \in Int
    BY <1>1
  <2> QED BY <1>1, <2>1
<1> HIDE DEF v
<1>3. udiv(x, d) <= v
  BY <1>1, <1>2, UdivLeast
<1> QED BY <1>3 DEF v

\* Whole blocks can be taken off before rounding.
LEMMA UdivShift ==
  ASSUME NEW x \in Nat, NEW d \in Nat \ {0}, NEW k \in Nat, d * k <= x
  PROVE  udiv(x - d * k, d) = udiv(x, d) - k
<1> DEFINE v == udiv(x, d)
<1>1. v \in Nat /\ x <= d * v /\ d * v < x + d
  BY UdivIs
<1> HIDE DEF v
<1>2. d * v \in Int /\ d * k \in Int /\ d * (v - k) = d * v - d * k
  BY <1>1
<1>3. d * k <= d * v
  BY <1>1, <1>2
<1>4. k <= v
  <2> SUFFICES ASSUME v < k PROVE FALSE
    BY <1>1
  <2>1. d * (v + 1) <= d * k
    BY <1>1, TimesMono
  <2>2. d * (v + 1) = d * v + d
    BY <1>1
  <2> QED BY <1>2, <1>3, <2>1, <2>2
<1> DEFINE x1 == x - d * k
           u == v - k
<1>5. x1 \in Nat /\ u \in Nat /\ x1 <= d * u /\ d * u < x1 + d
  BY <1>1, <1>2, <1>4
<1>6. udiv(x1, d) = u
  <2> HIDE DEF x1, u
  <2> QED BY <1>5, UdivUnique
<1> QED BY <1>6 DEF v

\* Rounding twice is rounding once.
LEMMA UdivUdiv ==
  ASSUME NEW x \in Nat, NEW d \in Nat \ {0}, NEW e \in Nat \ {0}
  PROVE  udiv(udiv(x, d), e) = udiv(x, e * d)
<1> DEFINE c == e * d
           w == udiv(x, d)
           u == udiv(x, c)
<1>1. c \in Nat \ {0}
  <2>1. d * 1 <= d * e
    BY TimesMono
  <2> QED BY <2>1
<1>2. w \in Nat /\ x <= d * w /\ d * w < x + d
  BY UdivIs
<1>3. u \in Nat /\ x <= c * u /\ c * u < x + c
  <2> HIDE DEF c
  <2> QED BY <1>1, UdivIs
<1> HIDE DEF w, u
<1>4. c * u = d * (e * u) /\ d * (w + e) = d * w + c
  BY <1>2, <1>3
<1> HIDE DEF c
<1>5. e * u \in Nat
  BY <1>3
<1>6. w <= e * u
  <2>1. x <= d * (e * u)
    BY <1>3, <1>4
  <2> DEFINE v == e * u
  <2> HIDE DEF v
  <2>2. udiv(x, d) <= v
    BY <1>5, <2>1, UdivLeast DEF v
  <2> QED BY <2>2 DEF v, w
<1>7. e * u < w + e
  <2> DEFINE v == e * u
  <2>1. d * v < d * (w + e)
    <3>1. d * v \in Int /\ d * w \in Int
      BY <1>2, <1>5
    <3> QED BY <1>1, <1>2, <1>3, <1>4, <3>1
  <2> HIDE DEF v
  <2>2. v < w + e
    BY <1>2, <1>5, <2>1, TimesLess DEF v
  <2> QED BY <2>2 DEF v
<1>8. udiv(w, e) = u
  BY <1>2, <1>3, <1>6, <1>7, UdivUnique
<1> QED BY <1>8 DEF w, u, c

\* Blocks of a file with q data blocks, the pointer blocks included.
Blocks(q) ==
  IF q <= FDirect THEN q
  ELSE IF q <= FDirect + NP THEN q + 1
  ELSE q + 2 + udiv(q - FDirect - NP, NP)

LEMMA Params ==
  /\ FDirect \in Nat \ {0} /\ NP \in Nat \ {0} /\ BLOCK_SIZE \in Nat \ {0}
  /\ FBlocks \in Nat \ {0} /\ MaxLen \in Nat \ {0} /\ MaxOther \in Nat
  /\ MaxPos \in Nat /\ MaxPos <= BLOCK_SIZE * (FDirect + NP * (1 + NP))
  /\ FBlocks <= NSlots
<1>1. BLOCK_SIZE * (FDirect + FPtrsPerBlock * (1 + FPtrsPerBlock)) \in Int
  BY GfsFileAssumption
<1> QED BY <1>1, GfsFileAssumption, GfsFileBlocksAssumption DEF NP

LEMMA BlocksNat ==
  ASSUME NEW q \in Nat
  PROVE  Blocks(q) \in Nat
<1>1. CASE q > FDirect + NP
  <2>1. q - FDirect - NP \in Nat
    BY <1>1, Params
  <2>2. udiv(q - FDirect - NP, NP) \in Nat
    BY <2>1, Params, UdivIs
  <2> QED BY <1>1, <2>2, Params DEF Blocks
<1>2. CASE q <= FDirect + NP
  BY <1>2, Params DEF Blocks
<1> QED BY <1>1, <1>2, Params

\* A larger file has more blocks.
LEMMA BlocksLess ==
  ASSUME NEW q \in Nat, NEW r \in Nat, q < r
  PROVE  Blocks(q) < Blocks(r)
<1>1. CASE r <= FDirect + NP
  BY <1>1, Params DEF Blocks
<1>2. CASE r > FDirect + NP
  <2>1. r - FDirect - NP \in Nat
    BY <1>2, Params
  <2>2. udiv(r - FDirect - NP, NP) \in Nat
    BY <2>1, Params, UdivIs
  <2>3. CASE q <= FDirect + NP
    BY <1>2, <2>2, <2>3, Params DEF Blocks
  <2>4. CASE q > FDirect + NP
    <3>1. q - FDirect - NP \in Nat /\ q - FDirect - NP <= r - FDirect - NP
      BY <2>4, Params
    <3>2. udiv(q - FDirect - NP, NP) <= udiv(r - FDirect - NP, NP)
      BY <2>1, <3>1, Params, UdivMono
    <3>3. udiv(q - FDirect - NP, NP) \in Nat
      BY <3>1, Params, UdivIs
    <3> QED BY <1>2, <2>2, <2>4, <3>2, <3>3, Params DEF Blocks
  <2> QED BY <2>3, <2>4, Params
<1> QED BY <1>1, <1>2, Params

LEMMA BlocksMono ==
  ASSUME NEW q \in Nat, NEW r \in Nat, q <= r
  PROVE  Blocks(q) <= Blocks(r)
<1>1. CASE q = r
  BY <1>1, BlocksNat
<1>2. CASE q < r
  BY <1>2, BlocksLess, BlocksNat
<1> QED BY <1>1, <1>2

\* GFS_nbytes2blocks() counts the data blocks that the bytes need.
LEMMA BytesToBlocks ==
  ASSUME NEW n \in Nat
  PROVE  GFS_nbytes2blocks(n) = Blocks(udiv(n, BLOCK_SIZE))
<1> DEFINE q == udiv(n, BLOCK_SIZE)
           b == BLOCK_SIZE
<1>0. b \in Nat \ {0} /\ FDirect \in Nat \ {0} /\ NP \in Nat \ {0}
  BY Params
<1> HIDE DEF b
<1>1. q \in Nat /\ n <= b * q /\ b * q < n + b
  BY <1>0, UdivIs DEF b
<1>2. b * FDirect \in Nat /\ b * NP \in Nat /\ b * (FDirect + NP) = b * FDirect + b * NP
  BY <1>0
<1>3. n <= b * FDirect <=> q <= FDirect
  <2>1. ASSUME n <= b * FDirect PROVE q <= FDirect
    BY <1>0, <2>1, UdivLeast DEF b
  <2>2. ASSUME q <= FDirect PROVE n <= b * FDirect
    <3> HIDE DEF q
    <3>1. b * q <= b * FDirect /\ b * q \in Int
      BY <1>0, <1>1, <2>2, TimesMono
    <3> QED BY <1>1, <1>2, <3>1
  <2> QED BY <2>1, <2>2
<1>4. n <= b * (FDirect + NP) <=> q <= FDirect + NP
  <2>1. ASSUME n <= b * (FDirect + NP) PROVE q <= FDirect + NP
    BY <1>0, <2>1, UdivLeast DEF b
  <2>2. ASSUME q <= FDirect + NP PROVE n <= b * (FDirect + NP)
    <3> HIDE DEF q
    <3>1. b * q <= b * (FDirect + NP) /\ b * q \in Int
      BY <1>0, <1>1, <2>2, TimesMono
    <3> QED BY <1>1, <1>2, <3>1
  <2> QED BY <2>1, <2>2
<1>5. CASE n <= b * FDirect
  BY <1>0, <1>3, <1>5 DEF GFS_nbytes2blocks, Blocks, b
<1>6. CASE n > b * FDirect /\ n <= b * (FDirect + NP)
  <2>1. udiv(n - b * FDirect, b) = q - FDirect
    BY <1>0, <1>2, <1>6, UdivShift DEF b
  <2>2. q > FDirect /\ q <= FDirect + NP
    BY <1>0, <1>1, <1>2, <1>3, <1>4, <1>6
  <2>3. FDirect * b = b * FDirect /\ NP * b = b * NP
    BY <1>0
  <2>4. GFS_nbytes2blocks(n) = FDirect + 1 + udiv(n - b * FDirect, b)
    BY <1>0, <1>2, <1>6, <2>3 DEF GFS_nbytes2blocks, b
  <2>5. Blocks(q) = q + 1
    BY <1>0, <1>1, <2>2 DEF Blocks
  <2> HIDE DEF q
  <2>6. GFS_nbytes2blocks(n) = q + 1
    BY <1>0, <1>1, <2>1, <2>4
  <2> QED BY <2>5, <2>6 DEF q
<1>7. CASE n > b * (FDirect + NP)
  <2> DEFINE rest == n - b * (FDirect + NP)
  <2>0. rest \in Nat
    BY <1>0, <1>2, <1>7
  <2>1. udiv(rest, b) = q - (FDirect + NP)
    BY <1>0, <1>2, <1>7, UdivShift DEF b
  <2>2. q > FDirect + NP
    BY <1>0, <1>1, <1>2, <1>4, <1>7
  <2>3. FDirect * b = b * FDirect /\ NP * b = b * NP
    BY <1>0
  <2>4. n - b * FDirect - b * NP = rest
    BY <1>0, <1>2
  <2>5. GFS_nbytes2blocks(n) = FDirect + 1 + 1 + NP + udiv(rest, b) + udiv(rest, NP * b)
    <3>1. ~ (n <= b * FDirect) /\ ~ (n - b * FDirect <= b * NP)
      BY <1>0, <1>2, <1>7
    <3> HIDE DEF rest
    <3> QED BY <2>3, <2>4, <3>1 DEF GFS_nbytes2blocks, b
  <2>6. udiv(rest, NP * b) = udiv(q - FDirect - NP, NP)
    <3>1. udiv(udiv(rest, b), NP) = udiv(rest, NP * b)
      <4> HIDE DEF rest
      <4> QED BY <1>0, <2>0, UdivUdiv
    <3>2. q - (FDirect + NP) = q - FDirect - NP
      BY <1>0, <1>1
    <3> QED BY <2>1, <3>1, <3>2
  <2>7. Blocks(q) = q + 2 + udiv(q - FDirect - NP, NP)
    BY <1>0, <1>1, <2>2 DEF Blocks
  <2>8. udiv(q - FDirect - NP, NP) \in Nat
    <3>1. q - FDirect - NP \in Nat
      BY <1>0, <1>1, <2>2
    <3> QED BY <1>0, <3>1, UdivIs
  <2> DEFINE z == udiv(q - FDirect - NP, NP)
             y == udiv(rest, b)
  <2>9. z \in Nat /\ y = q - (FDirect + NP)
        /\ GFS_nbytes2blocks(n) = FDirect + 1 + 1 + NP + y + z /\ Blocks(q) = q + 2 + z
    BY <2>1, <2>5, <2>6, <2>7, <2>8
  <2> HIDE DEF q, y, z
  <2>10. GFS_nbytes2blocks(n) = q + 2 + z
    BY <1>0, <1>1, <2>9
  <2> QED BY <2>9, <2>10 DEF q
<1> QED BY <1>0, <1>2, <1>5, <1>6, <1>7

\* The slot of a data block is that of the last block of a file that ends there.
LEMMA DataSlotIs ==
  ASSUME NEW k \in Nat
  PROVE  DataSlot(k) = Blocks(k + 1)
<1>1. CASE k < FDirect + NP
  BY <1>1, Params DEF DataSlot, Blocks, Single
<1>2. CASE k >= FDirect + NP
  <2> DEFINE d == k - FDirect - NP
             l == d \div NP
             r == d % NP
  <2>1. d \in Nat /\ ~ (k < FDirect) /\ ~ (k < FDirect + NP) /\ ~ (k + 1 <= FDirect)
        /\ ~ (k + 1 <= FDirect + NP) /\ k + 1 - FDirect - NP = d + 1
    BY <1>2, Params
  <2>2. l \in Nat /\ r \in 0 .. NP - 1 /\ d = NP * l + r
    <3> HIDE DEF d
    <3> QED BY <2>1, Params, DivIs
  <2>3. DataSlot(k) = L1Slot(l) + 1 + r
    BY <2>1 DEF DataSlot
  <2>4. Blocks(k + 1) = k + 1 + 2 + udiv(d + 1, NP)
    <3>1. Blocks(k + 1) = (k + 1) + 2 + udiv((k + 1) - FDirect - NP, NP)
      BY <2>1 DEF Blocks
    <3>2. (k + 1) - FDirect - NP = d + 1
      BY <2>1, Params
    <3> HIDE DEF d
    <3> QED BY <3>1, <3>2
  <2> HIDE DEF l, r
  <2>5. udiv(d + 1, NP) = l + 1
    <3>1. NP * (l + 1) = NP * l + NP /\ NP * l \in Int
      BY <2>2, Params
    <3>2. d + 1 <= NP * (l + 1) /\ NP * (l + 1) < (d + 1) + NP
      BY <2>1, <2>2, <3>1, Params
    <3> HIDE DEF d
    <3>3. d + 1 \in Nat /\ l + 1 \in Nat
      BY <2>1, <2>2
    <3> QED BY <3>2, <3>3, Params, UdivUnique
  <2>6. L1Slot(l) = FDirect + 1 + NP + 1 + 1 + (NP * l + l)
    <3>1. l * (NP + 1) = NP * l + l
      BY <2>2, Params
    <3>2. NP * l + l \in Int
      BY <2>2, Params
    <3> QED BY <3>1, <3>2, Params DEF L1Slot, Double, Single
  <2>7. NP * l \in Int
    BY <2>2, Params
  <2> DEFINE m == NP * l
  <2>8. m \in Int /\ d = m + r /\ DataSlot(k) = FDirect + 1 + NP + 1 + 1 + (m + l) + 1 + r
    BY <2>2, <2>3, <2>6, <2>7
  <2> HIDE DEF m
  <2> QED BY <2>2, <2>4, <2>5, <2>8, Params
<1> QED BY <1>1, <1>2, Params

\* The slots that a file of n bytes needs.
Needs(n) == GFS_nbytes2blocks(n)

LEMMA NeedsNat ==
  ASSUME NEW n \in Nat
  PROVE  Needs(n) \in Nat
<1>1. udiv(n, BLOCK_SIZE) \in Nat
  BY Params, UdivIs
<1> QED BY <1>1, BytesToBlocks, BlocksNat DEF Needs

LEMMA NeedsNothing == Needs(0) = 0
<1>1. udiv(0, BLOCK_SIZE) = 0
  BY Params, UdivUnique
<1>2. Blocks(0) = 0
  BY Params DEF Blocks
<1> QED BY <1>1, <1>2, BytesToBlocks DEF Needs

LEMMA NeedsMono ==
  ASSUME NEW m \in Nat, NEW n \in Nat, m <= n
  PROVE  Needs(m) <= Needs(n)
<1>1. udiv(m, BLOCK_SIZE) \in Nat /\ udiv(n, BLOCK_SIZE) \in Nat
      /\ udiv(m, BLOCK_SIZE) <= udiv(n, BLOCK_SIZE)
  BY Params, UdivIs, UdivMono
<1>2. Blocks(udiv(m, BLOCK_SIZE)) <= Blocks(udiv(n, BLOCK_SIZE))
  BY <1>1, BlocksMono
<1> QED BY <1>2, BytesToBlocks DEF Needs

\* An inode has a slot for every block of the largest file.
LEMMA NeedsFit ==
  ASSUME NEW n \in 0 .. MaxPos
  PROVE  Needs(n) <= NSlots
<1> DEFINE top == FDirect + NP * (1 + NP)
           q == udiv(n, BLOCK_SIZE)
<1>0. n \in Nat /\ NP * NP \in Nat /\ NP * (1 + NP) = NP + NP * NP
  BY Params
<1>1. top \in Nat
  BY <1>0, Params
<1>2. n <= BLOCK_SIZE * top
  <2>1. BLOCK_SIZE * top \in Int
    BY <1>1, Params
  <2> QED BY <2>1, Params
<1>3. q \in Nat /\ q <= top
  <2> HIDE DEF top
  <2>1. q \in Nat
    BY <1>0, Params, UdivIs
  <2>2. udiv(n, BLOCK_SIZE) <= top
    BY <1>0, <1>1, <1>2, Params, UdivLeast
  <2> QED BY <2>1, <2>2
<1>4. Blocks(q) <= Blocks(top)
  <2> HIDE DEF top, q
  <2> QED BY <1>1, <1>3, BlocksMono
<1>5. Blocks(top) = NSlots
  <2>1. top - FDirect - NP = NP * NP
    BY <1>0, Params
  <2>2. udiv(NP * NP, NP) = NP
    <3> DEFINE x == NP * NP
    <3>1. x \in Nat /\ x <= NP * NP /\ NP * NP < x + NP
      BY <1>0, Params
    <3> HIDE DEF x
    <3>2. udiv(x, NP) = NP
      BY <3>1, Params, UdivUnique
    <3> QED BY <3>2 DEF x
  <2>3. NP * NP >= 1
    <3>1. NP * 1 <= NP * NP
      BY Params, TimesMono
    <3> QED BY <3>1, Params
  <2>4. top > FDirect + NP
    BY <1>0, <2>3, Params
  <2>5. Blocks(top) = top + 2 + NP
    BY <1>1, <2>1, <2>2, <2>4, Params DEF Blocks
  <2>6. NP * (NP + 1) = NP * NP + NP
    BY Params
  <2>7. NSlots = FDirect + 1 + NP + 1 + (NP * NP + NP)
    BY <1>0, <2>6, Params DEF NSlots, Double, Single
  <2> QED BY <1>0, <2>5, <2>7, Params
<1>6. GFS_nbytes2blocks(n) = Blocks(q)
  BY <1>0, BytesToBlocks
<1> QED BY <1>4, <1>5, <1>6 DEF Needs

LEMMA SlotCount == NSlots \in Nat /\ FSlot = 1 .. NSlots
<1>1. NP * (NP + 1) \in Nat
  BY Params
<1> QED BY <1>1, Params DEF NSlots, Double, Single, FSlot

\* Byte i of a file of n bytes is in a slot that the file needs.
LEMMA SlotNeeded ==
  ASSUME NEW n \in Nat, NEW i \in 0 .. n - 1
  PROVE  SlotOf(i) \in Nat \ {0} /\ SlotOf(i) <= Needs(n)
<1> DEFINE k == i \div BLOCK_SIZE
           u == udiv(n, BLOCK_SIZE)
<1>1. i \in Nat /\ i < n
  OBVIOUS
<1>2. k \in Nat /\ (i % BLOCK_SIZE) \in Nat /\ i = BLOCK_SIZE * k + (i % BLOCK_SIZE)
  BY <1>1, Params, DivIs
<1>3. u \in Nat /\ n <= BLOCK_SIZE * u
  BY Params, UdivIs
<1>4. SlotOf(i) = DataSlot(k)
  BY DEF SlotOf
<1>5. GFS_nbytes2blocks(n) = Blocks(u)
  BY BytesToBlocks
<1> HIDE DEF k, u
<1>6. BLOCK_SIZE * k < BLOCK_SIZE * u
  <2>1. BLOCK_SIZE * k \in Int /\ BLOCK_SIZE * u \in Int
    BY <1>2, <1>3, Params
  <2> QED BY <1>1, <1>2, <1>3, <2>1
<1>7. k + 1 <= u
  BY <1>2, <1>3, <1>6, Params, TimesLess
<1>8. Blocks(k + 1) <= Blocks(u) /\ Blocks(k + 1) \in Nat /\ Blocks(0) < Blocks(k + 1)
      /\ Blocks(0) \in Nat
  BY <1>2, <1>3, <1>7, BlocksMono, BlocksLess, BlocksNat
<1>9. DataSlot(k) = Blocks(k + 1)
  BY <1>2, DataSlotIs
<1> QED BY <1>4, <1>5, <1>8, <1>9 DEF Needs

LEMMA SlotIn ==
  ASSUME NEW i \in 0 .. MaxPos - 1
  PROVE  SlotOf(i) \in FSlot
<1>1. MaxPos \in Nat /\ MaxPos \in 0 .. MaxPos
  BY Params
<1>2. SlotOf(i) \in Nat \ {0} /\ SlotOf(i) <= Needs(MaxPos)
  BY <1>1, SlotNeeded
<1>3. Needs(MaxPos) <= NSlots /\ Needs(MaxPos) \in Nat
  BY <1>1, NeedsFit, NeedsNat
<1> QED BY <1>2, <1>3, SlotCount

\* Two bytes are at the same place of the same slot only if they are one.
LEMMA PlaceOnce ==
  ASSUME NEW i \in Nat, NEW j \in Nat, SlotOf(i) = SlotOf(j), i % BLOCK_SIZE = j % BLOCK_SIZE
  PROVE  i = j
<1> DEFINE k == i \div BLOCK_SIZE
           l == j \div BLOCK_SIZE
<1>1. k \in Nat /\ i = BLOCK_SIZE * k + (i % BLOCK_SIZE)
      /\ l \in Nat /\ j = BLOCK_SIZE * l + (j % BLOCK_SIZE)
  BY Params, DivIs
<1>2. Blocks(k + 1) = Blocks(l + 1)
  BY <1>1, DataSlotIs DEF SlotOf
<1> HIDE DEF k, l
<1>3. ~ (k + 1 < l + 1) /\ ~ (l + 1 < k + 1)
  <2>1. Blocks(k + 1) \in Nat /\ Blocks(l + 1) \in Nat
    BY <1>1, BlocksNat
  <2>2. k + 1 \in Nat /\ l + 1 \in Nat
    BY <1>1
  <2>3. ASSUME k + 1 < l + 1 PROVE FALSE
    BY <1>2, <2>1, <2>2, <2>3, BlocksLess
  <2>4. ASSUME l + 1 < k + 1 PROVE FALSE
    BY <1>2, <2>1, <2>2, <2>4, BlocksLess
  <2> QED BY <2>3, <2>4
<1>4. k = l
  BY <1>1, <1>3
<1> QED BY <1>1, <1>4

-----------------------------------------------------------------------------
(* The members of a finite set of numbers in ascending order.               *)

Below(S, x) == {y \in S : y < x}

\* f lists the members of S: before the j-th there are j - 1 smaller ones.
Ranked(S, f) ==
  /\ f \in [1 .. Cardinality(S) -> S]
  /\ \A j \in 1 .. Cardinality(S) : Cardinality(Below(S, f[j])) = j - 1

LEMMA BelowIs ==
  ASSUME NEW S, IsFiniteSet(S), NEW x
  PROVE  /\ IsFiniteSet(Below(S, x)) /\ Cardinality(Below(S, x)) \in Nat
         /\ Cardinality(Below(S, x)) <= Cardinality(S)
<1>1. Below(S, x) \in SUBSET S
  BY DEF Below
<1>2. IsFiniteSet(Below(S, x)) /\ Cardinality(Below(S, x)) <= Cardinality(S)
  BY <1>1, FS_Subset
<1> QED BY <1>2, FS_CardinalityType

\* Fewer members are below the smaller of two.
LEMMA BelowLess ==
  ASSUME NEW S \in SUBSET Int, IsFiniteSet(S), NEW x \in S, NEW y \in S, x < y
  PROVE  Cardinality(Below(S, x)) < Cardinality(Below(S, y))
<1> DEFINE A == Below(S, x)
           C == Below(S, y)
<1>1. A \in SUBSET C /\ x \in C /\ x \notin A
  <2>1. x \in Int /\ y \in Int /\ ~ (x < x) /\ \A z \in Int : z < x => z < y
    OBVIOUS
  <2>2. \A z \in S : z \in Int
    OBVIOUS
  <2> QED BY <2>1, <2>2 DEF Below
<1>2. IsFiniteSet(C) /\ Cardinality(C) \in Nat /\ Cardinality(A) \in Nat
  BY BelowIs
<1> HIDE DEF A, C
<1>3. Cardinality(A) <= Cardinality(C) /\ (Cardinality(C) = Cardinality(A) => C = A)
  BY <1>1, <1>2, FS_Subset
<1>4. Cardinality(A) # Cardinality(C)
  BY <1>1, <1>3
<1>5. Cardinality(A) < Cardinality(C)
  BY <1>2, <1>3, <1>4
<1> QED BY <1>5 DEF A, C

LEMMA BelowTop ==
  ASSUME NEW S \in SUBSET Int, IsFiniteSet(S), NEW x \in S
  PROVE  Cardinality(Below(S, x)) \in 0 .. Cardinality(S) - 1
<1> DEFINE A == Below(S, x)
<1>1. A \in SUBSET S /\ x \notin A
  <2>1. x \in Int /\ ~ (x < x)
    OBVIOUS
  <2> QED BY <2>1 DEF Below
<1>2. Cardinality(S) \in Nat /\ Cardinality(A) \in Nat
  BY BelowIs, FS_CardinalityType
<1> HIDE DEF A
<1>3. Cardinality(A) <= Cardinality(S) /\ (Cardinality(S) = Cardinality(A) => S = A)
  BY <1>1, FS_Subset
<1>4. Cardinality(A) # Cardinality(S)
  BY <1>1, <1>3
<1>5. Cardinality(A) \in 0 .. Cardinality(S) - 1
  BY <1>2, <1>3, <1>4
<1> QED BY <1>5 DEF A

\* Ascending(S) lists S.
LEMMA AscendingIs ==
  ASSUME NEW S \in SUBSET Int, IsFiniteSet(S)
  PROVE  Ranked(S, Ascending(S))
<1> DEFINE n == Cardinality(S)
           T == 0 .. n - 1
           f == [x \in S |-> Cardinality(Below(S, x))]
<1>1. n \in Nat
  BY FS_CardinalityType
<1>2. IsFiniteSet(T) /\ Cardinality(T) = n
  BY <1>1, FS_Interval
<1>3. f \in [S -> T]
  BY BelowTop
<1>4. \A x, y \in S : f[x] = f[y] => x = y
  <2> SUFFICES ASSUME NEW x \in S, NEW y \in S, f[x] = f[y], x # y
               PROVE  FALSE
    OBVIOUS
  <2>1. x < y \/ y < x
    OBVIOUS
  <2>2. Cardinality(Below(S, x)) \in Nat /\ Cardinality(Below(S, y)) \in Nat
    BY BelowIs
  <2>3. Cardinality(Below(S, x)) < Cardinality(Below(S, y))
        \/ Cardinality(Below(S, y)) < Cardinality(Below(S, x))
    BY <2>1, BelowLess
  <2>4. Cardinality(Below(S, x)) = Cardinality(Below(S, y))
    OBVIOUS
  <2> QED BY <2>2, <2>3, <2>4
<1>5. f \in Injection(S, T)
  <2> HIDE DEF f
  <2> QED BY <1>3, <1>4 DEF Injection, IsInjective
<1>6. f \in Surjection(S, T)
  <2> HIDE DEF f, T
  <2> QED BY <1>2, <1>5, FS_Injection
<1>7. \A k \in T : \E x \in S : Cardinality(Below(S, x)) = k
  BY <1>6 DEF Surjection
<1> DEFINE g(j) == CHOOSE x \in S : Cardinality(Below(S, x)) = j - 1
<1>8. ASSUME NEW j \in 1 .. n
      PROVE  g(j) \in S /\ Cardinality(Below(S, g(j))) = j - 1
  <2>1. j - 1 \in T
    BY <1>1
  <2>2. PICK x \in S : Cardinality(Below(S, x)) = j - 1
    BY <1>7, <2>1
  <2> QED BY <2>2
<1>9. Ascending(S) = [j \in 1 .. n |-> g(j)]
  BY DEF Ascending, Below
<1> HIDE DEF g
<1>10. Ascending(S) \in [1 .. n -> S]
  <2> HIDE DEF n
  <2> QED BY <1>8, <1>9
<1>11. \A j \in 1 .. n : Cardinality(Below(S, Ascending(S)[j])) = j - 1
  BY <1>8, <1>9
<1> QED BY <1>10, <1>11 DEF Ranked

LEMMA RankedOnce ==
  ASSUME NEW S, NEW f, Ranked(S, f), IsFiniteSet(S),
         NEW i \in 1 .. Cardinality(S), NEW j \in 1 .. Cardinality(S), f[i] = f[j]
  PROVE  i = j
<1>1. Cardinality(S) \in Nat
  BY FS_CardinalityType
<1>2. Cardinality(Below(S, f[i])) = i - 1 /\ Cardinality(Below(S, f[j])) = j - 1
  BY DEF Ranked
<1>3. i - 1 = j - 1
  BY <1>2
<1> QED BY <1>1, <1>3

LEMMA MinOfTwo ==
  ASSUME NEW a \in Nat, NEW b \in Nat
  PROVE  Min({a, b}) = IF a <= b THEN a ELSE b
BY DEF Min

LEMMA MaxOfTwo ==
  ASSUME NEW a \in Int, NEW b \in Int
  PROVE  Max({a, b}) = IF a >= b THEN a ELSE b
BY DEF Max
-----------------------------------------------------------------------------
(* What do_write() gets from the bitmap and gives to the invalid pointers.  *)

FreeBlocks == FBlock \ used
FreeSlots == {s \in FSlot : ptr[s] = NoBlock}

LEMMA FreeBlocksFinite ==
  FreeBlocks \in SUBSET Int /\ IsFiniteSet(FreeBlocks) /\ Cardinality(FreeBlocks) \in Nat
<1>1. IsFiniteSet(FBlock) /\ FreeBlocks \in SUBSET FBlock /\ FBlock \in SUBSET Int
  BY Params, FS_Interval DEF FBlock, FreeBlocks
<1>2. IsFiniteSet(FreeBlocks)
  BY <1>1, FS_Subset
<1> QED BY <1>1, <1>2, FS_CardinalityType

LEMMA FreeSlotsFinite ==
  FreeSlots \in SUBSET Int /\ IsFiniteSet(FreeSlots) /\ Cardinality(FreeSlots) \in Nat
<1>1. IsFiniteSet(FSlot) /\ FreeSlots \in SUBSET FSlot /\ FSlot \in SUBSET Int
  BY SlotCount, FS_Interval DEF FreeSlots
<1>2. IsFiniteSet(FreeSlots)
  BY <1>1, FS_Subset
<1> QED BY <1>1, <1>2, FS_CardinalityType

\* The sequence q names m free blocks, each once.
Given(q, m) ==
  /\ m \in Nat /\ m <= Cardinality(FreeBlocks)
  /\ q \in [1 .. m -> FreeBlocks] /\ Len(q) = m /\ ToSet(q) = {q[j] : j \in 1 .. m}
  /\ \A i, j \in 1 .. m : q[i] = q[j] => i = j

LEMMA NothingGiven == Given(<<>>, 0)
<1>1. Cardinality(FreeBlocks) \in Nat
  BY FreeBlocksFinite
<1> QED BY <1>1 DEF Given, ToSet

LEMMA AllocIs ==
  ASSUME NEW n \in Nat \ {0}
  PROVE  /\ Given(AllocBlocks(n).aptr, Len(AllocBlocks(n).aptr))
         /\ AllocBlocks(n).used = used \cup ToSet(AllocBlocks(n).aptr)
         /\ Len(AllocBlocks(n).aptr) <= n
<1> DEFINE f == Ascending(FreeBlocks)
           c == Cardinality(FreeBlocks)
           m == Min({n, Len(f)})
           q == SubSeq(f, 1, m)
<1>1. AllocBlocks(n) = [aptr |-> q, used |-> used \cup ToSet(q)]
  BY DEF AllocBlocks, FreeBlocks
<1>2. IsFiniteSet(FreeBlocks) /\ c \in Nat
  BY FreeBlocksFinite
<1>3. Ranked(FreeBlocks, f)
  BY FreeBlocksFinite, AscendingIs
<1>4. f \in [1 .. c -> FreeBlocks] /\ Len(f) = c /\ f \in Seq(FreeBlocks)
  <2>1. f \in [1 .. c -> FreeBlocks]
    BY <1>3 DEF Ranked
  <2> HIDE DEF f, c
  <2> QED BY <1>2, <2>1
<1>5. \A i, j \in 1 .. c : f[i] = f[j] => i = j
  BY <1>2, <1>3, RankedOnce
<1> HIDE DEF f, c
<1>6. m \in Nat /\ m <= c /\ m <= n
  BY <1>2, <1>4, MinOfTwo
<1> HIDE DEF m
<1>7. q \in [1 .. m -> FreeBlocks] /\ Len(q) = m /\ \A j \in 1 .. m : q[j] = f[j]
  <2>1. \A j \in 1 .. m : f[j] \in FreeBlocks
    BY <1>2, <1>4, <1>6
  <2>2. /\ q \in Seq(FreeBlocks) /\ Len(q) = (IF 1 <= m THEN m - 1 + 1 ELSE 0)
        /\ \A j \in 1 .. m - 1 + 1 : q[j] = f[1 + j - 1]
    BY <1>6, <2>1, SubSeqProperties
  <2>3. Len(q) = m
    BY <1>6, <2>2
  <2>4. \A j \in 1 .. m : q[j] = f[j]
    <3>1. ASSUME NEW j \in 1 .. m PROVE q[j] = f[j]
      <4>1. j \in 1 .. m - 1 + 1 /\ 1 + j - 1 = j
        BY <1>6
      <4> QED BY <2>2, <4>1
    <3> QED BY <3>1
  <2> HIDE DEF q
  <2>5. q \in [1 .. m -> FreeBlocks]
    BY <2>2, <2>3
  <2> QED BY <2>3, <2>4, <2>5
<1> HIDE DEF q
<1>8. ToSet(q) = {q[j] : j \in 1 .. m}
  BY <1>7 DEF ToSet
<1>9. \A i, j \in 1 .. m : q[i] = q[j] => i = j
  BY <1>2, <1>5, <1>6, <1>7
<1>10. Given(q, m)
  BY <1>6, <1>7, <1>8, <1>9 DEF Given, c
<1> QED BY <1>1, <1>6, <1>7, <1>10

\* There are as many invalid pointers as free blocks.
LEMMA RoomForBlocks ==
  ASSUME BlocksAccounted
  PROVE  Cardinality(FreeBlocks) <= Cardinality(FreeSlots)
<1> DEFINE full == FSlot \ FreeSlots
           f == [s \in full |-> ptr[s]]
<1>1. IsFiniteSet(FBlock) /\ Cardinality(FBlock) = FBlocks /\ FBlocks \in Nat
  BY Params, FS_Interval DEF FBlock
<1>2. IsFiniteSet(FSlot) /\ Cardinality(FSlot) = NSlots /\ NSlots \in Nat
  BY SlotCount, FS_Interval
<1>3. used \in SUBSET FBlock
  BY DEF BlocksAccounted, FileTypeOK
<1>4. IsFiniteSet(used) /\ Cardinality(used) \in Nat
  BY <1>1, <1>3, FS_Subset, FS_CardinalityType
<1>5. Cardinality(FreeBlocks) = FBlocks - Cardinality(used)
  <2>1. FBlock \cap used = used
    BY <1>3
  <2>2. Cardinality(FBlock \ used) = Cardinality(FBlock) - Cardinality(FBlock \cap used)
    BY <1>1, FS_Difference
  <2> QED BY <1>1, <2>1, <2>2 DEF FreeBlocks
<1>6. Cardinality(FreeSlots) = NSlots - Cardinality(full) /\ Cardinality(full) \in Nat
  <2>1. FreeSlots = FSlot \ full /\ FSlot \cap full = full /\ full \in SUBSET FSlot
    BY DEF FreeSlots
  <2>2. Cardinality(FSlot \ full) = Cardinality(FSlot) - Cardinality(FSlot \cap full)
    BY <1>2, FS_Difference
  <2>3. IsFiniteSet(full)
    BY <1>2, <2>1, FS_Subset
  <2>4. Cardinality(full) \in Nat
    BY <2>3, FS_CardinalityType
  <2> HIDE DEF full
  <2> QED BY <1>2, <2>1, <2>2, <2>4
<1>7. f \in [full -> used] /\ \A s, t \in full : f[s] = f[t] => s = t
  <2>1. \A s \in full : s \in FSlot /\ ptr[s] # NoBlock
    BY DEF FreeSlots
  <2>2. \A s \in full : ptr[s] \in used
    BY <2>1 DEF BlocksAccounted
  <2> QED BY <2>1, <2>2 DEF BlocksAccounted
<1>8. f \in Injection(full, used)
  <2> HIDE DEF f, full
  <2> QED BY <1>7 DEF Injection, IsInjective
<1>9. Cardinality(full) <= Cardinality(used)
  <2> HIDE DEF f, full
  <2> QED BY <1>4, <1>8, FS_Injection
<1> HIDE DEF full
<1> QED BY <1>1, <1>2, <1>4, <1>5, <1>6, <1>9, Params

\* The pointers p after q, which names m blocks, was given to the first m
\* invalid ones.
Filled(p, q, m) ==
  LET f == Ascending(FreeSlots) IN
  /\ p \in [FSlot -> FBlock \cup {NoBlock}]
  /\ \A s \in FSlot : ptr[s] # NoBlock => p[s] = ptr[s]
  /\ \A s \in FSlot : ptr[s] = NoBlock =>
       \/ p[s] = NoBlock /\ \A j \in 1 .. m : f[j] # s
       \/ \E j \in 1 .. m : f[j] = s /\ p[s] = q[j]
  /\ \A j \in 1 .. m : f[j] \in FreeSlots /\ p[f[j]] = q[j]

LEMMA FillIs ==
  ASSUME BlocksAccounted, NEW q, NEW m, Given(q, m)
  PROVE  Filled(Fill(ptr, q), q, m)
<1> DEFINE f == Ascending(FreeSlots)
           c == Cardinality(FreeSlots)
           p == Fill(ptr, q)
           at(s) == CHOOSE j \in 1 .. m : f[j] = s
<1>1. IsFiniteSet(FreeSlots) /\ c \in Nat
  BY FreeSlotsFinite
<1>2. Ranked(FreeSlots, f)
  BY FreeSlotsFinite, AscendingIs
<1>3. f \in [1 .. c -> FreeSlots] /\ Len(f) = c
  <2>1. f \in [1 .. c -> FreeSlots]
    BY <1>2 DEF Ranked
  <2> HIDE DEF f, c
  <2> QED BY <1>1, <2>1
<1>4. \A i, j \in 1 .. c : f[i] = f[j] => i = j
  BY <1>1, <1>2, RankedOnce
<1>5. m \in Nat /\ m <= c /\ Len(q) = m /\ q \in [1 .. m -> FreeBlocks]
  <2>1. Cardinality(FreeBlocks) \in Nat /\ Cardinality(FreeBlocks) <= c
    BY FreeBlocksFinite, RoomForBlocks
  <2>2. m \in Nat /\ m <= Cardinality(FreeBlocks) /\ Len(q) = m /\ q \in [1 .. m -> FreeBlocks]
    BY DEF Given
  <2> HIDE DEF c
  <2> QED BY <1>1, <2>1, <2>2
<1>6. Min({m, c}) = m
  <2> HIDE DEF c
  <2> QED BY <1>1, <1>5, MinOfTwo
<1>7. p = [s \in FSlot |-> IF \E j \in 1 .. m : f[j] = s THEN q[at(s)] ELSE ptr[s]]
  <2>1. p = [s \in FSlot |-> IF \E j \in 1 .. Min({Len(q), Len(f)}) : f[j] = s
                             THEN q[CHOOSE j \in 1 .. Len(q) : f[j] = s] ELSE ptr[s]]
    BY DEF Fill, FreeSlots
  <2> HIDE DEF f, c, p
  <2> QED BY <1>3, <1>5, <1>6, <2>1
<1>8. ASSUME NEW j \in 1 .. m
      PROVE  f[j] \in FreeSlots /\ at(f[j]) = j /\ q[j] \in FreeBlocks
  <2> HIDE DEF f, c
  <2>1. j \in 1 .. c
    BY <1>1, <1>5
  <2>2. at(f[j]) \in 1 .. m /\ f[at(f[j])] = f[j]
    OBVIOUS
  <2>3. at(f[j]) \in 1 .. c
    BY <1>1, <1>5, <2>2
  <2>4. at(f[j]) = j
    <3> HIDE DEF at
    <3> QED BY <1>4, <2>1, <2>2, <2>3
  <2> QED BY <1>3, <1>5, <2>1, <2>4
<1> HIDE DEF f, c, p, at
<1>9. \A j \in 1 .. m : f[j] \in FreeSlots /\ p[f[j]] = q[j]
  <2>1. FreeSlots \subseteq FSlot
    BY DEF FreeSlots
  <2> QED BY <1>7, <1>8, <2>1
<1>10. ptr \in [FSlot -> FBlock \cup {NoBlock}]
  BY DEF BlocksAccounted, FileTypeOK
<1>11. FreeBlocks \subseteq FBlock
  BY DEF FreeBlocks
<1>12. p \in [FSlot -> FBlock \cup {NoBlock}]
  <2>1. \A s \in FSlot : p[s] \in FBlock \cup {NoBlock}
    BY <1>7, <1>8, <1>10, <1>11
  <2> QED BY <1>7, <2>1
<1>13. \A s \in FSlot : ptr[s] # NoBlock => p[s] = ptr[s]
  BY <1>7, <1>8 DEF FreeSlots
<1>14. \A s \in FSlot : ptr[s] = NoBlock =>
         \/ p[s] = NoBlock /\ \A j \in 1 .. m : f[j] # s
         \/ \E j \in 1 .. m : f[j] = s /\ p[s] = q[j]
  BY <1>7, <1>9
<1> QED BY <1>9, <1>12, <1>13, <1>14 DEF Filled, f, p

\* The blocks given are the file's, each in one slot.
LEMMA FillAccounted ==
  ASSUME BlocksAccounted, NEW q, NEW m, Given(q, m), NEW p, Filled(p, q, m)
  PROVE  /\ {p[s] : s \in FSlot} \ {NoBlock} = ({ptr[s] : s \in FSlot} \ {NoBlock}) \cup ToSet(q)
         /\ \A s, t \in FSlot : p[s] = p[t] /\ p[s] # NoBlock => s = t
         /\ \A s \in FSlot : p[s] \notin other
<1> DEFINE f == Ascending(FreeSlots)
<1>1. /\ p \in [FSlot -> FBlock \cup {NoBlock}]
      /\ \A s \in FSlot : ptr[s] # NoBlock => p[s] = ptr[s]
      /\ \A s \in FSlot : ptr[s] = NoBlock =>
           \/ p[s] = NoBlock /\ \A j \in 1 .. m : f[j] # s
           \/ \E j \in 1 .. m : f[j] = s /\ p[s] = q[j]
      /\ \A j \in 1 .. m : f[j] \in FreeSlots /\ p[f[j]] = q[j]
  BY DEF Filled
<1> HIDE DEF f
<1>2. /\ \A j \in 1 .. m : q[j] \in FBlock /\ q[j] \notin used
      /\ \A i, j \in 1 .. m : q[i] = q[j] => i = j
      /\ ToSet(q) = {q[j] : j \in 1 .. m}
  <2>1. \A j \in 1 .. m : q[j] \in FreeBlocks
    BY DEF Given
  <2> QED BY <2>1 DEF Given, FreeBlocks
<1>3. NoBlock \notin FBlock
  BY DEF FBlock, NoBlock
<1>4. /\ used = other \cup ({ptr[s] : s \in FSlot} \ {NoBlock})
      /\ \A s, t \in FSlot : ptr[s] = ptr[t] /\ ptr[s] # NoBlock => s = t
      /\ \A s \in FSlot : ptr[s] \notin other
      /\ other \subseteq FBlock
  BY DEF BlocksAccounted, FileTypeOK
<1>5. \A s \in FSlot : ptr[s] # NoBlock => ptr[s] \in used
  BY <1>4
<1>6. {p[s] : s \in FSlot} \ {NoBlock} = ({ptr[s] : s \in FSlot} \ {NoBlock}) \cup ToSet(q)
  <2>1. ASSUME NEW s \in FSlot, p[s] # NoBlock
        PROVE  p[s] \in ({ptr[t] : t \in FSlot} \ {NoBlock}) \cup ToSet(q)
    BY <1>1, <1>2, <2>1
  <2>2. ASSUME NEW s \in FSlot, ptr[s] # NoBlock
        PROVE  ptr[s] \in {p[t] : t \in FSlot} \ {NoBlock}
    BY <1>1, <2>2
  <2>3. ASSUME NEW j \in 1 .. m
        PROVE  q[j] \in {p[t] : t \in FSlot} \ {NoBlock}
    <3>1. f[j] \in FSlot
      BY <1>1 DEF FreeSlots
    <3> QED BY <1>1, <1>2, <1>3, <3>1
  <2> QED BY <1>2, <2>1, <2>2, <2>3
<1>7. ASSUME NEW s \in FSlot, NEW t \in FSlot, p[s] = p[t], p[s] # NoBlock
      PROVE  s = t
  <2>1. CASE ptr[s] # NoBlock /\ ptr[t] # NoBlock
    BY <1>1, <1>4, <1>7, <2>1
  <2>2. CASE ptr[s] = NoBlock /\ ptr[t] = NoBlock
    BY <1>1, <1>2, <1>7, <2>2
  <2>3. CASE ptr[s] = NoBlock /\ ptr[t] # NoBlock
    BY <1>1, <1>2, <1>5, <1>7, <2>3
  <2>4. CASE ptr[s] # NoBlock /\ ptr[t] = NoBlock
    BY <1>1, <1>2, <1>5, <1>7, <2>4
  <2> QED BY <2>1, <2>2, <2>3, <2>4
<1>8. ASSUME NEW s \in FSlot
      PROVE  p[s] \notin other
  BY <1>1, <1>2, <1>3, <1>4
<1> QED BY <1>6, <1>7, <1>8

-----------------------------------------------------------------------------
(* BlocksAccounted is inductive.                                            *)

\* Blocks that do_write() asks the bitmap for.
Asked(len) == Needs(pos + len) - Needs(size)

\* Every write gives the file what it got: q, the names of m blocks.
Gives(len, q, m) ==
  /\ Given(q, m) /\ ptr' = Fill(ptr, q) /\ used' = used \cup ToSet(q)
  /\ short' = (short \/ m < Asked(len))
  /\ m = 0 \/ m <= Asked(len)
  /\ other' = other

LEMMA WriteGives ==
  ASSUME FileTypeOK, NEW len \in 1 .. MaxLen, do_write(len)
  PROVE  \E q, m : Gives(len, q, m)
<1> DEFINE need == Asked(len)
<1>1. need \in Int
  <2>1. size \in Nat /\ pos + len \in Nat
    BY Params DEF FileTypeOK
  <2> QED BY <2>1, NeedsNat DEF Asked
<1>2. need = GFS_nbytes2blocks(pos + len) - GFS_nbytes2blocks(size)
  BY DEF Asked, Needs
<1>3. CASE need > 0
  <2> DEFINE q == AllocBlocks(need).aptr
  <2>1. used' = AllocBlocks(need).used /\ ptr' = Fill(ptr, q)
        /\ short' = (short \/ Len(q) < need) /\ other' = other
    <3> HIDE DEF need
    <3> QED BY <1>2, <1>3 DEF do_write
  <2>2. Given(q, Len(q)) /\ AllocBlocks(need).used = used \cup ToSet(q) /\ Len(q) <= need
    <3>1. need \in Nat \ {0}
      BY <1>1, <1>3
    <3> HIDE DEF need
    <3> QED BY <3>1, AllocIs
  <2> HIDE DEF q
  <2>3. Gives(len, q, Len(q))
    BY <2>1, <2>2 DEF Gives
  <2> QED BY <2>3
<1>4. CASE ~ (need > 0)
  <2>1. used' = used /\ ptr' = Fill(ptr, <<>>)
        /\ short' = (short \/ Len(<<>>) < need) /\ other' = other
    <3> HIDE DEF need
    <3> QED BY <1>2, <1>4 DEF do_write
  <2>2. ToSet(<<>>) = {} /\ Len(<<>>) = 0
    BY DEF ToSet
  <2>3. Gives(len, <<>>, 0)
    BY <2>1, <2>2, NothingGiven DEF Gives
  <2> QED BY <2>3
<1> QED BY <1>3, <1>4

\* Where do_write() leaves size and position.
LEMMA WritePlaces ==
  ASSUME FileTypeOK, NEW len \in 1 .. MaxLen, do_write(len)
  PROVE  size' \in 0 .. MaxPos /\ pos' \in 0 .. MaxPos
<1> DEFINE npd == Max({0, pos - size})
<1>1. pos \in Nat /\ size \in Nat /\ len \in Nat /\ pos + len <= MaxPos /\ MaxPos \in Nat
      /\ size <= MaxPos /\ pos <= MaxPos
  BY Params DEF FileTypeOK, do_write
<1>2. Max({size, pos}) \in 0 .. MaxPos /\ Max({size, pos + len}) \in 0 .. MaxPos
  BY <1>1, MaxOfTwo
<1>3. \/ size' = pos /\ (pos' = size \/ pos' = pos)
      \/ pos' = pos /\ size' = Max({size, pos})
      \/ pos' = pos + len /\ size' = Max({size, pos + len})
  <2> DEFINE need == GFS_nbytes2blocks(pos + len) - GFS_nbytes2blocks(size)
             a == IF need > 0 THEN AllocBlocks(need) ELSE [aptr |-> <<>>, used |-> used]
             z == Put(Fill(ptr, a.aptr), size, npd)
             w == Put(Fill(ptr, a.aptr), pos, len)
  <2>1. IF z.ret # "all"
        THEN size' = pos /\ pos' = (IF z.ret = "error" THEN size ELSE pos)
        ELSE IF w.ret = "error" THEN pos' = pos /\ size' = Max({size, pos})
             ELSE pos' = pos + len /\ size' = Max({size, pos + len})
    BY DEF do_write
  <2> HIDE DEF z, w
  <2> QED BY <2>1
<1> QED BY <1>1, <1>2, <1>3

LEMMA AccountedWrite ==
  ASSUME BlocksAccounted, NEW len \in 1 .. MaxLen, do_write(len)
  PROVE  BlocksAccounted'
<1>1. FileTypeOK
  BY DEF BlocksAccounted
<1>2. PICK q, m : Gives(len, q, m)
  BY <1>1, WriteGives
<1>3. Given(q, m) /\ ptr' = Fill(ptr, q) /\ used' = used \cup ToSet(q)
      /\ short' = (short \/ m < Asked(len)) /\ other' = other
  BY <1>2 DEF Gives
<1>4. Filled(ptr', q, m)
  BY <1>3, FillIs
<1>5. /\ {ptr'[s] : s \in FSlot} \ {NoBlock} = ({ptr[s] : s \in FSlot} \ {NoBlock}) \cup ToSet(q)
      /\ \A s, t \in FSlot : ptr'[s] = ptr'[t] /\ ptr'[s] # NoBlock => s = t
      /\ \A s \in FSlot : ptr'[s] \notin other
  <2>1. PICK p : p = ptr'
    OBVIOUS
  <2>2. Filled(p, q, m)
    BY <1>4, <2>1
  <2>3. /\ {p[s] : s \in FSlot} \ {NoBlock} = ({ptr[s] : s \in FSlot} \ {NoBlock}) \cup ToSet(q)
        /\ \A s, t \in FSlot : p[s] = p[t] /\ p[s] # NoBlock => s = t
        /\ \A s \in FSlot : p[s] \notin other
    BY <1>3, <2>2, FillAccounted
  <2> QED BY <2>1, <2>3
<1>6. used' = other' \cup ({ptr'[s] : s \in FSlot} \ {NoBlock})
  BY <1>3, <1>5 DEF BlocksAccounted
<1>7. ptr' \in [FSlot -> FBlock \cup {NoBlock}]
  BY <1>4 DEF Filled
<1>8. used' \subseteq FBlock /\ other' \subseteq FBlock
  <2>1. ToSet(q) \subseteq FBlock
    BY <1>3 DEF Given, FreeBlocks
  <2> QED BY <1>1, <1>3, <2>1 DEF FileTypeOK
<1>9. size' \in 0 .. MaxPos /\ pos' \in 0 .. MaxPos
  BY <1>1, WritePlaces
<1>10. short' \in BOOLEAN
  BY <1>1, <1>3 DEF FileTypeOK
<1>11. FileTypeOK'
  BY <1>7, <1>8, <1>9, <1>10 DEF FileTypeOK
<1> QED BY <1>3, <1>5, <1>6, <1>11 DEF BlocksAccounted

LEMMA AccountedRemove ==
  ASSUME BlocksAccounted, RemoveFile
  PROVE  BlocksAccounted'
<1>1. used' = used \ {ptr[s] : s \in FSlot} /\ ptr' = [s \in FSlot |-> NoBlock]
      /\ size' = 0 /\ pos' = 0 /\ short' = FALSE /\ other' = other
  BY DEF RemoveFile
<1>2. /\ used = other \cup ({ptr[s] : s \in FSlot} \ {NoBlock})
      /\ \A s \in FSlot : ptr[s] \notin other
      /\ used \subseteq FBlock /\ other \subseteq FBlock
  BY DEF BlocksAccounted, FileTypeOK
<1>3. NoBlock \notin FBlock
  BY DEF FBlock, NoBlock
<1>4. used' = other
  BY <1>1, <1>2
<1>5. {ptr'[s] : s \in FSlot} \ {NoBlock} = {}
  BY <1>1
<1>6. \A s \in FSlot : ptr'[s] = NoBlock
  BY <1>1
<1>7. used' = other' \cup ({ptr'[s] : s \in FSlot} \ {NoBlock})
  BY <1>1, <1>4, <1>5
<1>8. FileTypeOK'
  <2>1. MaxPos \in Nat
    BY Params
  <2>2. 0 \in 0 .. MaxPos
    BY <2>1
  <2>3. ptr' \in [FSlot -> FBlock \cup {NoBlock}]
    BY <1>1
  <2> QED BY <1>1, <1>2, <1>4, <2>2, <2>3 DEF FileTypeOK
<1>9. \A s \in FSlot : ptr'[s] \notin other'
  BY <1>1, <1>2, <1>3, <1>6
<1> QED BY <1>6, <1>7, <1>8, <1>9 DEF BlocksAccounted

LEMMA AccountedOthers ==
  ASSUME BlocksAccounted, OtherTakes \/ \E b \in FBlock : OtherFrees(b)
  PROVE  BlocksAccounted'
<1>1. /\ used = other \cup ({ptr[s] : s \in FSlot} \ {NoBlock})
      /\ \A s, t \in FSlot : ptr[s] = ptr[t] /\ ptr[s] # NoBlock => s = t
      /\ \A s \in FSlot : ptr[s] \notin other
      /\ used \subseteq FBlock /\ other \subseteq FBlock
  BY DEF BlocksAccounted, FileTypeOK
<1>2. ptr' = ptr /\ size' = size /\ pos' = pos /\ short' = short
  BY DEF OtherTakes, OtherFrees
<1>3. CASE OtherTakes
  <2> DEFINE q == AllocBlocks(1).aptr
  <2>1. used' = AllocBlocks(1).used /\ other' = other \cup ToSet(q)
    BY <1>3 DEF OtherTakes
  <2>2. Given(q, Len(q)) /\ AllocBlocks(1).used = used \cup ToSet(q)
    BY AllocIs
  <2> HIDE DEF q
  <2>3. ToSet(q) \subseteq FBlock /\ ToSet(q) \cap used = {}
    BY <2>2 DEF Given, FreeBlocks
  <2>4. NoBlock \notin FBlock
    BY DEF FBlock, NoBlock
  <2>5. used' = other' \cup ({ptr'[s] : s \in FSlot} \ {NoBlock})
    BY <1>1, <1>2, <2>1, <2>2
  <2>6. \A s \in FSlot : ptr'[s] \notin other'
    BY <1>1, <1>2, <2>1, <2>3, <2>4
  <2>7. FileTypeOK'
    BY <1>1, <1>2, <2>1, <2>2, <2>3 DEF FileTypeOK, BlocksAccounted
  <2> QED BY <1>1, <1>2, <2>5, <2>6, <2>7 DEF BlocksAccounted
<1>4. CASE \E b \in FBlock : OtherFrees(b)
  <2>1. PICK b \in FBlock : b \in other /\ other' = other \ {b} /\ used' = used \ {b}
    BY <1>4 DEF OtherFrees
  <2>2. used' = other' \cup ({ptr'[s] : s \in FSlot} \ {NoBlock})
    BY <1>1, <1>2, <2>1
  <2>3. FileTypeOK'
    BY <1>1, <1>2, <2>1 DEF FileTypeOK, BlocksAccounted
  <2>4. \A s \in FSlot : ptr'[s] \notin other'
    BY <1>1, <1>2, <2>1
  <2> QED BY <1>1, <1>2, <2>2, <2>3, <2>4 DEF BlocksAccounted
<1> QED BY <1>3, <1>4

LEMMA AccountedInit ==
  ASSUME FileInit
  PROVE  BlocksAccounted
<1>1. FileTypeOK
  <2>1. MaxPos \in Nat
    BY Params
  <2>2. 0 \in 0 .. MaxPos
    BY <2>1
  <2>3. ptr \in [FSlot -> FBlock \cup {NoBlock}]
    BY DEF FileInit
  <2> QED BY <2>2, <2>3 DEF FileInit, FileTypeOK
<1>2. {ptr[s] : s \in FSlot} \ {NoBlock} = {}
  BY DEF FileInit
<1> QED BY <1>1, <1>2 DEF FileInit, BlocksAccounted

LEMMA AccountedStep ==
  ASSUME BlocksAccounted, [FileNext]_filevars
  PROVE  BlocksAccounted'
<1>1. ASSUME NEW len \in 1 .. MaxLen, do_write(len) PROVE BlocksAccounted'
  BY <1>1, AccountedWrite
<1>2. ASSUME UNCHANGED <<used, ptr, size, other, short>>, pos' \in 0 .. MaxPos
      PROVE  BlocksAccounted'
  BY <1>2 DEF BlocksAccounted, FileTypeOK
<1>3. ASSUME NEW len \in 1 .. MaxLen, do_read(len) PROVE BlocksAccounted'
  <2>1. pos' = pos + Min({len, size - pos}) /\ pos < size
        /\ UNCHANGED <<used, ptr, size, other, short>>
    BY <1>3 DEF do_read
  <2>2. size \in 0 .. MaxPos /\ pos \in 0 .. MaxPos /\ MaxPos \in Nat
    BY Params DEF BlocksAccounted, FileTypeOK
  <2>3. Min({len, size - pos}) = IF len <= size - pos THEN len ELSE size - pos
    <3>1. len \in Nat /\ size - pos \in Nat
      BY <2>1, <2>2
    <3> QED BY <3>1, MinOfTwo
  <2>4. pos' \in 0 .. MaxPos
    BY <2>1, <2>2, <2>3
  <2> QED BY <1>2, <2>1, <2>4
<1>4. ASSUME NEW at \in 0 .. MaxPos, do_lseek(at) PROVE BlocksAccounted'
  BY <1>2, <1>4 DEF do_lseek
<1>5. CASE RemoveFile
  BY <1>5, AccountedRemove
<1>6. CASE OtherTakes \/ \E b \in FBlock : OtherFrees(b)
  BY <1>6, AccountedOthers
<1>7. CASE UNCHANGED filevars
  BY <1>2, <1>7 DEF filevars, BlocksAccounted, FileTypeOK
<1> QED BY <1>1, <1>3, <1>4, <1>5, <1>6, <1>7 DEF FileNext

\* Every block that the bitmap of GFS marks belongs to one pointer of the file
\* or to another file, whatever do_write(), removal and other files do in any
\* order, also when the disk is full (gfs-file.c, gfs-bitmap.c).
THEOREM FileBlocksAreAccounted == FileSpec => []BlocksAccounted
<1> QED BY AccountedInit, AccountedStep, PTL DEF FileSpec

-----------------------------------------------------------------------------
(* What is written reads back.                                              *)

\* While every write got its blocks, the slots in use are those that size needs.
InOrder == ~short => \A s \in FSlot : ptr[s] # NoBlock <=> s <= Needs(size)

FileInv == BlocksAccounted /\ InOrder /\ ReadsBack

\* No block is in two slots.
Distinct(p) ==
  /\ p \in [FSlot -> FBlock \cup {NoBlock}]
  /\ \A s, t \in FSlot : p[s] = p[t] /\ p[s] # NoBlock => s = t

\* Only byte i is written at the place of byte i.
LEMMA WrittenAt ==
  ASSUME NEW p, Distinct(p), NEW from \in Nat, NEW n \in Nat, from + n <= MaxPos,
         NEW i \in 0 .. MaxPos - 1, Covered(p, i), NEW d, NEW zero
  PROVE  Written(d, p, from, n, zero)[p[SlotOf(i)]][i % BLOCK_SIZE] =
           IF i \in from .. from + n - 1 THEN ByteAt(zero, i) ELSE d[p[SlotOf(i)]][i % BLOCK_SIZE]
<1> DEFINE b == p[SlotOf(i)]
           o == i % BLOCK_SIZE
           is == {j \in from .. from + n - 1 : p[SlotOf(j)] = b /\ j % BLOCK_SIZE = o}
<1>1. MaxPos \in Nat /\ BLOCK_SIZE \in Nat \ {0}
  BY Params
<1>2. SlotOf(i) \in FSlot
  BY SlotIn
<1>3. b \in FBlock /\ b # NoBlock
  BY <1>2 DEF Distinct, Covered
<1>4. i \in Nat /\ o \in Byte
  <2>1. o \in 0 .. BLOCK_SIZE - 1
    BY <1>1, DivIs
  <2> QED BY <1>1, <2>1 DEF Byte
<1>5. \A j \in is : j = i
  <2> SUFFICES ASSUME NEW j \in is PROVE j = i
    OBVIOUS
  <2>1. j \in 0 .. MaxPos - 1 /\ j \in Nat
    BY <1>1
  <2>2. SlotOf(j) \in FSlot
    BY <2>1, SlotIn
  <2>3. SlotOf(j) = SlotOf(i)
    BY <1>2, <1>3, <2>2 DEF Distinct
  <2>4. j % BLOCK_SIZE = i % BLOCK_SIZE
    OBVIOUS
  <2> QED BY <1>4, <2>1, <2>3, <2>4, PlaceOnce
<1>6. is = IF i \in from .. from + n - 1 THEN {i} ELSE {}
  BY <1>5
<1>7. Written(d, p, from, n, zero)[b][o] =
        IF is = {} THEN d[b][o] ELSE ByteAt(zero, CHOOSE j \in is : TRUE)
  <2> HIDE DEF b, o
  <2> QED BY <1>3, <1>4 DEF Written
<1>8. CASE i \in from .. from + n - 1
  <2>1. is = {i} /\ (CHOOSE j \in is : TRUE) = i
    BY <1>6, <1>8
  <2> HIDE DEF is
  <2> QED BY <1>7, <1>8, <2>1
<1>9. CASE i \notin from .. from + n - 1
  <2>1. is = {}
    BY <1>6, <1>9
  <2> HIDE DEF is
  <2> QED BY <1>7, <1>9, <2>1
<1> QED BY <1>8, <1>9

\* write_file_on_ptr_arr() gets to its end when all blocks are there.
LEMMA PutAll ==
  ASSUME NEW p, NEW from \in Nat, NEW n \in Nat, \A i \in from .. from + n - 1 : Covered(p, i)
  PROVE  Put(p, from, n).n = n /\ Put(p, from, n).ret = "all"
<1> DEFINE holes == {i \in from .. from + n - 1 : ~ Covered(p, i)}
<1>1. holes = {}
  OBVIOUS
<1>2. (from + n) - from = n
  OBVIOUS
<1> HIDE DEF holes
<1> QED BY <1>1, <1>2 DEF Put, holes

\* The j-th invalid pointer of a file whose slots 1 .. k are in use.
LEMMA NextSlot ==
  ASSUME NEW k \in Nat, FreeSlots = k + 1 .. NSlots,
         NEW j \in 1 .. Cardinality(FreeSlots)
  PROVE  Ascending(FreeSlots)[j] = k + j
<1> DEFINE x == Ascending(FreeSlots)[j]
<1>1. Ranked(FreeSlots, Ascending(FreeSlots))
  BY FreeSlotsFinite, AscendingIs
<1>2. x \in FreeSlots /\ Cardinality(Below(FreeSlots, x)) = j - 1
  BY <1>1 DEF Ranked
<1>3. j \in Nat /\ NSlots \in Nat
  BY FreeSlotsFinite, SlotCount
<1> HIDE DEF x
<1>4. Below(FreeSlots, x) = k + 1 .. x - 1
  BY <1>2, <1>3 DEF Below
<1>5. Cardinality(k + 1 .. x - 1) = (x - 1) - (k + 1) + 1
  <2>1. k + 1 \in Int /\ x - 1 \in Int
    BY <1>2, <1>3
  <2>2. Cardinality(k + 1 .. x - 1) = IF k + 1 > x - 1 THEN 0 ELSE (x - 1) - (k + 1) + 1
    BY <2>1, FS_Interval
  <2> QED BY <1>2, <1>3, <2>1, <2>2
<1>6. x = k + j
  BY <1>2, <1>3, <1>4, <1>5
<1> QED BY <1>6 DEF x

\* The larger size after a write.
Grown(len) == Max({size, pos + len})

LEMMA GrownIs ==
  ASSUME FileTypeOK, NEW len \in 1 .. MaxLen, do_write(len)
  PROVE  /\ size \in Nat /\ pos \in Nat /\ len \in Nat /\ pos + len <= MaxPos /\ MaxPos \in Nat
         /\ size <= MaxPos /\ Grown(len) \in 0 .. MaxPos
         /\ Grown(len) = IF size >= pos + len THEN size ELSE pos + len
<1>1. size \in Nat /\ pos \in Nat /\ len \in Nat /\ pos + len <= MaxPos /\ MaxPos \in Nat
      /\ size <= MaxPos
  BY Params DEF FileTypeOK, do_write
<1>2. Grown(len) = IF size >= pos + len THEN size ELSE pos + len
  BY <1>1, MaxOfTwo DEF Grown
<1> QED BY <1>1, <1>2

\* A write that gets its blocks leaves the slots of the larger size in use.
LEMMA OrderAfterWrite ==
  ASSUME FileInv, NEW len \in 1 .. MaxLen, do_write(len), ~ short'
  PROVE  \A s \in FSlot : ptr'[s] # NoBlock <=> s <= Needs(Grown(len))
<1> DEFINE k == Needs(size)
           f == Ascending(FreeSlots)
<1>1. FileTypeOK
  BY DEF FileInv, BlocksAccounted
<1>2. PICK q, m : Gives(len, q, m)
  BY <1>1, WriteGives
<1>3. Given(q, m) /\ ptr' = Fill(ptr, q) /\ ~ short /\ m >= Asked(len)
      /\ (m = 0 \/ m <= Asked(len)) /\ m \in Nat
  <2>1. Given(q, m) /\ ptr' = Fill(ptr, q) /\ ~ short /\ ~ (m < Asked(len))
        /\ (m = 0 \/ m <= Asked(len)) /\ m \in Nat
    BY <1>2 DEF Gives, Given
  <2>2. size \in Nat /\ pos + len \in Nat
    BY <1>1, GrownIs
  <2>3. Asked(len) \in Int
    BY <2>2, NeedsNat DEF Asked
  <2> QED BY <2>1, <2>3
<1>4. Filled(ptr', q, m)
  BY <1>3, FillIs DEF FileInv
<1>5. /\ \A s \in FSlot : ptr[s] # NoBlock => ptr'[s] = ptr[s]
      /\ \A s \in FSlot : ptr[s] = NoBlock =>
           \/ ptr'[s] = NoBlock /\ \A j \in 1 .. m : f[j] # s
           \/ \E j \in 1 .. m : f[j] = s /\ ptr'[s] = q[j]
      /\ \A j \in 1 .. m : f[j] \in FreeSlots /\ ptr'[f[j]] = q[j]
  BY <1>4 DEF Filled
<1>6. \A j \in 1 .. m : q[j] # NoBlock
  BY <1>3 DEF Given, FreeBlocks, FBlock, NoBlock
<1>7. \A s \in FSlot : ptr[s] # NoBlock <=> s <= k
  BY <1>3 DEF FileInv, InOrder
<1>8. k \in Nat /\ NSlots \in Nat /\ FSlot = 1 .. NSlots
  BY <1>1, GrownIs, NeedsNat, SlotCount
<1>9. FreeSlots = k + 1 .. NSlots
  <2> HIDE DEF k
  <2> QED BY <1>7, <1>8 DEF FreeSlots
<1>10. \A j \in 1 .. m : f[j] = k + j
  <2>1. m <= Cardinality(FreeSlots) /\ Cardinality(FreeSlots) \in Nat
    <3>1. Cardinality(FreeBlocks) <= Cardinality(FreeSlots)
      BY RoomForBlocks DEF FileInv
    <3>2. Cardinality(FreeBlocks) \in Nat /\ Cardinality(FreeSlots) \in Nat
      BY FreeBlocksFinite, FreeSlotsFinite
    <3>3. m <= Cardinality(FreeBlocks)
      BY <1>3 DEF Given
    <3> QED BY <1>3, <3>1, <3>2, <3>3
  <2>2. ASSUME NEW j \in 1 .. m PROVE f[j] = k + j
    <3>1. j \in 1 .. Cardinality(FreeSlots)
      BY <1>3, <2>1
    <3> HIDE DEF k
    <3> QED BY <1>8, <1>9, <3>1, NextSlot
  <2> QED BY <2>2
<1>11. Needs(Grown(len)) = k + m
  <2>1. size \in Nat /\ pos + len \in Nat
        /\ Grown(len) = IF size >= pos + len THEN size ELSE pos + len
    BY <1>1, GrownIs
  <2>2. Needs(pos + len) \in Nat
    BY <2>1, NeedsNat
  <2>3. Asked(len) = Needs(pos + len) - k
    BY DEF Asked
  <2>4. CASE size >= pos + len
    <3>1. Needs(pos + len) <= k
      BY <2>1, <2>4, NeedsMono
    <3>2. Needs(Grown(len)) = k
      BY <2>1, <2>4
    <3> HIDE DEF k
    <3> QED BY <1>3, <1>8, <2>2, <2>3, <3>1, <3>2
  <2>5. CASE ~ (size >= pos + len)
    <3>1. k <= Needs(pos + len)
      BY <2>1, <2>5, NeedsMono
    <3>2. Needs(Grown(len)) = Needs(pos + len)
      BY <2>1, <2>5
    <3> HIDE DEF k
    <3> QED BY <1>3, <1>8, <2>2, <2>3, <3>1, <3>2
  <2> QED BY <2>4, <2>5
<1> HIDE DEF k, f
<1>12. ASSUME NEW s \in FSlot
       PROVE  ptr'[s] # NoBlock <=> s <= k + m
  <2>1. CASE s <= k
    BY <1>3, <1>5, <1>7, <1>8, <2>1
  <2>2. CASE s > k /\ s <= k + m
    <3>1. s - k \in 1 .. m /\ k + (s - k) = s
      BY <1>3, <1>8, <2>2
    <3>2. f[s - k] = s
      BY <1>10, <3>1
    <3> QED BY <1>5, <1>6, <2>2, <3>1, <3>2
  <2>3. CASE s > k + m
    <3>1. ptr[s] = NoBlock
      BY <1>3, <1>7, <1>8, <2>3
    <3>2. \A j \in 1 .. m : f[j] # s
      BY <1>3, <1>8, <1>10, <2>3
    <3>3. ptr'[s] = NoBlock
      BY <1>5, <3>1, <3>2
    <3> QED BY <1>3, <1>8, <2>3, <3>3
  <2> QED BY <1>3, <1>8, <2>1, <2>2, <2>3
<1> QED BY <1>11, <1>12

\* Every byte below the new size has its block then.
LEMMA CoveredAfterWrite ==
  ASSUME FileInv, NEW len \in 1 .. MaxLen, do_write(len), ~ short'
  PROVE  \A i \in 0 .. Grown(len) - 1 : Covered(ptr', i)
<1> DEFINE g == Grown(len)
<1>1. g \in Nat /\ g <= MaxPos /\ MaxPos \in Nat
  BY GrownIs DEF FileInv, BlocksAccounted
<1>2. \A s \in FSlot : ptr'[s] # NoBlock <=> s <= Needs(g)
  BY OrderAfterWrite
<1> HIDE DEF g
<1>3. ASSUME NEW i \in 0 .. g - 1 PROVE Covered(ptr', i)
  <2>1. SlotOf(i) <= Needs(g)
    BY <1>1, SlotNeeded
  <2>2. i \in 0 .. MaxPos - 1
    BY <1>1
  <2>3. SlotOf(i) \in FSlot
    BY <2>2, SlotIn
  <2> QED BY <1>2, <2>1, <2>3 DEF Covered
<1> QED BY <1>3 DEF g

\* The gap that do_write() fills with zeros.
Gap == Max({0, pos - size})

\* So the write does all it was asked to.
LEMMA WriteDoes ==
  ASSUME FileInv, NEW len \in 1 .. MaxLen, do_write(len), ~ short'
  PROVE  /\ data' = Written(Written(data, ptr', size, Gap, TRUE), ptr', pos, len, FALSE)
         /\ content' = Noted(Noted(content, size, Gap, TRUE), pos, len, FALSE)
         /\ size' = Grown(len)
<1> DEFINE npd == Gap
           z == Put(ptr', size, npd)
           w == Put(ptr', pos, len)
<1>1. /\ size \in Nat /\ pos \in Nat /\ len \in Nat /\ Grown(len) \in Nat
      /\ Grown(len) = IF size >= pos + len THEN size ELSE pos + len
  BY GrownIs DEF FileInv, BlocksAccounted
<1>2. npd = IF pos > size THEN pos - size ELSE 0
  BY <1>1, MaxOfTwo DEF Gap
<1>3. npd \in Nat /\ (npd > 0 => size + npd <= Grown(len)) /\ pos + len <= Grown(len) /\ len > 0
  BY <1>1, <1>2
<1> HIDE DEF npd
<1>4. \A i \in 0 .. Grown(len) - 1 : Covered(ptr', i)
  BY CoveredAfterWrite
<1>5. \A i \in size .. size + npd - 1 : Covered(ptr', i)
  BY <1>1, <1>3, <1>4
<1>6. \A i \in pos .. pos + len - 1 : Covered(ptr', i)
  BY <1>1, <1>3, <1>4
<1>7. z.n = npd /\ z.ret = "all"
  BY <1>1, <1>3, <1>5, PutAll
<1>8. w.n = len /\ w.ret = "all"
  BY <1>1, <1>3, <1>6, PutAll
<1>9. IF z.ret # "all" THEN TRUE
      ELSE /\ data' = Written(Written(data, ptr', size, z.n, TRUE), ptr', pos, w.n, FALSE)
           /\ content' = Noted(Noted(content, size, z.n, TRUE), pos, w.n, FALSE)
           /\ IF w.ret = "error" THEN TRUE ELSE size' = Grown(len)
  <2> DEFINE need == GFS_nbytes2blocks(pos + len) - GFS_nbytes2blocks(size)
             a == IF need > 0 THEN AllocBlocks(need) ELSE [aptr |-> <<>>, used |-> used]
  <2>1. ptr' = Fill(ptr, a.aptr)
    BY DEF do_write
  <2> HIDE DEF a
  <2> QED BY <2>1 DEF do_write, npd, Gap, Grown, a
<1> HIDE DEF z, w
<1> QED BY <1>7, <1>8, <1>9 DEF npd

LEMMA DistinctNow ==
  ASSUME BlocksAccounted
  PROVE  Distinct(ptr)
BY DEF BlocksAccounted, FileTypeOK, Distinct

\* A write of n bytes from from, seen at the place of byte i.
Seen(p, from, n, i) ==
  /\ Distinct(p) /\ from \in Nat /\ n \in Nat /\ from + n <= MaxPos
  /\ i \in 0 .. MaxPos - 1 /\ Covered(p, i)

\* What is then there: new in the n bytes, else old.
Shows(x, from, n, i, new, old) == x = IF i \in from .. from + n - 1 THEN new ELSE old
Mark(i) == i + 1

\* Both for zeros and for the bytes of the program.
LEMMA WrittenBoth ==
  ASSUME NEW p, NEW from, NEW n, NEW i, Seen(p, from, n, i), NEW d
  PROVE  /\ Shows(Written(d, p, from, n, TRUE)[p[SlotOf(i)]][i % BLOCK_SIZE],
                  from, n, i, 0, d[p[SlotOf(i)]][i % BLOCK_SIZE])
         /\ Shows(Written(d, p, from, n, FALSE)[p[SlotOf(i)]][i % BLOCK_SIZE],
                  from, n, i, Mark(i), d[p[SlotOf(i)]][i % BLOCK_SIZE])
<1>1. \A zero : Written(d, p, from, n, zero)[p[SlotOf(i)]][i % BLOCK_SIZE] =
        IF i \in from .. from + n - 1 THEN ByteAt(zero, i) ELSE d[p[SlotOf(i)]][i % BLOCK_SIZE]
  <2>1. Distinct(p) /\ from \in Nat /\ n \in Nat /\ from + n <= MaxPos
        /\ i \in 0 .. MaxPos - 1 /\ Covered(p, i)
    BY DEF Seen
  <2> QED BY <2>1, WrittenAt
<1>2. /\ Written(d, p, from, n, TRUE)[p[SlotOf(i)]][i % BLOCK_SIZE] =
           IF i \in from .. from + n - 1 THEN ByteAt(TRUE, i) ELSE d[p[SlotOf(i)]][i % BLOCK_SIZE]
      /\ Written(d, p, from, n, FALSE)[p[SlotOf(i)]][i % BLOCK_SIZE] =
           IF i \in from .. from + n - 1 THEN ByteAt(FALSE, i) ELSE d[p[SlotOf(i)]][i % BLOCK_SIZE]
  BY <1>1, Zenon
<1>3. ByteAt(TRUE, i) = 0 /\ ByteAt(FALSE, i) = i + 1
  BY DEF ByteAt
<1> QED BY <1>2, <1>3 DEF Shows, Mark

LEMMA NotedBoth ==
  ASSUME NEW c, NEW from, NEW n, NEW i \in 0 .. MaxPos - 1
  PROVE  /\ Shows(Noted(c, from, n, TRUE)[i], from, n, i, 0, c[i])
         /\ Shows(Noted(c, from, n, FALSE)[i], from, n, i, Mark(i), c[i])
<1>1. ByteAt(TRUE, i) = 0 /\ ByteAt(FALSE, i) = i + 1
  BY DEF ByteAt
<1> QED BY <1>1 DEF Noted, Position, Shows, Mark

LEMMA ReadsAfterWrite ==
  ASSUME FileInv, NEW len \in 1 .. MaxLen, do_write(len)
  PROVE  InOrder' /\ ReadsBack'
<1> SUFFICES ASSUME ~ short' PROVE InOrder' /\ ReadsBack'
  BY DEF InOrder, ReadsBack
<1>1. /\ data' = Written(Written(data, ptr', size, Gap, TRUE), ptr', pos, len, FALSE)
      /\ content' = Noted(Noted(content, size, Gap, TRUE), pos, len, FALSE)
      /\ size' = Grown(len)
  BY WriteDoes
<1>2. \A s \in FSlot : ptr'[s] # NoBlock <=> s <= Needs(Grown(len))
  BY OrderAfterWrite
<1>3. InOrder'
  BY <1>1, <1>2 DEF InOrder, Needs, GFS_nbytes2blocks, udiv
<1>4. /\ size \in Nat /\ pos \in Nat /\ len \in Nat /\ MaxPos \in Nat
      /\ Grown(len) \in Nat /\ Grown(len) <= MaxPos /\ pos + len <= MaxPos /\ size <= MaxPos
      /\ Grown(len) = IF size >= pos + len THEN size ELSE pos + len
  BY GrownIs DEF FileInv, BlocksAccounted
<1>5. Gap \in Nat /\ size + Gap <= MaxPos /\ (pos > size => size + Gap = pos)
  <2>1. Gap = IF pos > size THEN pos - size ELSE 0
    BY <1>4, MaxOfTwo DEF Gap
  <2> QED BY <1>4, <2>1
<1>6. \A i \in 0 .. Grown(len) - 1 : Covered(ptr', i)
  BY CoveredAfterWrite
<1>7. PICK p : p = ptr'
  OBVIOUS
<1>8. Distinct(p)
  <2>1. BlocksAccounted'
    BY AccountedWrite DEF FileInv
  <2> QED BY <1>7, <2>1 DEF BlocksAccounted, FileTypeOK, Distinct
<1>9. \A i \in 0 .. size - 1 :
        /\ ptr'[SlotOf(i)] = ptr[SlotOf(i)]
        /\ data[ptr[SlotOf(i)]][i % BLOCK_SIZE] = content[i] /\ content[i] # Unset
  <2>1. ~ short
    <3>1. PICK q, m : Gives(len, q, m)
      BY WriteGives DEF FileInv, BlocksAccounted
    <3> QED BY <3>1 DEF Gives
  <2>2. PICK q, m : Gives(len, q, m)
    BY WriteGives DEF FileInv, BlocksAccounted
  <2>3. Filled(ptr', q, m)
    BY <2>2, FillIs DEF Gives, FileInv
  <2>4. \A s \in FSlot : ptr[s] # NoBlock => ptr'[s] = ptr[s]
    BY <2>3 DEF Filled
  <2>5. ASSUME NEW i \in 0 .. size - 1
        PROVE  /\ ptr'[SlotOf(i)] = ptr[SlotOf(i)]
               /\ data[ptr[SlotOf(i)]][i % BLOCK_SIZE] = content[i] /\ content[i] # Unset
    <3>1. i \in 0 .. MaxPos - 1
      BY <1>4
    <3>2. SlotOf(i) \in FSlot
      BY <3>1, SlotIn
    <3>3. /\ Covered(ptr, i) /\ content[i] # Unset
          /\ data[ptr[SlotOf(i)]][i % BLOCK_SIZE] = content[i]
      BY <2>1 DEF FileInv, ReadsBack
    <3> QED BY <2>4, <3>2, <3>3 DEF Covered
  <2> QED BY <2>5
<1>10. ASSUME NEW i \in 0 .. Grown(len) - 1
       PROVE  /\ data'[ptr'[SlotOf(i)]][i % BLOCK_SIZE] = content'[i]
              /\ content'[i] # Unset
  <2> DEFINE b == p[SlotOf(i)]
             o == i % BLOCK_SIZE
             e == Written(data, p, size, Gap, TRUE)
             c == Noted(content, size, Gap, TRUE)
  <2>1. i \in 0 .. MaxPos - 1 /\ i \in Nat
    BY <1>4
  <2>2. Covered(p, i)
    BY <1>6, <1>7
  <2>3. Shows(e[b][o], size, Gap, i, 0, data[b][o])
    <3>1. Seen(p, size, Gap, i)
      BY <1>4, <1>5, <1>8, <2>1, <2>2 DEF Seen
    <3> QED BY <3>1, WrittenBoth
  <2>4. Shows(c[i], size, Gap, i, 0, content[i])
    BY <2>1, NotedBoth
  <2> HIDE DEF e, c
  <2>5. Shows(Written(e, p, pos, len, FALSE)[b][o], pos, len, i, Mark(i), e[b][o])
    <3>1. Seen(p, pos, len, i)
      BY <1>4, <1>8, <2>1, <2>2 DEF Seen
    <3> QED BY <3>1, WrittenBoth
  <2>6. Shows(Noted(c, pos, len, FALSE)[i], pos, len, i, Mark(i), c[i])
    BY <2>1, NotedBoth
  <2>7. data' = Written(e, p, pos, len, FALSE) /\ content' = Noted(c, pos, len, FALSE)
    BY <1>1, <1>7 DEF e, c
  <2>8. 0 # Unset /\ Mark(i) # Unset
    BY <2>1 DEF Unset, Mark
  <2>9. CASE i \in pos .. pos + len - 1
    BY <1>7, <2>5, <2>6, <2>7, <2>8, <2>9 DEF Shows
  <2>10. CASE i \notin pos .. pos + len - 1 /\ i \in size .. size + Gap - 1
    BY <1>7, <2>3, <2>4, <2>5, <2>6, <2>7, <2>8, <2>10 DEF Shows
  <2>11. CASE i \notin pos .. pos + len - 1 /\ i \notin size .. size + Gap - 1
    <3>1. i \in 0 .. size - 1
      BY <1>4, <1>5, <2>1, <2>11
    <3>2. data[b][o] = content[i] /\ content[i] # Unset
      BY <1>7, <1>9, <3>1
    <3> QED BY <1>7, <2>3, <2>4, <2>5, <2>6, <2>7, <2>11, <3>2 DEF Shows
  <2> QED BY <2>9, <2>10, <2>11
<1>11. ReadsBack'
  BY <1>1, <1>6, <1>10 DEF ReadsBack, Covered, SlotOf, DataSlot, L1Slot, Double, Single
<1> QED BY <1>3, <1>11

LEMMA ReadsAfterOther ==
  ASSUME FileInv, UNCHANGED <<ptr, data, size, content, short>>
  PROVE  InOrder' /\ ReadsBack'
<1>1. InOrder'
  BY DEF FileInv, InOrder
<1>2. ReadsBack'
  BY DEF FileInv, ReadsBack
<1> QED BY <1>1, <1>2

LEMMA EmptyFile ==
  ASSUME ptr = [s \in FSlot |-> NoBlock], size = 0
  PROVE  InOrder /\ ReadsBack
<1>1. InOrder
  BY NeedsNothing, SlotCount DEF InOrder
<1>2. ReadsBack
  BY DEF ReadsBack
<1> QED BY <1>1, <1>2

LEMMA FileStep ==
  ASSUME FileInv, [FileNext]_filevars
  PROVE  FileInv'
<1>1. BlocksAccounted'
  BY AccountedStep DEF FileInv
<1>2. ASSUME NEW len \in 1 .. MaxLen, do_write(len) PROVE InOrder' /\ ReadsBack'
  BY <1>2, ReadsAfterWrite
<1>3. ASSUME NEW len \in 1 .. MaxLen, do_read(len) PROVE InOrder' /\ ReadsBack'
  BY <1>3, ReadsAfterOther DEF do_read
<1>4. ASSUME NEW at \in 0 .. MaxPos, do_lseek(at) PROVE InOrder' /\ ReadsBack'
  BY <1>4, ReadsAfterOther DEF do_lseek
<1>5. ASSUME RemoveFile PROVE InOrder' /\ ReadsBack'
  <2>1. ptr' = [s \in FSlot |-> NoBlock] /\ size' = 0
    BY <1>5 DEF RemoveFile
  <2>2. InOrder'
    BY <2>1, NeedsNothing, SlotCount DEF InOrder
  <2>3. ReadsBack'
    BY <2>1 DEF ReadsBack
  <2> QED BY <2>2, <2>3
<1>6. ASSUME OtherTakes \/ \E b \in FBlock : OtherFrees(b) PROVE InOrder' /\ ReadsBack'
  BY <1>6, ReadsAfterOther DEF OtherTakes, OtherFrees
<1>7. ASSUME UNCHANGED filevars PROVE InOrder' /\ ReadsBack'
  BY <1>7, ReadsAfterOther DEF filevars
<1>8. InOrder' /\ ReadsBack'
  BY <1>2, <1>3, <1>4, <1>5, <1>6, <1>7 DEF FileNext
<1> QED BY <1>1, <1>8 DEF FileInv

\* As long as writes get their blocks, what do_write() put into a GFS file and
\* the zeros of a gap are what do_read() finds, through direct, indirect and
\* double indirect pointers, for every geometry of inode and block (gfs-file.c).
THEOREM FileReadsBack == FileSpec => []ReadsBack
<1>1. FileInit => FileInv
  BY AccountedInit, EmptyFile DEF FileInit, FileInv
<1>2. FileInv /\ [FileNext]_filevars => FileInv'
  BY FileStep
<1>3. FileInv => ReadsBack
  BY DEF FileInv
<1> QED BY <1>1, <1>2, <1>3, PTL DEF FileSpec
=============================================================================
