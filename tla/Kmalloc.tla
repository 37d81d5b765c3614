------------------------------ MODULE Kmalloc ------------------------------
(***************************************************************************)
(* The heap of the kernel (kernel/mm/malloc-g.c): blocks with a header and *)
(* a foot that carry their size and tag, and a circular list of the free   *)
(* ones.  Memory is counted in units of a header.  What is in a block      *)
(* between header and foot is whatever its user left there, so these cells *)
(* are not part of the state.                                              *)
(***************************************************************************)
EXTENDS Naturals, FiniteSets, FiniteSetsExt

CONSTANTS
  KSL,            \* units of the heap
  EU,             \* a remainder of less is not kept as a block of its own
  Requests        \* units of a block, header and foot included

ASSUME KmallocAssumption == KSL \in Nat /\ EU \in 3 .. KSL /\ Requests \subseteq 3 .. KSL

VARIABLES
  head,           \* the headers: .size, .tag and the links .next and .last
  foot,           \* the feet: .head and .tag
  kpav,           \* where the search for free space starts
  kmemory         \* ghost: the blocks in use, with the units asked for

heapvars == <<head, foot, kpav, kmemory>>

FREE == 0
OCCUPIED == 1
NULL == KSL
Cells == 0 .. KSL - 1
foot_loc(h) == h + head[h].size - 1
\* f with x at key k, and f without the keys in K
With(f, k, x) == [i \in DOMAIN f \cup {k} |-> IF i = k THEN x ELSE f[i]]
Drop(f, K) == [i \in DOMAIN f \ K |-> f[i]]
-----------------------------------------------------------------------------
\* The free blocks in the order of the search, from kpav on
Search == LET at[k \in Nat] == IF k = 0 THEN kpav ELSE head[at[k - 1]].next
          IN [k \in Cells |-> at[k]]
Fits(n) == IF kpav = NULL THEN {} ELSE {k \in Cells : head[Search[k]].size >= n}

\* The header of a block in use, whose links nobody reads
Occupied(n) == [size |-> n, tag |-> OCCUPIED, next |-> NULL, last |-> NULL]
\* kmalloc_g() takes the whole block h ...
TakeWhole(h, n) ==
  LET kp == head[h].next
      linked == [head EXCEPT ![head[h].last].next = kp, ![kp].last = head[h].last] IN
  /\ kpav' = IF h = kp THEN NULL ELSE kp
  /\ head' = [IF h = kp THEN head ELSE linked EXCEPT ![h] = Occupied(head[h].size)]
  /\ foot' = [foot EXCEPT ![foot_loc(h)].tag = OCCUPIED]
  /\ kmemory' = With(kmemory, h, n)
\* ... or the last n units of it.
TakeLast(h, n) ==
  LET left == head[h].size - n  new == h + left IN
  /\ kpav' = head[h].next
  /\ head' = With([head EXCEPT ![h].size = left], new,
                  Occupied(n))
  /\ foot' = With([foot EXCEPT ![foot_loc(h)] = [head |-> new, tag |-> OCCUPIED]],
                  new - 1, [head |-> h, tag |-> FREE])
  /\ kmemory' = With(kmemory, new, n)
kmalloc_g(n) ==
  /\ Fits(n) # {}
  /\ LET h == Search[Min(Fits(n))] IN
     IF head[h].size - n < EU THEN TakeWhole(h, n) ELSE TakeLast(h, n)
-----------------------------------------------------------------------------
(* kfree_g(): the four cases of who is free at the left and at the right   *)

LeftTag(h) == IF h = 0 THEN OCCUPIED ELSE foot[h - 1].tag
RightTag(h) == IF foot_loc(h) + 1 >= KSL THEN OCCUPIED ELSE head[foot_loc(h) + 1].tag
Freed(h) == kmemory' = Drop(kmemory, {h})

InsertBlock(h) ==
  /\ LeftTag(h) = OCCUPIED /\ RightTag(h) = OCCUPIED
  /\ head' = IF kpav = NULL THEN [head EXCEPT ![h].tag = FREE, ![h].next = h, ![h].last = h]
             ELSE [head EXCEPT ![h] = [@ EXCEPT !.tag = FREE, !.next = kpav, !.last = head[kpav].last],
                               ![head[kpav].last].next = h, ![kpav].last = h]
  /\ foot' = [foot EXCEPT ![foot_loc(h)] = [head |-> h, tag |-> FREE]]
  /\ kpav' = h /\ Freed(h)

\* The block takes the place of the one at its right in the list.
MergeRight(h) ==
  LET r == foot_loc(h) + 1
      alone == head[r].next = r
      nx == IF alone THEN h ELSE head[r].next
      la == IF alone THEN h ELSE head[r].last
      h1 == [head EXCEPT ![h] = [size |-> head[h].size + head[r].size, tag |-> FREE,
                                 next |-> nx, last |-> la]]
      h2 == [h1 EXCEPT ![la].next = h] IN
  /\ LeftTag(h) = OCCUPIED /\ RightTag(h) = FREE
  /\ head' = Drop([h2 EXCEPT ![nx].last = h], {r})
  /\ foot' = Drop([foot EXCEPT ![foot_loc(r)] = [head |-> h, tag |-> FREE]], {r - 1})
  /\ kpav' = h /\ Freed(h)

MergeLeft(h) ==
  LET l == foot[h - 1].head IN
  /\ LeftTag(h) = FREE /\ RightTag(h) = OCCUPIED
  /\ head' = Drop([head EXCEPT ![l].size = @ + head[h].size], {h})
  /\ foot' = Drop([foot EXCEPT ![foot_loc(h)] = [head |-> l, tag |-> FREE]], {h - 1})
  /\ Freed(h) /\ UNCHANGED kpav

\* Mutant of MergeBoth: kpav stays, maybe at the block that is gone.
MergeBothKeepsKpav(h) ==
  LET l == foot[h - 1].head  r == foot_loc(h) + 1
      h1 == [head EXCEPT ![l].size = @ + head[h].size + head[r].size]
      h2 == [h1 EXCEPT ![h1[r].last].next = h1[r].next] IN
  /\ LeftTag(h) = FREE /\ RightTag(h) = FREE
  /\ head' = Drop([h2 EXCEPT ![h2[r].next].last = h2[r].last], {h, r})
  /\ foot' = Drop([foot EXCEPT ![foot_loc(r)].head = l], {h - 1, r - 1})
  /\ Freed(h) /\ UNCHANGED kpav
MergeBoth(h) ==
  LET l == foot[h - 1].head  r == foot_loc(h) + 1
      h1 == [head EXCEPT ![l].size = @ + head[h].size + head[r].size]
      h2 == [h1 EXCEPT ![h1[r].last].next = h1[r].next] IN
  /\ LeftTag(h) = FREE /\ RightTag(h) = FREE
  /\ head' = Drop([h2 EXCEPT ![h2[r].next].last = h2[r].last], {h, r})
  /\ foot' = Drop([foot EXCEPT ![foot_loc(r)].head = l], {h - 1, r - 1})
  /\ kpav' = l /\ Freed(h)

kfree_g(h) == h \in DOMAIN kmemory /\ (InsertBlock(h) \/ MergeRight(h) \/ MergeLeft(h) \/ MergeBoth(h))
-----------------------------------------------------------------------------
\* malloc_init()
HeapInit ==
  /\ head = [h \in {0} |-> [size |-> KSL, tag |-> FREE, next |-> 0, last |-> 0]]
  /\ foot = [f \in {KSL - 1} |-> [head |-> 0, tag |-> FREE]]
  /\ kpav = 0 /\ kmemory = [h \in {} |-> 0]
HeapNext ==
  \/ \E n \in Requests : kmalloc_g(n)
  \/ \E h \in Cells : kfree_g(h)
HeapSpec == HeapInit /\ [][HeapNext]_heapvars
-----------------------------------------------------------------------------
\* In any order of allocating and freeing: headers and feet describe blocks that fill
\* the heap without gap or overlap; the occupied ones are those in use, each as large
\* as asked for and wasting less than EU; no two free blocks touch; and the list from
\* kpav, in both directions, holds the free blocks and nothing else.
HeapSound ==
  LET free == {h \in DOMAIN head : head[h].tag = FREE} IN
  /\ DOMAIN head \cup {KSL} = {0} \cup {foot_loc(h) + 1 : h \in DOMAIN head}
  /\ DOMAIN foot = {foot_loc(h) : h \in DOMAIN head}
  /\ \A h \in DOMAIN head : foot[foot_loc(h)] = [head |-> h, tag |-> head[h].tag]
  /\ DOMAIN kmemory = DOMAIN head \ free
  /\ \A h \in DOMAIN kmemory : head[h].size \in kmemory[h] .. kmemory[h] + EU - 1
  /\ \A h \in free : foot_loc(h) + 1 \notin free
  /\ kpav = NULL <=> free = {}
  /\ kpav # NULL => /\ kpav \in free
                    /\ \A h \in free : /\ {head[h].next, head[h].last} \subseteq free
                                       /\ head[head[h].next].last = h
                    /\ {Search[k] : k \in Cells} = free
=============================================================================
