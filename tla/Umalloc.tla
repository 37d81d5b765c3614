------------------------------ MODULE Umalloc ------------------------------
(***************************************************************************)
(* malloc() and free() of the user library (tiny_libc/umalloc.c), called   *)
(* by one thread, on the memory that sys_sbrk() returns.  Memory is        *)
(* counted in units of a Header; the header at address a has the size of   *)
(* its block and, while it is free, the link to the next one.              *)
(***************************************************************************)
EXTENDS Naturals, FiniteSets, FiniteSetsExt

CONSTANTS
  NALLOC,         \* least number of units that morecore() asks for (4096)
  MaxUnits,       \* what sys_sbrk() can give in all
  Units           \* nunits of a malloc()

ASSUME UmallocAssumption == {NALLOC, MaxUnits} \subseteq Nat \ {0} /\ Units \subseteq 2 .. MaxUnits

VARIABLES
  ptr, size,      \* of the headers in the free list; ptr of a block in use is gone
  freep,          \* where the search starts, or Null
  brk,            \* units that sys_sbrk() has given
  umemory         \* ghost: the blocks in use, with the units asked for

uheapvars == <<ptr, size, freep, brk, umemory>>

Null == 0
base == 1                           \* the static header, below the heap
Heap == 3                           \* the first address of the heap
Extend(f, k, x) == [i \in DOMAIN f \cup {k} |-> IF i = k THEN x ELSE f[i]]
Without(f, k) == [i \in DOMAIN f \ {k} |-> f[i]]
\* The n-th header after p in the list l
Nth(l, p, n) == LET at[k \in Nat] == IF k = 0 THEN p ELSE l[at[k - 1]] IN at[n]
Steps == 0 .. MaxUnits

\* The loop of free(): the place in list l after which the block bp belongs
Place(l, from, bp) ==
  LET here(p) == \/ bp > p /\ bp < l[p]
                 \/ p >= l[p] /\ (bp > p \/ bp < l[p]) IN
  Nth(l, from, Min({k \in Steps : here(Nth(l, from, k))}))

\* Mutant of Coalesced: a block is not merged with the one below.
CoalescedAbove(l, s, p, bp) ==
  LET up == bp + s[bp] = l[p]
      l1 == IF up THEN Without(Extend(l, bp, l[l[p]]), l[p]) ELSE Extend(l, bp, l[p])
      s1 == IF up THEN Without([s EXCEPT ![bp] = @ + s[l[p]]], l[p]) ELSE s IN
  [ptr |-> [l1 EXCEPT ![p] = bp], size |-> s1]
\* The rest of free(): bp enters the list after p, merged with the block above and
\* with the one below if they touch.
Coalesced(l, s, p, bp) ==
  LET up == bp + s[bp] = l[p]
      l1 == IF up THEN Without(Extend(l, bp, l[l[p]]), l[p]) ELSE Extend(l, bp, l[p])
      s1 == IF up THEN Without([s EXCEPT ![bp] = @ + s[l[p]]], l[p]) ELSE s IN
  IF p + s[p] = bp
  THEN [ptr |-> Without([l1 EXCEPT ![p] = l1[bp]], bp),
        size |-> Without([s1 EXCEPT ![p] = @ + s1[bp]], bp)]
  ELSE [ptr |-> [l1 EXCEPT ![p] = bp], size |-> s1]

free(bp) ==
  LET p == Place(ptr, freep, bp)  c == Coalesced(ptr, size, p, bp) IN
  /\ bp \in DOMAIN umemory
  /\ ptr' = c.ptr /\ size' = c.size /\ freep' = p
  /\ umemory' = Without(umemory, bp) /\ UNCHANGED brk
-----------------------------------------------------------------------------
\* The search of malloc() in list l from the header after f: the header before the
\* first block that is large enough, which may be f itself
Before(l, s, f, n) ==
  LET fit == {k \in Steps : s[Nth(l, f, k + 1)] >= n} IN
  IF fit = {} THEN {} ELSE {Nth(l, f, Min(fit))}
\* n units of the block after prevp: all of it, or its last ones
Take(l, s, prevp, n) ==
  LET p == l[prevp]  new == IF s[p] = n THEN p ELSE p + s[p] - n IN
  /\ ptr' = IF s[p] = n THEN Without([l EXCEPT ![prevp] = l[p]], p) ELSE l
  /\ size' = Extend([s EXCEPT ![p] = @ - n], new, n)
  /\ freep' = prevp
  /\ umemory' = Extend(umemory, new, n)

\* morecore() asks for k units, which free() puts in the list.
morecore(l, s, f, k) ==
  LET new == Heap + brk
      s1 == Extend(s, new, k)
      p == Place(l, f, new) IN
  [at |-> p, c |-> Coalesced(l, s1, p, new)]

\* malloc() with the list l, of which freep is f (base alone before the first call)
Malloc(l, s, f, n) ==
  LET k == IF n < NALLOC THEN NALLOC ELSE n
      more == morecore(l, s, f, k) IN
  \/ \E p \in Before(l, s, f, n) : Take(l, s, p, n) /\ UNCHANGED brk
  \/ /\ Before(l, s, f, n) = {} /\ brk + k <= MaxUnits
     /\ \E p \in Before(more.c.ptr, more.c.size, more.at, n) :
          Take(more.c.ptr, more.c.size, p, n)
     /\ brk' = brk + k
malloc(n) ==
  IF freep = Null THEN Malloc([h \in {base} |-> base], [h \in {base} |-> 0], base, n)
  ELSE Malloc(ptr, size, freep, n)

UheapInit ==
  /\ ptr = [h \in {base} |-> Null] /\ size = [h \in {base} |-> 0]
  /\ freep = Null /\ brk = 0 /\ umemory = [h \in {} |-> 0]
UheapNext == (\E n \in Units : malloc(n)) \/ (\E a \in Heap .. Heap + MaxUnits : free(a))
UheapSpec == UheapInit /\ [][UheapNext]_uheapvars
-----------------------------------------------------------------------------
\* The blocks that programs hold and those in the free list share out what sbrk gave
\* with nothing lost or given twice, each block in use as large as asked for; and the
\* list runs once around through all free blocks in the order of their addresses, no
\* two of which touch.
UheapSound ==
  LET listed == DOMAIN ptr \ {base}
      used == DOMAIN umemory
      Cellset(a) == a .. a + size[a] - 1 IN
  freep # Null =>
    /\ freep \in DOMAIN ptr /\ listed \cap used = {}
    /\ \A a, b \in listed \cup used : a # b => Cellset(a) \cap Cellset(b) = {}
    /\ UNION {Cellset(a) : a \in listed \cup used} = Heap .. Heap + brk - 1
    /\ \A a \in used : size[a] = umemory[a]
    /\ \A a \in DOMAIN ptr :
         ptr[a] = LET above == {b \in DOMAIN ptr : b > a} IN
                  IF above = {} THEN base ELSE Min(above)
    /\ \A a \in listed : a + size[a] \notin listed
=============================================================================
