----------------------------- MODULE Heap_proofs -----------------------------
(* Proofs about Kmalloc and Umalloc: HeapSound is an invariant of the kernel  *)
(* heap and UheapSound of the user heap, for every size of the heap and every *)
(* set of requests.  Both rest on the same two pictures: blocks that tile an  *)
(* interval, and links that run once around a set.                            *)
EXTENDS Kmalloc, Umalloc, FiniteSetTheorems, WellFoundedInduction, TLAPS

\* The blocks at addresses D, of sizes z, fill lo .. hi - 1 without gap or overlap.
Tiles(D, z, lo, hi) ==
  /\ lo \in Nat /\ hi \in Nat /\ D \subseteq lo .. hi - 1
  /\ \A a \in D : z[a] \in Nat \ {0} /\ a + z[a] <= hi
  /\ \A a, b \in D : a < b => a + z[a] <= b
  /\ D \cup {hi} = {lo} \cup {a + z[a] : a \in D}

\* The links N run once around F ...
Cycle(F, N) ==
  /\ N \in [F -> F]
  /\ \A S \in SUBSET F : S # {} /\ (\A x \in S : N[x] \in S) => S = F
\* ... and L back.
Ring(F, N, L) ==
  /\ Cycle(F, N) /\ L \in [F -> F]
  /\ \A x \in F : N[L[x]] = x /\ L[N[x]] = x
-----------------------------------------------------------------------------
(* Least and greatest numbers of a set.                                     *)

\* A set of natural numbers has a least one.
LEMMA MinIs ==
  ASSUME NEW S \in SUBSET Nat, S # {}
  PROVE  Min(S) \in S /\ \A x \in S : Min(S) <= x
<1>1. PICK x \in S : \A y \in S : <<y, x>> \notin OpToRel(<, Nat)
  BY NatLessThanWellFounded, WFMin
<1>2. \A y \in S : ~(y < x)
  BY <1>1 DEF OpToRel
<1>3. \A y \in S : x <= y
  BY <1>2
<1> QED BY <1>3 DEF Min

\* A set of numbers below a bound has a greatest one.
LEMMA GreatestIs ==
  ASSUME NEW n \in Nat, NEW S \in SUBSET (0 .. n), S # {}
  PROVE  \E x \in S : \A y \in S : y <= x
<1> DEFINE T == {n - x : x \in S}
<1>1. T \in SUBSET Nat /\ T # {}
  <2>1. \A x \in S : n - x \in Nat
    OBVIOUS
  <2> QED BY <2>1
<1>2. Min(T) \in T /\ \A y \in T : Min(T) <= y
  <2> HIDE DEF T
  <2> QED BY <1>1, MinIs
<1>3. PICK x \in S : Min(T) = n - x
  BY <1>2
<1>4. \A y \in S : y <= x
  <2> SUFFICES ASSUME NEW y \in S PROVE y <= x
    OBVIOUS
  <2>1. n - y \in T
    OBVIOUS
  <2>2. n - x <= n - y
    BY <1>2, <1>3, <2>1
  <2> QED BY <2>2
<1> QED BY <1>4

\* Induction on the natural numbers, over a set.
LEMMA NatSetInduction ==
  ASSUME NEW T, 0 \in T, \A k \in Nat : k \in T => k + 1 \in T
  PROVE  Nat \subseteq T
<1> SUFFICES ASSUME Nat \ T # {} PROVE FALSE
  OBVIOUS
<1> DEFINE x == Min(Nat \ T)
<1>1. x \in Nat \ T /\ \A y \in Nat \ T : x <= y
  BY MinIs
<1> HIDE DEF x
<1>2. x # 0 /\ x - 1 \in Nat /\ (x - 1) + 1 = x
  BY <1>1
<1>3. x - 1 \in Nat \ T
  BY <1>1, <1>2
<1>4. x <= x - 1
  BY <1>1, <1>3
<1> QED BY <1>1, <1>4
-----------------------------------------------------------------------------
(* Blocks that tile an interval.                                            *)

\* The end of a block is another block or the end of all.
LEMMA EndIs ==
  ASSUME NEW D, NEW z, NEW lo, NEW hi, Tiles(D, z, lo, hi), NEW a \in D
  PROVE  a + z[a] \in D \/ a + z[a] = hi
BY DEF Tiles

\* Before a block there is another one, but for the first.
LEMMA LeftIs ==
  ASSUME NEW D, NEW z, NEW lo, NEW hi, Tiles(D, z, lo, hi), NEW b \in D, b # lo
  PROVE  \E a \in D : a + z[a] = b
BY DEF Tiles

\* Only one block ends at an address.
LEMMA EndOnce ==
  ASSUME NEW D, NEW z, NEW lo, NEW hi, Tiles(D, z, lo, hi),
         NEW a \in D, NEW b \in D, a + z[a] = b + z[b]
  PROVE  a = b
<1>1. a \in Nat /\ b \in Nat /\ z[a] \in Nat \ {0} /\ z[b] \in Nat \ {0}
  BY DEF Tiles
<1>2. ~ (a < b)
  BY <1>1 DEF Tiles
<1>3. ~ (b < a)
  BY <1>1 DEF Tiles
<1> QED BY <1>1, <1>2, <1>3

\* Other sizes outside of D do not matter.
LEMMA TileSame ==
  ASSUME NEW D, NEW z, NEW lo, NEW hi, Tiles(D, z, lo, hi),
         NEW y, \A a \in D : y[a] = z[a]
  PROVE  Tiles(D, y, lo, hi)
<1>1. {a + y[a] : a \in D} = {a + z[a] : a \in D}
  OBVIOUS
<1> QED BY <1>1 DEF Tiles

\* The last n cells of block h become a block.
Splits(D, z, h, n, new, y) ==
  /\ h \in D /\ n \in Nat \ {0} /\ n < z[h] /\ new = h + (z[h] - n)
  /\ y[h] = z[h] - n /\ y[new] = n /\ \A a \in D \ {h} : y[a] = z[a]

LEMMA TileSplit ==
  ASSUME NEW D, NEW z, NEW lo, NEW hi, Tiles(D, z, lo, hi),
         NEW h, NEW n, NEW new, NEW y, Splits(D, z, h, n, new, y)
  PROVE  new \notin D /\ Tiles(D \cup {new}, y, lo, hi)
<1> /\ h \in D /\ n \in Nat /\ 0 < n /\ n < z[h] /\ new = h + (z[h] - n)
    /\ y[h] = z[h] - n /\ y[new] = n /\ \A a \in D \ {h} : y[a] = z[a]
  BY DEF Splits
<1>1. /\ lo \in Nat /\ hi \in Nat /\ h \in Nat /\ z[h] \in Nat /\ new \in Nat
      /\ h < new /\ new + n = h + z[h] /\ z[h] - n \in Nat \ {0} /\ h + y[h] = new
      /\ h + z[h] <= hi /\ lo <= h
  BY DEF Tiles
<1>2. new \notin D
  BY <1>1 DEF Tiles
<1>3. \A a \in D : a # h => a + y[a] = a + z[a]
  OBVIOUS
<1>4. D \cup {new} \subseteq lo .. hi - 1
  BY <1>1 DEF Tiles
<1>5. ASSUME NEW a \in D \cup {new}
      PROVE  y[a] \in Nat \ {0} /\ a + y[a] <= hi
  BY <1>1 DEF Tiles
<1>6. ASSUME NEW a \in D \cup {new}, NEW b \in D \cup {new}, a < b
      PROVE  a + y[a] <= b
  <2>1. a \in Nat /\ b \in Nat
    BY <1>1, <1>4
  <2>2. CASE a \in D /\ b \in D
    <3>1. a + z[a] <= b
      BY <1>6, <2>2 DEF Tiles
    <3> QED BY <1>1, <2>1, <2>2, <3>1
  <2>3. CASE a = new /\ b \in D
    <3>1. h < b
      BY <1>1, <1>6, <2>1, <2>3
    <3>2. h + z[h] <= b
      BY <2>3, <3>1 DEF Tiles
    <3> QED BY <1>1, <2>3, <3>2
  <2>4. CASE a \in D /\ b = new /\ a # h
    <3>1. ~ (h < a)
      <4>1. SUFFICES ASSUME h < a PROVE FALSE
        OBVIOUS
      <4>2. h + z[h] <= a
        BY <2>4, <4>1 DEF Tiles
      <4> QED BY <1>1, <1>6, <2>1, <2>4, <4>2
    <3>2. a < h
      BY <1>1, <2>1, <2>4, <3>1
    <3>3. a + z[a] <= h /\ z[a] \in Nat
      BY <2>4, <3>2 DEF Tiles
    <3> QED BY <1>1, <1>3, <2>1, <2>4, <3>3
  <2>5. CASE a = h /\ b = new
    BY <1>1, <2>5
  <2> QED BY <1>6, <2>1, <2>2, <2>3, <2>4, <2>5
<1>7. (D \cup {new}) \cup {hi} = {lo} \cup {a + y[a] : a \in D \cup {new}}
  <2>1. ASSUME NEW x \in (D \cup {new}) \cup {hi}
        PROVE  x \in {lo} \cup {a + y[a] : a \in D \cup {new}}
    <3>1. CASE x = new
      BY <1>1, <3>1
    <3>2. CASE x # new
      <4>1. x \in {lo} \cup {a + z[a] : a \in D}
        BY <3>2 DEF Tiles
      <4>2. CASE x = h + z[h]
        BY <1>1, <4>2
      <4>3. CASE x # h + z[h]
        BY <1>3, <4>1, <4>3
      <4> QED BY <4>2, <4>3
    <3> QED BY <3>1, <3>2
  <2>2. ASSUME NEW a \in D \cup {new}
        PROVE  a + y[a] \in (D \cup {new}) \cup {hi}
    <3>1. CASE a = new
      <4>1. a + y[a] = h + z[h]
        BY <1>1, <3>1
      <4> QED BY <4>1, EndIs
    <3>2. CASE a = h
      BY <1>1, <3>2
    <3>3. CASE a \in D /\ a # h
      BY <1>3, <3>3, EndIs
    <3> QED BY <3>1, <3>2, <3>3
  <2>3. lo \in D \cup {hi}
    BY DEF Tiles
  <2> QED BY <2>1, <2>2, <2>3
<1> QED BY <1>1, <1>2, <1>4, <1>5, <1>6, <1>7 DEF Tiles

\* Block h takes in the block after it.
Merges(D, z, h, r, y) ==
  /\ h \in D /\ r \in D /\ r = h + z[h]
  /\ y[h] = z[h] + z[r] /\ \A a \in D \ {h, r} : y[a] = z[a]

LEMMA TileMerge ==
  ASSUME NEW D, NEW z, NEW lo, NEW hi, Tiles(D, z, lo, hi),
         NEW h, NEW r, NEW y, Merges(D, z, h, r, y)
  PROVE  Tiles(D \ {r}, y, lo, hi)
<1> /\ h \in D /\ r \in D /\ r = h + z[h]
    /\ y[h] = z[h] + z[r] /\ \A a \in D \ {h, r} : y[a] = z[a]
  BY DEF Merges
<1>1. /\ lo \in Nat /\ hi \in Nat /\ h \in Nat /\ r \in Nat
      /\ z[h] \in Nat \ {0} /\ z[r] \in Nat \ {0} /\ y[h] \in Nat \ {0}
      /\ h < r /\ h + y[h] = r + z[r] /\ r + z[r] <= hi /\ lo <= h
  BY DEF Tiles
<1>2. \A a \in D \ {r} : a # h => a + y[a] = a + z[a]
  OBVIOUS
<1>3. D \ {r} \subseteq lo .. hi - 1
  BY DEF Tiles
<1>4. ASSUME NEW a \in D \ {r}
      PROVE  y[a] \in Nat \ {0} /\ a + y[a] <= hi
  BY <1>1 DEF Tiles
<1>5. ASSUME NEW a \in D \ {r}, NEW b \in D \ {r}, a < b
      PROVE  a + y[a] <= b
  <2>1. a \in Nat /\ b \in Nat /\ a + z[a] <= b
    BY <1>5 DEF Tiles
  <2>2. CASE a = h
    <3>1. r < b
      BY <1>1, <2>1, <2>2
    <3>2. r + z[r] <= b
      BY <3>1 DEF Tiles
    <3> QED BY <1>1, <2>2, <3>2
  <2> QED BY <1>2, <2>1, <2>2
<1>6. ASSUME NEW x \in (D \ {r}) \cup {hi}
      PROVE  x \in {lo} \cup {a + y[a] : a \in D \ {r}}
  <2>1. x # r
    BY <1>1
  <2>2. x \in {lo} \cup {a + z[a] : a \in D}
    BY DEF Tiles
  <2>3. CASE x = r + z[r]
    BY <1>1, <2>3
  <2>4. CASE x = lo
    BY <2>4
  <2>5. CASE x # r + z[r] /\ x # lo
    <3>1. PICK a \in D : x = a + z[a]
      BY <2>2, <2>5
    <3>2. a # r /\ a # h
      BY <2>1, <2>5, <3>1
    <3> QED BY <1>2, <3>1, <3>2
  <2> QED BY <2>3, <2>4, <2>5
<1>7. ASSUME NEW a \in D \ {r}
      PROVE  a + y[a] \in (D \ {r}) \cup {hi}
  <2>1. CASE a = h
    <3>1. a + y[a] = r + z[r] /\ r + z[r] # r
      BY <1>1, <2>1
    <3> QED BY <3>1, EndIs
  <2>2. CASE a # h
    <3>1. a + y[a] = a + z[a] /\ a + z[a] # r
      BY <1>2, <2>2, EndOnce
    <3> QED BY <3>1, EndIs
  <2> QED BY <2>1, <2>2
<1>8. lo \in (D \ {r}) \cup {hi}
  BY <1>1 DEF Tiles
<1>9. (D \ {r}) \cup {hi} = {lo} \cup {a + y[a] : a \in D \ {r}}
  BY <1>6, <1>7, <1>8
<1> QED BY <1>1, <1>3, <1>4, <1>5, <1>9 DEF Tiles

\* A block of k cells is put at the end.
LEMMA TileExtend ==
  ASSUME NEW D, NEW z, NEW lo, NEW hi, Tiles(D, z, lo, hi), lo <= hi,
         NEW k \in Nat \ {0}, NEW y, \A a \in D : y[a] = z[a], y[hi] = k
  PROVE  hi \notin D /\ Tiles(D \cup {hi}, y, lo, hi + k)
<1>1. lo \in Nat /\ hi \in Nat /\ hi \notin D /\ hi + k \in Nat
  BY DEF Tiles
<1>2. {a + y[a] : a \in D \cup {hi}} = {a + z[a] : a \in D} \cup {hi + k}
  BY <1>1
<1>3. D \cup {hi} \cup {hi + k} = {lo} \cup {a + y[a] : a \in D \cup {hi}}
  BY <1>2 DEF Tiles
<1>4. D \cup {hi} \subseteq lo .. hi + k - 1
  BY <1>1 DEF Tiles
<1>5. ASSUME NEW a \in D \cup {hi}
      PROVE  y[a] \in Nat \ {0} /\ a + y[a] <= hi + k
  <2>1. CASE a \in D
    <3>1. z[a] \in Nat \ {0} /\ a + z[a] <= hi /\ a \in Nat
      BY <2>1 DEF Tiles
    <3> QED BY <1>1, <2>1, <3>1
  <2> QED BY <1>1, <2>1
<1>6. ASSUME NEW a \in D \cup {hi}, NEW b \in D \cup {hi}, a < b
      PROVE  a + y[a] <= b
  <2>1. a \in D
    BY <1>1, <1>6 DEF Tiles
  <2> QED BY <1>6, <2>1 DEF Tiles
<1> QED BY <1>1, <1>3, <1>4, <1>5, <1>6 DEF Tiles

\* Every cell is in a block.
LEMMA Covered ==
  ASSUME NEW D, NEW z, NEW lo, NEW hi, Tiles(D, z, lo, hi), NEW x \in lo .. hi - 1
  PROVE  \E a \in D : x \in a .. a + z[a] - 1
<1> DEFINE S == {a \in D : a <= x}
<1>1. lo \in Nat /\ hi \in Nat /\ x \in Nat /\ lo <= x /\ x < hi
  BY DEF Tiles
<1>2. lo \in S
  BY <1>1 DEF Tiles
<1>3. S \in SUBSET (0 .. x)
  BY <1>1 DEF Tiles
<1>4. PICK a \in S : \A b \in S : b <= a
  <2> HIDE DEF S
  <2> QED BY <1>1, <1>2, <1>3, GreatestIs
<1>5. a \in Nat /\ z[a] \in Nat \ {0} /\ a <= x /\ a \in D
  BY DEF Tiles
<1>6. x < a + z[a]
  <2> SUFFICES ASSUME a + z[a] <= x PROVE FALSE
    BY <1>1, <1>5
  <2>1. a + z[a] \in S
    BY <1>1, <1>5, EndIs
  <2> QED BY <1>4, <1>5, <2>1
<1> QED BY <1>1, <1>5, <1>6
-----------------------------------------------------------------------------
(* Links that run once around a set.                                        *)

\* Element h leaves the ring.
LEMMA RingUnlink ==
  ASSUME NEW F, NEW N, NEW L, Ring(F, N, L), NEW h \in F, N[h] # h,
         NEW M, NEW K,
         M = [x \in F \ {h} |-> IF x = L[h] THEN N[h] ELSE N[x]],
         K = [x \in F \ {h} |-> IF x = N[h] THEN L[h] ELSE L[x]]
  PROVE  Ring(F \ {h}, M, K)
<1>1. /\ N \in [F -> F] /\ L \in [F -> F] /\ \A x \in F : N[L[x]] = x /\ L[N[x]] = x
      /\ \A S \in SUBSET F : S # {} /\ (\A x \in S : N[x] \in S) => S = F
  BY DEF Ring, Cycle
<1>2. L[h] # h /\ N[h] \in F /\ L[h] \in F /\ \A x \in F : N[x] \in F /\ L[x] \in F
  BY <1>1
<1>3. \A x \in F \ {h} : (N[x] = h => x = L[h]) /\ (L[x] = h => x = N[h])
  BY <1>1
<1>4. M \in [F \ {h} -> F \ {h}] /\ K \in [F \ {h} -> F \ {h}]
  BY <1>2, <1>3
<1>5. ASSUME NEW x \in F \ {h}
      PROVE  M[K[x]] = x /\ K[M[x]] = x
  <2>1. M[K[x]] = x
    <3>1. CASE x = N[h]
      BY <1>1, <1>2, <3>1
    <3>2. CASE x # N[h]
      <4>1. L[x] \in F \ {h} /\ L[x] # L[h]
        BY <1>1, <1>2, <1>3, <3>2
      <4> QED BY <1>1, <3>2, <4>1
    <3> QED BY <3>1, <3>2
  <2>2. K[M[x]] = x
    <3>1. CASE x = L[h]
      BY <1>1, <1>2, <3>1
    <3>2. CASE x # L[h]
      <4>1. N[x] \in F \ {h} /\ N[x] # N[h]
        BY <1>1, <1>2, <1>3, <3>2
      <4> QED BY <1>1, <3>2, <4>1
    <3> QED BY <3>1, <3>2
  <2> QED BY <2>1, <2>2
<1>6. ASSUME NEW S \in SUBSET (F \ {h}), S # {}, \A x \in S : M[x] \in S
      PROVE  S = F \ {h}
  <2>1. CASE L[h] \in S
    <3>1. N[h] \in S
      BY <1>6, <2>1
    <3>2. \A x \in S \cup {h} : N[x] \in S \cup {h}
      BY <1>1, <1>6, <3>1
    <3>3. S \cup {h} \in SUBSET F /\ S \cup {h} # {}
      OBVIOUS
    <3>4. S \cup {h} = F
      BY <1>1, <3>2, <3>3
    <3> QED BY <3>4
  <2>2. CASE L[h] \notin S
    <3>1. \A x \in S : N[x] \in S
      BY <1>6, <2>2
    <3>2. S = F
      BY <1>1, <1>6, <3>1
    <3> QED BY <3>2
  <2> QED BY <2>1, <2>2
<1> QED BY <1>4, <1>5, <1>6 DEF Ring, Cycle

\* Element h enters the ring before p.
LEMMA RingInsert ==
  ASSUME NEW F, NEW N, NEW L, Ring(F, N, L), NEW p \in F, NEW h, h \notin F,
         NEW M, NEW K,
         M = [x \in F \cup {h} |-> IF x = h THEN p ELSE IF x = L[p] THEN h ELSE N[x]],
         K = [x \in F \cup {h} |-> IF x = h THEN L[p] ELSE IF x = p THEN h ELSE L[x]]
  PROVE  Ring(F \cup {h}, M, K)
<1>1. /\ N \in [F -> F] /\ L \in [F -> F] /\ \A x \in F : N[L[x]] = x /\ L[N[x]] = x
      /\ \A S \in SUBSET F : S # {} /\ (\A x \in S : N[x] \in S) => S = F
  BY DEF Ring, Cycle
<1>2. L[p] \in F /\ \A x \in F : N[x] \in F /\ L[x] \in F
  BY <1>1
<1>3. M \in [F \cup {h} -> F \cup {h}] /\ K \in [F \cup {h} -> F \cup {h}]
  BY <1>2
<1>4. ASSUME NEW x \in F \cup {h}
      PROVE  M[K[x]] = x /\ K[M[x]] = x
  <2>1. CASE x = h
    BY <1>2, <2>1
  <2>2. CASE x \in F
    <3>1. L[x] = L[p] => x = p
      BY <1>1, <2>2
    <3>2. N[x] = p => x = L[p]
      BY <1>1, <2>2
    <3>3. M[K[x]] = x
      BY <1>1, <1>2, <2>2, <3>1
    <3>4. K[M[x]] = x
      BY <1>1, <1>2, <2>2, <3>2
    <3> QED BY <3>3, <3>4
  <2> QED BY <2>1, <2>2
<1>5. ASSUME NEW S \in SUBSET (F \cup {h}), S # {}, \A x \in S : M[x] \in S
      PROVE  S = F \cup {h}
  <2>1. S \ {h} # {}
    <3>1. h \in S => p \in S
      BY <1>5
    <3> QED BY <1>5, <3>1
  <2>2. ASSUME NEW x \in S \ {h} PROVE N[x] \in S \ {h}
    <3>1. x \in F /\ N[x] \in F /\ M[x] \in S
      BY <1>2, <1>5
    <3>2. CASE x = L[p]
      <4>1. h \in S
        BY <1>5, <3>1, <3>2
      <4>2. M[h] \in S /\ M[h] = p
        BY <1>5, <4>1
      <4> QED BY <1>1, <3>2, <4>2
    <3>3. CASE x # L[p]
      BY <3>1, <3>3
    <3> QED BY <3>2, <3>3
  <2>3. S \ {h} = F
    BY <1>1, <2>1, <2>2
  <2>4. h \in S
    <3>1. L[p] \in S /\ L[p] # h
      BY <1>2, <2>3
    <3>2. M[L[p]] = h
      BY <1>2, <3>1
    <3> QED BY <1>5, <3>1, <3>2
  <2> QED BY <2>3, <2>4
<1> QED BY <1>3, <1>4, <1>5 DEF Ring, Cycle

\* An element alone.
LEMMA RingAlone ==
  ASSUME NEW h PROVE Ring({h}, [x \in {h} |-> h], [x \in {h} |-> h])
BY DEF Ring, Cycle

\* Element h takes the place of r.
LEMMA RingReplace ==
  ASSUME NEW F, NEW N, NEW L, Ring(F, N, L), NEW r \in F, N[r] # r, NEW h, h \notin F,
         NEW M, NEW K,
         M = [x \in (F \cup {h}) \ {r} |->
                IF x = h THEN N[r] ELSE IF x = L[r] THEN h ELSE N[x]],
         K = [x \in (F \cup {h}) \ {r} |->
                IF x = h THEN L[r] ELSE IF x = N[r] THEN h ELSE L[x]]
  PROVE  Ring((F \cup {h}) \ {r}, M, K)
<1> DEFINE M1 == [x \in F \cup {h} |-> IF x = h THEN r ELSE IF x = L[r] THEN h ELSE N[x]]
           K1 == [x \in F \cup {h} |-> IF x = h THEN L[r] ELSE IF x = r THEN h ELSE L[x]]
           M2 == [x \in (F \cup {h}) \ {r} |-> IF x = K1[r] THEN M1[r] ELSE M1[x]]
           K2 == [x \in (F \cup {h}) \ {r} |-> IF x = M1[r] THEN K1[r] ELSE K1[x]]
<1>1. Ring(F \cup {h}, M1, K1)
  <2> HIDE DEF M1, K1
  <2> QED BY RingInsert DEF M1, K1
<1>2. N \in [F -> F] /\ L \in [F -> F] /\ L[r] # r /\ h # r
  BY DEF Ring, Cycle
<1>3. M1[r] = N[r] /\ K1[r] = h /\ r \in F \cup {h}
  BY <1>2
<1>4. M1[r] # r
  BY <1>3
<1>5. Ring((F \cup {h}) \ {r}, M2, K2)
  <2> HIDE DEF M1, K1
  <2> QED BY <1>1, <1>3, <1>4, RingUnlink DEF M2, K2
<1>6. M2 = M
  BY <1>2, <1>3
<1>7. K2 = K
  <2>1. \A x \in (F \cup {h}) \ {r} : K2[x] = IF x = N[r] THEN h ELSE K1[x]
    BY <1>3
  <2>2. N[r] # h
    BY <1>2
  <2>3. \A x \in (F \cup {h}) \ {r} : K2[x] = K[x]
    BY <1>2, <2>1, <2>2
  <2> QED BY <2>3
<1> QED BY <1>5, <1>6, <1>7
-----------------------------------------------------------------------------
(* Walks along the links.                                                   *)

\* The w of a walk: from x on along N.
Walk(w, x, N) == w[0] = x /\ \A k \in Nat : w[k + 1] = N[w[k]]

\* The first n steps of one.
WalksTo(w, n, x, N) == w[0] = x /\ \A k \in 0 .. n : k > 0 => w[k] = N[w[k - 1]]

\* There is one of any length.
LEMMA WalkUpTo ==
  ASSUME NEW F, NEW N \in [F -> F], NEW x \in F, NEW n \in Nat
  PROVE  \E w \in [0 .. n -> F] : WalksTo(w, n, x, N)
<1> DEFINE T == {m \in Nat : \E w \in [0 .. m -> F] : WalksTo(w, m, x, N)}
<1>1. 0 \in T
  <2> DEFINE w == [k \in 0 .. 0 |-> x]
  <2>1. w \in [0 .. 0 -> F] /\ w[0] = x /\ \A k \in 0 .. 0 : ~ (k > 0)
    OBVIOUS
  <2> QED BY <2>1 DEF WalksTo
<1>2. ASSUME NEW m \in Nat, m \in T PROVE m + 1 \in T
  <2>1. PICK w \in [0 .. m -> F] :
          w[0] = x /\ \A k \in 0 .. m : k > 0 => w[k] = N[w[k - 1]]
    BY <1>2 DEF WalksTo
  <2> DEFINE v == [k \in 0 .. m + 1 |-> IF k = m + 1 THEN N[w[m]] ELSE w[k]]
  <2>2. v \in [0 .. m + 1 -> F]
    <3>1. \A k \in 0 .. m + 1 : k # m + 1 => k \in 0 .. m
      OBVIOUS
    <3> QED BY <3>1
  <2>3. v[0] = x
    BY <2>1
  <2>4. ASSUME NEW k \in 0 .. m + 1, k > 0 PROVE v[k] = N[v[k - 1]]
    <3>1. k - 1 \in 0 .. m + 1 /\ k - 1 # m + 1 /\ v[k - 1] = w[k - 1]
      BY <2>4
    <3>2. CASE k = m + 1
      BY <3>1, <3>2
    <3>3. CASE k # m + 1
      BY <2>1, <2>4, <3>1, <3>3
    <3> QED BY <3>2, <3>3
  <2> QED BY <2>2, <2>3, <2>4 DEF WalksTo
<1>3. Nat \subseteq T
  <2> HIDE DEF T
  <2> QED BY <1>1, <1>2, NatSetInduction
<1> QED BY <1>3

\* There is one without end.
LEMMA WalkExists ==
  ASSUME NEW F, NEW N \in [F -> F], NEW x \in F
  PROVE  \E w \in [Nat -> F] : Walk(w, x, N)
<1> DEFINE u == [n \in Nat |-> CHOOSE w \in [0 .. n -> F] : WalksTo(w, n, x, N)]
           v == [n \in Nat |-> u[n][n]]
<1>1. ASSUME NEW n \in Nat PROVE u[n] \in [0 .. n -> F] /\ WalksTo(u[n], n, x, N)
  BY WalkUpTo
<1> HIDE DEF u
<1>2. ASSUME NEW n \in Nat
      PROVE  u[n][0] = x /\ \A k \in 0 .. n : k > 0 => u[n][k] = N[u[n][k - 1]]
  BY <1>1 DEF WalksTo
<1>3. ASSUME NEW m \in Nat PROVE \A k \in 0 .. m : u[m + 1][k] = u[m][k]
  <2> DEFINE T == {k \in Nat : k <= m => u[m + 1][k] = u[m][k]}
  <2>1. 0 \in T
    BY <1>2
  <2>2. ASSUME NEW k \in Nat, k \in T PROVE k + 1 \in T
    <3> SUFFICES ASSUME k + 1 <= m PROVE u[m + 1][k + 1] = u[m][k + 1]
      OBVIOUS
    <3>1. u[m + 1][k] = u[m][k]
      BY <2>2
    <3>2. k + 1 \in 0 .. m /\ k + 1 \in 0 .. m + 1 /\ k + 1 > 0 /\ (k + 1) - 1 = k
      OBVIOUS
    <3> QED BY <1>2, <3>1, <3>2
  <2>3. Nat \subseteq T
    <3> HIDE DEF T
    <3> QED BY <2>1, <2>2, NatSetInduction
  <2> QED BY <2>3
<1>4. v \in [Nat -> F] /\ v[0] = x
  BY <1>1, <1>2
<1>5. ASSUME NEW k \in Nat PROVE v[k + 1] = N[v[k]]
  <2>1. k + 1 \in 0 .. k + 1 /\ k + 1 > 0 /\ (k + 1) - 1 = k /\ k \in 0 .. k
    OBVIOUS
  <2>2. u[k + 1][k + 1] = N[u[k + 1][k]]
    BY <1>2, <2>1
  <2>3. u[k + 1][k] = u[k][k]
    BY <1>3, <2>1
  <2> QED BY <2>2, <2>3
<1> QED BY <1>4, <1>5 DEF Walk

\* A walk along a cycle of at most n elements meets all of them in its first n steps.
LEMMA WalkCovers ==
  ASSUME NEW F, NEW N, Cycle(F, N), NEW x \in F, NEW w \in [Nat -> F], Walk(w, x, N),
         NEW n \in Nat, IsFiniteSet(F), Cardinality(F) <= n
  PROVE  {w[k] : k \in 0 .. n - 1} = F
<1> DEFINE R(k) == {w[i] : i \in 0 .. k}
           T == {k \in Nat : R(k) = F \/ Cardinality(R(k)) = k + 1}
<1>1. ASSUME NEW k \in Nat
      PROVE  /\ R(k) \in SUBSET F /\ IsFiniteSet(R(k)) /\ Cardinality(R(k)) \in Nat
             /\ R(k + 1) = R(k) \cup {w[k + 1]}
  <2>1. R(k) \in SUBSET F
    OBVIOUS
  <2>2. 0 .. k + 1 = 0 .. k \cup {k + 1}
    OBVIOUS
  <2>3. R(k + 1) = R(k) \cup {w[k + 1]}
    BY <2>2
  <2> HIDE DEF R
  <2> QED BY <2>1, <2>3, FS_Subset, FS_CardinalityType
<1>2. 0 \in T
  <2>1. 0 .. 0 = {0}
    OBVIOUS
  <2>2. R(0) = {w[0]}
    BY <2>1
  <2>3. Cardinality(R(0)) = 0 + 1
    <3>1. Cardinality({w[0]}) = 1
      BY FS_Singleton
    <3> HIDE DEF R
    <3> QED BY <2>2, <3>1
  <2> QED BY <2>3
<1>3. ASSUME NEW k \in Nat, k \in T PROVE k + 1 \in T
  <2>1. CASE R(k) = F
    <3>1. w[k + 1] \in F
      OBVIOUS
    <3>2. R(k + 1) = F
      BY <1>1, <2>1, <3>1
    <3> QED BY <3>2
  <2>2. CASE R(k) # F
    <3>1. Cardinality(R(k)) = k + 1
      BY <1>3, <2>2
    <3>2. w[k + 1] \notin R(k)
      <4> SUFFICES ASSUME w[k + 1] \in R(k) PROVE FALSE
        OBVIOUS
      <4>1. ASSUME NEW y \in R(k) PROVE N[y] \in R(k)
        <5>1. PICK i \in 0 .. k : y = w[i]
          OBVIOUS
        <5>2. N[y] = w[i + 1]
          BY <5>1 DEF Walk
        <5>3. CASE i = k
          BY <5>2, <5>3
        <5>4. CASE i # k
          <6>1. i + 1 \in 0 .. k
            BY <5>4
          <6> QED BY <5>2, <6>1
        <5> QED BY <5>3, <5>4
      <4>2. R(k) # {}
        OBVIOUS
      <4> HIDE DEF R
      <4>3. R(k) = F
        BY <1>1, <4>1, <4>2 DEF Cycle
      <4> QED BY <2>2, <4>3
    <3>3. Cardinality(R(k + 1)) = (k + 1) + 1
      <4> HIDE DEF R
      <4>1. Cardinality(R(k) \cup {w[k + 1]}) = Cardinality(R(k)) + 1
        BY <1>1, <3>2, FS_AddElement
      <4> QED BY <1>1, <3>1, <4>1
    <3> QED BY <3>3
  <2> QED BY <2>1, <2>2
<1>4. Nat \subseteq T
  <2> HIDE DEF T
  <2> QED BY <1>2, <1>3, NatSetInduction
<1>5. n # 0
  <2>1. Cardinality(F) \in Nat /\ Cardinality(F) # 0
    BY FS_EmptySet, FS_CardinalityType
  <2> QED BY <2>1
<1>6. n - 1 \in Nat /\ (n - 1) + 1 = n
  BY <1>5
<1>7. R(n - 1) = F \/ Cardinality(R(n - 1)) = n
  BY <1>4, <1>6
<1>8. R(n - 1) = F
  <2> HIDE DEF R
  <2>1. Cardinality(R(n - 1)) <= Cardinality(F) /\ Cardinality(F) \in Nat
    BY <1>1, <1>6, FS_Subset, FS_CardinalityType
  <2>2. CASE Cardinality(R(n - 1)) = n
    <3>1. Cardinality(F) = Cardinality(R(n - 1))
      BY <2>1, <2>2
    <3> QED BY <1>1, <1>6, <3>1, FS_Subset
  <2> QED BY <1>7, <2>2
<1> QED BY <1>8
-----------------------------------------------------------------------------
(* The kernel heap.                                                         *)

Link == 0 .. KSL
Header == [size : 1 .. KSL, tag : {FREE, OCCUPIED}, next : Link, last : Link]
Sizes(hd) == [h \in DOMAIN hd |-> hd[h].size]
FreeIn(hd) == {h \in DOMAIN hd : hd[h].tag = FREE}
Nexts(hd) == [h \in FreeIn(hd) |-> hd[h].next]
Lasts(hd) == [h \in FreeIn(hd) |-> hd[h].last]

\* The headers describe blocks that fill the heap, and free ones do not touch.
HeadsOK(hd) ==
  /\ hd \in [DOMAIN hd -> Header]
  /\ Tiles(DOMAIN hd, Sizes(hd), 0, KSL)
  /\ \A h \in FreeIn(hd) : h + hd[h].size \notin FreeIn(hd)
\* Every block has its foot.
FeetOK(hd, ft) ==
  /\ DOMAIN ft = {h + hd[h].size - 1 : h \in DOMAIN hd}
  /\ \A h \in DOMAIN hd : ft[h + hd[h].size - 1] = [head |-> h, tag |-> hd[h].tag]
\* The links run once around the free blocks, and kp is one of them.
LinksOK(hd, kp) ==
  /\ Ring(FreeIn(hd), Nexts(hd), Lasts(hd))
  /\ IF FreeIn(hd) = {} THEN kp = NULL ELSE kp \in FreeIn(hd)
\* The occupied blocks are those in use.
UsedOK(hd, km) ==
  /\ DOMAIN km = DOMAIN hd \ FreeIn(hd)
  /\ \A h \in DOMAIN km : km[h] \in Nat /\ hd[h].size \in km[h] .. km[h] + EU - 1

\* The inductive invariant.
HeapInv ==
  HeadsOK(head) /\ FeetOK(head, foot) /\ LinksOK(head, kpav) /\ UsedOK(head, kmemory)

\* What HeapInv says of one block.
LEMMA BlockIs ==
  ASSUME HeapInv, NEW h \in DOMAIN head
  PROVE  /\ h \in Nat /\ h < KSL /\ head[h] \in Header /\ KSL \in Nat
         /\ head[h].size \in Nat \ {0} /\ h + head[h].size <= KSL
         /\ Sizes(head)[h] = head[h].size
         /\ h + head[h].size \in DOMAIN head \/ h + head[h].size = KSL
         /\ foot_loc(h) = h + head[h].size - 1 /\ foot_loc(h) + 1 = h + head[h].size
         /\ foot_loc(h) \in DOMAIN foot
         /\ foot[foot_loc(h)] = [head |-> h, tag |-> head[h].tag]
<1>1. head[h] \in Header /\ KSL \in Nat
  BY KmallocAssumption DEF HeapInv, HeadsOK
<1>2. /\ h \in Nat /\ h < KSL /\ Sizes(head)[h] = head[h].size
      /\ head[h].size \in Nat \ {0} /\ h + head[h].size <= KSL
  BY <1>1 DEF HeapInv, HeadsOK, Tiles, Sizes, Header
<1>3. h + head[h].size \in DOMAIN head \/ h + head[h].size = KSL
  BY <1>2, EndIs DEF HeapInv, HeadsOK
<1>4. foot_loc(h) = h + head[h].size - 1 /\ foot_loc(h) + 1 = h + head[h].size
  BY <1>2 DEF foot_loc
<1>5. foot_loc(h) \in DOMAIN foot /\ foot[foot_loc(h)] = [head |-> h, tag |-> head[h].tag]
  BY <1>4 DEF HeapInv, FeetOK
<1> QED BY <1>1, <1>2, <1>3, <1>4, <1>5

\* Two blocks do not end at the same place.
LEMMA FeetApart ==
  ASSUME HeapInv, NEW h \in DOMAIN head, NEW g \in DOMAIN head, g # h
  PROVE  foot_loc(g) # foot_loc(h) /\ g + head[g].size # h + head[h].size
<1>1. g + head[g].size # h + head[h].size
  <2>1. Sizes(head)[h] = head[h].size /\ Sizes(head)[g] = head[g].size
    BY BlockIs
  <2>2. Tiles(DOMAIN head, Sizes(head), 0, KSL)
    BY DEF HeapInv, HeadsOK
  <2>3. g + Sizes(head)[g] # h + Sizes(head)[h]
    BY <2>2, EndOnce
  <2> QED BY <2>1, <2>3
<1>2. /\ foot_loc(h) + 1 = h + head[h].size /\ foot_loc(g) + 1 = g + head[g].size
  BY BlockIs
<1> QED BY <1>1, <1>2

\* The search goes along the links.
LEMMA SearchIs ==
  ASSUME HeapInv, kpav # NULL
  PROVE  \E w \in [Nat -> FreeIn(head)] :
           Walk(w, kpav, Nexts(head)) /\ \A k \in Cells : Search[k] = w[k]
<1>1. kpav \in FreeIn(head) /\ Nexts(head) \in [FreeIn(head) -> FreeIn(head)]
  BY DEF HeapInv, LinksOK, Ring, Cycle
<1>2. PICK w \in [Nat -> FreeIn(head)] : Walk(w, kpav, Nexts(head))
  BY <1>1, WalkExists
<1> DEFINE A(f) == f = [k \in Nat |-> IF k = 0 THEN kpav ELSE head[f[k - 1]].next]
           at == CHOOSE f : A(f)
<1>3. Search = [k \in Cells |-> at[k]]
  BY DEF Search
<1>4. A(w)
  <2>1. \A k \in Nat : w[k] = IF k = 0 THEN kpav ELSE head[w[k - 1]].next
    <3> SUFFICES ASSUME NEW k \in Nat
                 PROVE  w[k] = IF k = 0 THEN kpav ELSE head[w[k - 1]].next
      OBVIOUS
    <3>1. CASE k = 0
      BY <1>2, <3>1 DEF Walk
    <3>2. CASE k # 0
      <4>1. k - 1 \in Nat /\ (k - 1) + 1 = k
        BY <3>2
      <4>2. w[k] = Nexts(head)[w[k - 1]] /\ w[k - 1] \in FreeIn(head)
        BY <1>2, <4>1 DEF Walk
      <4> QED BY <3>2, <4>2 DEF Nexts
    <3> QED BY <3>1, <3>2
  <2> QED BY <2>1
<1>5. A(at)
  <2> HIDE DEF A
  <2> QED BY <1>4
<1>6. \A k \in Nat : at[k] = w[k]
  <2> DEFINE T == {k \in Nat : at[k] = w[k]}
  <2> HIDE DEF at
  <2>1. \A k \in Nat : at[k] = IF k = 0 THEN kpav ELSE head[at[k - 1]].next
    BY <1>5
  <2>2. \A k \in Nat : w[k] = IF k = 0 THEN kpav ELSE head[w[k - 1]].next
    BY <1>4
  <2>3. 0 \in T
    BY <2>1, <2>2
  <2>4. ASSUME NEW k \in Nat, k \in T PROVE k + 1 \in T
    <3>1. k + 1 \in Nat /\ k + 1 # 0 /\ (k + 1) - 1 = k
      OBVIOUS
    <3> QED BY <2>1, <2>2, <2>4, <3>1
  <2>5. Nat \subseteq T
    <3> HIDE DEF T
    <3> QED BY <2>3, <2>4, NatSetInduction
  <2> QED BY <2>5
<1>7. \A k \in Cells : k \in Nat
  BY KmallocAssumption DEF Cells
<1> HIDE DEF at
<1> QED BY <1>2, <1>3, <1>6, <1>7

\* Its KSL first steps meet every free block.
LEMMA SearchMeetsAll ==
  ASSUME HeapInv, kpav # NULL
  PROVE  {Search[k] : k \in Cells} = FreeIn(head)
<1>1. PICK w \in [Nat -> FreeIn(head)] :
        Walk(w, kpav, Nexts(head)) /\ \A k \in Cells : Search[k] = w[k]
  BY SearchIs
<1>2. kpav \in FreeIn(head) /\ Cycle(FreeIn(head), Nexts(head))
  BY DEF HeapInv, LinksOK, Ring
<1>3. KSL \in Nat
  BY KmallocAssumption
<1>4. IsFiniteSet(FreeIn(head)) /\ Cardinality(FreeIn(head)) <= KSL
  <2>1. FreeIn(head) \in SUBSET (0 .. KSL - 1)
    <3>1. DOMAIN head \subseteq 0 .. KSL - 1
      BY DEF HeapInv, HeadsOK, Tiles
    <3> QED BY <3>1 DEF FreeIn
  <2>2. IsFiniteSet(0 .. KSL - 1) /\ Cardinality(0 .. KSL - 1) <= KSL
    <3>1. 0 \in Int /\ KSL - 1 \in Int
      BY <1>3
    <3>2. /\ IsFiniteSet(0 .. KSL - 1)
          /\ Cardinality(0 .. KSL - 1) = IF 0 > KSL - 1 THEN 0 ELSE (KSL - 1) - 0 + 1
      BY <3>1, FS_Interval
    <3> QED BY <1>3, <3>2
  <2>3. Cardinality(FreeIn(head)) \in Nat /\ Cardinality(0 .. KSL - 1) \in Nat
    BY <2>1, <2>2, FS_Subset, FS_CardinalityType
  <2> QED BY <1>3, <2>1, <2>2, <2>3, FS_Subset
<1>5. {w[k] : k \in 0 .. KSL - 1} = FreeIn(head)
  BY <1>1, <1>2, <1>3, <1>4, WalkCovers
<1> QED BY <1>1, <1>5 DEF Cells

\* A block that the search finds.
LEMMA FoundIs ==
  ASSUME HeapInv, NEW n, Fits(n) # {}
  PROVE  Search[Min(Fits(n))] \in FreeIn(head) /\ head[Search[Min(Fits(n))]].size >= n
<1>1. Fits(n) \in SUBSET Nat
  BY KmallocAssumption DEF Fits, Cells
<1>2. Min(Fits(n)) \in Fits(n)
  BY <1>1, MinIs
<1>3. kpav # NULL
  BY DEF Fits
<1> DEFINE k == Min(Fits(n))
<1> HIDE DEF k
<1>4. k \in Cells /\ head[Search[k]].size >= n
  BY <1>2, <1>3 DEF Fits, k
<1> QED BY <1>3, <1>4, SearchMeetsAll DEF k

\* HeapInv says what HeapSound does.
LEMMA HeapInvSound ==
  ASSUME HeapInv
  PROVE  HeapSound
<1> DEFINE avail == FreeIn(head)
<1>1. \A h \in DOMAIN head : foot_loc(h) + 1 = h + head[h].size
                             /\ foot_loc(h) = h + head[h].size - 1
                             /\ Sizes(head)[h] = head[h].size
  BY BlockIs
<1>2. DOMAIN head \cup {KSL} = {0} \cup {foot_loc(h) + 1 : h \in DOMAIN head}
  BY <1>1 DEF HeapInv, HeadsOK, Tiles
<1>3. DOMAIN foot = {foot_loc(h) : h \in DOMAIN head}
  BY <1>1 DEF HeapInv, FeetOK
<1>4. \A h \in DOMAIN head : foot[foot_loc(h)] = [head |-> h, tag |-> head[h].tag]
  BY BlockIs
<1>5. /\ DOMAIN kmemory = DOMAIN head \ avail
      /\ \A h \in DOMAIN kmemory : head[h].size \in kmemory[h] .. kmemory[h] + EU - 1
  BY DEF HeapInv, UsedOK
<1>6. \A h \in avail : foot_loc(h) + 1 \notin avail
  BY <1>1 DEF HeapInv, HeadsOK, FreeIn
<1>7. kpav = NULL <=> avail = {}
  <2>1. \A h \in avail : h \in Nat /\ h < KSL
    BY BlockIs DEF FreeIn
  <2>2. \A h \in avail : h # NULL
    BY <2>1 DEF NULL
  <2> QED BY <2>2 DEF HeapInv, LinksOK
<1>8. kpav # NULL => /\ kpav \in avail
                     /\ \A h \in avail : /\ {head[h].next, head[h].last} \subseteq avail
                                        /\ head[head[h].next].last = h
                     /\ {Search[k] : k \in Cells} = avail
  <2> SUFFICES ASSUME kpav # NULL
               PROVE  /\ kpav \in avail
                      /\ \A h \in avail : /\ {head[h].next, head[h].last} \subseteq avail
                                         /\ head[head[h].next].last = h
    BY SearchMeetsAll
  <2>1. kpav \in avail
    BY DEF HeapInv, LinksOK
  <2>2. /\ Nexts(head) \in [avail -> avail] /\ Lasts(head) \in [avail -> avail]
        /\ \A h \in avail : Lasts(head)[Nexts(head)[h]] = h
    BY DEF HeapInv, LinksOK, Ring, Cycle
  <2>3. \A h \in avail : Nexts(head)[h] = head[h].next /\ Lasts(head)[h] = head[h].last
    BY DEF Nexts, Lasts
  <2> QED BY <2>1, <2>2, <2>3
<1> QED BY <1>2, <1>3, <1>4, <1>5, <1>6, <1>7, <1>8 DEF HeapSound, FreeIn

\* malloc_init() leaves one free block.
LEMMA HeapInitOK ==
  ASSUME HeapInit
  PROVE  HeapInv
<1>1. KSL \in Nat /\ KSL >= 3 /\ EU \in Nat
  BY KmallocAssumption
<1>2. DOMAIN head = {0} /\ head[0] = [size |-> KSL, tag |-> FREE, next |-> 0, last |-> 0]
      /\ FreeIn(head) = {0}
  BY DEF HeapInit, FreeIn
<1>3. head \in [DOMAIN head -> Header]
  BY <1>1, <1>2 DEF HeapInit, Header, Link
<1>4. Tiles(DOMAIN head, Sizes(head), 0, KSL)
  BY <1>1, <1>2 DEF Tiles, Sizes
<1>5. HeadsOK(head)
  BY <1>1, <1>2, <1>3, <1>4 DEF HeadsOK
<1>6. FeetOK(head, foot)
  BY <1>1, <1>2 DEF HeapInit, FeetOK
<1>7. LinksOK(head, kpav)
  <2>1. Nexts(head) = [x \in {0} |-> 0] /\ Lasts(head) = [x \in {0} |-> 0]
    BY <1>2 DEF Nexts, Lasts
  <2> QED BY <1>2, <2>1, RingAlone DEF LinksOK, HeapInit
<1>8. UsedOK(head, kmemory)
  BY <1>2 DEF UsedOK, HeapInit
<1> QED BY <1>5, <1>6, <1>7, <1>8 DEF HeapInv
-----------------------------------------------------------------------------
(* kmalloc_g()                                                              *)

\* The header of a links to u as the next one, that of b to v as the last one.
Relink(f, a, u, b, v) == [f EXCEPT ![a].next = u, ![b].last = v]

Relinks(D, f, a, u, b, v, g) ==
  /\ g \in [D -> Header]
  /\ \A x \in D : /\ g[x].size = f[x].size /\ g[x].tag = f[x].tag
                  /\ g[x].next = IF x = a THEN u ELSE f[x].next
                  /\ g[x].last = IF x = b THEN v ELSE f[x].last

LEMMA Relinked ==
  ASSUME NEW D, NEW f \in [D -> Header], NEW a \in D, NEW b \in D,
         NEW u \in Link, NEW v \in Link
  PROVE  Relinks(D, f, a, u, b, v, Relink(f, a, u, b, v))
<1> DEFINE e == [f EXCEPT ![a].next = u]
           g == Relink(f, a, u, b, v)
<1>1. e \in [D -> Header] /\ \A x \in D : e[x] = IF x = a THEN [f[a] EXCEPT !.next = u] ELSE f[x]
  BY DEF Header
<1>2. \A x \in D : /\ e[x].size = f[x].size /\ e[x].tag = f[x].tag /\ e[x].last = f[x].last
                   /\ e[x].next = IF x = a THEN u ELSE f[x].next
  BY <1>1 DEF Header
<1>3. g = [e EXCEPT ![b].last = v]
  BY DEF Relink
<1> HIDE DEF e, g
<1>4. g \in [D -> Header] /\ \A x \in D : g[x] = IF x = b THEN [e[b] EXCEPT !.last = v] ELSE e[x]
  <2>1. [e[b] EXCEPT !.last = v] \in Header
    <3>1. e[b] \in Header
      BY <1>1
    <3> QED BY <3>1 DEF Header
  <2> QED BY <1>1, <1>3, <2>1
<1>5. \A x \in D : /\ g[x].size = e[x].size /\ g[x].tag = e[x].tag /\ g[x].next = e[x].next
                   /\ g[x].last = IF x = b THEN v ELSE e[x].last
  BY <1>1, <1>4 DEF Header
<1> QED BY <1>2, <1>4, <1>5 DEF g, Relinks

\* The links of a free block.
LEMMA LinkIs ==
  ASSUME HeapInv, NEW h \in FreeIn(head)
  PROVE  /\ head[h].next \in FreeIn(head) /\ head[h].last \in FreeIn(head)
         /\ Nexts(head)[h] = head[h].next /\ Lasts(head)[h] = head[h].last
         /\ head[head[h].next].last = h /\ head[head[h].last].next = h
         /\ kpav \in FreeIn(head) /\ h \in DOMAIN head /\ h \in Link
         /\ head[h].next = h => FreeIn(head) = {h}
<1>1. /\ Nexts(head) \in [FreeIn(head) -> FreeIn(head)]
      /\ Lasts(head) \in [FreeIn(head) -> FreeIn(head)]
      /\ \A x \in FreeIn(head) : Nexts(head)[Lasts(head)[x]] = x /\ Lasts(head)[Nexts(head)[x]] = x
      /\ \A S \in SUBSET FreeIn(head) :
           S # {} /\ (\A x \in S : Nexts(head)[x] \in S) => S = FreeIn(head)
      /\ kpav \in FreeIn(head)
  BY DEF HeapInv, LinksOK, Ring, Cycle
<1>2. \A x \in FreeIn(head) : Nexts(head)[x] = head[x].next /\ Lasts(head)[x] = head[x].last
  BY DEF Nexts, Lasts
<1>3. h \in DOMAIN head /\ h \in Link
  <2>1. h \in DOMAIN head
    BY DEF FreeIn
  <2>2. h \in Nat /\ h < KSL /\ KSL \in Nat
    BY <2>1, BlockIs
  <2> QED BY <2>1, <2>2 DEF Link
<1>4. head[h].next = h => FreeIn(head) = {h}
  <2>1. \A S \in SUBSET FreeIn(head) :
           S # {} /\ (\A x \in S : head[x].next \in S) => S = FreeIn(head)
    <3> SUFFICES ASSUME NEW S \in SUBSET FreeIn(head), S # {}, \A x \in S : head[x].next \in S
                 PROVE  S = FreeIn(head)
      OBVIOUS
    <3>1. \A x \in S : Nexts(head)[x] \in S
      BY <1>2
    <3> QED BY <1>1, <3>1
  <2> QED BY <2>1
<1> QED BY <1>1, <1>2, <1>3, <1>4

\* A block is taken as a whole.
LEMMA TakeWholeOK ==
  ASSUME HeapInv, NEW n \in Requests, NEW h \in FreeIn(head), head[h].size >= n,
         head[h].size - n < EU, TakeWhole(h, n)
  PROVE  HeapInv'
<1> DEFINE D == DOMAIN head
           F == FreeIn(head)
           kp == head[h].next
           la == head[h].last
<1>1. /\ kp \in F /\ la \in F /\ kp \in D /\ la \in D /\ h \in D
      /\ kp \in Link /\ la \in Link
      /\ head[kp].last = h /\ head[la].next = h
      /\ kp = h => F = {h}
  BY LinkIs
<1>2. head \in [D -> Header] /\ KSL \in Nat /\ EU \in Nat /\ n \in Nat /\ head[h] \in Header
      /\ Occupied(head[h].size) \in Header
  BY <1>1, KmallocAssumption DEF HeapInv, HeadsOK, Header, Link, Occupied, NULL
<1>3. /\ DOMAIN head' = D /\ head' \in [D -> Header] /\ head'[h] = Occupied(head[h].size)
      /\ \A x \in D \ {h} :
           /\ head'[x].size = head[x].size /\ head'[x].tag = head[x].tag
           /\ kp # h => /\ head'[x].next = IF x = la THEN kp ELSE head[x].next
                        /\ head'[x].last = IF x = kp THEN la ELSE head[x].last
  <2>1. CASE kp = h
    <3>1. head' = [head EXCEPT ![h] = Occupied(head[h].size)]
      BY <2>1 DEF TakeWhole
    <3> QED BY <1>1, <1>2, <2>1, <3>1
  <2>2. CASE kp # h
    <3> DEFINE g == Relink(head, la, kp, kp, la)
    <3>1. head' = [g EXCEPT ![h] = Occupied(head[h].size)]
      BY <2>2 DEF TakeWhole, Relink
    <3>2. /\ g \in [D -> Header]
          /\ \A x \in D : /\ g[x].size = head[x].size /\ g[x].tag = head[x].tag
                          /\ g[x].next = IF x = la THEN kp ELSE head[x].next
                          /\ g[x].last = IF x = kp THEN la ELSE head[x].last
      <4>1. /\ head \in [D -> Header] /\ la \in D /\ kp \in D
            /\ la \in Link /\ kp \in Link
        BY <1>1, <1>2
      <4> HIDE DEF D, F, kp, la
      <4>2. Relinks(D, head, la, kp, kp, la, Relink(head, la, kp, kp, la))
        BY <4>1, Relinked
      <4> QED BY <4>2 DEF Relinks
    <3> HIDE DEF g
    <3> QED BY <1>1, <1>2, <3>1, <3>2
  <2> QED BY <2>1, <2>2
<1>4. /\ head'[h].size = head[h].size /\ head'[h].tag = OCCUPIED /\ head[h].tag = FREE
      /\ FreeIn(head') = F \ {h} /\ OCCUPIED # FREE
  BY <1>1, <1>3 DEF Occupied, FreeIn, FREE, OCCUPIED
<1>5. HeadsOK(head')
  <2>1. \A x \in D : Sizes(head')[x] = Sizes(head)[x]
    BY <1>3, <1>4 DEF Sizes
  <2>2. Tiles(D, Sizes(head'), 0, KSL)
    BY <2>1, TileSame DEF HeapInv, HeadsOK
  <2>3. \A x \in F : x + head[x].size \notin F
    BY DEF HeapInv, HeadsOK
  <2> QED BY <1>3, <1>4, <2>2, <2>3 DEF HeadsOK, FreeIn
<1>6. FeetOK(head', foot')
  <2>1. foot' = [foot EXCEPT ![foot_loc(h)].tag = OCCUPIED]
    BY DEF TakeWhole
  <2>2. \A x \in D : /\ foot_loc(x) = x + head'[x].size - 1 /\ foot_loc(x) \in DOMAIN foot
                     /\ foot[foot_loc(x)] = [head |-> x, tag |-> head[x].tag]
                     /\ x # h => foot_loc(x) # foot_loc(h)
    <3> SUFFICES ASSUME NEW x \in D
                 PROVE  /\ foot_loc(x) = x + head'[x].size - 1 /\ foot_loc(x) \in DOMAIN foot
                        /\ foot[foot_loc(x)] = [head |-> x, tag |-> head[x].tag]
                        /\ x # h => foot_loc(x) # foot_loc(h)
      OBVIOUS
    <3>1. head'[x].size = head[x].size
      BY <1>3, <1>4
    <3> QED BY <1>1, <3>1, BlockIs, FeetApart
  <2>3. DOMAIN foot = {x + head'[x].size - 1 : x \in D}
    <3>1. \A x \in D : head'[x].size = head[x].size
      BY <1>3, <1>4
    <3> QED BY <3>1 DEF HeapInv, FeetOK
  <2>4. \A x \in D : foot'[foot_loc(x)] = [head |-> x, tag |-> head'[x].tag]
    <3> SUFFICES ASSUME NEW x \in D PROVE foot'[foot_loc(x)] = [head |-> x, tag |-> head'[x].tag]
      OBVIOUS
    <3>1. CASE x = h
      <4>1. [[head |-> h, tag |-> head[h].tag] EXCEPT !.tag = OCCUPIED] = [head |-> h, tag |-> OCCUPIED]
        OBVIOUS
      <4>2. foot'[foot_loc(h)] = [foot[foot_loc(h)] EXCEPT !.tag = OCCUPIED]
        BY <1>1, <2>1, <2>2
      <4> QED BY <1>1, <1>4, <2>2, <3>1, <4>1, <4>2
    <3>2. CASE x # h
      BY <1>1, <1>3, <2>1, <2>2, <3>2
    <3> QED BY <3>1, <3>2
  <2> QED BY <1>3, <2>1, <2>2, <2>3, <2>4 DEF FeetOK
<1>7. LinksOK(head', kpav')
  <2>1. CASE kp = h
    <3>1. F \ {h} = {} /\ kpav' = NULL
      <4>1. kpav' = IF h = kp THEN NULL ELSE kp
        BY DEF TakeWhole
      <4> HIDE DEF F, kp
      <4> QED BY <1>1, <2>1, <4>1
    <3>2. Nexts(head') = [x \in {} |-> x] /\ Lasts(head') = [x \in {} |-> x]
      BY <1>4, <3>1 DEF Nexts, Lasts
    <3> QED BY <1>4, <3>1, <3>2 DEF LinksOK, Ring, Cycle
  <2>2. CASE kp # h
    <3>1. Nexts(head)[h] = kp /\ Lasts(head)[h] = la
      BY LinkIs
    <3>2. Nexts(head') = [x \in F \ {h} |-> IF x = Lasts(head)[h] THEN Nexts(head)[h]
                                            ELSE Nexts(head)[x]]
      <4>1. \A x \in F \ {h} : head'[x].next = IF x = la THEN kp ELSE head[x].next
        BY <1>3, <2>2 DEF FreeIn
      <4> QED BY <1>4, <3>1, <4>1 DEF Nexts
    <3>3. Lasts(head') = [x \in F \ {h} |-> IF x = Nexts(head)[h] THEN Lasts(head)[h]
                                            ELSE Lasts(head)[x]]
      <4>1. \A x \in F \ {h} : head'[x].last = IF x = kp THEN la ELSE head[x].last
        BY <1>3, <2>2 DEF FreeIn
      <4> QED BY <1>4, <3>1, <4>1 DEF Lasts
    <3>4. Ring(F, Nexts(head), Lasts(head))
      BY DEF HeapInv, LinksOK
    <3>5. Ring(F \ {h}, Nexts(head'), Lasts(head'))
      BY <2>2, <3>1, <3>2, <3>3, <3>4, RingUnlink
    <3>6. kpav' = kp
      BY <2>2 DEF TakeWhole
    <3> QED BY <1>1, <1>4, <2>2, <3>5, <3>6 DEF LinksOK
  <2> QED BY <2>1, <2>2
<1>8. UsedOK(head', kmemory')
  <2>1. kmemory' = With(kmemory, h, n)
    BY DEF TakeWhole
  <2>2. /\ DOMAIN kmemory = D \ F
        /\ \A x \in D \ F : kmemory[x] \in Nat /\ head[x].size \in kmemory[x] .. kmemory[x] + EU - 1
    BY DEF HeapInv, UsedOK
  <2>3. DOMAIN kmemory' = D \ (F \ {h})
    BY <1>1, <2>1, <2>2 DEF With
  <2>4. head[h].size \in n .. n + EU - 1
    BY <1>2 DEF Header
  <2>5. \A x \in D \ (F \ {h}) : kmemory'[x] = IF x = h THEN n ELSE kmemory[x]
    BY <1>1, <2>1, <2>2 DEF With
  <2> QED BY <1>2, <1>3, <1>4, <2>2, <2>3, <2>4, <2>5 DEF UsedOK
<1> QED BY <1>5, <1>6, <1>7, <1>8 DEF HeapInv

\* The last units of a block are taken.
LEMMA TakeLastOK ==
  ASSUME HeapInv, NEW n \in Requests, NEW h \in FreeIn(head), head[h].size >= n,
         ~ (head[h].size - n < EU), TakeLast(h, n)
  PROVE  HeapInv'
<1> DEFINE D == DOMAIN head
           F == FreeIn(head)
           left == head[h].size - n
           new == h + left
<1>1. /\ h \in D /\ h \in Nat /\ head[h].size \in Nat /\ h + head[h].size <= KSL /\ KSL \in Nat
      /\ head[h] \in Header /\ Sizes(head)[h] = head[h].size
      /\ foot_loc(h) = h + head[h].size - 1
  <2>1. h \in D
    BY LinkIs
  <2> QED BY <2>1, BlockIs
<1>2. /\ n \in Nat /\ 3 <= n /\ n <= KSL /\ EU \in Nat /\ 3 <= EU
      /\ left \in Nat /\ 3 <= left /\ left <= KSL /\ new \in Nat /\ new + n = h + head[h].size
      /\ new < KSL /\ h < new
  BY <1>1, KmallocAssumption
<1> HIDE DEF new, left
<1>3. head' = With([head EXCEPT ![h].size = left], new, Occupied(n))
  BY DEF TakeLast, new, left
<1>4. /\ head \in [D -> Header] /\ Tiles(D, Sizes(head), 0, KSL)
      /\ \A x \in F : x + head[x].size \notin F
  BY DEF HeapInv, HeadsOK
<1>5. DOMAIN head' = D \cup {new}
  BY <1>3 DEF With
<1>6. \A x \in D \cup {new} : head'[x] = IF x = new THEN Occupied(n)
                                        ELSE IF x = h THEN [head[h] EXCEPT !.size = left] ELSE head[x]
  BY <1>1, <1>3 DEF With
<1>7. new \notin D /\ Tiles(D \cup {new}, Sizes(head'), 0, KSL)
  <2>1. h # new
    BY <1>1, <1>2
  <2>2. Sizes(head')[h] = left /\ Sizes(head')[new] = n
    BY <1>1, <1>5, <1>6, <2>1 DEF Sizes, Occupied, Header
  <2>3. new \notin D
    <3> SUFFICES ASSUME new \in D PROVE FALSE
      OBVIOUS
    <3>1. h + Sizes(head)[h] <= new
      BY <1>1, <1>2, <1>4 DEF Tiles
    <3> QED BY <1>1, <1>2, <3>1
  <2>4. \A a \in D \ {h} : Sizes(head')[a] = Sizes(head)[a]
    BY <1>5, <1>6, <2>3 DEF Sizes
  <2>5. Splits(D, Sizes(head), h, n, new, Sizes(head'))
    BY <1>1, <1>2, <2>2, <2>4 DEF left, new, Splits
  <2> HIDE DEF D, F
  <2> QED BY <1>4, <2>5, TileSplit
<1>8. /\ head'[h].size = left /\ head'[h].tag = FREE /\ head[h].tag = FREE
      /\ head'[h].next = head[h].next /\ head'[h].last = head[h].last
      /\ head'[new] = Occupied(n) /\ head'[new].size = n /\ head'[new].tag = OCCUPIED
      /\ \A x \in D \ {h} : head'[x] = head[x]
  BY <1>1, <1>6, <1>7 DEF FreeIn, Header, Occupied
<1>9. FreeIn(head') = F
  BY <1>1, <1>5, <1>7, <1>8 DEF FreeIn, FREE, OCCUPIED
<1>10. HeadsOK(head')
  <2>1. head' \in [D \cup {new} -> Header]
    <3>1. Occupied(n) \in Header /\ [head[h] EXCEPT !.size = left] \in Header
      <4>1. n \in 1 .. KSL /\ left \in 1 .. KSL /\ KSL \in Link
        BY <1>1, <1>2 DEF Link
      <4>2. Occupied(n) \in Header
        BY <4>1 DEF Occupied, Header, NULL
      <4>3. [head[h] EXCEPT !.size = left] \in Header
        BY <1>1, <4>1 DEF Header
      <4> QED BY <4>2, <4>3
    <3>2. \A x \in D \cup {new} : head'[x] \in Header
      BY <1>4, <1>6, <3>1
    <3>3. head' = [x \in D \cup {new} |-> head'[x]]
      BY <1>3 DEF With
    <3> QED BY <3>2, <3>3
  <2>2. \A x \in F : x + head'[x].size \notin F
    <3>1. h + head'[h].size = new /\ new \notin F
      BY <1>7, <1>8 DEF FreeIn, new
    <3>2. \A x \in F : x \in D
      BY DEF FreeIn
    <3> QED BY <1>4, <1>8, <3>1, <3>2
  <2> QED BY <1>5, <1>7, <1>9, <2>1, <2>2 DEF HeadsOK
<1>11. FeetOK(head', foot')
  <2>1. foot' = With([foot EXCEPT ![foot_loc(h)] = [head |-> new, tag |-> OCCUPIED]],
                     new - 1, [head |-> h, tag |-> FREE])
    BY DEF TakeLast, new, left
  <2>2. new + head'[new].size - 1 = foot_loc(h) /\ h + head'[h].size - 1 = new - 1
    BY <1>1, <1>2, <1>8 DEF new
  <2>3. \A x \in D \ {h} : /\ x + head'[x].size - 1 = foot_loc(x) /\ foot_loc(x) # foot_loc(h)
                           /\ foot_loc(x) # new - 1 /\ foot_loc(x) \in DOMAIN foot
                           /\ foot[foot_loc(x)] = [head |-> x, tag |-> head'[x].tag]
    <3> SUFFICES ASSUME NEW x \in D \ {h}
                 PROVE  /\ x + head'[x].size - 1 = foot_loc(x) /\ foot_loc(x) # foot_loc(h)
                        /\ foot_loc(x) # new - 1 /\ foot_loc(x) \in DOMAIN foot
                        /\ foot[foot_loc(x)] = [head |-> x, tag |-> head'[x].tag]
      OBVIOUS
    <3>1. /\ foot_loc(x) = x + head[x].size - 1 /\ foot_loc(x) + 1 = x + head[x].size
          /\ x + head[x].size \in D \/ x + head[x].size = KSL
          /\ foot_loc(x) \in DOMAIN foot /\ foot[foot_loc(x)] = [head |-> x, tag |-> head[x].tag]
      BY BlockIs
    <3>2. foot_loc(x) # foot_loc(h)
      BY <1>1, FeetApart
    <3>3. x + head[x].size # new
      BY <1>2, <1>7, <3>1
    <3>4. foot_loc(x) # new - 1
      BY <1>2, <3>1, <3>3
    <3> QED BY <1>8, <3>1, <3>2, <3>4
  <2>4. foot_loc(h) # new - 1 /\ foot_loc(h) \in DOMAIN foot
    <3>1. foot_loc(h) \in DOMAIN foot
      BY <1>1, BlockIs
    <3> QED BY <1>1, <1>2, <3>1
  <2>5. DOMAIN foot = {foot_loc(x) : x \in D}
    <3>1. \A x \in D : foot_loc(x) = x + head[x].size - 1
      BY BlockIs
    <3> QED BY <3>1 DEF HeapInv, FeetOK
  <2>6. DOMAIN foot' = {x + head'[x].size - 1 : x \in D \cup {new}}
    <3>1. DOMAIN foot' = {foot_loc(x) : x \in D} \cup {new - 1}
      BY <2>1, <2>5 DEF With
    <3>2. {foot_loc(x) : x \in D} = {foot_loc(x) : x \in D \ {h}} \cup {foot_loc(h)}
      BY <1>1
    <3>3. {foot_loc(x) : x \in D \ {h}} = {x + head'[x].size - 1 : x \in D \ {h}}
      BY <2>3
    <3> QED BY <1>1, <2>2, <3>1, <3>2, <3>3
  <2>7. ASSUME NEW x \in D \cup {new}
        PROVE  foot'[x + head'[x].size - 1] = [head |-> x, tag |-> head'[x].tag]
    <3>1. CASE x = new
      BY <1>8, <2>1, <2>2, <2>4, <3>1 DEF With
    <3>2. CASE x = h
      BY <1>8, <2>1, <2>2, <3>2 DEF With
    <3>3. CASE x \in D \ {h}
      BY <2>1, <2>3, <3>3 DEF With
    <3> QED BY <3>1, <3>2, <3>3
  <2> QED BY <1>5, <2>6, <2>7 DEF FeetOK
<1>12. LinksOK(head', kpav')
  <2>1. \A x \in F : head'[x].next = head[x].next /\ head'[x].last = head[x].last
    BY <1>8 DEF FreeIn
  <2>2. Nexts(head') = Nexts(head) /\ Lasts(head') = Lasts(head)
    BY <1>9, <2>1 DEF Nexts, Lasts
  <2>3. kpav' = head[h].next /\ head[h].next \in F
    BY LinkIs DEF TakeLast
  <2> QED BY <1>9, <2>2, <2>3 DEF HeapInv, LinksOK
<1>13. UsedOK(head', kmemory')
  <2>1. kmemory' = With(kmemory, new, n)
    BY DEF TakeLast, new, left
  <2>2. /\ DOMAIN kmemory = D \ F
        /\ \A x \in D \ F : kmemory[x] \in Nat /\ head[x].size \in kmemory[x] .. kmemory[x] + EU - 1
    BY DEF HeapInv, UsedOK
  <2>3. DOMAIN kmemory' = (D \cup {new}) \ F
    BY <1>7, <2>1, <2>2 DEF With, FreeIn
  <2>4. n \in n .. n + EU - 1
    BY <1>2
  <2>5. \A x \in (D \cup {new}) \ F : kmemory'[x] = IF x = new THEN n ELSE kmemory[x]
    BY <2>1, <2>2 DEF With
  <2>6. \A x \in (D \cup {new}) \ F : x # new => x \in D \ F /\ x # h
    OBVIOUS
  <2> QED BY <1>2, <1>5, <1>8, <1>9, <2>2, <2>3, <2>4, <2>5, <2>6 DEF UsedOK
<1> QED BY <1>10, <1>11, <1>12, <1>13 DEF HeapInv

\* kmalloc_g() keeps the invariant.
LEMMA KmallocOK ==
  ASSUME HeapInv, NEW n \in Requests, kmalloc_g(n)
  PROVE  HeapInv'
<1> DEFINE h == Search[Min(Fits(n))]
<1>1. h \in FreeIn(head) /\ head[h].size >= n
  BY FoundIs DEF kmalloc_g
<1>2. IF head[h].size - n < EU THEN TakeWhole(h, n) ELSE TakeLast(h, n)
  BY DEF kmalloc_g
<1> HIDE DEF h
<1> QED BY <1>1, <1>2, TakeWholeOK, TakeLastOK
-----------------------------------------------------------------------------
(* kfree_g()                                                                *)

\* Who is free at the left and at the right of a block.
LEMMA SidesAre ==
  ASSUME HeapInv, NEW h \in DOMAIN head
  PROVE  /\ LeftTag(h) = FREE => /\ foot[h - 1].head \in FreeIn(head)
                                 /\ foot[h - 1].head + head[foot[h - 1].head].size = h
                                 /\ foot_loc(foot[h - 1].head) = h - 1
         /\ LeftTag(h) = OCCUPIED => \A x \in FreeIn(head) : x + head[x].size # h
         /\ RightTag(h) = FREE => h + head[h].size \in FreeIn(head)
         /\ RightTag(h) = OCCUPIED => h + head[h].size \notin FreeIn(head)
<1>1. FREE # OCCUPIED
  BY DEF FREE, OCCUPIED
<1>2. /\ h \in Nat /\ h < KSL /\ KSL \in Nat /\ h + head[h].size \in Nat
      /\ h + head[h].size \in DOMAIN head \/ h + head[h].size = KSL
      /\ foot_loc(h) + 1 = h + head[h].size
  BY BlockIs
<1>3. \A x \in DOMAIN head : /\ x \in Nat /\ x < KSL /\ x + head[x].size \in Nat
                             /\ head[x].size \in Nat \ {0}
                             /\ foot_loc(x) = x + head[x].size - 1
                             /\ foot[foot_loc(x)] = [head |-> x, tag |-> head[x].tag]
                             /\ Sizes(head)[x] = head[x].size
  BY BlockIs
<1>4. ASSUME h # 0
      PROVE  /\ foot[h - 1].head \in DOMAIN head
             /\ foot[h - 1].head + head[foot[h - 1].head].size = h
             /\ foot_loc(foot[h - 1].head) = h - 1
             /\ foot[h - 1].tag = head[foot[h - 1].head].tag
  <2>1. Tiles(DOMAIN head, Sizes(head), 0, KSL)
    BY DEF HeapInv, HeadsOK
  <2>2. PICK a \in DOMAIN head : a + Sizes(head)[a] = h
    BY <1>4, <2>1, LeftIs
  <2>3. foot_loc(a) = h - 1 /\ a + head[a].size = h
    <3>1. /\ foot_loc(a) = a + head[a].size - 1 /\ Sizes(head)[a] = head[a].size
          /\ a \in Nat /\ head[a].size \in Nat
      BY <1>3
    <3>2. a + head[a].size = h
      BY <2>2, <3>1
    <3> QED BY <1>2, <3>1, <3>2
  <2>4. foot[h - 1] = [head |-> a, tag |-> head[a].tag]
    BY <1>3, <2>3
  <2> QED BY <2>3, <2>4
<1>5. LeftTag(h) = FREE => /\ foot[h - 1].head \in FreeIn(head)
                           /\ foot[h - 1].head + head[foot[h - 1].head].size = h
                           /\ foot_loc(foot[h - 1].head) = h - 1
  BY <1>1, <1>4 DEF LeftTag, FreeIn
<1>6. ASSUME LeftTag(h) = OCCUPIED, NEW x \in FreeIn(head) PROVE x + head[x].size # h
  <2> SUFFICES ASSUME x + head[x].size = h PROVE FALSE
    OBVIOUS
  <2>1. x \in DOMAIN head /\ head[x].tag = FREE
    BY DEF FreeIn
  <2>2. h # 0 /\ h - 1 = foot_loc(x)
    <3>1. /\ x \in Nat /\ head[x].size \in Nat \ {0}
          /\ foot_loc(x) = x + head[x].size - 1
      BY <1>3, <2>1
    <3> QED BY <3>1
  <2>3. foot[h - 1].tag = FREE
    <3>1. foot[foot_loc(x)] = [head |-> x, tag |-> head[x].tag]
      BY <1>3, <2>1
    <3> QED BY <2>1, <2>2, <3>1
  <2> QED BY <1>1, <1>6, <2>2, <2>3 DEF LeftTag
<1>7. RightTag(h) = FREE => h + head[h].size \in FreeIn(head)
  <2>1. KSL >= KSL
    BY <1>2
  <2> QED BY <1>1, <1>2, <2>1 DEF RightTag, FreeIn
<1>8. RightTag(h) = OCCUPIED => h + head[h].size \notin FreeIn(head)
  <2> SUFFICES ASSUME h + head[h].size \in FreeIn(head) PROVE RightTag(h) # OCCUPIED
    OBVIOUS
  <2>1. h + head[h].size \in DOMAIN head /\ head[h + head[h].size].tag = FREE
    BY DEF FreeIn
  <2>2. h + head[h].size < KSL /\ h + head[h].size \in Nat
    BY <1>3, <2>1
  <2>3. ~ (h + head[h].size >= KSL)
    BY <1>2, <2>2
  <2> QED BY <1>1, <1>2, <2>1, <2>3 DEF RightTag
<1> QED BY <1>5, <1>6, <1>7, <1>8

\* A block between two occupied ones becomes free.
LEMMA InsertBlockOK ==
  ASSUME HeapInv, NEW h \in DOMAIN kmemory, InsertBlock(h)
  PROVE  HeapInv'
<1> DEFINE D == DOMAIN head
           F == FreeIn(head)
           la == head[kpav].last
<1>1. h \in D /\ h \notin F /\ head[h].tag # FREE
  BY DEF HeapInv, UsedOK, FreeIn
<1>2. head \in [D -> Header] /\ h \in Link /\ head[h] \in Header
  <2>1. h \in Nat /\ h < KSL /\ KSL \in Nat /\ head[h] \in Header
    BY <1>1, BlockIs
  <2> QED BY <2>1 DEF HeapInv, HeadsOK, Link
<1>3. kpav # NULL => /\ kpav \in F /\ la \in F /\ kpav \in D /\ la \in D
                     /\ kpav \in Link /\ la \in Link
                     /\ Lasts(head)[kpav] = la
  <2> SUFFICES ASSUME kpav # NULL
               PROVE  /\ kpav \in F /\ la \in F /\ kpav \in D /\ la \in D
                      /\ kpav \in Link /\ la \in Link
                      /\ Lasts(head)[kpav] = la
    OBVIOUS
  <2>1. kpav \in F
    BY DEF HeapInv, LinksOK
  <2> QED BY <2>1, LinkIs
<1>4. /\ DOMAIN head' = D /\ head' \in [D -> Header]
      /\ head'[h].size = head[h].size /\ head'[h].tag = FREE
      /\ \A x \in D \ {h} : head'[x].size = head[x].size /\ head'[x].tag = head[x].tag
      /\ kpav = NULL => head'[h].next = h /\ head'[h].last = h
      /\ kpav # NULL =>
           /\ head'[h].next = kpav /\ head'[h].last = la
           /\ \A x \in F : /\ head'[x].next = IF x = la THEN h ELSE head[x].next
                           /\ head'[x].last = IF x = kpav THEN h ELSE head[x].last
  <2>1. CASE kpav = NULL
    <3> DEFINE b == [head[h] EXCEPT !.tag = FREE, !.next = h, !.last = h]
    <3>1. head' = [head EXCEPT ![h] = b]
      BY <1>1, <1>2, <2>1 DEF InsertBlock
    <3>2. b \in Header /\ b.size = head[h].size /\ b.tag = FREE /\ b.next = h /\ b.last = h
      BY <1>2 DEF Header
    <3> HIDE DEF b
    <3> QED BY <1>1, <1>2, <2>1, <3>1, <3>2
  <2>2. CASE kpav # NULL
    <3> DEFINE b == [head[h] EXCEPT !.tag = FREE, !.next = kpav, !.last = la]
               f == [head EXCEPT ![h] = b]
    <3>1. head' = Relink(f, la, h, kpav, h)
      BY <1>1, <1>2, <2>2 DEF InsertBlock, Relink
    <3>2. b \in Header /\ b.size = head[h].size /\ b.tag = FREE /\ b.next = kpav /\ b.last = la
      BY <1>2, <1>3, <2>2 DEF Header
    <3> HIDE DEF b
    <3>3. f \in [D -> Header] /\ f[h] = b /\ \A x \in D \ {h} : f[x] = head[x]
      BY <1>1, <1>2, <3>2
    <3> HIDE DEF f
    <3>4. /\ head' \in [D -> Header]
          /\ \A x \in D : /\ head'[x].size = f[x].size /\ head'[x].tag = f[x].tag
                          /\ head'[x].next = IF x = la THEN h ELSE f[x].next
                          /\ head'[x].last = IF x = kpav THEN h ELSE f[x].last
      <4>1. la \in D /\ kpav \in D /\ h \in Link
        BY <1>2, <1>3, <2>2
      <4> HIDE DEF D, F, la
      <4>2. Relinks(D, f, la, h, kpav, h, Relink(f, la, h, kpav, h))
        BY <3>3, <4>1, Relinked
      <4> QED BY <3>1, <4>2 DEF Relinks
    <3>5. la # h /\ kpav # h /\ \A x \in F : x \in D \ {h}
      BY <1>1, <1>3, <2>2 DEF FreeIn
    <3> QED BY <1>1, <2>2, <3>2, <3>3, <3>4, <3>5
  <2> QED BY <2>1, <2>2
<1>5. FreeIn(head') = F \cup {h}
  BY <1>1, <1>4 DEF FreeIn
<1>6. LeftTag(h) = OCCUPIED /\ RightTag(h) = OCCUPIED
  BY DEF InsertBlock
<1>7. HeadsOK(head')
  <2>1. \A x \in D : Sizes(head')[x] = Sizes(head)[x]
    BY <1>4 DEF Sizes
  <2>2. Tiles(D, Sizes(head'), 0, KSL)
    BY <2>1, TileSame DEF HeapInv, HeadsOK
  <2>3. \A x \in F : x + head[x].size \notin F
    BY DEF HeapInv, HeadsOK
  <2>4. h + head[h].size \notin F /\ \A x \in F : x + head[x].size # h
    BY <1>1, <1>6, SidesAre
  <2>5. h + head[h].size # h
    <3>1. h \in Nat /\ head[h].size \in Nat \ {0}
      BY <1>1, BlockIs
    <3> QED BY <3>1
  <2>6. \A x \in F \cup {h} : x + head'[x].size \notin F \cup {h}
    <3>1. \A x \in F \cup {h} : head'[x].size = head[x].size
      BY <1>4 DEF FreeIn
    <3> QED BY <2>3, <2>4, <2>5, <3>1
  <2> QED BY <1>4, <1>5, <2>2, <2>6 DEF HeadsOK
<1>8. FeetOK(head', foot')
  <2>1. foot' = [foot EXCEPT ![foot_loc(h)] = [head |-> h, tag |-> FREE]]
    BY DEF InsertBlock
  <2>2. \A x \in D : /\ foot_loc(x) = x + head'[x].size - 1 /\ foot_loc(x) \in DOMAIN foot
                     /\ foot[foot_loc(x)] = [head |-> x, tag |-> head[x].tag]
                     /\ x # h => foot_loc(x) # foot_loc(h)
    <3> SUFFICES ASSUME NEW x \in D
                 PROVE  /\ foot_loc(x) = x + head'[x].size - 1 /\ foot_loc(x) \in DOMAIN foot
                        /\ foot[foot_loc(x)] = [head |-> x, tag |-> head[x].tag]
                        /\ x # h => foot_loc(x) # foot_loc(h)
      OBVIOUS
    <3>1. head'[x].size = head[x].size
      BY <1>4
    <3> QED BY <1>1, <3>1, BlockIs, FeetApart
  <2>3. DOMAIN foot = {x + head'[x].size - 1 : x \in D}
    <3>1. \A x \in D : head'[x].size = head[x].size
      BY <1>4
    <3> QED BY <3>1 DEF HeapInv, FeetOK
  <2>4. \A x \in D : foot'[foot_loc(x)] = [head |-> x, tag |-> head'[x].tag]
    BY <1>1, <1>4, <2>1, <2>2
  <2> QED BY <1>4, <2>1, <2>2, <2>3, <2>4 DEF FeetOK
<1>9. LinksOK(head', kpav')
  <2>1. kpav' = h
    BY DEF InsertBlock
  <2>2. CASE kpav = NULL
    <3>1. F = {}
      <4> SUFFICES ASSUME F # {} PROVE FALSE
        OBVIOUS
      <4>1. kpav \in D
        BY DEF HeapInv, LinksOK, FreeIn
      <4>2. kpav < KSL /\ kpav \in Nat
        BY <4>1, BlockIs
      <4> QED BY <2>2, <4>2 DEF NULL
    <3>2. FreeIn(head') = {h}
      BY <1>5, <3>1
    <3>3. Nexts(head') = [x \in {h} |-> h] /\ Lasts(head') = [x \in {h} |-> h]
      BY <1>4, <2>2, <3>2 DEF Nexts, Lasts
    <3> QED BY <2>1, <3>2, <3>3, RingAlone DEF LinksOK
  <2>3. CASE kpav # NULL
    <3>1. Nexts(head') = [x \in F \cup {h} |-> IF x = h THEN kpav ELSE
                            IF x = Lasts(head)[kpav] THEN h ELSE Nexts(head)[x]]
      <4>1. \A x \in F \cup {h} : head'[x].next = IF x = h THEN kpav ELSE
                            IF x = la THEN h ELSE Nexts(head)[x]
        BY <1>1, <1>4, <2>3 DEF Nexts
      <4> QED BY <1>3, <1>5, <2>3, <4>1 DEF Nexts
    <3>2. Lasts(head') = [x \in F \cup {h} |-> IF x = h THEN Lasts(head)[kpav] ELSE
                            IF x = kpav THEN h ELSE Lasts(head)[x]]
      <4>1. \A x \in F \cup {h} : head'[x].last = IF x = h THEN la ELSE
                            IF x = kpav THEN h ELSE Lasts(head)[x]
        BY <1>1, <1>4, <2>3 DEF Lasts
      <4> QED BY <1>3, <1>5, <2>3, <4>1 DEF Lasts
    <3>3. Ring(F, Nexts(head), Lasts(head))
      BY DEF HeapInv, LinksOK
    <3>4. Ring(F \cup {h}, Nexts(head'), Lasts(head'))
      <4>1. kpav \in F
        BY <1>3, <2>3
      <4> HIDE DEF F, D
      <4> QED BY <1>1, <3>1, <3>2, <3>3, <4>1, RingInsert
    <3> QED BY <1>5, <2>1, <3>4 DEF LinksOK
  <2> QED BY <2>2, <2>3
<1>10. UsedOK(head', kmemory')
  <2>1. kmemory' = Drop(kmemory, {h})
    BY DEF InsertBlock, Freed
  <2> QED BY <1>1, <1>4, <1>5, <2>1 DEF HeapInv, UsedOK, Drop
<1> QED BY <1>7, <1>8, <1>9, <1>10 DEF HeapInv

\* The block at its right joins it.
LEMMA MergeRightOK ==
  ASSUME HeapInv, NEW h \in DOMAIN kmemory, MergeRight(h)
  PROVE  HeapInv'
<1> DEFINE D == DOMAIN head
           F == FreeIn(head)
           r == h + head[h].size
           alone == head[r].next = r
           nx == IF alone THEN h ELSE head[r].next
           la == IF alone THEN h ELSE head[r].last
           b == [size |-> head[h].size + head[r].size, tag |-> FREE, next |-> nx, last |-> la]
           f == [head EXCEPT ![h] = b]
           g == Relink(f, la, h, nx, h)
<1>1. /\ h \in D /\ h \notin F /\ head[h].tag # FREE
      /\ LeftTag(h) = OCCUPIED /\ RightTag(h) = FREE
  BY DEF HeapInv, UsedOK, FreeIn, MergeRight
<1>2. /\ foot_loc(h) + 1 = r /\ foot_loc(h) = r - 1 /\ h \in Nat /\ h \in Link
      /\ head[h].size \in Nat \ {0} /\ Sizes(head)[h] = head[h].size /\ h # r
  <2>1. /\ h \in Nat /\ h < KSL /\ KSL \in Nat
        /\ head[h].size \in Nat \ {0} /\ Sizes(head)[h] = head[h].size
    BY <1>1, BlockIs
  <2>2. foot_loc(h) + 1 = h + head[h].size /\ foot_loc(h) = h + head[h].size - 1
    BY <1>1, BlockIs
  <2>3. r = h + head[h].size
    OBVIOUS
  <2> HIDE DEF r
  <2> QED BY <2>1, <2>2, <2>3 DEF Link
<1>3. r \in F /\ r \in D
  BY <1>1, SidesAre DEF FreeIn
<1>4. /\ r \in Nat /\ r < KSL /\ head[r].size \in Nat \ {0} /\ Sizes(head)[r] = head[r].size
      /\ foot_loc(r) = r + head[r].size - 1 /\ r + head[r].size <= KSL /\ KSL \in Nat
      /\ foot_loc(r) \in DOMAIN foot /\ foot_loc(r) # foot_loc(h)
  BY <1>1, <1>2, <1>3, BlockIs, FeetApart
<1>5. /\ alone => F = {r}
      /\ ~ alone => /\ nx \in F /\ la \in F /\ nx # r /\ la # r
      /\ nx \in D /\ la \in D /\ nx # r /\ la # r /\ nx \in Link /\ la \in Link
      /\ Nexts(head)[r] = head[r].next /\ Lasts(head)[r] = head[r].last
  <2>1. /\ alone => F = {r}
        /\ head[r].next \in F /\ head[r].last \in F
        /\ head[head[r].last].next = r
        /\ Nexts(head)[r] = head[r].next /\ Lasts(head)[r] = head[r].last
    BY <1>3, LinkIs
  <2>2. \A x \in F : x \in D /\ x \in Link
    BY LinkIs
  <2> HIDE DEF F, D, r
  <2> QED BY <1>1, <1>2, <2>1, <2>2
<1>6. head \in [D -> Header]
  BY DEF HeapInv, HeadsOK
<1>7. b \in Header
  <2>1. head[h].size + head[r].size \in 1 .. KSL
    BY <1>2, <1>4
  <2> QED BY <1>5, <2>1 DEF Header
<1>8. head' = Drop(g, {r}) /\ foot' = Drop([foot EXCEPT ![foot_loc(r)] = [head |-> h, tag |-> FREE]], {r - 1})
      /\ kpav' = h /\ kmemory' = Drop(kmemory, {h})
  BY <1>2 DEF MergeRight, Freed, Relink
<1>9. f \in [D -> Header] /\ f[h] = b /\ \A x \in D \ {h} : f[x] = head[x]
  <2> HIDE DEF b
  <2> QED BY <1>1, <1>6, <1>7
<1>10. b.size = head[h].size + head[r].size /\ b.tag = FREE /\ b.next = nx /\ b.last = la
  OBVIOUS
<1> HIDE DEF f, b
<1>11. /\ g \in [D -> Header]
       /\ \A x \in D : /\ g[x].size = f[x].size /\ g[x].tag = f[x].tag
                       /\ g[x].next = IF x = la THEN h ELSE f[x].next
                       /\ g[x].last = IF x = nx THEN h ELSE f[x].last
  <2>1. f \in [D -> Header] /\ la \in D /\ nx \in D /\ h \in Link
    BY <1>2, <1>5, <1>9
  <2> HIDE DEF D, F, la, nx, r
  <2>2. Relinks(D, f, la, h, nx, h, Relink(f, la, h, nx, h))
    BY <2>1, Relinked
  <2> QED BY <2>2 DEF Relinks, g
<1> HIDE DEF g
<1>12. /\ DOMAIN head' = D \ {r} /\ head' \in [D \ {r} -> Header]
       /\ head'[h].size = head[h].size + head[r].size /\ head'[h].tag = FREE
       /\ \A x \in D \ {h, r} : head'[x].size = head[x].size /\ head'[x].tag = head[x].tag
       /\ \A x \in D \ {r} : /\ head'[x].next = IF x = la THEN h ELSE IF x = h THEN nx ELSE head[x].next
                             /\ head'[x].last = IF x = nx THEN h ELSE IF x = h THEN la ELSE head[x].last
  <2>1. head' = [x \in D \ {r} |-> g[x]]
    BY <1>8, <1>11 DEF Drop
  <2> HIDE DEF r, la, nx
  <2> QED BY <1>1, <1>2, <1>9, <1>10, <1>11, <2>1
<1>13. FreeIn(head') = (F \cup {h}) \ {r}
  <2> HIDE DEF r
  <2> QED BY <1>1, <1>2, <1>12 DEF FreeIn
<1>14. HeadsOK(head')
  <2>1. Merges(D, Sizes(head), h, r, Sizes(head'))
    <3>1. \A x \in D \ {r} : Sizes(head')[x] = head'[x].size
      BY <1>12 DEF Sizes
    <3>2. \A x \in D : Sizes(head)[x] = head[x].size
      BY DEF Sizes
    <3> QED BY <1>1, <1>2, <1>3, <1>4, <1>12, <3>1, <3>2 DEF Merges
  <2>2. Tiles(D \ {r}, Sizes(head'), 0, KSL)
    <3>1. Tiles(D, Sizes(head), 0, KSL)
      BY DEF HeapInv, HeadsOK
    <3> HIDE DEF D, r
    <3> QED BY <2>1, <3>1, TileMerge
  <2>3. \A x \in F : x + head[x].size \notin F
    BY DEF HeapInv, HeadsOK
  <2>4. \A x \in F : x + head[x].size # h
    BY <1>1, SidesAre
  <2>5. h + head'[h].size = r + head[r].size /\ h + head'[h].size # h
    BY <1>2, <1>4, <1>12
  <2>6. \A x \in F \ {r} : head'[x].size = head[x].size
    BY <1>1, <1>12 DEF FreeIn
  <2>7. \A x \in (F \cup {h}) \ {r} : x + head'[x].size \notin (F \cup {h}) \ {r}
    <3> HIDE DEF r, F
    <3> QED BY <1>3, <2>3, <2>4, <2>5, <2>6
  <2> QED BY <1>12, <1>13, <2>2, <2>7 DEF HeadsOK
<1>15. FeetOK(head', foot')
  <2>1. h + head'[h].size - 1 = foot_loc(r)
    BY <1>2, <1>4, <1>12
  <2>2. \A x \in D \ {h, r} :
          /\ x + head'[x].size - 1 = foot_loc(x) /\ foot_loc(x) \in DOMAIN foot
          /\ foot[foot_loc(x)] = [head |-> x, tag |-> head'[x].tag]
          /\ foot_loc(x) # foot_loc(h) /\ foot_loc(x) # foot_loc(r)
    <3> SUFFICES ASSUME NEW x \in D \ {h, r}
          PROVE  /\ x + head'[x].size - 1 = foot_loc(x) /\ foot_loc(x) \in DOMAIN foot
                 /\ foot[foot_loc(x)] = [head |-> x, tag |-> head'[x].tag]
                 /\ foot_loc(x) # foot_loc(h) /\ foot_loc(x) # foot_loc(r)
      OBVIOUS
    <3>1. foot_loc(x) # foot_loc(h) /\ foot_loc(x) # foot_loc(r)
      BY <1>1, <1>3, FeetApart
    <3> QED BY <1>12, <3>1, BlockIs
  <2>3. DOMAIN foot = {foot_loc(x) : x \in D}
    <3>1. \A x \in D : foot_loc(x) = x + head[x].size - 1
      BY BlockIs
    <3> QED BY <3>1 DEF HeapInv, FeetOK
  <2>4. DOMAIN foot' = {x + head'[x].size - 1 : x \in D \ {r}}
    <3>1. DOMAIN foot' = {foot_loc(x) : x \in D} \ {foot_loc(h)}
      BY <1>2, <1>8, <2>3 DEF Drop
    <3>2. DOMAIN foot' = {foot_loc(x) : x \in D \ {h, r}} \cup {foot_loc(r)}
      <4> HIDE DEF r
      <4> QED BY <1>1, <1>3, <1>4, <2>2, <3>1
    <3>3. {foot_loc(x) : x \in D \ {h, r}} = {x + head'[x].size - 1 : x \in D \ {h, r}}
      <4> HIDE DEF r
      <4> QED BY <2>2
    <3>4. D \ {r} = (D \ {h, r}) \cup {h}
      <4> HIDE DEF r
      <4> QED BY <1>1, <1>2
    <3> HIDE DEF r
    <3> QED BY <2>1, <3>2, <3>3, <3>4
  <2>5. ASSUME NEW x \in D \ {r}
        PROVE  foot'[x + head'[x].size - 1] = [head |-> x, tag |-> head'[x].tag]
    <3>1. \A i \in DOMAIN foot \ {foot_loc(h)} :
            foot'[i] = IF i = foot_loc(r) THEN [head |-> h, tag |-> FREE] ELSE foot[i]
      BY <1>2, <1>8 DEF Drop
    <3> HIDE DEF r
    <3>2. CASE x = h
      BY <1>4, <1>12, <2>1, <3>1, <3>2
    <3>3. CASE x # h
      BY <2>2, <3>1, <3>3
    <3> QED BY <3>2, <3>3
  <2> QED BY <1>12, <2>4, <2>5 DEF FeetOK
<1>16. LinksOK(head', kpav')
  <2>1. CASE alone
    <3>1. FreeIn(head') = {h}
      <4> HIDE DEF r
      <4> QED BY <1>2, <1>5, <1>13, <2>1
    <3>2. Nexts(head') = [x \in {h} |-> h] /\ Lasts(head') = [x \in {h} |-> h]
      <4>1. head'[h].next = h /\ head'[h].last = h
        BY <1>1, <1>2, <1>12, <2>1
      <4> QED BY <3>1, <4>1 DEF Nexts, Lasts
    <3> QED BY <1>8, <3>1, <3>2, RingAlone DEF LinksOK
  <2>2. CASE ~ alone
    <3>1. nx = Nexts(head)[r] /\ la = Lasts(head)[r] /\ Nexts(head)[r] # r /\ la # h /\ nx # h
      BY <1>1, <1>5, <2>2
    <3>2. \A x \in F \ {r} : x \in D \ {r} /\ x # h
                            /\ Nexts(head)[x] = head[x].next /\ Lasts(head)[x] = head[x].last
      BY <1>1 DEF FreeIn, Nexts, Lasts
    <3> HIDE DEF D, F, la, nx, r, alone
    <3>3. Nexts(head') = [x \in (F \cup {h}) \ {r} |-> IF x = h THEN Nexts(head)[r] ELSE
                            IF x = Lasts(head)[r] THEN h ELSE Nexts(head)[x]]
      <4>1. \A x \in (F \cup {h}) \ {r} : head'[x].next =
              IF x = h THEN nx ELSE IF x = la THEN h ELSE Nexts(head)[x]
        BY <1>1, <1>2, <1>12, <3>1, <3>2
      <4> QED BY <1>13, <3>1, <4>1 DEF Nexts
    <3>4. Lasts(head') = [x \in (F \cup {h}) \ {r} |-> IF x = h THEN Lasts(head)[r] ELSE
                            IF x = Nexts(head)[r] THEN h ELSE Lasts(head)[x]]
      <4>1. \A x \in (F \cup {h}) \ {r} : head'[x].last =
              IF x = h THEN la ELSE IF x = nx THEN h ELSE Lasts(head)[x]
        BY <1>1, <1>2, <1>12, <3>1, <3>2
      <4> QED BY <1>13, <3>1, <4>1 DEF Lasts
    <3>5. Ring(F, Nexts(head), Lasts(head))
      BY DEF HeapInv, LinksOK, F
    <3>6. Ring((F \cup {h}) \ {r}, Nexts(head'), Lasts(head'))
      BY <1>1, <1>3, <3>1, <3>3, <3>4, <3>5, RingReplace
    <3> QED BY <1>2, <1>8, <1>13, <3>6 DEF LinksOK
  <2> QED BY <2>1, <2>2
<1>17. UsedOK(head', kmemory')
  <2>1. /\ DOMAIN kmemory = D \ F
        /\ \A x \in D \ F : kmemory[x] \in Nat /\ head[x].size \in kmemory[x] .. kmemory[x] + EU - 1
    BY DEF HeapInv, UsedOK
  <2>2. DOMAIN kmemory' = (D \ F) \ {h} /\ \A x \in (D \ F) \ {h} : kmemory'[x] = kmemory[x]
    BY <1>8, <2>1 DEF Drop
  <2> HIDE DEF D, F, r
  <2> QED BY <1>1, <1>3, <1>12, <1>13, <2>1, <2>2 DEF UsedOK
<1> QED BY <1>14, <1>15, <1>16, <1>17 DEF HeapInv

\* It joins the block at its left.
LEMMA MergeLeftOK ==
  ASSUME HeapInv, NEW h \in DOMAIN kmemory, MergeLeft(h)
  PROVE  HeapInv'
<1> DEFINE D == DOMAIN head
           F == FreeIn(head)
           l == foot[h - 1].head
           b == [head[l] EXCEPT !.size = head[l].size + head[h].size]
<1>1. /\ h \in D /\ h \notin F /\ head[h].tag # FREE
      /\ LeftTag(h) = FREE /\ RightTag(h) = OCCUPIED
  BY DEF HeapInv, UsedOK, FreeIn, MergeLeft
<1>2. /\ h \in Nat /\ head[h].size \in Nat \ {0} /\ h + head[h].size <= KSL /\ KSL \in Nat
      /\ Sizes(head)[h] = head[h].size /\ foot_loc(h) = h + head[h].size - 1
      /\ foot_loc(h) \in DOMAIN foot
  BY <1>1, BlockIs
<1>3. l \in F /\ l \in D /\ l + head[l].size = h /\ foot_loc(l) = h - 1 /\ head[l].tag = FREE
  BY <1>1, SidesAre DEF FreeIn
<1>4. head' = Drop([head EXCEPT ![l] = b], {h})
      /\ foot' = Drop([foot EXCEPT ![foot_loc(h)] = [head |-> l, tag |-> FREE]], {h - 1})
      /\ kpav' = kpav /\ kmemory' = Drop(kmemory, {h})
  BY DEF MergeLeft, Freed
<1> HIDE DEF l, b
<1>5. /\ l \in Nat /\ head[l].size \in Nat \ {0} /\ Sizes(head)[l] = head[l].size
      /\ head[l] \in Header /\ l # h /\ foot_loc(l) # foot_loc(h)
  <2>1. l \in Nat /\ head[l].size \in Nat \ {0} /\ Sizes(head)[l] = head[l].size /\ head[l] \in Header
    BY <1>3, BlockIs
  <2>2. l # h
    BY <1>1, <1>3
  <2> QED BY <1>1, <1>3, <2>1, <2>2, FeetApart
<1>6. head \in [D -> Header]
  BY DEF HeapInv, HeadsOK
<1>7. /\ b \in Header /\ b.size = head[l].size + head[h].size /\ b.tag = FREE
      /\ b.next = head[l].next /\ b.last = head[l].last
  <2>1. head[l].size + head[h].size \in 1 .. KSL
    BY <1>2, <1>3, <1>5
  <2> QED BY <1>3, <1>5, <2>1 DEF Header, b
<1>8. head' = [x \in D \ {h} |-> IF x = l THEN b ELSE head[x]]
  BY <1>3, <1>4, <1>6 DEF Drop
<1>9. /\ DOMAIN head' = D \ {h} /\ head' \in [D \ {h} -> Header]
      /\ head'[l].size = head[l].size + head[h].size
      /\ \A x \in D \ {l, h} : head'[x].size = head[x].size
      /\ \A x \in D \ {h} : /\ head'[x].tag = head[x].tag
                            /\ head'[x].next = head[x].next /\ head'[x].last = head[x].last
  BY <1>3, <1>5, <1>6, <1>7, <1>8
<1>10. FreeIn(head') = F
  BY <1>1, <1>9 DEF FreeIn
<1>11. HeadsOK(head')
  <2>1. Merges(D, Sizes(head), l, h, Sizes(head'))
    <3>1. \A x \in D \ {h} : Sizes(head')[x] = head'[x].size
      BY <1>9 DEF Sizes
    <3>2. \A x \in D : Sizes(head)[x] = head[x].size
      BY DEF Sizes
    <3> QED BY <1>1, <1>2, <1>3, <1>5, <1>9, <3>1, <3>2 DEF Merges
  <2>2. Tiles(D \ {h}, Sizes(head'), 0, KSL)
    <3>1. Tiles(D, Sizes(head), 0, KSL)
      BY DEF HeapInv, HeadsOK
    <3> HIDE DEF D
    <3> QED BY <2>1, <3>1, TileMerge
  <2>3. \A x \in F : x + head[x].size \notin F
    BY DEF HeapInv, HeadsOK
  <2>4. l + head'[l].size = h + head[h].size
    BY <1>2, <1>3, <1>5, <1>9
  <2>5. h + head[h].size \notin F
    BY <1>1, SidesAre
  <2>6. \A x \in F \ {l} : head'[x].size = head[x].size
    BY <1>1, <1>9 DEF FreeIn
  <2>7. \A x \in F : x + head'[x].size \notin F
    BY <2>3, <2>4, <2>5, <2>6
  <2> QED BY <1>9, <1>10, <2>2, <2>7 DEF HeadsOK
<1>12. FeetOK(head', foot')
  <2>1. l + head'[l].size - 1 = foot_loc(h)
    BY <1>2, <1>3, <1>5, <1>9
  <2>2. \A x \in D \ {l, h} :
          /\ x + head'[x].size - 1 = foot_loc(x) /\ foot_loc(x) \in DOMAIN foot
          /\ foot[foot_loc(x)] = [head |-> x, tag |-> head'[x].tag]
          /\ foot_loc(x) # foot_loc(h) /\ foot_loc(x) # foot_loc(l)
    <3> SUFFICES ASSUME NEW x \in D \ {l, h}
          PROVE  /\ x + head'[x].size - 1 = foot_loc(x) /\ foot_loc(x) \in DOMAIN foot
                 /\ foot[foot_loc(x)] = [head |-> x, tag |-> head'[x].tag]
                 /\ foot_loc(x) # foot_loc(h) /\ foot_loc(x) # foot_loc(l)
      OBVIOUS
    <3>1. foot_loc(x) # foot_loc(h) /\ foot_loc(x) # foot_loc(l)
      BY <1>1, <1>3, FeetApart
    <3> QED BY <1>9, <3>1, BlockIs
  <2>3. DOMAIN foot = {foot_loc(x) : x \in D}
    <3>1. \A x \in D : foot_loc(x) = x + head[x].size - 1
      BY BlockIs
    <3> QED BY <3>1 DEF HeapInv, FeetOK
  <2>4. DOMAIN foot' = {x + head'[x].size - 1 : x \in D \ {h}}
    <3>1. DOMAIN foot' = {foot_loc(x) : x \in D} \ {foot_loc(l)}
      BY <1>3, <1>4, <2>3 DEF Drop
    <3>2. DOMAIN foot' = {foot_loc(x) : x \in D \ {l, h}} \cup {foot_loc(h)}
      <4>1. {foot_loc(x) : x \in D} =
              {foot_loc(x) : x \in D \ {l, h}} \cup {foot_loc(l), foot_loc(h)}
        BY <1>1, <1>3
      <4>2. foot_loc(l) \notin {foot_loc(x) : x \in D \ {l, h}}
        BY <2>2
      <4> QED BY <1>5, <3>1, <4>1, <4>2
    <3>3. {foot_loc(x) : x \in D \ {l, h}} = {x + head'[x].size - 1 : x \in D \ {l, h}}
      BY <2>2
    <3>4. D \ {h} = (D \ {l, h}) \cup {l}
      BY <1>3, <1>5
    <3> QED BY <2>1, <3>2, <3>3, <3>4
  <2>5. ASSUME NEW x \in D \ {h}
        PROVE  foot'[x + head'[x].size - 1] = [head |-> x, tag |-> head'[x].tag]
    <3>1. \A i \in DOMAIN foot \ {foot_loc(l)} :
            foot'[i] = IF i = foot_loc(h) THEN [head |-> l, tag |-> FREE] ELSE foot[i]
      BY <1>3, <1>4 DEF Drop
    <3>2. CASE x = l
      BY <1>2, <1>3, <1>5, <1>9, <2>1, <3>1, <3>2
    <3>3. CASE x # l
      BY <2>2, <3>1, <3>3
    <3> QED BY <3>2, <3>3
  <2> QED BY <1>9, <2>4, <2>5 DEF FeetOK
<1>13. LinksOK(head', kpav')
  <2>1. \A x \in F : head'[x].next = head[x].next /\ head'[x].last = head[x].last
    BY <1>1, <1>9 DEF FreeIn
  <2>2. Nexts(head') = Nexts(head) /\ Lasts(head') = Lasts(head)
    BY <1>10, <2>1 DEF Nexts, Lasts
  <2> QED BY <1>4, <1>10, <2>2 DEF HeapInv, LinksOK
<1>14. UsedOK(head', kmemory')
  <2>1. /\ DOMAIN kmemory = D \ F
        /\ \A x \in D \ F : kmemory[x] \in Nat /\ head[x].size \in kmemory[x] .. kmemory[x] + EU - 1
    BY DEF HeapInv, UsedOK
  <2>2. DOMAIN kmemory' = (D \ F) \ {h} /\ \A x \in (D \ F) \ {h} : kmemory'[x] = kmemory[x]
    BY <1>4, <2>1 DEF Drop
  <2> HIDE DEF D, F
  <2> QED BY <1>1, <1>3, <1>9, <1>10, <2>1, <2>2 DEF UsedOK
<1> QED BY <1>11, <1>12, <1>13, <1>14 DEF HeapInv

\* It joins the block at its left together with the one at its right.
LEMMA MergeBothOK ==
  ASSUME HeapInv, NEW h \in DOMAIN kmemory, MergeBoth(h)
  PROVE  HeapInv'
<1> DEFINE D == DOMAIN head
           F == FreeIn(head)
           l == foot[h - 1].head
           r == h + head[h].size
           nx == head[r].next
           la == head[r].last
           b == [head[l] EXCEPT !.size = head[l].size + head[h].size + head[r].size]
           f == [head EXCEPT ![l] = b]
           g == Relink(f, la, nx, nx, la)
<1>1. /\ h \in D /\ h \notin F /\ head[h].tag # FREE
      /\ LeftTag(h) = FREE /\ RightTag(h) = FREE
  BY DEF HeapInv, UsedOK, FreeIn, MergeBoth
<1>2. /\ h \in Nat /\ head[h].size \in Nat \ {0} /\ r \in Nat
      /\ Sizes(head)[h] = head[h].size /\ foot_loc(h) + 1 = r
      /\ foot_loc(h) = r - 1 /\ foot_loc(h) \in DOMAIN foot
  <2>1. /\ h \in Nat /\ head[h].size \in Nat \ {0} /\ Sizes(head)[h] = head[h].size
        /\ foot_loc(h) + 1 = h + head[h].size /\ foot_loc(h) = h + head[h].size - 1
        /\ foot_loc(h) \in DOMAIN foot
    BY <1>1, BlockIs
  <2> QED BY <2>1
<1>3. /\ l \in F /\ l \in D /\ l + head[l].size = h /\ foot_loc(l) = h - 1 /\ head[l].tag = FREE
      /\ r \in F /\ r \in D
  BY <1>1, SidesAre DEF FreeIn
<1>4. /\ l \in Nat /\ head[l].size \in Nat \ {0} /\ Sizes(head)[l] = head[l].size
      /\ head[l] \in Header /\ l # h /\ l # r /\ r # h
      /\ r + head[r].size <= KSL /\ KSL \in Nat
      /\ head[r].size \in Nat \ {0} /\ Sizes(head)[r] = head[r].size
      /\ foot_loc(r) = r + head[r].size - 1 /\ foot_loc(r) \in DOMAIN foot
      /\ foot[foot_loc(r)] = [head |-> r, tag |-> head[r].tag] /\ head[r].tag = FREE
  <2>1. /\ l \in Nat /\ head[l].size \in Nat \ {0} /\ Sizes(head)[l] = head[l].size
        /\ head[l] \in Header
    BY <1>3, BlockIs
  <2>2. /\ r + head[r].size <= KSL /\ KSL \in Nat
        /\ head[r].size \in Nat \ {0} /\ Sizes(head)[r] = head[r].size
        /\ foot_loc(r) = r + head[r].size - 1 /\ foot_loc(r) \in DOMAIN foot
        /\ foot[foot_loc(r)] = [head |-> r, tag |-> head[r].tag]
    BY <1>3, BlockIs
  <2>3. head[r].tag = FREE
    BY <1>3 DEF FreeIn
  <2>4. l # h /\ r # h
    BY <1>1, <1>3
  <2>5. l # r
    <3>1. h + head[h].size = r
      OBVIOUS
    <3> HIDE DEF l, r
    <3> QED BY <1>2, <1>3, <2>1, <3>1
  <2> HIDE DEF l, r
  <2> QED BY <2>1, <2>2, <2>3, <2>4, <2>5
<1>5. foot_loc(l) # foot_loc(h) /\ foot_loc(r) # foot_loc(h) /\ foot_loc(l) # foot_loc(r)
  <2> HIDE DEF l, r
  <2> QED BY <1>1, <1>3, <1>4, FeetApart
<1>6. /\ nx \in F /\ la \in F /\ nx \in D /\ la \in D /\ nx # r /\ la # r
      /\ nx \in Link /\ la \in Link
      /\ Nexts(head)[r] = nx /\ Lasts(head)[r] = la
  <2>1. /\ head[r].next = r => F = {r}
        /\ head[r].next \in F /\ head[r].last \in F
        /\ head[head[r].last].next = r
        /\ Nexts(head)[r] = head[r].next /\ Lasts(head)[r] = head[r].last
    BY <1>3, LinkIs
  <2>2. \A x \in F : x \in D /\ x \in Link
    BY LinkIs
  <2> HIDE DEF F, D, r, l
  <2>3. nx \in F /\ la \in F
    BY <2>1
  <2>4. head[r].next # r
    BY <1>3, <1>4, <2>1
  <2>5. nx # r /\ la # r
    BY <2>1, <2>4
  <2> HIDE DEF nx, la
  <2> QED BY <2>1, <2>2, <2>3, <2>5 DEF nx, la
<1>7. /\ h \in D /\ head \in [D -> Header]
  BY <1>1 DEF HeapInv, HeadsOK
<1>8. foot' = Drop([foot EXCEPT ![foot_loc(r)].head = l], {h - 1, r - 1})
      /\ kpav' = l /\ kmemory' = Drop(kmemory, {h})
  BY <1>2 DEF MergeBoth, Freed
<1>9. b \in Header /\ b.size = head[l].size + head[h].size + head[r].size /\ b.tag = FREE
      /\ b.next = head[l].next /\ b.last = head[l].last
  <2>1. head[l].size + head[h].size + head[r].size \in 1 .. KSL
    <3>1. h + head[h].size = r
      OBVIOUS
    <3> HIDE DEF l, r
    <3> QED BY <1>2, <1>3, <1>4, <3>1
  <2> HIDE DEF l, r
  <2> QED BY <1>3, <1>4, <2>1 DEF Header
<1>10. f \in [D -> Header] /\ f[l] = b /\ f[r] = head[r] /\ \A x \in D \ {l} : f[x] = head[x]
  <2> HIDE DEF b, l, r, D
  <2> QED BY <1>3, <1>4, <1>7, <1>9
<1>11. head' = Drop(g, {h, r})
  <2> DEFINE h2 == [f EXCEPT ![f[r].last].next = f[r].next]
  <2>1. head' = Drop([h2 EXCEPT ![h2[r].next].last = h2[r].last], {h, r})
    BY <1>2 DEF MergeBoth
  <2> HIDE DEF b, l, r, D, F, f
  <2>2. h2[r] = head[r]
    BY <1>3, <1>6, <1>10
  <2>3. f[r].last = la /\ f[r].next = nx
    BY <1>10
  <2> HIDE DEF la, nx
  <2>4. h2[r].next = nx /\ h2[r].last = la
    BY <2>2, <2>3, <1>10
  <2>5. head' = Drop([h2 EXCEPT ![nx].last = la], {h, r})
    BY <2>1, <2>4
  <2>6. h2 = [f EXCEPT ![la].next = nx]
    BY <2>3
  <2>7. [h2 EXCEPT ![nx].last = la] = g
    BY <2>6 DEF Relink
  <2> QED BY <2>5, <2>7
<1> HIDE DEF l, f, b
<1>12. /\ g \in [D -> Header]
       /\ \A x \in D : /\ g[x].size = f[x].size /\ g[x].tag = f[x].tag
                       /\ g[x].next = IF x = la THEN nx ELSE f[x].next
                       /\ g[x].last = IF x = nx THEN la ELSE f[x].last
  <2>1. f \in [D -> Header] /\ la \in D /\ nx \in D /\ la \in Link /\ nx \in Link
    BY <1>6, <1>10
  <2> HIDE DEF D, F, la, nx, r
  <2>2. Relinks(D, f, la, nx, nx, la, Relink(f, la, nx, nx, la))
    BY <2>1, Relinked
  <2> QED BY <2>2 DEF Relinks, g
<1>13. r = h + head[h].size
  OBVIOUS
<1> HIDE DEF g, la, nx, r
<1>14. /\ DOMAIN head' = D \ {h, r} /\ head' \in [D \ {h, r} -> Header]
       /\ head'[l].size = head[l].size + head[h].size + head[r].size
       /\ \A x \in D \ {l, h, r} : head'[x].size = head[x].size
       /\ \A x \in D \ {h, r} : /\ head'[x].tag = head[x].tag
                                /\ head'[x].next = IF x = la THEN nx ELSE head[x].next
                                /\ head'[x].last = IF x = nx THEN la ELSE head[x].last
  <2>1. head' = [x \in D \ {h, r} |-> g[x]]
    BY <1>11, <1>12 DEF Drop
  <2>2. \A x \in D : /\ f[x].tag = head[x].tag
                     /\ f[x].next = head[x].next /\ f[x].last = head[x].last
    BY <1>3, <1>9, <1>10
  <2> QED BY <1>3, <1>4, <1>9, <1>10, <1>12, <2>1, <2>2
<1>15. FreeIn(head') = F \ {r}
  BY <1>1, <1>14 DEF FreeIn
<1>16. HeadsOK(head')
  <2> DEFINE y == [x \in D |-> IF x = l THEN head[l].size + head[h].size ELSE head[x].size]
  <2>1. \A x \in D : Sizes(head)[x] = head[x].size
    BY DEF Sizes
  <2>2. Merges(D, Sizes(head), l, h, y)
    BY <1>1, <1>3, <1>4, <2>1 DEF Merges
  <2>3. Tiles(D, Sizes(head), 0, KSL)
    BY DEF HeapInv, HeadsOK
  <2>4. Tiles(D \ {h}, y, 0, KSL)
    <3> HIDE DEF D, y
    <3> QED BY <2>2, <2>3, TileMerge
  <2>5. Merges(D \ {h}, y, l, r, Sizes(head'))
    <3>1. \A x \in D \ {h, r} : Sizes(head')[x] = head'[x].size
      BY <1>14 DEF Sizes
    <3>2. r = l + y[l] /\ l \in D \ {h} /\ r \in D \ {h} /\ y[r] = head[r].size
      BY <1>2, <1>3, <1>4, <1>13
    <3>3. Sizes(head')[l] = y[l] + y[r]
      BY <1>3, <1>4, <1>14, <3>1, <3>2
    <3>4. \A x \in (D \ {h}) \ {l, r} : Sizes(head')[x] = y[x]
      BY <1>14, <3>1
    <3> QED BY <3>2, <3>3, <3>4 DEF Merges
  <2>6. Tiles((D \ {h}) \ {r}, Sizes(head'), 0, KSL)
    <3> HIDE DEF D, y
    <3> QED BY <2>4, <2>5, TileMerge
  <2>7. (D \ {h}) \ {r} = D \ {h, r}
    OBVIOUS
  <2>8. \A x \in F : x + head[x].size \notin F
    BY DEF HeapInv, HeadsOK
  <2>9. l + head'[l].size = r + head[r].size
    BY <1>2, <1>3, <1>4, <1>13, <1>14
  <2>10. \A x \in F \ {l, r} : head'[x].size = head[x].size
    BY <1>1, <1>14 DEF FreeIn
  <2>11. \A x \in F \ {r} : x + head'[x].size \notin F \ {r}
    BY <1>3, <2>8, <2>9, <2>10
  <2> HIDE DEF D
  <2> QED BY <1>14, <1>15, <2>6, <2>7, <2>11 DEF HeadsOK
<1>17. FeetOK(head', foot')
  <2>1. l + head'[l].size - 1 = foot_loc(r)
    BY <1>2, <1>3, <1>4, <1>13, <1>14
  <2>2. \A x \in D \ {l, h, r} :
          /\ x + head'[x].size - 1 = foot_loc(x) /\ foot_loc(x) \in DOMAIN foot
          /\ foot[foot_loc(x)] = [head |-> x, tag |-> head'[x].tag]
          /\ foot_loc(x) # foot_loc(h) /\ foot_loc(x) # foot_loc(l) /\ foot_loc(x) # foot_loc(r)
    <3> SUFFICES ASSUME NEW x \in D \ {l, h, r}
          PROVE  /\ x + head'[x].size - 1 = foot_loc(x) /\ foot_loc(x) \in DOMAIN foot
                 /\ foot[foot_loc(x)] = [head |-> x, tag |-> head'[x].tag]
                 /\ foot_loc(x) # foot_loc(h) /\ foot_loc(x) # foot_loc(l)
                 /\ foot_loc(x) # foot_loc(r)
      OBVIOUS
    <3>1. foot_loc(x) # foot_loc(h) /\ foot_loc(x) # foot_loc(l) /\ foot_loc(x) # foot_loc(r)
      BY <1>1, <1>3, FeetApart
    <3>2. head'[x].size = head[x].size /\ head'[x].tag = head[x].tag
      BY <1>14
    <3> QED BY <3>1, <3>2, BlockIs
  <2>3. DOMAIN foot = {foot_loc(x) : x \in D}
    <3>1. \A x \in D : foot_loc(x) = x + head[x].size - 1
      BY BlockIs
    <3> QED BY <3>1 DEF HeapInv, FeetOK
  <2>4. DOMAIN foot' = {x + head'[x].size - 1 : x \in D \ {h, r}}
    <3>1. DOMAIN foot' = {foot_loc(x) : x \in D} \ {foot_loc(l), foot_loc(h)}
      BY <1>2, <1>3, <1>8, <2>3 DEF Drop
    <3>2. DOMAIN foot' = {foot_loc(x) : x \in D \ {l, h, r}} \cup {foot_loc(r)}
      <4>1. {foot_loc(x) : x \in D} =
              {foot_loc(x) : x \in D \ {l, h, r}} \cup {foot_loc(l), foot_loc(h), foot_loc(r)}
        BY <1>1, <1>3
      <4>2. foot_loc(l) \notin {foot_loc(x) : x \in D \ {l, h, r}}
            /\ foot_loc(h) \notin {foot_loc(x) : x \in D \ {l, h, r}}
        BY <2>2
      <4> QED BY <1>5, <3>1, <4>1, <4>2
    <3>3. {foot_loc(x) : x \in D \ {l, h, r}} = {x + head'[x].size - 1 : x \in D \ {l, h, r}}
      BY <2>2
    <3>4. D \ {h, r} = (D \ {l, h, r}) \cup {l}
      BY <1>3, <1>4
    <3> QED BY <2>1, <3>2, <3>3, <3>4
  <2>5. ASSUME NEW x \in D \ {h, r}
        PROVE  foot'[x + head'[x].size - 1] = [head |-> x, tag |-> head'[x].tag]
    <3>1. \A i \in DOMAIN foot \ {foot_loc(l), foot_loc(h)} :
            foot'[i] = IF i = foot_loc(r) THEN [foot[i] EXCEPT !.head = l] ELSE foot[i]
      BY <1>2, <1>3, <1>8 DEF Drop
    <3>2. CASE x = l
      <4>1. foot'[foot_loc(r)] = [[head |-> r, tag |-> FREE] EXCEPT !.head = l]
        BY <1>4, <1>5, <3>1
      <4>2. [[head |-> r, tag |-> FREE] EXCEPT !.head = l] = [head |-> l, tag |-> FREE]
        OBVIOUS
      <4> QED BY <1>3, <1>14, <2>1, <3>2, <4>1, <4>2
    <3>3. CASE x # l
      BY <2>2, <3>1, <3>3
    <3> QED BY <3>2, <3>3
  <2> QED BY <1>14, <2>4, <2>5 DEF FeetOK
<1>18. LinksOK(head', kpav')
  <2>1. \A x \in F \ {r} : x \in D \ {h, r}
                          /\ Nexts(head)[x] = head[x].next /\ Lasts(head)[x] = head[x].last
    BY <1>1 DEF FreeIn, Nexts, Lasts
  <2> HIDE DEF D, F
  <2>2. Nexts(head') = [x \in F \ {r} |-> IF x = Lasts(head)[r] THEN Nexts(head)[r]
                                          ELSE Nexts(head)[x]]
    <3>1. \A x \in F \ {r} : head'[x].next = IF x = la THEN nx ELSE Nexts(head)[x]
      BY <1>14, <2>1
    <3> QED BY <1>6, <1>15, <3>1 DEF Nexts
  <2>3. Lasts(head') = [x \in F \ {r} |-> IF x = Nexts(head)[r] THEN Lasts(head)[r]
                                          ELSE Lasts(head)[x]]
    <3>1. \A x \in F \ {r} : head'[x].last = IF x = nx THEN la ELSE Lasts(head)[x]
      BY <1>14, <2>1
    <3> QED BY <1>6, <1>15, <3>1 DEF Lasts
  <2>4. Ring(F, Nexts(head), Lasts(head))
    BY DEF HeapInv, LinksOK, F
  <2>5. Nexts(head)[r] # r
    BY <1>6
  <2>6. Ring(F \ {r}, Nexts(head'), Lasts(head'))
    BY <1>3, <2>2, <2>3, <2>4, <2>5, RingUnlink
  <2> QED BY <1>3, <1>4, <1>8, <1>15, <2>6 DEF LinksOK
<1>19. UsedOK(head', kmemory')
  <2>1. /\ DOMAIN kmemory = D \ F
        /\ \A x \in D \ F : kmemory[x] \in Nat /\ head[x].size \in kmemory[x] .. kmemory[x] + EU - 1
    BY DEF HeapInv, UsedOK
  <2>2. DOMAIN kmemory' = (D \ F) \ {h} /\ \A x \in (D \ F) \ {h} : kmemory'[x] = kmemory[x]
    BY <1>8, <2>1 DEF Drop
  <2> HIDE DEF D, F
  <2> QED BY <1>1, <1>3, <1>14, <1>15, <2>1, <2>2 DEF UsedOK
<1> QED BY <1>16, <1>17, <1>18, <1>19 DEF HeapInv

\* Every step keeps the invariant.
LEMMA HeapStep ==
  ASSUME HeapInv, [HeapNext]_heapvars
  PROVE  HeapInv'
<1>1. CASE \E n \in Requests : kmalloc_g(n)
  BY <1>1, KmallocOK
<1>2. CASE \E h \in Cells : kfree_g(h)
  BY <1>2, InsertBlockOK, MergeRightOK, MergeLeftOK, MergeBothOK DEF kfree_g
<1>3. CASE UNCHANGED heapvars
  <2>1. head' = head /\ foot' = foot /\ kpav' = kpav /\ kmemory' = kmemory
    BY <1>3 DEF heapvars
  <2> QED BY <2>1 DEF HeapInv
<1> QED BY <1>1, <1>2, <1>3 DEF HeapNext

\* Whatever is allocated and freed in any order, the blocks of the kernel heap fill it
\* without gap or overlap, those in use are as large as asked for, and the list from
\* kpav holds the free ones and nothing else.
THEOREM HeapIsSound == HeapSpec => []HeapSound
<1>1. HeapInit => HeapInv
  BY HeapInitOK
<1>2. HeapInv /\ [HeapNext]_heapvars => HeapInv'
  BY HeapStep
<1>3. HeapInv => HeapSound
  BY HeapInvSound
<1> QED BY <1>1, <1>2, <1>3, PTL DEF HeapSpec
-----------------------------------------------------------------------------
(* The user heap.                                                           *)

Listed(l) == DOMAIN l \ {base}

\* The list runs through the addresses in their order, and from the last one to base.
SortedList(l) ==
  /\ base \in DOMAIN l /\ DOMAIN l \subseteq Nat /\ l \in [DOMAIN l -> DOMAIN l]
  /\ \A a \in DOMAIN l : base <= a
  /\ \A a \in DOMAIN l :
       \/ l[a] = base /\ \A b \in DOMAIN l : b <= a
       \/ a < l[a] /\ \A b \in DOMAIN l : a < b => l[a] <= b
\* The blocks in list l and those in U fill the heap up to hi.
Filled(l, s, U, hi) ==
  /\ SortedList(l) /\ base \notin U /\ Listed(l) \cap U = {}
  /\ DOMAIN s = DOMAIN l \cup U /\ s[base] = 0
  /\ Tiles(Listed(l) \cup U, s, Heap, hi)
\* No block of the list, except in X, touches the next one.
Apart(l, s, X) == \A a \in Listed(l) \ X : a + s[a] \notin Listed(l)
UheapOK(l, s, U, hi) == Filled(l, s, U, hi) /\ Apart(l, s, {})

\* The inductive invariant: before the first malloc() there is no list.
UheapInv ==
  /\ brk \in 0 .. MaxUnits
  /\ IF freep = Null
     THEN brk = 0 /\ umemory = [h \in {} |-> 0]
     ELSE /\ freep \in DOMAIN ptr
          /\ UheapOK(ptr, size, DOMAIN umemory, Heap + brk)
          /\ \A a \in DOMAIN umemory : size[a] = umemory[a]
-----------------------------------------------------------------------------
(* The list, and where free() puts a block.                                 *)

\* The list is a cycle.
LEMMA SortedCycle ==
  ASSUME NEW l, SortedList(l), NEW m \in Nat, \A a \in DOMAIN l : a <= m
  PROVE  Cycle(DOMAIN l, l)
<1> DEFINE P == DOMAIN l
<1>1. /\ base \in P /\ P \subseteq Nat /\ l \in [P -> P] /\ \A a \in P : base <= a
      /\ \A a \in P : \/ l[a] = base /\ \A b \in P : b <= a
                      \/ a < l[a] /\ \A b \in P : a < b => l[a] <= b
  BY DEF SortedList
<1> HIDE DEF P
<1>2. \A T \in SUBSET P : T \in SUBSET (0 .. m)
  <2>1. \A a \in P : a \in 0 .. m
    BY <1>1 DEF P
  <2> QED BY <2>1
<1>3. ASSUME NEW S \in SUBSET P, S # {}, \A x \in S : l[x] \in S
      PROVE  S = P
  <2>1. PICK g \in S : \A y \in S : y <= g
    BY <1>2, <1>3, GreatestIs
  <2>2. base \in S
    <3>1. l[g] \in S /\ l[g] <= g /\ g \in Nat /\ l[g] \in Nat
      BY <1>1, <1>3, <2>1
    <3>2. ~ (g < l[g])
      BY <3>1
    <3> QED BY <1>1, <3>1, <3>2
  <2> SUFFICES ASSUME P \ S # {} PROVE FALSE
    OBVIOUS
  <2> DEFINE x == Min(P \ S)
  <2>3. x \in P \ S /\ \A y \in P \ S : x <= y
    BY <1>1, MinIs
  <2> HIDE DEF x
  <2> DEFINE T == {y \in P : y < x}
  <2>4. base \in T
    BY <1>1, <2>2, <2>3
  <2>5. PICK g2 \in T : \A y \in T : y <= g2
    <3>1. T \in SUBSET (0 .. m)
      BY <1>2
    <3> HIDE DEF T
    <3> QED BY <2>4, <3>1, GreatestIs
  <2>6. /\ g2 \in P /\ g2 < x /\ g2 \in Nat /\ x \in Nat /\ l[g2] \in P /\ l[g2] \in Nat
    BY <1>1, <2>3
  <2>7. g2 \in S
    BY <2>3, <2>6
  <2>8. ~ (x <= g2)
    BY <2>6
  <2>9. g2 < l[g2] /\ l[g2] <= x
    BY <1>1, <2>3, <2>6, <2>8
  <2>10. l[g2] = x
    <3>1. ~ (l[g2] <= g2)
      BY <2>6, <2>9
    <3>2. ~ (l[g2] < x)
      BY <2>5, <2>6, <3>1
    <3> QED BY <2>6, <2>9, <3>2
  <2> QED BY <1>3, <2>3, <2>7, <2>10
<1> QED BY <1>1, <1>3 DEF Cycle, P

\* Nth follows the links.
LEMMA NthIs ==
  ASSUME NEW P, NEW l \in [P -> P], NEW x \in P
  PROVE  \E w \in [Nat -> P] : Walk(w, x, l) /\ \A k \in Nat : Nth(l, x, k) = w[k]
<1>1. PICK w \in [Nat -> P] : Walk(w, x, l)
  BY WalkExists
<1> DEFINE A(f) == f = [k \in Nat |-> IF k = 0 THEN x ELSE l[f[k - 1]]]
           at == CHOOSE f : A(f)
<1>2. \A k : Nth(l, x, k) = at[k]
  BY DEF Nth
<1>3. \A k \in Nat : w[k] = IF k = 0 THEN x ELSE l[w[k - 1]]
  <2> SUFFICES ASSUME NEW k \in Nat
               PROVE  w[k] = IF k = 0 THEN x ELSE l[w[k - 1]]
    OBVIOUS
  <2>1. CASE k = 0
    BY <1>1, <2>1 DEF Walk
  <2>2. CASE k # 0
    <3>1. k - 1 \in Nat /\ (k - 1) + 1 = k
      BY <2>2
    <3>2. w[(k - 1) + 1] = l[w[k - 1]]
      BY <1>1, <3>1 DEF Walk
    <3> QED BY <2>2, <3>1, <3>2
  <2> QED BY <2>1, <2>2
<1>4. A(w)
  BY <1>3
<1>5. A(at)
  <2> HIDE DEF A
  <2> QED BY <1>4
<1>6. \A k \in Nat : at[k] = w[k]
  <2> DEFINE T == {k \in Nat : at[k] = w[k]}
  <2> HIDE DEF at
  <2>1. \A k \in Nat : at[k] = IF k = 0 THEN x ELSE l[at[k - 1]]
    BY <1>5
  <2>2. 0 \in T
    BY <1>3, <2>1
  <2>3. ASSUME NEW k \in Nat, k \in T PROVE k + 1 \in T
    <3>1. k + 1 \in Nat /\ k + 1 # 0 /\ (k + 1) - 1 = k
      OBVIOUS
    <3> QED BY <1>3, <2>1, <2>3, <3>1
  <2>4. Nat \subseteq T
    <3> HIDE DEF T
    <3> QED BY <2>2, <2>3, NatSetInduction
  <2> QED BY <2>4
<1> HIDE DEF at
<1> QED BY <1>1, <1>2, <1>6

\* The steps from any header of the list meet all of them.
LEMMA StepsMeetAll ==
  ASSUME NEW l, NEW s, NEW U, NEW hi, Filled(l, s, U, hi), hi <= Heap + MaxUnits,
         NEW x \in DOMAIN l
  PROVE  /\ \A k \in Nat : Nth(l, x, k) \in DOMAIN l /\ Nth(l, x, k + 1) = l[Nth(l, x, k)]
         /\ {Nth(l, x, k) : k \in Steps} = DOMAIN l
<1> DEFINE P == DOMAIN l
<1>1. /\ MaxUnits \in Nat /\ Heap = 3 /\ hi \in Nat /\ base = 1
      /\ Listed(l) \subseteq Heap .. hi - 1 /\ base \in P /\ l \in [P -> P]
  BY UmallocAssumption DEF Filled, Tiles, SortedList, Heap, base
<1>2. PICK w \in [Nat -> P] : Walk(w, x, l) /\ \A k \in Nat : Nth(l, x, k) = w[k]
  <2>1. x \in P /\ l \in [P -> P]
    BY <1>1
  <2> HIDE DEF P
  <2> QED BY <2>1, NthIs
<1>3. \A k \in Nat : Nth(l, x, k) \in P /\ Nth(l, x, k + 1) = l[Nth(l, x, k)]
  BY <1>2 DEF Walk
<1>4. P = Listed(l) \cup {base} /\ base \notin Listed(l)
  BY <1>1 DEF Listed
<1>5. Cycle(P, l)
  <2>1. hi + 1 \in Nat /\ \A a \in DOMAIN l : a <= hi + 1
    BY <1>1, <1>4
  <2>2. SortedList(l)
    BY DEF Filled
  <2> QED BY <2>1, <2>2, SortedCycle
<1>6. IsFiniteSet(P) /\ Cardinality(P) <= MaxUnits + 1
  <2> DEFINE I == Heap .. hi - 1
  <2>1. IsFiniteSet(I) /\ Cardinality(I) <= MaxUnits
    <3>1. Heap \in Int /\ hi - 1 \in Int
      BY <1>1
    <3>2. IsFiniteSet(I) /\ Cardinality(I) = IF Heap > hi - 1 THEN 0 ELSE (hi - 1) - Heap + 1
      BY <3>1, FS_Interval
    <3> QED BY <1>1, <3>2
  <2> HIDE DEF I
  <2>2. IsFiniteSet(Listed(l)) /\ Cardinality(Listed(l)) <= Cardinality(I)
    BY <1>1, <2>1, FS_Subset DEF I
  <2>3. Cardinality(Listed(l)) \in Nat /\ Cardinality(I) \in Nat
    BY <2>1, <2>2, FS_CardinalityType
  <2>4. IsFiniteSet(P) /\ Cardinality(P) = Cardinality(Listed(l)) + 1
    <3> HIDE DEF P
    <3> QED BY <1>4, <2>2, FS_AddElement
  <2> QED BY <1>1, <2>1, <2>2, <2>3, <2>4
<1>7. {w[k] : k \in 0 .. (MaxUnits + 1) - 1} = P
  <2>1. MaxUnits + 1 \in Nat
    BY <1>1
  <2> HIDE DEF P
  <2> QED BY <1>2, <1>5, <1>6, <2>1, WalkCovers DEF P
<1>8. {Nth(l, x, k) : k \in Steps} = P
  <2>1. Steps = 0 .. (MaxUnits + 1) - 1
    BY <1>1 DEF Steps
  <2>2. \A k \in Steps : Nth(l, x, k) = w[k]
    BY <1>1, <1>2 DEF Steps
  <2> QED BY <1>7, <2>1, <2>2
<1> QED BY <1>3, <1>8

\* Block bp is not in the list.
Fresh(l, bp) == bp \in Nat /\ base < bp /\ bp \notin DOMAIN l

\* It belongs after header p.
Between(l, p, bp) ==
  /\ p \in DOMAIN l /\ p < bp /\ \A b \in DOMAIN l : b < bp => b <= p
  /\ l[p] = base \/ bp < l[p]
  /\ l[p] = base => \A b \in DOMAIN l : b <= p

\* That is where free() puts it.
LEMMA PlaceIs ==
  ASSUME NEW l, NEW s, NEW U, NEW hi, Filled(l, s, U, hi), hi <= Heap + MaxUnits,
         NEW from \in DOMAIN l, NEW bp, Fresh(l, bp)
  PROVE  Between(l, Place(l, from, bp), bp)
<1> DEFINE P == DOMAIN l
           here(p) == \/ bp > p /\ bp < l[p]
                      \/ p >= l[p] /\ (bp > p \/ bp < l[p])
           K == {k \in Steps : here(Nth(l, from, k))}
<1>0. bp \in Nat /\ base < bp /\ bp \notin DOMAIN l
  BY DEF Fresh
<1> USE <1>0
<1>1. /\ base \in P /\ P \subseteq Nat /\ l \in [P -> P] /\ \A a \in P : base <= a
      /\ \A a \in P : \/ l[a] = base /\ \A b \in P : b <= a
                      \/ a < l[a] /\ \A b \in P : a < b => l[a] <= b
  BY DEF SortedList, Filled
<1>2. Place(l, from, bp) = Nth(l, from, Min(K))
  BY DEF Place
<1>3. {Nth(l, from, k) : k \in Steps} = P
  BY StepsMeetAll
<1>4. \E p \in P : here(p)
  <2> DEFINE T == {y \in P : y < bp}
  <2>1. base \in T /\ T \in SUBSET (0 .. bp)
    BY <1>1
  <2>2. PICK p \in T : \A y \in T : y <= p
    <3> HIDE DEF T
    <3> QED BY <2>1, GreatestIs
  <2>3. p \in P /\ p < bp /\ p \in Nat /\ l[p] \in P /\ l[p] \in Nat
    BY <1>1
  <2>4. CASE p < l[p]
    <3>1. ~ (l[p] < bp)
      BY <2>2, <2>3, <2>4
    <3>2. l[p] # bp
      BY <2>3
    <3> QED BY <2>3, <3>1, <3>2
  <2>5. CASE ~ (p < l[p])
    BY <2>3, <2>5
  <2> QED BY <2>4, <2>5
<1> HIDE DEF here
<1>5. K # {} /\ K \in SUBSET Nat
  BY <1>3, <1>4, UmallocAssumption DEF Steps
<1>6. Min(K) \in K
  <2> HIDE DEF K
  <2> QED BY <1>5, MinIs
<1> DEFINE p == Place(l, from, bp)
<1>7. p \in P /\ here(p)
  <2> DEFINE k == Min(K)
  <2> HIDE DEF k
  <2>1. k \in Steps /\ here(Nth(l, from, k)) /\ p = Nth(l, from, k)
    BY <1>2, <1>6 DEF k
  <2> QED BY <1>3, <2>1
<1> HIDE DEF p
<1>8. p \in Nat /\ l[p] \in P /\ l[p] \in Nat
  BY <1>1, <1>7
<1>9. p < bp /\ (l[p] = base \/ bp < l[p])
  <2>1. CASE bp > p /\ bp < l[p]
    BY <1>8, <2>1
  <2>2. CASE p >= l[p] /\ (bp > p \/ bp < l[p])
    <3>1. ~ (p < l[p])
      BY <1>8, <2>2
    <3>2. l[p] = base
      BY <1>1, <1>7, <3>1
    <3> QED BY <1>8, <2>2, <3>2
  <2> QED BY <1>7, <2>1, <2>2 DEF here
<1>10. ASSUME NEW b \in P, b < bp PROVE b <= p
  <2>1. CASE l[p] = base /\ \A c \in P : c <= p
    BY <2>1
  <2>2. CASE p < l[p] /\ \A c \in P : p < c => l[p] <= c
    <3>1. bp < l[p]
      BY <1>1, <1>7, <1>8, <1>9, <2>2
    <3>2. b \in Nat /\ ~ (l[p] <= b)
      BY <1>1, <1>8, <1>10, <3>1
    <3>3. ~ (p < b)
      BY <2>2, <3>2
    <3> QED BY <1>8, <3>2, <3>3
  <2> QED BY <1>1, <1>7, <2>1, <2>2
<1>11. l[p] = base => \A b \in P : b <= p
  <2> SUFFICES ASSUME l[p] = base PROVE \A b \in P : b <= p
    OBVIOUS
  <2>1. ~ (p < l[p])
    BY <1>1, <1>7, <1>8
  <2> QED BY <1>1, <1>7, <2>1
<1> QED BY <1>7, <1>9, <1>10, <1>11 DEF Between, p

\* A header leaves the list ...
Unlinked(l, p) == Without([l EXCEPT ![p] = l[l[p]]], l[p])

LEMMA UnlinkSorted ==
  ASSUME NEW l, SortedList(l), NEW p \in DOMAIN l, l[p] # base
  PROVE  /\ SortedList(Unlinked(l, p)) /\ DOMAIN Unlinked(l, p) = DOMAIN l \ {l[p]}
         /\ p # l[p] /\ l[p] \in DOMAIN l
<1> DEFINE P == DOMAIN l
           q == l[p]
           m == Unlinked(l, p)
<1>1. /\ base \in P /\ P \subseteq Nat /\ l \in [P -> P] /\ \A a \in P : base <= a
      /\ \A a \in P : \/ l[a] = base /\ \A b \in P : b <= a
                      \/ a < l[a] /\ \A b \in P : a < b => l[a] <= b
  BY DEF SortedList
<1>2. p \in P /\ q \in P /\ p < q /\ \A b \in P : p < b => q <= b
  BY <1>1
<1>3. DOMAIN m = P \ {q} /\ \A a \in P \ {q} : m[a] = IF a = p THEN l[q] ELSE l[a]
  BY <1>1 DEF Unlinked, Without
<1>4. m \in [P \ {q} -> P \ {q}]
  <2>1. \A a \in P \ {q} : m[a] \in P \ {q}
    <3> SUFFICES ASSUME NEW a \in P \ {q} PROVE m[a] \in P \ {q}
      OBVIOUS
    <3>1. a \in Nat /\ q \in Nat /\ p \in Nat /\ l[a] \in P /\ l[q] \in P
      BY <1>1, <1>2
    <3>2. l[q] # q
      BY <1>1, <1>2
    <3>3. a # p => l[a] # q
      <4> SUFFICES ASSUME a # p, l[a] = q PROVE FALSE
        OBVIOUS
      <4>1. a < q /\ \A b \in P : a < b => q <= b
        BY <1>1
      <4>2. ~ (p < a) /\ ~ (a < p)
        <5>1. p < a => q <= a
          BY <1>2
        <5>2. a < p => q <= p
          BY <1>2, <4>1
        <5> QED BY <1>2, <3>1, <4>1, <5>1, <5>2
      <4> QED BY <3>1, <4>2
    <3> QED BY <1>3, <3>1, <3>2, <3>3
  <2>2. m = [a \in P \ {q} |-> m[a]]
    BY <1>3 DEF Unlinked, Without
  <2> HIDE DEF m
  <2> QED BY <2>1, <2>2
<1>5. ASSUME NEW a \in P \ {q}
      PROVE  \/ m[a] = base /\ \A b \in P \ {q} : b <= a
             \/ a < m[a] /\ \A b \in P \ {q} : a < b => m[a] <= b
  <2>1. CASE a = p
    <3>1. m[a] = l[q]
      BY <1>3, <2>1
    <3>2. CASE l[q] = base /\ \A b \in P : b <= q
      <4>1. ASSUME NEW b \in P \ {q} PROVE b <= p
        <5>1. b \in Nat /\ p \in Nat /\ q \in Nat
          BY <1>1, <1>2
        <5>2. p < b => q <= b
          BY <1>2
        <5>3. b <= q
          BY <3>2
        <5> QED BY <5>1, <5>2, <5>3
      <4> QED BY <2>1, <3>1, <3>2, <4>1
    <3>3. CASE q < l[q] /\ \A b \in P : q < b => l[q] <= b
      <4>1. l[q] \in Nat /\ p \in Nat /\ q \in Nat
        BY <1>1, <1>2
      <4>2. ASSUME NEW b \in P \ {q}, p < b PROVE l[q] <= b
        <5>1. q <= b /\ b # q /\ b \in Nat
          BY <1>1, <1>2, <4>2
        <5>2. q < b
          BY <4>1, <5>1
        <5> QED BY <3>3, <5>2
      <4>3. p < l[q]
        BY <1>2, <3>3, <4>1
      <4> QED BY <2>1, <3>1, <4>2, <4>3
    <3> QED BY <1>1, <1>2, <3>2, <3>3
  <2>2. CASE a # p
    <3>1. m[a] = l[a]
      BY <1>3, <2>2
    <3> QED BY <1>1, <3>1
  <2> QED BY <2>1, <2>2
<1>6. base \in P \ {q}
  BY <1>1
<1> HIDE DEF m
<1> QED BY <1>1, <1>2, <1>3, <1>4, <1>5, <1>6 DEF SortedList, m

\* ... or enters it.
Linked(l, p, bp) == [Extend(l, bp, l[p]) EXCEPT ![p] = bp]

\* m is the list l with header bp after p.
Joined(l, p, bp, m) ==
  SortedList(m) /\ DOMAIN m = DOMAIN l \cup {bp} /\ m[p] = bp /\ m[bp] = l[p]

LEMMA LinkSorted ==
  ASSUME NEW l, SortedList(l), NEW p, NEW bp, Fresh(l, bp), Between(l, p, bp)
  PROVE  Joined(l, p, bp, Linked(l, p, bp))
<1> DEFINE P == DOMAIN l
           m == Linked(l, p, bp)
<1>0. bp \in Nat /\ base < bp /\ bp \notin DOMAIN l
  BY DEF Fresh
<1> USE <1>0
<1>1. /\ base \in P /\ P \subseteq Nat /\ l \in [P -> P] /\ \A a \in P : base <= a
      /\ \A a \in P : \/ l[a] = base /\ \A b \in P : b <= a
                      \/ a < l[a] /\ \A b \in P : a < b => l[a] <= b
  BY DEF SortedList
<1>2. /\ p \in P /\ p < bp /\ p # bp /\ p \in Nat /\ l[p] \in P /\ l[p] \in Nat
      /\ \A b \in P : b < bp => b <= p
      /\ l[p] = base \/ bp < l[p]
      /\ l[p] = base => \A b \in P : b <= p
  BY <1>1 DEF Between
<1>3. /\ DOMAIN m = P \cup {bp} /\ m = [a \in P \cup {bp} |-> m[a]] /\ m[p] = bp /\ m[bp] = l[p]
      /\ \A a \in P \ {p} : m[a] = l[a]
  BY <1>1, <1>2 DEF Linked, Extend
<1> HIDE DEF m
<1>4. m \in [P \cup {bp} -> P \cup {bp}]
  <2>1. \A a \in P \cup {bp} : m[a] \in P \cup {bp}
    BY <1>1, <1>2, <1>3
  <2> QED BY <1>3, <2>1
<1>5. ASSUME NEW a \in P \cup {bp}
      PROVE  \/ m[a] = base /\ \A b \in P \cup {bp} : b <= a
             \/ a < m[a] /\ \A b \in P \cup {bp} : a < b => m[a] <= b
  <2>1. CASE a = p
    <3>1. ASSUME NEW b \in P \cup {bp}, p < b PROVE bp <= b
      <4>1. b \in Nat
        BY <1>1
      <4>2. b < bp => b <= p
        BY <1>2
      <4> QED BY <1>2, <3>1, <4>1, <4>2
    <3> QED BY <1>2, <1>3, <2>1, <3>1
  <2>2. CASE a = bp
    <3>1. CASE l[p] = base
      <4>1. \A b \in P : b <= bp
        BY <1>1, <1>2, <3>1
      <4> QED BY <1>3, <2>2, <3>1, <4>1
    <3>2. CASE l[p] # base
      <4>1. bp < l[p]
        BY <1>2, <3>2
      <4>2. ASSUME NEW b \in P \cup {bp}, bp < b PROVE l[p] <= b
        <5>1. b \in P /\ b \in Nat
          BY <1>1, <4>2
        <5>2. p < b
          BY <1>2, <4>2, <5>1
        <5> QED BY <1>1, <1>2, <3>2, <5>1, <5>2
      <4> QED BY <1>3, <2>2, <4>1, <4>2
    <3> QED BY <3>1, <3>2
  <2>3. CASE a \in P /\ a # p
    <3>1. m[a] = l[a] /\ a \in Nat /\ l[a] \in Nat
      BY <1>1, <1>3, <2>3
    <3>2. CASE l[a] = base /\ \A b \in P : b <= a
      <4>1. p <= a /\ p # a
        BY <1>2, <2>3, <3>2
      <4>2. bp <= a
        <5>1. a < bp => a <= p
          BY <1>2, <2>3
        <5> QED BY <1>2, <3>1, <4>1, <5>1
      <4> QED BY <3>1, <3>2, <4>2
    <3>3. CASE a < l[a] /\ \A b \in P : a < b => l[a] <= b
      <4>1. ASSUME a < bp PROVE l[a] <= bp
        <5>1. a <= p
          BY <1>2, <2>3, <4>1
        <5>2. a < p
          BY <1>2, <2>3, <3>1, <5>1
        <5>3. l[a] <= p
          BY <1>2, <3>3, <5>2
        <5> QED BY <1>2, <3>1, <5>3
      <4> QED BY <3>1, <3>3, <4>1
    <3> QED BY <1>1, <2>3, <3>2, <3>3
  <2> QED BY <2>1, <2>2, <2>3
<1>6. \A a \in P \cup {bp} : base <= a /\ a \in Nat
  BY <1>1 DEF base
<1>7. SortedList(m)
  BY <1>1, <1>3, <1>4, <1>5, <1>6 DEF SortedList
<1> QED BY <1>3, <1>7 DEF m, Joined
-----------------------------------------------------------------------------
(* free() and malloc()                                                      *)

\* The sizes when block a takes in block b.
Grown(s, a, b) == Without([s EXCEPT ![a] = @ + s[b]], b)

\* A block that does not touch the next one of the list touches none.
LEMMA ApartIs ==
  ASSUME NEW l, NEW s, NEW U, NEW hi, Filled(l, s, U, hi), NEW a \in Listed(l),
         a + s[a] # l[a]
  PROVE  a + s[a] \notin Listed(l)
<1> SUFFICES ASSUME a + s[a] \in Listed(l) PROVE FALSE
  OBVIOUS
<1> DEFINE y == a + s[a]
<1>1. /\ Tiles(Listed(l) \cup U, s, Heap, hi) /\ SortedList(l) /\ l[a] \in DOMAIN l
      /\ a \in DOMAIN l /\ y \in DOMAIN l /\ DOMAIN l \subseteq Nat
  BY DEF Filled, SortedList, Listed
<1>2. s[a] \in Nat \ {0} /\ a \in Nat /\ y \in Nat /\ a < y /\ l[a] \in Nat
  BY <1>1 DEF Tiles
<1>3. a < l[a] /\ l[a] <= y
  <2>1. ~ (y <= a)
    BY <1>2
  <2> HIDE DEF y
  <2> QED BY <1>1, <1>2, <2>1 DEF SortedList
<1>4. l[a] \in Listed(l)
  <2>1. base <= a
    BY <1>1 DEF SortedList
  <2> QED BY <1>1, <1>2, <1>3, <2>1 DEF Listed, base
<1>5. y <= l[a]
  BY <1>1, <1>3, <1>4 DEF Tiles
<1> QED BY <1>2, <1>3, <1>5

Touches(l, s, a) == l[a] # base /\ a + s[a] = l[a]

\* Header a takes in the next one of the list, which it touches.
LEMMA GrownOK ==
  ASSUME NEW l, NEW s, NEW U, NEW hi, NEW X, Filled(l, s, U, hi), Apart(l, s, X),
         NEW a \in Listed(l), l[a] \notin X, Touches(l, s, a)
  PROVE  /\ Filled(Unlinked(l, a), Grown(s, a, l[a]), U, hi)
         /\ Apart(Unlinked(l, a), Grown(s, a, l[a]), X \ {a})
         /\ \A u \in U : Grown(s, a, l[a])[u] = s[u]
         /\ DOMAIN Unlinked(l, a) = DOMAIN l \ {l[a]}
<1> DEFINE b == l[a]
           D == Listed(l) \cup U
           m == Unlinked(l, a)
           t == Grown(s, a, b)
<1>1. /\ Tiles(D, s, Heap, hi) /\ SortedList(l) /\ a \in DOMAIN l /\ a # base
      /\ base \notin U /\ Listed(l) \cap U = {} /\ base \in DOMAIN l
      /\ DOMAIN s = DOMAIN l \cup U /\ s[base] = 0 /\ b # base /\ a + s[a] = b
  BY DEF Filled, SortedList, Listed, Touches
<1>2. SortedList(m) /\ DOMAIN m = DOMAIN l \ {b} /\ a # b /\ b \in DOMAIN l
  BY <1>1, UnlinkSorted
<1>3. b \in Listed(l) /\ b # base /\ Listed(m) = Listed(l) \ {b} /\ b \notin U
  BY <1>1, <1>2 DEF Listed
<1>4. /\ DOMAIN t = DOMAIN m \cup U /\ t[a] = s[a] + s[b]
      /\ \A x \in (DOMAIN l \cup U) \ {a, b} : t[x] = s[x]
  <2> HIDE DEF b, m
  <2> QED BY <1>1, <1>2, <1>3 DEF Grown, Without
<1>5. Merges(D, s, a, b, t)
  <2> HIDE DEF t, m
  <2> QED BY <1>1, <1>3, <1>4 DEF Merges, Listed
<1>6. Tiles(D \ {b}, t, Heap, hi)
  <2> HIDE DEF D, b, t
  <2> QED BY <1>1, <1>5, TileMerge
<1>7. D \ {b} = Listed(m) \cup U
  BY <1>3
<1>8. t[base] = 0 /\ \A u \in U : t[u] = s[u]
  <2> HIDE DEF b, t, m
  <2> QED BY <1>1, <1>3, <1>4 DEF Listed
<1>9. Filled(m, t, U, hi)
  <2> HIDE DEF b, t, m, D
  <2> QED BY <1>1, <1>2, <1>3, <1>4, <1>6, <1>7, <1>8 DEF Filled
<1>10. Apart(m, t, X \ {a})
  <2> SUFFICES ASSUME NEW x \in Listed(m) \ (X \ {a}) PROVE x + t[x] \notin Listed(m)
    BY DEF Apart
  <2>1. CASE x = a
    <3>1. /\ a \in Nat /\ s[a] \in Nat /\ s[b] \in Nat /\ b \in Nat
      BY <1>1, <1>3 DEF Tiles
    <3>2. x + t[x] = b + s[b]
      BY <1>1, <1>4, <2>1, <3>1
    <3>3. b + s[b] \notin Listed(l)
      BY <1>3 DEF Apart
    <3> QED BY <1>3, <3>2, <3>3
  <2>2. CASE x # a
    <3>1. x \in Listed(l) \ X /\ x # b /\ x \in DOMAIN l
      BY <1>3, <2>2 DEF Listed
    <3>2. x + s[x] \notin Listed(l) /\ t[x] = s[x]
      BY <1>4, <2>2, <3>1 DEF Apart
    <3> QED BY <1>3, <3>2
  <2> QED BY <2>1, <2>2
<1> QED BY <1>2, <1>8, <1>9, <1>10

\* The end of free(): a block that is in use enters the list, and joins its neighbours.
LEMMA CoalescedOK ==
  ASSUME NEW l, NEW s, NEW U, NEW hi, NEW bp, bp \notin U, UheapOK(l, s, U \cup {bp}, hi),
         NEW p, Between(l, p, bp), NEW c, c = Coalesced(l, s, p, bp)
  PROVE  /\ UheapOK(c.ptr, c.size, U, hi) /\ p \in DOMAIN c.ptr
         /\ \A u \in U : c.size[u] = s[u]
<1> DEFINE q == l[p]
           up == bp + s[bp] = q
           l1 == IF up THEN Without(Extend(l, bp, l[q]), q) ELSE Extend(l, bp, q)
           s1 == IF up THEN Without([s EXCEPT ![bp] = @ + s[q]], q) ELSE s
           k == Linked(l, p, bp)
           l2 == IF up THEN Unlinked(k, bp) ELSE k
           low == p + s[p] = bp
<1>1. /\ SortedList(l) /\ base \notin U /\ bp # base /\ Listed(l) \cap (U \cup {bp}) = {}
      /\ DOMAIN s = DOMAIN l \cup U \cup {bp} /\ s[base] = 0
      /\ Tiles(Listed(l) \cup U \cup {bp}, s, Heap, hi)
      /\ \A a \in Listed(l) : a + s[a] \notin Listed(l)
      /\ base \in DOMAIN l /\ l \in [DOMAIN l -> DOMAIN l] /\ DOMAIN l \subseteq Nat
  <2>1. Listed(l) \cup (U \cup {bp}) = Listed(l) \cup U \cup {bp}
        /\ DOMAIN l \cup (U \cup {bp}) = DOMAIN l \cup U \cup {bp}
    OBVIOUS
  <2> QED BY <2>1 DEF UheapOK, Filled, Apart, SortedList
<1>2. bp \in Nat /\ Heap <= bp /\ base < bp /\ bp \notin DOMAIN l /\ s[bp] \in Nat \ {0}
  BY <1>1 DEF Tiles, Heap, base, Listed
<1>3. p \in DOMAIN l /\ p < bp /\ p # bp /\ q \in DOMAIN l /\ q # bp /\ p \in Nat /\ q \in Nat
      /\ (q = base \/ bp < q) /\ \A b \in DOMAIN l : b < bp => b <= p
  BY <1>1, <1>2 DEF Between
<1>4. /\ SortedList(k) /\ DOMAIN k = DOMAIN l \cup {bp} /\ k[p] = bp /\ k[bp] = q
      /\ Listed(k) = Listed(l) \cup {bp}
  <2>1. Joined(l, p, bp, Linked(l, p, bp))
    <3>1. SortedList(l) /\ Fresh(l, bp)
      BY <1>1, <1>2 DEF Fresh
    <3> QED BY <3>1, LinkSorted
  <2>2. k = Linked(l, p, bp) /\ q = l[p]
    OBVIOUS
  <2> HIDE DEF k, q
  <2> QED BY <1>1, <2>1, <2>2 DEF Listed, Joined
<1>5. Filled(k, s, U, hi)
  <2>1. Listed(k) \cup U = Listed(l) \cup U \cup {bp} /\ DOMAIN k \cup U = DOMAIN l \cup U \cup {bp}
        /\ Listed(k) \cap U = {}
    BY <1>1, <1>4
  <2> HIDE DEF k
  <2> QED BY <1>1, <1>4, <2>1 DEF Filled
<1>6. Apart(k, s, {p, bp})
  <2> SUFFICES ASSUME NEW a \in Listed(l), a # p, a + s[a] = bp PROVE FALSE
    BY <1>1, <1>4 DEF Apart
  <2>1. a \in Nat /\ s[a] \in Nat \ {0} /\ a \in DOMAIN l
    BY <1>1 DEF Tiles, Listed
  <2>2. a < p
    <3>1. a <= p
      BY <1>2, <1>3, <2>1
    <3> QED BY <1>3, <2>1, <3>1
  <2>3. p \in Listed(l)
    <3>1. base <= a
      BY <1>1, <2>1 DEF SortedList
    <3> QED BY <1>3, <2>1, <2>2, <3>1 DEF Listed, base
  <2>4. a + s[a] <= p
    BY <1>1, <2>2, <2>3 DEF Tiles
  <2> QED BY <1>2, <1>3, <2>4
<1>7. bp \in Listed(k)
  BY <1>4
<1>8. up => q # base /\ q \notin {p, bp} /\ q \in Listed(l)
  <2> SUFFICES ASSUME up PROVE q # base /\ q \notin {p, bp} /\ q \in Listed(l)
    OBVIOUS
  <2>1. q > bp
    BY <1>2, <1>3
  <2> QED BY <1>2, <1>3, <2>1 DEF Listed
<1>9. /\ Filled(l2, s1, U, hi) /\ Apart(l2, s1, {p}) /\ \A u \in U : s1[u] = s[u]
      /\ p \in DOMAIN l2 /\ l2[p] = bp
  <2>1. CASE up
    <3>1. s1 = Grown(s, bp, q)
      BY <2>1 DEF Grown
    <3>2. l2 = Unlinked(k, bp) /\ k[bp] # base /\ k[bp] \notin {p, bp} /\ bp + s[bp] = k[bp]
      BY <1>4, <1>8, <2>1
    <3>3. {p, bp} \ {bp} = {p}
      BY <1>3
    <3>4. l2[p] = bp /\ p \in DOMAIN l2
      <4>1. k[bp] # p /\ p \in DOMAIN k /\ bp # p
        BY <1>3, <1>4, <3>2
      <4> HIDE DEF k, l2, q, up
      <4> QED BY <1>4, <3>2, <4>1 DEF Unlinked, Without
    <3>5. s1 = Grown(s, bp, k[bp])
      BY <1>4, <3>1
    <3> DEFINE X == {p, bp}
    <3>6. Apart(k, s, X) /\ k[bp] \notin X /\ X \ {bp} = {p}
      BY <1>6, <3>2, <3>3
    <3> HIDE DEF X, k, l2, q, s1, up
    <3>8. /\ Filled(k, s, U, hi) /\ Apart(k, s, X) /\ bp \in Listed(k)
          /\ Touches(k, s, bp) /\ k[bp] \notin X
      BY <1>5, <1>7, <3>2, <3>6 DEF Touches
    <3>7. /\ Filled(Unlinked(k, bp), Grown(s, bp, k[bp]), U, hi)
          /\ Apart(Unlinked(k, bp), Grown(s, bp, k[bp]), X \ {bp})
          /\ \A u \in U : Grown(s, bp, k[bp])[u] = s[u]
          /\ DOMAIN Unlinked(k, bp) = DOMAIN k \ {k[bp]}
      BY <3>8, GrownOK
    <3> QED BY <3>2, <3>4, <3>5, <3>6, <3>7
  <2>2. CASE ~ up
    <3>1. l2 = k /\ s1 = s /\ bp + s[bp] # k[bp]
      BY <1>4, <2>2
    <3>2. bp + s[bp] \notin Listed(k)
      BY <1>4, <1>5, <1>7, <3>1, ApartIs
    <3> HIDE DEF k, l2, q, s1, up
    <3> QED BY <1>3, <1>4, <1>5, <1>6, <3>1, <3>2 DEF Apart
  <2> QED BY <2>1, <2>2
<1>10. s1[p] = s[p] /\ bp \in DOMAIN s1 /\ p \in DOMAIN s1
  BY <1>1, <1>2, <1>3, <1>8 DEF Without
<1>11. /\ [l1 EXCEPT ![p] = bp] = l2 /\ bp \in DOMAIN l1 /\ l1[bp] = l2[bp]
  <2>1. CASE up
    <3>1. q # p /\ q # bp /\ l1 = Without(Extend(l, bp, l[q]), q)
      BY <1>8, <2>1
    <3>2. l2 = Without([Linked(l, p, bp) EXCEPT ![bp] = Linked(l, p, bp)[q]], q)
      BY <1>4, <2>1 DEF Unlinked
    <3>3. Linked(l, p, bp)[q] = l[q]
      BY <1>3, <3>1 DEF Linked, Extend
    <3>4. l2 = Without([Linked(l, p, bp) EXCEPT ![bp] = l[q]], q)
      BY <3>2, <3>3
    <3> HIDE DEF l1, l2, q, up
    <3> DEFINE E == (DOMAIN l \cup {bp}) \ {q}
    <3>5. l1 = [x \in E |-> IF x = bp THEN l[q] ELSE l[x]]
      BY <3>1 DEF Without, Extend
    <3>6. Linked(l, p, bp) = [x \in DOMAIN l \cup {bp} |-> IF x = p THEN bp ELSE
                                                     IF x = bp THEN l[p] ELSE l[x]]
      BY DEF Linked, Extend
    <3>7. l2 = [x \in E |-> IF x = bp THEN l[q] ELSE IF x = p THEN bp ELSE l[x]]
      BY <3>4, <3>6 DEF Without
    <3>8. p \in E /\ bp \in E
      BY <1>3, <3>1
    <3> HIDE DEF E
    <3>9. [l1 EXCEPT ![p] = bp] = l2
      BY <1>3, <3>5, <3>7, <3>8
    <3> QED BY <3>5, <3>7, <3>8, <3>9
  <2>2. CASE ~ up
    BY <1>2, <1>3, <2>2 DEF Linked, Extend
  <2> QED BY <2>1, <2>2
<1>12. c = IF low THEN [ptr |-> Without([l1 EXCEPT ![p] = l1[bp]], bp),
                        size |-> Without([s1 EXCEPT ![p] = @ + s1[bp]], bp)]
           ELSE [ptr |-> [l1 EXCEPT ![p] = bp], size |-> s1]
  BY DEF Coalesced
<1>13. p \in Listed(l2) \/ p = base
  BY <1>9 DEF Listed
<1>14. CASE low
  <2>1. p # base /\ p \in Listed(l2)
    BY <1>1, <1>2, <1>13, <1>14 DEF base, Heap
  <2>2. c.size = Grown(s1, p, l2[p])
    <3>1. c.size = Without([s1 EXCEPT ![p] = @ + s1[bp]], bp)
      BY <1>12, <1>14
    <3> HIDE DEF l2, s1
    <3> QED BY <1>9, <3>1 DEF Grown
  <2>3. c.ptr = Unlinked(l2, p)
    <3>1. c.ptr = Without([l1 EXCEPT ![p] = l1[bp]], bp)
      BY <1>12, <1>14
    <3> HIDE DEF l1, l2
    <3>2. [l1 EXCEPT ![p] = l1[bp]] = [l2 EXCEPT ![p] = l2[bp]]
      <4>1. [[l1 EXCEPT ![p] = bp] EXCEPT ![p] = l1[bp]] = [l1 EXCEPT ![p] = l1[bp]]
        OBVIOUS
      <4> QED BY <1>11, <4>1
    <3> QED BY <1>9, <3>1, <3>2 DEF Unlinked
  <2>4. Touches(l2, s1, p) /\ l2[p] \notin {p}
    BY <1>1, <1>3, <1>9, <1>10, <1>14 DEF Touches
  <2>5. {p} \ {p} = {}
    OBVIOUS
  <2> HIDE DEF l2, s1, low
  <2>6. /\ Filled(Unlinked(l2, p), Grown(s1, p, l2[p]), U, hi)
        /\ Apart(Unlinked(l2, p), Grown(s1, p, l2[p]), {p} \ {p})
        /\ \A u \in U : Grown(s1, p, l2[p])[u] = s1[u]
        /\ DOMAIN Unlinked(l2, p) = DOMAIN l2 \ {l2[p]}
    BY <1>9, <2>1, <2>4, GrownOK
  <2> QED BY <1>3, <1>9, <2>2, <2>3, <2>5, <2>6 DEF UheapOK
<1>15. CASE ~ low
  <2>1. c.ptr = l2 /\ c.size = s1
    BY <1>11, <1>12, <1>15
  <2>2. p + s1[p] # l2[p]
    BY <1>9, <1>10, <1>15
  <2> HIDE DEF l2, s1, low
  <2>3. p \in Listed(l2) => p + s1[p] \notin Listed(l2)
    BY <1>9, <2>2, ApartIs
  <2>4. Apart(l2, s1, {})
    BY <1>9, <2>3 DEF Apart
  <2> QED BY <1>9, <2>1, <2>4 DEF UheapOK
<1> QED BY <1>14, <1>15

Room(hi, k) == Heap <= hi /\ k \in Nat \ {0}
Given(l, s, U, hi, k) ==
  /\ UheapOK(l, Extend(s, hi, k), U \cup {hi}, hi + k) /\ hi \notin U
  /\ \A u \in U : Extend(s, hi, k)[u] = s[u]

\* A block of size k is put at the end of the heap, in use.
LEMMA GivenOK ==
  ASSUME NEW l, NEW s, NEW U, NEW hi, UheapOK(l, s, U, hi), NEW k, Room(hi, k)
  PROVE  Given(l, s, U, hi, k)
<1>0. Heap <= hi /\ k \in Nat \ {0}
  BY DEF Room
<1> USE <1>0
<1> DEFINE D == Listed(l) \cup U
           t == Extend(s, hi, k)
<1>1. /\ SortedList(l) /\ base \notin U /\ Listed(l) \cap U = {} /\ base \in DOMAIN l
      /\ DOMAIN s = DOMAIN l \cup U /\ s[base] = 0 /\ Tiles(D, s, Heap, hi)
      /\ \A a \in Listed(l) : a + s[a] \notin Listed(l)
  BY DEF UheapOK, Filled, Apart, SortedList
<1>2. hi \notin D /\ hi \in Nat /\ hi # base /\ hi \notin DOMAIN l
  <2>1. hi \notin D /\ hi \in Nat
    BY <1>1 DEF Tiles
  <2>2. hi # base
    BY <2>1 DEF base, Heap
  <2> QED BY <2>1, <2>2 DEF Listed
<1>3. DOMAIN t = DOMAIN l \cup (U \cup {hi}) /\ t[hi] = k /\ \A a \in DOMAIN l \cup U : t[a] = s[a]
  BY <1>1, <1>2 DEF Extend
<1> HIDE DEF t
<1>4. Tiles(D \cup {hi}, t, Heap, hi + k)
  <2>1. \A a \in D : t[a] = s[a]
    BY <1>3 DEF Listed
  <2> HIDE DEF D
  <2> QED BY <1>1, <1>3, <2>1, TileExtend
<1>5. D \cup {hi} = Listed(l) \cup (U \cup {hi})
  OBVIOUS
<1>6. Filled(l, t, U \cup {hi}, hi + k)
  <2>1. Listed(l) \cap (U \cup {hi}) = {} /\ base \notin U \cup {hi} /\ t[base] = 0
    BY <1>1, <1>2, <1>3
  <2> QED BY <1>1, <1>3, <1>4, <1>5, <2>1 DEF Filled
<1>7. Apart(l, t, {})
  BY <1>1, <1>3 DEF Apart, Listed
<1> QED BY <1>2, <1>3, <1>6, <1>7 DEF UheapOK, t, Given

\* A block of the list, or its last units, are taken.
LEMMA TakeOK ==
  ASSUME NEW l, NEW s, NEW hi, UheapOK(l, s, DOMAIN umemory, hi),
         \A a \in DOMAIN umemory : s[a] = umemory[a],
         NEW prevp \in DOMAIN l, NEW n \in Units, s[l[prevp]] >= n, Take(l, s, prevp, n)
  PROVE  /\ UheapOK(ptr, size, DOMAIN umemory, hi)'
         /\ (\A a \in DOMAIN umemory : size[a] = umemory[a])'
         /\ freep' \in DOMAIN ptr' /\ freep' # Null
<1> DEFINE U == DOMAIN umemory
           p == l[prevp]
           new == IF s[p] = n THEN p ELSE p + s[p] - n
           D == Listed(l) \cup U
<1>1. /\ SortedList(l) /\ base \notin U /\ Listed(l) \cap U = {} /\ base \in DOMAIN l
      /\ DOMAIN s = DOMAIN l \cup U /\ s[base] = 0 /\ Tiles(D, s, Heap, hi)
      /\ \A a \in Listed(l) : a + s[a] \notin Listed(l)
      /\ prevp \in Nat /\ base <= prevp /\ p \in DOMAIN l
  BY DEF UheapOK, Filled, Apart, SortedList
<1>2. n \in Nat /\ 2 <= n
  BY UmallocAssumption
<1>3. p # base /\ p \in Listed(l) /\ prevp # Null
  <2>1. p # base
    <3> SUFFICES ASSUME p = base PROVE FALSE
      OBVIOUS
    <3>1. 0 >= n
      BY <1>1
    <3> QED BY <1>2, <3>1
  <2>2. prevp # Null
    BY <1>1 DEF base, Null
  <2> QED BY <1>1, <2>1, <2>2 DEF Listed
<1>4. p \in Nat /\ s[p] \in Nat \ {0} /\ p \in D /\ p + s[p] <= hi /\ hi \in Nat
  BY <1>1, <1>3 DEF Tiles
<1>5. /\ ptr' = IF s[p] = n THEN Unlinked(l, prevp) ELSE l
      /\ size' = Extend([s EXCEPT ![p] = @ - n], new, n)
      /\ freep' = prevp
      /\ umemory' = Extend(umemory, new, n)
  BY DEF Take, Unlinked
<1>6. CASE s[p] = n
  <2>1. new = p /\ ptr' = Unlinked(l, prevp)
    BY <1>5, <1>6
  <2>2. SortedList(ptr') /\ DOMAIN ptr' = DOMAIN l \ {p} /\ prevp # p
    BY <1>1, <1>3, <2>1, UnlinkSorted
  <2>3. DOMAIN size' = DOMAIN s /\ \A a \in DOMAIN s : size'[a] = s[a]
    <3>1. p \in DOMAIN s
      BY <1>1
    <3> QED BY <1>5, <1>6, <2>1, <3>1 DEF Extend
  <2>4. DOMAIN umemory' = U \cup {p}
        /\ \A a \in U \cup {p} : umemory'[a] = IF a = p THEN n ELSE umemory[a]
    BY <1>5, <2>1 DEF Extend
  <2>5. Listed(ptr') = Listed(l) \ {p} /\ Listed(ptr') \cup DOMAIN umemory' = D
    BY <1>3, <2>2, <2>4 DEF Listed
  <2>6. Tiles(D, size', Heap, hi)
    <3>1. \A a \in D : size'[a] = s[a]
      BY <1>1, <2>3 DEF Listed
    <3> HIDE DEF D
    <3> QED BY <1>1, <3>1, TileSame
  <2>7. Filled(ptr', size', DOMAIN umemory', hi)
    <3>1. /\ base \notin DOMAIN umemory' /\ Listed(ptr') \cap DOMAIN umemory' = {}
          /\ DOMAIN size' = DOMAIN ptr' \cup DOMAIN umemory' /\ size'[base] = 0
      <4> HIDE DEF p, D, U
      <4> QED BY <1>1, <1>3, <2>2, <2>3, <2>4, <2>5
    <3> QED BY <2>2, <2>5, <2>6, <3>1 DEF Filled
  <2>8. Apart(ptr', size', {})
    <3>1. \A a \in Listed(ptr') : a \in Listed(l) /\ size'[a] = s[a]
      BY <1>1, <2>3, <2>5 DEF Listed
    <3> QED BY <1>1, <2>5, <3>1 DEF Apart
  <2>9. \A a \in DOMAIN umemory' : size'[a] = umemory'[a]
    <3>1. \A a \in U \cup {p} : size'[a] = s[a]
      BY <1>1, <2>3
    <3> QED BY <1>6, <2>4, <3>1
  <2>10. freep' \in DOMAIN ptr'
    BY <1>5, <2>2
  <2> QED BY <1>3, <1>5, <2>7, <2>8, <2>9, <2>10 DEF UheapOK
<1>7. CASE s[p] # n
  <2>1. ptr' = l /\ new = p + s[p] - n /\ n < s[p] /\ new \in Nat /\ p < new /\ new < p + s[p]
    BY <1>2, <1>4, <1>5, <1>7
  <2>2. new = p + (s[p] - n)
    BY <1>2, <1>4, <2>1
  <2> HIDE DEF new, p
  <2>3. new \notin D /\ new # base
    <3>1. new \notin D
      <4> SUFFICES ASSUME new \in D PROVE FALSE
        OBVIOUS
      <4>1. p + s[p] <= new
        BY <1>1, <1>4, <2>1 DEF Tiles
      <4> QED BY <1>4, <2>1, <4>1
    <3>2. base <= p
      BY <1>1 DEF SortedList
    <3> QED BY <1>4, <2>1, <3>1, <3>2 DEF base
  <2>4. /\ DOMAIN size' = DOMAIN s \cup {new} /\ size'[p] = s[p] - n /\ size'[new] = n
        /\ \A a \in DOMAIN s \ {p, new} : size'[a] = s[a]
    <3>1. p \in DOMAIN s /\ p # new
      BY <1>1, <1>4, <2>3
    <3> QED BY <1>5, <3>1 DEF Extend
  <2>5. DOMAIN umemory' = U \cup {new}
        /\ \A a \in U \cup {new} : umemory'[a] = IF a = new THEN n ELSE umemory[a]
    BY <1>5 DEF Extend
  <2>6. Tiles(D \cup {new}, size', Heap, hi)
    <3>1. Splits(D, s, p, n, new, size')
      <4>1. \A a \in D \ {p} : size'[a] = s[a]
        BY <1>1, <2>3, <2>4 DEF Listed
      <4>2. n \in Nat \ {0}
        BY <1>2
      <4> QED BY <1>4, <2>1, <2>2, <2>4, <4>1, <4>2 DEF Splits
    <3> HIDE DEF D
    <3> QED BY <1>1, <3>1, TileSplit
  <2>7. Listed(ptr') = Listed(l) /\ Listed(ptr') \cup DOMAIN umemory' = D \cup {new}
    BY <2>1, <2>5
  <2>8. Filled(ptr', size', DOMAIN umemory', hi)
    <3>1. /\ base \notin DOMAIN umemory' /\ Listed(ptr') \cap DOMAIN umemory' = {}
          /\ DOMAIN size' = DOMAIN ptr' \cup DOMAIN umemory' /\ size'[base] = 0
      <4>1. base \in DOMAIN s \ {p, new}
        BY <1>1, <1>3, <2>3
      <4>2. base \notin DOMAIN umemory'
        BY <1>1, <2>3, <2>5
      <4>3. Listed(ptr') \cap DOMAIN umemory' = {}
        BY <1>1, <2>3, <2>5, <2>7
      <4>4. DOMAIN size' = DOMAIN ptr' \cup DOMAIN umemory'
        BY <1>1, <2>1, <2>4, <2>5
      <4> QED BY <1>1, <2>4, <4>1, <4>2, <4>3, <4>4
    <3> QED BY <1>1, <2>1, <2>6, <2>7, <3>1 DEF Filled
  <2>9. Apart(ptr', size', {})
    <3> SUFFICES ASSUME NEW a \in Listed(l) PROVE a + size'[a] \notin Listed(l)
      BY <2>1 DEF Apart
    <3>1. CASE a = p
      <4>1. a + size'[a] = new
        BY <2>2, <2>4, <3>1
      <4> QED BY <2>3, <4>1
    <3>2. CASE a # p
      <4>1. size'[a] = s[a]
        BY <1>1, <2>3, <2>4, <3>2 DEF Listed
      <4> QED BY <1>1, <4>1
    <3> QED BY <3>1, <3>2
  <2>10. \A a \in DOMAIN umemory' : size'[a] = umemory'[a]
    <3>1. \A a \in U : a \in DOMAIN s \ {p, new}
      BY <1>1, <1>3, <2>3
    <3> QED BY <2>4, <2>5, <3>1
  <2>11. freep' \in DOMAIN ptr'
    BY <1>5, <2>1
  <2> QED BY <1>3, <1>5, <2>8, <2>9, <2>10, <2>11 DEF UheapOK
<1> QED BY <1>6, <1>7

\* The search of malloc() finds a header of the list, before a block that is large enough.
LEMMA BeforeIs ==
  ASSUME NEW l, NEW s, NEW U, NEW hi, Filled(l, s, U, hi), hi <= Heap + MaxUnits,
         NEW f \in DOMAIN l, NEW n, NEW p \in Before(l, s, f, n)
  PROVE  p \in DOMAIN l /\ s[l[p]] >= n
<1> DEFINE fit == {k \in Steps : s[Nth(l, f, k + 1)] >= n}
<1>1. fit # {} /\ p = Nth(l, f, Min(fit))
  BY DEF Before
<1>2. fit \in SUBSET Nat
  BY UmallocAssumption DEF Steps
<1>3. Min(fit) \in fit
  <2> HIDE DEF fit
  <2> QED BY <1>1, <1>2, MinIs
<1> DEFINE k == Min(fit)
<1> HIDE DEF k
<1>4. k \in Nat /\ s[Nth(l, f, k + 1)] >= n /\ p = Nth(l, f, k)
  BY <1>1, <1>2, <1>3 DEF k
<1> QED BY <1>4, StepsMeetAll

\* A block in use that is freed is put where it belongs, and joins its neighbours.
LEMMA FreedOK ==
  ASSUME NEW l, NEW s, NEW U, NEW hi, NEW bp, bp \notin U, UheapOK(l, s, U \cup {bp}, hi),
         hi <= Heap + MaxUnits, NEW f \in DOMAIN l, NEW p, p = Place(l, f, bp),
         NEW c, c = Coalesced(l, s, p, bp)
  PROVE  /\ UheapOK(c.ptr, c.size, U, hi) /\ p \in DOMAIN c.ptr
         /\ \A u \in U : c.size[u] = s[u]
<1>1. Filled(l, s, U \cup {bp}, hi)
  BY DEF UheapOK
<1>2. Fresh(l, bp)
  <2>1. /\ bp \in U \cup {bp} /\ Listed(l) \cap (U \cup {bp}) = {} /\ base \notin U \cup {bp}
        /\ Tiles(Listed(l) \cup (U \cup {bp}), s, Heap, hi)
    BY <1>1 DEF Filled
  <2>2. bp \in Nat /\ Heap <= bp
    BY <2>1 DEF Tiles
  <2>3. bp # base /\ bp \notin DOMAIN l
    BY <2>1 DEF Listed
  <2> QED BY <2>2, <2>3 DEF Fresh, base, Heap
<1>3. Between(l, p, bp)
  BY <1>1, <1>2, PlaceIs
<1> QED BY <1>3, CoalescedOK

\* free() keeps the invariant.
LEMMA FreeOK ==
  ASSUME UheapInv, NEW bp, free(bp)
  PROVE  UheapInv'
<1> DEFINE U == DOMAIN umemory \ {bp}
           p == Place(ptr, freep, bp)
           c == Coalesced(ptr, size, p, bp)
<1>1. /\ bp \in DOMAIN umemory /\ ptr' = c.ptr /\ size' = c.size /\ freep' = p
      /\ umemory' = Without(umemory, bp) /\ brk' = brk
  BY DEF free
<1>2. freep # Null
  <2>1. umemory # [h \in {} |-> 0]
    BY <1>1
  <2> QED BY <2>1 DEF UheapInv
<1>3. /\ brk \in 0 .. MaxUnits /\ freep \in DOMAIN ptr
      /\ UheapOK(ptr, size, DOMAIN umemory, Heap + brk)
      /\ \A a \in DOMAIN umemory : size[a] = umemory[a]
  BY <1>2 DEF UheapInv
<1>4. U \cup {bp} = DOMAIN umemory /\ bp \notin U
  BY <1>1
<1>5. Heap + brk <= Heap + MaxUnits
  BY <1>3, UmallocAssumption DEF Heap
<1>6. DOMAIN umemory' = U /\ \A a \in U : umemory'[a] = umemory[a]
  BY <1>1 DEF Without
<1> HIDE DEF U, p, c
<1>7. /\ UheapOK(c.ptr, c.size, U, Heap + brk) /\ p \in DOMAIN c.ptr
      /\ \A u \in U : c.size[u] = size[u]
  <2>1. UheapOK(ptr, size, U \cup {bp}, Heap + brk)
    BY <1>3, <1>4
  <2>2. p = Place(ptr, freep, bp) /\ c = Coalesced(ptr, size, p, bp)
    BY DEF p, c
  <2> QED BY <1>3, <1>4, <1>5, <2>1, <2>2, FreedOK
<1>8. p # Null
  <2>1. SortedList(c.ptr)
    BY <1>7 DEF UheapOK, Filled
  <2> QED BY <1>7, <2>1 DEF SortedList, base, Null
<1>9. \A a \in U : size'[a] = umemory'[a]
  BY <1>1, <1>3, <1>4, <1>6, <1>7
<1> QED BY <1>1, <1>3, <1>6, <1>7, <1>8, <1>9 DEF UheapInv

\* malloc() keeps it, from a list and sizes that satisfy it.
LEMMA MallocOK ==
  ASSUME NEW l, NEW s, brk \in 0 .. MaxUnits, UheapOK(l, s, DOMAIN umemory, Heap + brk),
         \A a \in DOMAIN umemory : s[a] = umemory[a], NEW f \in DOMAIN l,
         NEW n \in Units, Malloc(l, s, f, n)
  PROVE  UheapInv'
<1> DEFINE k == IF n < NALLOC THEN NALLOC ELSE n
           new == Heap + brk
           t == Extend(s, new, k)
           p == Place(l, f, new)
           c == Coalesced(l, t, p, new)
           U == DOMAIN umemory
<1>1. /\ n \in Nat /\ k \in Nat \ {0} /\ MaxUnits \in Nat /\ brk \in Nat /\ Heap = 3
      /\ new <= Heap + MaxUnits /\ Heap <= new /\ new \in Nat
  BY UmallocAssumption DEF Heap
<1>2. CASE \E q \in Before(l, s, f, n) : Take(l, s, q, n) /\ brk' = brk
  <2>1. PICK q \in Before(l, s, f, n) : Take(l, s, q, n) /\ brk' = brk
    BY <1>2
  <2>2. Filled(l, s, U, new)
    BY DEF UheapOK
  <2> HIDE DEF new
  <2>3. q \in DOMAIN l /\ s[l[q]] >= n
    BY <1>1, <2>1, <2>2, BeforeIs
  <2>4. /\ UheapOK(ptr, size, DOMAIN umemory, new)'
        /\ (\A a \in DOMAIN umemory : size[a] = umemory[a])'
        /\ freep' \in DOMAIN ptr' /\ freep' # Null
    <3>1. UheapOK(l, s, DOMAIN umemory, Heap + brk)
      OBVIOUS
    <3> QED BY <2>1, <2>3, <3>1, TakeOK DEF new
  <2> QED BY <1>1, <2>1, <2>4 DEF UheapInv, new
<1>3. CASE /\ brk + k <= MaxUnits /\ brk' = brk + k
           /\ \E q \in Before(c.ptr, c.size, p, n) : Take(c.ptr, c.size, q, n)
  <2>1. PICK q \in Before(c.ptr, c.size, p, n) : Take(c.ptr, c.size, q, n)
    BY <1>3
  <2>2. new + k = Heap + (brk + k) /\ new + k <= Heap + MaxUnits /\ brk + k \in 0 .. MaxUnits
    BY <1>1, <1>3
  <2> HIDE DEF k, new
  <2>3. UheapOK(l, s, U, new)
    BY DEF new
  <2>4. /\ UheapOK(l, t, U \cup {new}, new + k) /\ new \notin U /\ \A u \in U : t[u] = s[u]
    <3>1. Room(new, k)
      BY <1>1 DEF Room
    <3> HIDE DEF U
    <3>2. Given(l, s, U, new, k)
      BY <2>3, <3>1, GivenOK
    <3> QED BY <3>2 DEF Given
  <2> HIDE DEF t, p, c
  <2>5. /\ UheapOK(c.ptr, c.size, U, new + k) /\ p \in DOMAIN c.ptr
        /\ \A u \in U : c.size[u] = t[u]
    <3>1. p = Place(l, f, new) /\ c = Coalesced(l, t, p, new)
      BY DEF p, c
    <3> HIDE DEF U
    <3> QED BY <2>2, <2>4, <3>1, FreedOK
  <2>6. \A a \in DOMAIN umemory : c.size[a] = umemory[a]
    BY <2>4, <2>5
  <2>7. q \in DOMAIN c.ptr /\ c.size[c.ptr[q]] >= n
    <3>1. Filled(c.ptr, c.size, U, new + k)
      BY <2>5 DEF UheapOK
    <3> HIDE DEF U
    <3> QED BY <2>1, <2>2, <2>5, <3>1, BeforeIs
  <2>8. /\ UheapOK(ptr', size', DOMAIN umemory', new + k)
        /\ (\A a \in DOMAIN umemory : size[a] = umemory[a])'
        /\ freep' \in DOMAIN ptr' /\ freep' # Null
    BY <2>1, <2>5, <2>6, <2>7, TakeOK
  <2> QED BY <1>3, <2>2, <2>8 DEF UheapInv
<1> QED BY <1>2, <1>3 DEF Malloc, morecore

\* Every step keeps the invariant.
LEMMA UheapStep ==
  ASSUME UheapInv, [UheapNext]_uheapvars
  PROVE  UheapInv'
<1>1. ASSUME NEW n \in Units, malloc(n)
      PROVE  UheapInv'
  <2>1. CASE freep = Null
    <3> DEFINE l == [h \in {base} |-> base]
               s == [h \in {base} |-> 0]
    <3>1. brk = 0 /\ DOMAIN umemory = {} /\ brk \in 0 .. MaxUnits /\ Malloc(l, s, base, n)
      BY <1>1, <2>1 DEF UheapInv, malloc
    <3>2. DOMAIN l = {base} /\ l[base] = base /\ Listed(l) = {} /\ DOMAIN s = {base} /\ s[base] = 0
      BY DEF Listed
    <3>3. SortedList(l)
      <4>1. l \in [{base} -> {base}] /\ {base} \subseteq Nat /\ base <= base
        BY DEF base
      <4> HIDE DEF l
      <4> QED BY <3>2, <4>1 DEF SortedList
    <3>4. Tiles(Listed(l) \cup DOMAIN umemory, s, Heap, Heap + brk)
      <4>1. Listed(l) \cup DOMAIN umemory = {} /\ Heap + brk = Heap /\ Heap \in Nat
        BY <3>1, <3>2 DEF Heap
      <4>2. {a + s[a] : a \in {}} = {}
        OBVIOUS
      <4> HIDE DEF l, s
      <4> QED BY <4>1, <4>2 DEF Tiles
    <3>5. UheapOK(l, s, DOMAIN umemory, Heap + brk)
      <4> HIDE DEF l, s
      <4> QED BY <3>1, <3>2, <3>3, <3>4 DEF UheapOK, Filled, Apart
    <3> HIDE DEF l, s
    <3> QED BY <3>1, <3>2, <3>5, MallocOK
  <2>2. CASE freep # Null
    <3>1. /\ brk \in 0 .. MaxUnits /\ freep \in DOMAIN ptr
          /\ UheapOK(ptr, size, DOMAIN umemory, Heap + brk)
          /\ \A a \in DOMAIN umemory : size[a] = umemory[a]
      BY <2>2 DEF UheapInv
    <3>2. Malloc(ptr, size, freep, n)
      BY <1>1, <2>2 DEF malloc
    <3> QED BY <3>1, <3>2, MallocOK
  <2> QED BY <2>1, <2>2
<1>2. CASE UNCHANGED uheapvars
  <2>1. ptr' = ptr /\ size' = size /\ freep' = freep /\ brk' = brk /\ umemory' = umemory
    BY <1>2 DEF uheapvars
  <2> QED BY <2>1 DEF UheapInv
<1> QED BY <1>1, <1>2, FreeOK DEF UheapNext

\* The invariant implies what the run checks.
LEMMA UheapInvSound ==
  ASSUME UheapInv
  PROVE  UheapSound
<1> SUFFICES ASSUME freep # Null PROVE UheapSound
  BY DEF UheapSound
<1> DEFINE L == Listed(ptr)
           U == DOMAIN umemory
           hi == Heap + brk
           Cellset(a) == a .. a + size[a] - 1
<1>1. /\ brk \in 0 .. MaxUnits /\ freep \in DOMAIN ptr /\ UheapOK(ptr, size, U, hi)
      /\ \A a \in U : size[a] = umemory[a]
  BY DEF UheapInv
<1>2. SortedList(ptr) /\ L \cap U = {} /\ Tiles(L \cup U, size, Heap, hi) /\ Apart(ptr, size, {})
  BY <1>1 DEF UheapOK, Filled
<1>3. \A a \in L \cup U : a \in Nat /\ size[a] \in Nat \ {0} /\ Heap <= a /\ a + size[a] <= hi
  BY <1>2 DEF Tiles
<1>4. Heap \in Nat /\ hi \in Nat
  BY <1>2 DEF Tiles
<1> HIDE DEF L, U, hi
<1>5. ASSUME NEW a \in L \cup U, NEW b \in L \cup U, a # b
      PROVE  Cellset(a) \cap Cellset(b) = {}
  <2>1. a + size[a] <= b \/ b + size[b] <= a
    BY <1>2, <1>3, <1>5 DEF Tiles
  <2> QED BY <1>3, <2>1
<1>6. UNION {Cellset(a) : a \in L \cup U} = Heap .. hi - 1
  <2>1. \A x \in Heap .. hi - 1 : \E a \in L \cup U : x \in Cellset(a)
    BY <1>2, Covered
  <2>2. \A a \in L \cup U : Cellset(a) \subseteq Heap .. hi - 1
    BY <1>3, <1>4
  <2> HIDE DEF Cellset
  <2> QED BY <2>1, <2>2
<1>7. ASSUME NEW a \in DOMAIN ptr
      PROVE  ptr[a] = LET above == {b \in DOMAIN ptr : b > a} IN
                      IF above = {} THEN base ELSE Min(above)
  <2> DEFINE above == {b \in DOMAIN ptr : b > a}
  <2>1. /\ a \in Nat /\ ptr[a] \in DOMAIN ptr /\ DOMAIN ptr \subseteq Nat
        /\ \/ ptr[a] = base /\ \A b \in DOMAIN ptr : b <= a
           \/ a < ptr[a] /\ \A b \in DOMAIN ptr : a < b => ptr[a] <= b
    BY <1>2 DEF SortedList
  <2>2. CASE ptr[a] = base /\ \A b \in DOMAIN ptr : b <= a
    <3>1. above = {}
      <4>1. \A b \in DOMAIN ptr : ~ (b > a)
        BY <2>1, <2>2
      <4> QED BY <4>1
    <3> QED BY <2>2, <3>1
  <2>3. CASE a < ptr[a] /\ \A b \in DOMAIN ptr : a < b => ptr[a] <= b
    <3>1. ptr[a] \in above /\ above \in SUBSET Nat
      BY <2>1, <2>3
    <3>2. \A b \in above : ptr[a] <= b /\ b \in Nat
      BY <2>1, <2>3
    <3> HIDE DEF above
    <3>3. Min(above) \in above /\ \A b \in above : Min(above) <= b
      BY <3>1, MinIs
    <3>4. ptr[a] <= Min(above) /\ Min(above) <= ptr[a] /\ Min(above) \in Nat
      BY <3>1, <3>2, <3>3
    <3>5. ptr[a] = Min(above)
      BY <2>1, <3>4
    <3> QED BY <3>1, <3>5 DEF above
  <2> QED BY <2>1, <2>2, <2>3
<1>8. \A a \in L : a + size[a] \notin L
  BY <1>2 DEF Apart, L
<1>9. \A a, b \in L \cup U : a # b => Cellset(a) \cap Cellset(b) = {}
  BY <1>5
<1>10. \A a \in DOMAIN ptr : ptr[a] = LET above == {b \in DOMAIN ptr : b > a} IN
                                      IF above = {} THEN base ELSE Min(above)
  BY <1>7
<1>11. /\ L \cap U = {} /\ freep \in DOMAIN ptr /\ \A a \in U : size[a] = umemory[a]
  BY <1>1, <1>2
<1>12. UNION {Cellset(a) : a \in L \cup U} = Heap .. Heap + brk - 1
  <2>1. hi - 1 = Heap + brk - 1
    BY <1>1, <1>4, UmallocAssumption DEF hi, Heap
  <2> QED BY <1>6, <2>1
<1> QED BY <1>8, <1>9, <1>10, <1>11, <1>12, Zenon DEF UheapSound, L, U, Listed

\* Whatever a program allocates and frees in any order, its blocks and the free ones
\* share out what sbrk gave, those in use are as large as asked for, and the list runs
\* once through the free ones in the order of their addresses, no two of which touch.
THEOREM UheapIsSound == UheapSpec => []UheapSound
<1>1. UheapInit => UheapInv
  BY UmallocAssumption DEF UheapInit, UheapInv
<1>2. UheapInv /\ [UheapNext]_uheapvars => UheapInv'
  BY UheapStep
<1>3. UheapInv => UheapSound
  BY UheapInvSound
<1> QED BY <1>1, <1>2, <1>3, PTL DEF UheapSpec
=============================================================================
