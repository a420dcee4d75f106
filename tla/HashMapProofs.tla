---------------------------- MODULE HashMapProofs ----------------------------
(***************************************************************************)
(* Proofs about the hash table, for every set of keys, every hash function *)
(* and every size.  First the probing of one table, then the step of the  *)
(* algorithm, then the dictionary it implements.                           *)
(***************************************************************************)
EXTENDS HashMap, FiniteSetTheorems, TLAPS

\* A non-empty set of numbers has a least element, and Minimum is it.
LEMMA LeastElement ==
    ASSUME NEW S \in SUBSET Nat, S # {}
    PROVE  /\ Minimum(S) \in S
           /\ \A n \in S : Minimum(S) <= n
<1> DEFINE Segments == {0..n : n \in S}
<1>1. Segments \subseteq FiniteSubsetsOf(Nat) /\ Segments # {}
  <2>1. ASSUME NEW n \in S PROVE 0..n \in FiniteSubsetsOf(Nat)
    BY FS_Interval DEF FiniteSubsetsOf
  <2>2. QED
    BY <2>1
<1>2. PICK seg \in Segments :
         \A other \in Segments : ~ (<<other, seg>> \in StrictSubsetOrdering(Nat))
  BY <1>1, FS_StrictSubsetOrderingWellFounded, WFMin
<1>3. PICK m \in S : seg = 0..m
  BY <1>2
<1>4. ASSUME NEW n \in S, n < m PROVE FALSE
  <2>1. 0..n \subseteq 0..m /\ 0..n # 0..m
    BY <1>4
  <2>2. <<0..n, 0..m>> \in StrictSubsetOrdering(Nat)
    BY <2>1 DEF StrictSubsetOrdering
  <2>3. QED
    BY <2>2, <1>2, <1>3
<1>5. \A n \in S : m <= n
  BY <1>4
<1>6. QED
  BY <1>5 DEF Minimum
-----------------------------------------------------------------------------
(***************************************************************************)
(* Probing.  A probe sequence visits every slot, and storing a pair in the *)
(* slot hashmap_find_pair returns leaves the other keys where they were.   *)
(***************************************************************************)

\* Sizes are positive and at most MaxAlloc, which is no slot of any table.
LEMMA SizesArePositive ==
    \A n \in PowersOfTwo : n \in Nat /\ n >= 1 /\ n <= MaxAlloc /\ MaxAlloc \in Nat
BY MaxAllocAssumption DEF PowersOfTwo

\* hashmap_calc_index yields a slot of the table.
LEMMA HomeIsSlot ==
    ASSUME hash \in [Keys -> Hashes], NEW n \in PowersOfTwo, NEW k \in Keys
    PROVE  Home(k, n) \in 0..n-1
<1>1. hash[k] \in Nat /\ n \in Nat /\ n >= 1
  BY HashesAssumption, SizesArePositive
<1>2. QED
  BY <1>1 DEF Home

\* HASHMAP_PROBE_NEXT stays inside the table.
LEMMA ProbeIsSlot ==
    ASSUME NEW n \in Nat, NEW h \in 0..n-1, NEW j \in 0..n-1
    PROVE  Probe(h, j, n) \in 0..n-1
BY DEF Probe

\* From every slot the probes get to every other one, in less than n steps.
LEMMA ProbeReaches ==
    ASSUME NEW n \in Nat, NEW h \in 0..n-1, NEW i \in 0..n-1
    PROVE  \E j \in 0..n-1 : Probe(h, j, n) = i
<1>1. CASE i >= h
  <2>1. i - h \in 0..n-1 /\ Probe(h, i - h, n) = i
    BY <1>1 DEF Probe
  <2>2. QED
    BY <2>1
<1>2. CASE i < h
  <2>1. i + n - h \in 0..n-1 /\ Probe(h, i + n - h, n) = i
    BY <1>2 DEF Probe
  <2>2. QED
    BY <2>1
<1>3. QED
  BY <1>1, <1>2

\* What hashmap_find_pair returns when it does not run through the table.
LEMMA FindPairStops ==
    ASSUME hash \in [Keys -> Hashes], NEW n \in PowersOfTwo, NEW k \in Keys,
           NEW t, Stops(t, n, k) # {}
    PROVE  /\ FindPair(t, n, k) \in 0..n-1
           /\ FindPair(t, n, k) # NoSlot
           /\ t[FindPair(t, n, k)].key \in {NULL, k}
           /\ Minimum(Stops(t, n, k)) \in Stops(t, n, k)
           /\ \A j \in Stops(t, n, k) : Minimum(Stops(t, n, k)) <= j
           /\ FindPair(t, n, k) = Probe(Home(k, n), Minimum(Stops(t, n, k)), n)
<1> DEFINE m == Minimum(Stops(t, n, k))
<1>1. Stops(t, n, k) \in SUBSET Nat /\ Stops(t, n, k) \subseteq 0..n-1
  BY SizesArePositive DEF Stops
<1>2. m \in Stops(t, n, k) /\ \A j \in Stops(t, n, k) : m <= j
  BY <1>1, LeastElement
<1>3. FindPair(t, n, k) = Probe(Home(k, n), m, n)
  BY DEF FindPair
<1>4. m \in 0..n-1 /\ t[Probe(Home(k, n), m, n)].key \in {NULL, k}
  BY <1>2 DEF Stops
<1>5. Probe(Home(k, n), m, n) \in 0..n-1
  BY <1>4, HomeIsSlot, ProbeIsSlot, SizesArePositive
<1>6. Probe(Home(k, n), m, n) # NoSlot
  BY <1>5, SizesArePositive DEF NoSlot
<1>7. QED
  BY <1>2, <1>3, <1>4, <1>5, <1>6

\* An empty slot, or one with the key, is enough for the search to stop.
LEMMA SearchStops ==
    ASSUME hash \in [Keys -> Hashes], NEW n \in PowersOfTwo, NEW k \in Keys,
           NEW t, NEW i \in 0..n-1, t[i].key \in {NULL, k}
    PROVE  Stops(t, n, k) # {}
<1>1. PICK j \in 0..n-1 : Probe(Home(k, n), j, n) = i
  BY HomeIsSlot, ProbeReaches, SizesArePositive
<1>2. QED
  BY <1>1 DEF Stops

\* Storing a pair in the slot found for its key: the pair is found there,
\* and every other pair is found where it was.
LEMMA StoreKeepsProbes ==
    ASSUME hash \in [Keys -> Hashes], alloc \in PowersOfTwo,
           pairs \in [0..alloc-1 -> PairType],
           NEW pair \in [key : Keys, value : Values],
           Stops(pairs, alloc, pair.key) # {},
           pairs[FindPair(pairs, alloc, pair.key)].key = NULL,
           NEW u, u = [pairs EXCEPT ![FindPair(pairs, alloc, pair.key)] = pair]
    PROVE  /\ FindPair(u, alloc, pair.key) = FindPair(pairs, alloc, pair.key)
           /\ \A i \in 0..alloc-1 : /\ pairs[i].key \in Keys \ {pair.key}
                                    /\ FindPair(pairs, alloc, pairs[i].key) = i
                                    => FindPair(u, alloc, pairs[i].key) = i
<1> DEFINE n == alloc
           t == pairs
           k == pair.key
           s == FindPair(t, n, k)
<1>1. s \in 0..n-1
  BY FindPairStops
<1>2. \A i \in 0..n-1 : u[i] = IF i = s THEN pair ELSE t[i]
  BY <1>1
<1>3. \A c \in Keys, j \in 0..n-1 : Probe(Home(c, n), j, n) \in 0..n-1
  BY HomeIsSlot, ProbeIsSlot, SizesArePositive
<1>4. Stops(u, n, k) = Stops(t, n, k)
  BY <1>2, <1>3 DEF Stops
<1>5. FindPair(u, n, k) = s
  BY <1>4 DEF FindPair
<1>6. ASSUME NEW i \in 0..n-1, t[i].key \in Keys \ {k}, FindPair(t, n, t[i].key) = i
      PROVE  FindPair(u, n, t[i].key) = i
  <2> DEFINE c == t[i].key
             m == Minimum(Stops(t, n, c))
  <2>1. i # s /\ c # NULL
    BY <1>6, KeysAssumption
  <2>2. Stops(t, n, c) # {}
    BY <1>6, SearchStops
  <2>3. /\ m \in Stops(t, n, c)
        /\ \A j \in Stops(t, n, c) : m <= j
        /\ i = Probe(Home(c, n), m, n)
    BY <1>6, <2>2, FindPairStops
  <2>4. Stops(u, n, c) \subseteq Stops(t, n, c)
    <3>1. SUFFICES ASSUME NEW j \in Stops(u, n, c)
                   PROVE  t[Probe(Home(c, n), j, n)].key \in {NULL, c}
      BY DEF Stops
    <3>2. j \in 0..n-1 /\ u[Probe(Home(c, n), j, n)].key \in {NULL, c}
      BY DEF Stops
    <3>3. CASE Probe(Home(c, n), j, n) = s
      BY <3>3
    <3>4. CASE Probe(Home(c, n), j, n) # s
      BY <1>2, <1>3, <1>6, <3>2, <3>4
    <3>5. QED
      BY <3>3, <3>4
  <2>5. m \in Stops(u, n, c)
    BY <1>2, <1>3, <2>1, <2>3 DEF Stops
  <2>6. /\ Stops(u, n, c) # {}
        /\ Minimum(Stops(u, n, c)) \in Stops(u, n, c)
        /\ \A j \in Stops(u, n, c) : Minimum(Stops(u, n, c)) <= j
        /\ FindPair(u, n, c) = Probe(Home(c, n), Minimum(Stops(u, n, c)), n)
    BY <1>6, <2>5, FindPairStops
  <2>7. Minimum(Stops(u, n, c)) = m
    <3>1. Stops(t, n, c) \subseteq Nat
      BY SizesArePositive DEF Stops
    <3>2. m \in Nat /\ Minimum(Stops(u, n, c)) \in Nat
      BY <2>3, <2>4, <2>6, <3>1
    <3>3. m <= Minimum(Stops(u, n, c)) /\ Minimum(Stops(u, n, c)) <= m
      BY <2>3, <2>4, <2>5, <2>6
    <3>4. QED
      BY <3>2, <3>3
  <2>8. QED
    BY <2>3, <2>6, <2>7
<1>7. QED
  BY <1>5, <1>6
-----------------------------------------------------------------------------
(***************************************************************************)
(* Sizes.                                                                  *)
(***************************************************************************)

\* Rounding up yields a power of two that is large enough.
LEMMA RoundUpBounds ==
    ASSUME NEW n \in Nat, n <= MaxAlloc
    PROVE  RoundUp(n) \in PowersOfTwo /\ RoundUp(n) >= n
<1> DEFINE S == {p \in PowersOfTwo : p >= n}
<1>1. S \in SUBSET Nat
  BY SizesArePositive
<1>2. MaxAlloc \in S
  BY MaxAllocAssumption, SizesArePositive
<1>3. Minimum(S) \in S
  BY <1>1, <1>2, LeastElement
<1>4. QED
  BY <1>3 DEF RoundUp

\* A table with distinct keys holds no more pairs than there are keys.
LEMMA PairsAreFewerThanKeys ==
    ASSUME TypeOK, OneSlotPerKey
    PROVE  /\ IsFiniteSet(Occupied)
           /\ Cardinality(Occupied) \in Nat
           /\ Cardinality(Occupied) <= Cardinality(Keys)
           /\ Cardinality(Keys) \in Nat
<1> DEFINE f == [i \in Occupied |-> pairs[i].key]
<1>1. f \in [Occupied -> Keys]
  BY DEF TypeOK, Occupied, PairType, EmptyPair
<1>2. f \in Injection(Occupied, Keys)
  BY <1>1 DEF OneSlotPerKey, Injection, IsInjective
<1>3. IsFiniteSet(Occupied) /\ Cardinality(Occupied) <= Cardinality(Keys)
  BY <1>2, FS_Injection, KeysAssumption
<1>4. QED
  BY <1>3, FS_CardinalityType, KeysAssumption

\* The slots in use are finitely many, no more than the table has.
LEMMA TableIsFinite ==
    ASSUME TypeOK
    PROVE  /\ IsFiniteSet(Occupied) /\ Cardinality(Occupied) \in Nat
           /\ IsFiniteSet(Unmoved) /\ Cardinality(Unmoved) \in Nat
<1>1. alloc \in Nat
  BY SizesArePositive DEF TypeOK
<1>2. IsFiniteSet(0..alloc-1)
  BY <1>1, FS_Interval
<1>3. IsFiniteSet(Occupied)
  BY <1>2, FS_Subset DEF Occupied
<1>4. IsFiniteSet(Unmoved)
  <2>1. CASE pc = "rehash"
    <3>1. PICK n \in PowersOfTwo : oldPairs \in [0..n-1 -> PairType]
      BY <2>1 DEF TypeOK
    <3>2. IsFiniteSet(0..n-1)
      BY SizesArePositive, FS_Interval
    <3>3. QED
      BY <2>1, <3>1, <3>2, FS_Subset DEF Unmoved
  <2>2. CASE pc # "rehash"
    BY <2>2, FS_EmptySet DEF Unmoved
  <2>3. QED
    BY <2>1, <2>2
<1>5. QED
  BY <1>3, <1>4, FS_CardinalityType

\* A table with fewer pairs than slots has a free slot on every probe sequence.
LEMMA FreeSlotIsFound ==
    ASSUME TypeOK, Cardinality(Occupied) < alloc, NEW k \in Keys
    PROVE  Stops(pairs, alloc, k) # {}
<1>1. alloc \in PowersOfTwo /\ alloc \in Nat /\ hash \in [Keys -> Hashes]
  BY SizesArePositive DEF TypeOK
<1>2. Cardinality(0..alloc-1) = alloc
  BY <1>1, FS_Interval, SizesArePositive
<1>3. Occupied # 0..alloc-1
  BY <1>1, <1>2
<1>4. PICK i \in 0..alloc-1 : pairs[i].key = NULL
  BY <1>3 DEF Occupied
<1>5. QED
  BY <1>1, <1>4, SearchStops

\* hashmap_calc_size asks for more slots than there are pairs.
LEMMA CalcSizeGrows ==
    ASSUME TypeOK, OneSlotPerKey, HasRoom, size = Cardinality(Occupied)
    PROVE  /\ CalcSize \in PowersOfTwo
           /\ CalcSize > size
           /\ CalcSize >= 3
<1>1. size \in Nat /\ alloc \in PowersOfTwo /\ alloc \in Nat /\ alloc >= 3
  BY SizesArePositive DEF TypeOK, HasRoom
<1>2. size + size \div 3 \in Nat /\ size + size \div 3 >= size
  BY <1>1
<1>3. size + size \div 3 <= MaxAlloc
  <2>1. size <= Cardinality(Keys) /\ Cardinality(Keys) \in Nat
    BY PairsAreFewerThanKeys
  <2>2. size + size \div 3 <= 2 * size
    BY <1>1
  <2>3. QED
    BY <1>1, <1>2, <2>1, <2>2, MaxAllocAssumption, SizesArePositive
<1>4. CASE size + size \div 3 < alloc
  <2>1. CalcSize = alloc
    BY <1>4 DEF CalcSize
  <2>2. size < alloc
    BY <1>1, <1>2, <1>4
  <2>3. QED
    BY <1>1, <2>1, <2>2
<1>5. CASE ~ (size + size \div 3 < alloc)
  <2>1. RoundUp(size + size \div 3) \in PowersOfTwo
        /\ RoundUp(size + size \div 3) >= size + size \div 3
    BY <1>2, <1>3, RoundUpBounds
  <2>2. size >= 3
    BY <1>1, <1>5
  <2>3. size + size \div 3 > size
    BY <1>1, <2>2
  <2>4. CalcSize = RoundUp(size + size \div 3)
    BY <1>5 DEF CalcSize
  <2>5. CalcSize \in PowersOfTwo /\ CalcSize >= size + size \div 3 /\ CalcSize \in Nat
    BY <2>1, <2>4, SizesArePositive
  <2>6. QED
    BY <1>1, <1>2, <2>2, <2>3, <2>5
<1>6. QED
  BY <1>4, <1>5
-----------------------------------------------------------------------------
(***************************************************************************)
(* The inductive invariant.                                                *)
(***************************************************************************)

\* A table fresh from calloc is empty.
LEMMA CallocIsEmpty ==
    ASSUME NEW n \in PowersOfTwo
    PROVE  /\ Calloc(n) \in [0..n-1 -> PairType]
           /\ \A i \in 0..n-1 : Calloc(n)[i].key = NULL
BY DEF Calloc, PairType, EmptyPair

\* The invariant holds of the map hashmap_init_sized returns.
LEMMA InitInvariant == Init => IInv
<1> SUFFICES ASSUME Init PROVE IInv
  OBVIOUS
<1>1. alloc \in PowersOfTwo /\ alloc >= 3
  BY RoundUpBounds, InitSizeAssumption, MaxAllocAssumption, SizesArePositive DEF Init
<1>2. pairs \in [0..alloc-1 -> PairType] /\ Occupied = {} /\ Unmoved = {}
  BY <1>1, CallocIsEmpty DEF Init, Occupied, Unmoved
<1>3. TypeOK
  BY <1>1, <1>2 DEF Init, TypeOK
<1>4. SizeCounts
  BY <1>2, FS_EmptySet DEF Init, SizeCounts
<1>5. QED
  BY <1>1, <1>2, <1>3, <1>4 DEF Init, IInv, OneSlotPerKey, Reachable, HasRoom

\* A step that leaves the tables and the size alone, and does not enter or
\* leave the rehash loop, leaves the invariants about the tables alone.
LEMMA TablesUnchanged ==
    ASSUME IInv, UNCHANGED <<hash, size, alloc, pairs, oldPairs, cursor>>,
           (pc = "rehash") = (pc' = "rehash"),
           pc' = "insert" => size < alloc
    PROVE  OneSlotPerKey' /\ Reachable' /\ SizeCounts' /\ HasRoom'
<1>1. Occupied' = Occupied /\ Unmoved' = Unmoved
  BY DEF Occupied, Unmoved
<1>2. \A k : FindPair(pairs, alloc, k)' = FindPair(pairs, alloc, k)
  BY DEF FindPair, Stops, Home
<1>3. OneSlotPerKey' /\ SizeCounts'
  BY <1>1 DEF IInv, OneSlotPerKey, SizeCounts
<1>4. Reachable'
  BY <1>1, <1>2 DEF IInv, Reachable
<1>5. HasRoom'
  BY DEF IInv, HasRoom
<1>6. QED
  BY <1>3, <1>4, <1>5

\* What the beginning of a rehash does to the two tables.
LEMMA PutSizeTables ==
    ASSUME IInv, PutSize
    PROVE  /\ pc = "put" /\ Unmoved = {} /\ size = Cardinality(Occupied)
           /\ CalcSize \in PowersOfTwo /\ CalcSize > size /\ CalcSize >= 3
           /\ pc' = "rehash" /\ oldPairs' = pairs /\ alloc' = CalcSize
           /\ pairs' = Calloc(CalcSize) /\ cursor' = 0
           /\ UNCHANGED <<hash, size, arg, ret, listed>>
           /\ Occupied' = {} /\ Unmoved' = Occupied
<1>1. pc = "put" /\ Unmoved = {} /\ size = Cardinality(Occupied)
  <2>1. pc = "put" /\ Unmoved = {}
    BY DEF PutSize, Unmoved
  <2>2. size = Cardinality(Occupied)
    BY <2>1, TableIsFinite, FS_EmptySet DEF IInv, SizeCounts
  <2>3. QED
    BY <2>1, <2>2
<1>2. CalcSize \in PowersOfTwo /\ CalcSize > size /\ CalcSize >= 3
  BY <1>1, CalcSizeGrows DEF IInv
<1>3. /\ pc' = "rehash" /\ oldPairs' = pairs /\ alloc' = CalcSize
      /\ pairs' = Calloc(CalcSize) /\ cursor' = 0
      /\ UNCHANGED <<hash, size, arg, ret, listed>>
  BY <1>2 DEF PutSize
<1>4. Occupied' = {}
  BY <1>2, <1>3, CallocIsEmpty DEF Occupied
<1>5. Unmoved' = Occupied
  <2>1. DOMAIN pairs = 0..alloc-1
    BY DEF IInv, TypeOK
  <2>2. QED
    BY <1>3, <2>1 DEF Unmoved, Occupied
<1>6. QED
  BY <1>1, <1>2, <1>3, <1>4, <1>5

\* The size test of hashmap_put preserves the invariant.
LEMMA PutSizeInvariant == IInv /\ PutSize => IInv'
<1> SUFFICES ASSUME IInv, PutSize PROVE IInv'
  OBVIOUS
<1>1. /\ pc = "put" /\ size = Cardinality(Occupied)
      /\ CalcSize \in PowersOfTwo /\ CalcSize > size /\ CalcSize >= 3
      /\ pc' = "rehash" /\ oldPairs' = pairs /\ alloc' = CalcSize
      /\ pairs' = Calloc(CalcSize) /\ cursor' = 0
      /\ UNCHANGED <<hash, size, arg, ret, listed>>
      /\ Occupied' = {} /\ Unmoved' = Occupied
  BY PutSizeTables
<1>2. TypeOK'
  <2>1. pairs' \in [0..alloc'-1 -> PairType]
    BY <1>1, CallocIsEmpty
  <2>2. oldPairs' \in [0..alloc-1 -> PairType] /\ alloc \in PowersOfTwo /\ cursor' <= alloc
    BY <1>1, SizesArePositive DEF IInv, TypeOK
  <2>3. QED
    BY <1>1, <2>1, <2>2 DEF IInv, TypeOK
<1>3. OneSlotPerKey'
  BY <1>1 DEF IInv, OneSlotPerKey
<1>4. Reachable'
  BY <1>1 DEF Reachable
<1>5. SizeCounts'
  BY <1>1, FS_EmptySet, TableIsFinite DEF IInv, SizeCounts
<1>6. HasRoom'
  BY <1>1 DEF HasRoom
<1>7. QED
  BY <1>2, <1>3, <1>4, <1>5, <1>6 DEF IInv

\* Storing a pair with a key that is in neither table, in the slot found.
LEMMA StoreInvariant ==
    ASSUME TypeOK, OneSlotPerKey, Reachable,
           NEW pair \in [key : Keys, value : Values],
           Stops(pairs, alloc, pair.key) # {},
           pairs[FindPair(pairs, alloc, pair.key)].key = NULL,
           UNCHANGED <<hash, alloc>>,
           pairs' = [pairs EXCEPT ![FindPair(pairs, alloc, pair.key)] = pair]
    PROVE  /\ pairs' \in [0..alloc'-1 -> PairType]
           /\ FindPair(pairs, alloc, pair.key) \in (0..alloc-1) \ Occupied
           /\ Occupied' = Occupied \cup {FindPair(pairs, alloc, pair.key)}
           /\ \A i \in Occupied : pairs'[i] = pairs[i]
           /\ pairs'[FindPair(pairs, alloc, pair.key)] = pair
           /\ \A i \in Occupied : pairs[i].key # pair.key
           /\ Reachable'
<1> DEFINE s == FindPair(pairs, alloc, pair.key)
<1>1. /\ alloc \in PowersOfTwo /\ hash \in [Keys -> Hashes] /\ pair.key \in Keys
      /\ pairs \in [0..alloc-1 -> PairType]
  BY DEF TypeOK
<1>2. s \in 0..alloc-1
  BY <1>1, FindPairStops
<1>3. s \notin Occupied
  BY DEF Occupied
<1>4. \A i \in 0..alloc-1 : pairs'[i] = IF i = s THEN pair ELSE pairs[i]
  BY <1>1, <1>2
<1>5. pairs' \in [0..alloc'-1 -> PairType]
  BY <1>1, <1>2 DEF PairType
<1>6. Occupied' = Occupied \cup {s}
  BY <1>1, <1>2, <1>4, KeysAssumption DEF Occupied
<1>7. \A i \in Occupied : pairs'[i] = pairs[i] /\ i \in 0..alloc-1 /\ i # s
  BY <1>3, <1>4 DEF Occupied
<1>8. \A i \in Occupied : pairs[i].key # pair.key
  BY <1>3 DEF Reachable
<1>9. /\ FindPair(pairs', alloc, pair.key) = s
      /\ \A i \in 0..alloc-1 : /\ pairs[i].key \in Keys \ {pair.key}
                               /\ FindPair(pairs, alloc, pairs[i].key) = i
                               => FindPair(pairs', alloc, pairs[i].key) = i
  BY <1>1, StoreKeepsProbes
<1>10. \A i \in Occupied : pairs[i].key \in Keys
  BY <1>1 DEF Occupied, PairType, EmptyPair
<1>11. \A k : FindPair(pairs, alloc, k)' = FindPair(pairs', alloc, k)
  BY DEF FindPair, Stops, Home
<1>12. \A i \in Occupied' : FindPair(pairs', alloc, pairs'[i].key) = i
  <2>1. FindPair(pairs', alloc, pairs'[s].key) = s
    BY <1>2, <1>4, <1>9
  <2>2. ASSUME NEW i \in Occupied PROVE FindPair(pairs', alloc, pairs'[i].key) = i
    BY <1>7, <1>8, <1>9, <1>10 DEF Reachable
  <2>3. QED
    BY <1>6, <2>1, <2>2
<1>13. Reachable'
  BY <1>11, <1>12 DEF Reachable
<1>14. QED
  BY <1>2, <1>3, <1>4, <1>5, <1>6, <1>7, <1>8, <1>13

\* What one turn of the rehash loop does to the two tables.
LEMMA RehashPairTables ==
    ASSUME IInv, RehashPair
    PROVE  /\ pc = "rehash" /\ pc' = "rehash" /\ cursor' = cursor + 1
           /\ UNCHANGED <<hash, size, alloc, oldPairs, arg, ret, listed>>
           /\ \E n \in PowersOfTwo :
                 oldPairs \in [0..n-1 -> PairType] /\ cursor \in 0..n-1
           /\ \/ /\ pairs' = pairs /\ Occupied' = Occupied /\ Unmoved' = Unmoved
              \/ \E s \in (0..alloc-1) \ Occupied :
                    /\ pairs' \in [0..alloc-1 -> PairType]
                    /\ cursor \in Unmoved /\ Unmoved' = Unmoved \ {cursor}
                    /\ Occupied' = Occupied \cup {s}
                    /\ pairs'[s] = oldPairs[cursor]
                    /\ \A i \in Occupied : pairs'[i] = pairs[i]
                    /\ Reachable'
<1> DEFINE pair == oldPairs[cursor]
<1>1. PICK n \in PowersOfTwo : oldPairs \in [0..n-1 -> PairType] /\ cursor \in 0..n-1
  BY DEF RehashPair, IInv, TypeOK
<1>2. /\ n \in Nat /\ cursor \in Nat /\ alloc \in PowersOfTwo
      /\ hash \in [Keys -> Hashes] /\ size \in Nat /\ alloc \in Nat
  BY <1>1, SizesArePositive DEF IInv, TypeOK
<1>3. /\ pc = "rehash" /\ pc' = "rehash" /\ cursor' = cursor + 1
      /\ UNCHANGED <<hash, size, alloc, oldPairs, arg, ret, listed>>
      /\ pairs' = IF pair.key = NULL THEN pairs
                  ELSE [pairs EXCEPT ![FindPair(pairs, alloc, pair.key)] = pair]
  BY DEF RehashPair
<1>4. CASE pair.key = NULL
  <2>1. pairs' = pairs /\ Occupied' = Occupied
    BY <1>3, <1>4 DEF Occupied
  <2>2. Unmoved' = Unmoved
    BY <1>1, <1>2, <1>3, <1>4 DEF Unmoved
  <2>3. QED
    BY <1>1, <1>3, <2>1, <2>2
<1>5. CASE pair.key # NULL
  <2> DEFINE s == FindPair(pairs, alloc, pair.key)
  <2>1. pair \in [key : Keys, value : Values] /\ cursor \in Unmoved
    BY <1>1, <1>2, <1>3, <1>5 DEF PairType, EmptyPair, Unmoved
  <2>2. Unmoved' = Unmoved \ {cursor}
    BY <1>1, <1>2, <1>3 DEF Unmoved
  <2>3. Cardinality(Occupied) < alloc
    <3>1. Cardinality(Unmoved) > 0
      BY <2>1, TableIsFinite, FS_EmptySet DEF IInv
    <3>2. size < alloc
      BY <1>3 DEF IInv, HasRoom
    <3>3. size = Cardinality(Occupied) + Cardinality(Unmoved)
      BY DEF IInv, SizeCounts
    <3>4. QED
      BY <1>2, <3>1, <3>2, <3>3, TableIsFinite DEF IInv
  <2>4. Stops(pairs, alloc, pair.key) # {}
    BY <2>1, <2>3, FreeSlotIsFound DEF IInv
  <2>5. s \in 0..alloc-1 /\ pairs[s].key \in {NULL, pair.key}
    BY <1>2, <2>1, <2>4, FindPairStops
  <2>6. pairs[s].key = NULL
    BY <2>1, <2>5 DEF IInv, OneSlotPerKey, Occupied
  <2>7. /\ pairs' \in [0..alloc'-1 -> PairType]
        /\ s \in (0..alloc-1) \ Occupied
        /\ Occupied' = Occupied \cup {s}
        /\ \A i \in Occupied : pairs'[i] = pairs[i]
        /\ pairs'[s] = pair
        /\ Reachable'
    BY <1>3, <1>5, <2>1, <2>4, <2>6, StoreInvariant DEF IInv
  <2>8. QED
    BY <1>1, <1>3, <2>1, <2>2, <2>7
<1>6. QED
  BY <1>4, <1>5

\* One turn of the rehash loop preserves the invariant.
LEMMA RehashPairInvariant == IInv /\ RehashPair => IInv'
<1> SUFFICES ASSUME IInv, RehashPair PROVE IInv'
  OBVIOUS
<1>1. /\ pc = "rehash" /\ pc' = "rehash" /\ cursor' = cursor + 1
      /\ UNCHANGED <<hash, size, alloc, oldPairs, arg, ret, listed>>
  BY RehashPairTables
<1>2. PICK n \in PowersOfTwo : oldPairs \in [0..n-1 -> PairType] /\ cursor \in 0..n-1
  BY RehashPairTables
<1>3. HasRoom'
  BY <1>1 DEF IInv, HasRoom
<1>4. ASSUME pairs' \in [0..alloc-1 -> PairType] PROVE TypeOK'
  <2>1. \E m \in PowersOfTwo : oldPairs' \in [0..m-1 -> PairType] /\ cursor' <= m
    BY <1>1, <1>2, SizesArePositive
  <2>2. QED
    BY <1>1, <1>4, <2>1 DEF IInv, TypeOK
<1>5. CASE pairs' = pairs /\ Occupied' = Occupied /\ Unmoved' = Unmoved
  <2>1. \A k : FindPair(pairs, alloc, k)' = FindPair(pairs, alloc, k)
    BY <1>1, <1>5 DEF FindPair, Stops, Home
  <2>2. TypeOK'
    BY <1>4, <1>5 DEF IInv, TypeOK
  <2>3. OneSlotPerKey' /\ SizeCounts'
    BY <1>1, <1>5 DEF IInv, OneSlotPerKey, SizeCounts
  <2>4. Reachable'
    BY <1>5, <2>1 DEF IInv, Reachable
  <2>5. QED
    BY <1>3, <2>2, <2>3, <2>4 DEF IInv
<1>6. ASSUME NEW s \in (0..alloc-1) \ Occupied,
             pairs' \in [0..alloc-1 -> PairType],
             cursor \in Unmoved, Unmoved' = Unmoved \ {cursor},
             Occupied' = Occupied \cup {s},
             pairs'[s] = oldPairs[cursor],
             \A i \in Occupied : pairs'[i] = pairs[i],
             Reachable'
      PROVE  IInv'
  <2>1. OneSlotPerKey'
    <3>1. \A i, j \in Occupied' : pairs'[i].key = pairs'[j].key => i = j
      BY <1>6 DEF IInv, OneSlotPerKey
    <3>2. \A i, j \in Unmoved' : oldPairs'[i].key = oldPairs'[j].key => i = j
      BY <1>1, <1>6 DEF IInv, OneSlotPerKey
    <3>3. \A i \in Occupied', j \in Unmoved' : pairs'[i].key # oldPairs'[j].key
      BY <1>1, <1>6 DEF IInv, OneSlotPerKey
    <3>4. QED
      BY <3>1, <3>2, <3>3 DEF OneSlotPerKey
  <2>2. SizeCounts'
    <3>1. Cardinality(Occupied') = Cardinality(Occupied) + 1
      BY <1>6, TableIsFinite, FS_AddElement DEF IInv
    <3>2. Cardinality(Unmoved') = Cardinality(Unmoved) - 1
      BY <1>6, TableIsFinite, FS_RemoveElement DEF IInv
    <3>3. size = Cardinality(Occupied) + Cardinality(Unmoved) /\ size' = size
      BY <1>1 DEF IInv, SizeCounts
    <3>4. QED
      BY <3>1, <3>2, <3>3, TableIsFinite DEF IInv, SizeCounts
  <2>3. QED
    BY <1>3, <1>4, <1>6, <2>1, <2>2 DEF IInv
<1>7. QED
  BY <1>5, <1>6, RehashPairTables

\* So does leaving that loop.
LEMMA RehashDoneInvariant == IInv /\ RehashDone => IInv'
<1> SUFFICES ASSUME IInv, RehashDone PROVE IInv'
  OBVIOUS
<1>1. PICK n \in PowersOfTwo : /\ oldPairs \in [0..n-1 -> PairType]
                               /\ cursor \in Nat /\ cursor <= n
                               /\ cursor \notin 0..n-1
  BY DEF RehashDone, IInv, TypeOK
<1>2. n \in Nat /\ cursor = n
  BY <1>1, SizesArePositive
<1>3. Unmoved = {} /\ Unmoved' = {}
  BY <1>1, <1>2 DEF RehashDone, Unmoved
<1>4. /\ Occupied' = Occupied
      /\ UNCHANGED <<hash, size, alloc, pairs, arg, ret, listed>>
      /\ pc = "rehash" /\ pc' = "insert" /\ cursor' = 0
  BY DEF RehashDone, Occupied
<1>5. \A k : FindPair(pairs, alloc, k)' = FindPair(pairs, alloc, k)
  BY <1>4 DEF FindPair, Stops, Home
<1>6. TypeOK'
  BY <1>4 DEF IInv, TypeOK
<1>7. OneSlotPerKey' /\ Reachable' /\ SizeCounts'
  BY <1>3, <1>4, <1>5 DEF IInv, OneSlotPerKey, Reachable, SizeCounts
<1>8. HasRoom'
  BY <1>4 DEF IInv, HasRoom
<1>9. QED
  BY <1>6, <1>7, <1>8 DEF IInv

\* So does the rest of hashmap_put, whatever it answers.
LEMMA PutInsertInvariant == IInv /\ PutInsert => IInv'
<1> SUFFICES ASSUME IInv, PutInsert PROVE IInv'
  OBVIOUS
<1> DEFINE s == FindPair(pairs, alloc, arg.key)
<1>1. /\ pc = "insert" /\ pc' = "idle" /\ arg' = EmptyPair
      /\ UNCHANGED <<hash, alloc, oldPairs, cursor>>
      /\ arg \in [key : Keys, value : Values]
      /\ alloc \in PowersOfTwo /\ hash \in [Keys -> Hashes]
      /\ size \in Nat /\ alloc \in Nat
  BY SizesArePositive DEF PutInsert, IInv, TypeOK
<1>2. Unmoved = {} /\ Unmoved' = {} /\ size = Cardinality(Occupied) /\ size < alloc
  <2>1. Unmoved = {} /\ Unmoved' = {}
    BY <1>1 DEF Unmoved
  <2>2. QED
    BY <1>1, <2>1, TableIsFinite, FS_EmptySet DEF IInv, SizeCounts, HasRoom
<1>3. Stops(pairs, alloc, arg.key) # {}
  BY <1>1, <1>2, FreeSlotIsFound DEF IInv
<1>4. s # NoSlot /\ s \in 0..alloc-1
  BY <1>1, <1>3, FindPairStops
<1>5. CASE pairs[s].key # NULL
  <2>1. ret' = "EEXIST" /\ listed' = {} /\ UNCHANGED <<size, pairs>>
    BY <1>4, <1>5 DEF PutInsert
  <2>2. OneSlotPerKey' /\ Reachable' /\ SizeCounts' /\ HasRoom'
    BY <1>1, <2>1, TablesUnchanged
  <2>3. TypeOK'
    BY <1>1, <2>1 DEF IInv, TypeOK
  <2>4. QED
    BY <2>2, <2>3 DEF IInv
<1>6. CASE pairs[s].key = NULL
  <2>1. /\ ret' = "OK" /\ listed' = {} /\ size' = size + 1
        /\ pairs' = [pairs EXCEPT ![s] = arg]
    BY <1>4, <1>6 DEF PutInsert
  <2>2. /\ pairs' \in [0..alloc'-1 -> PairType]
        /\ s \in (0..alloc-1) \ Occupied
        /\ Occupied' = Occupied \cup {s}
        /\ \A i \in Occupied : pairs'[i] = pairs[i]
        /\ pairs'[s] = arg
        /\ \A i \in Occupied : pairs[i].key # arg.key
        /\ Reachable'
    BY <1>1, <1>3, <1>6, <2>1, StoreInvariant DEF IInv
  <2>3. TypeOK'
    BY <1>1, <2>1, <2>2 DEF IInv, TypeOK
  <2>4. OneSlotPerKey'
    BY <1>2, <2>2 DEF IInv, OneSlotPerKey
  <2>5. SizeCounts'
    <3>1. Cardinality(Occupied') = Cardinality(Occupied) + 1
      BY <2>2, TableIsFinite, FS_AddElement DEF IInv
    <3>2. QED
      BY <1>1, <1>2, <2>1, <3>1, TableIsFinite, FS_EmptySet DEF IInv, SizeCounts
  <2>6. HasRoom'
    BY <1>1 DEF IInv, HasRoom
  <2>7. QED
    BY <2>2, <2>3, <2>4, <2>5, <2>6 DEF IInv
<1>7. QED
  BY <1>5, <1>6

\* What hashmap_get finds: the value of the pair with the key, if there is one.
LEMMA LookupIsStored ==
    ASSUME IInv, pc # "rehash", NEW k \in Keys
    PROVE  /\ Lookup(pairs, alloc, k) = Stored(k)
           /\ Stored(k) \in Values \cup {NULL}
           /\ Stored(k) # NULL <=> \E i \in Occupied : pairs[i].key = k
<1>1. Unmoved = {}
  BY DEF Unmoved
<1>2. /\ pairs \in [0..alloc-1 -> PairType] /\ alloc \in PowersOfTwo
      /\ hash \in [Keys -> Hashes]
  BY DEF IInv, TypeOK
<1>3. CASE \E i \in Occupied : pairs[i].key = k
  <2>1. PICK i \in Occupied : pairs[i].key = k
    BY <1>3
  <2>2. Stored(k) = pairs[i].value
    <3>1. \A j \in Occupied : pairs[j].key = k => j = i
      BY <2>1 DEF IInv, OneSlotPerKey
    <3>2. QED
      BY <1>3, <2>1, <3>1 DEF Stored
  <2>3. FindPair(pairs, alloc, k) = i /\ i \in 0..alloc-1
    BY <2>1 DEF IInv, Reachable, Occupied
  <2>4. i # NoSlot
    BY <1>2, <2>3, SizesArePositive DEF NoSlot
  <2>5. Lookup(pairs, alloc, k) = pairs[i].value
    BY <2>1, <2>3, <2>4 DEF Lookup
  <2>6. pairs[i].value \in Values
    BY <1>2, <2>1, <2>3, KeysAssumption DEF PairType, EmptyPair
  <2>7. QED
    BY <1>3, <2>2, <2>5, <2>6, ValuesAssumption
<1>4. CASE ~ \E i \in Occupied : pairs[i].key = k
  <2>1. Stored(k) = NULL
    BY <1>1, <1>4 DEF Stored
  <2>2. Lookup(pairs, alloc, k) = NULL
    <3>1. CASE Stops(pairs, alloc, k) = {}
      BY <3>1 DEF Lookup, FindPair
    <3>2. CASE Stops(pairs, alloc, k) # {}
      <4>1. FindPair(pairs, alloc, k) \in 0..alloc-1
        BY <1>2, <3>2, FindPairStops
      <4>2. pairs[FindPair(pairs, alloc, k)].key # k
        BY <1>4, <4>1, KeysAssumption DEF Occupied
      <4>3. QED
        BY <4>2 DEF Lookup
    <3>3. QED
      BY <3>1, <3>2
  <2>3. QED
    BY <1>4, <2>1, <2>2
<1>5. QED
  BY <1>3, <1>4

\* Every step preserves the invariant.
LEMMA NextInvariant == IInv /\ [Next]_vars => IInv'
<1> SUFFICES ASSUME IInv, [Next]_vars PROVE IInv'
  OBVIOUS
<1>1. ASSUME NEW k \in Keys, Get(k) PROVE IInv'
  <2>1. /\ pc = "idle" /\ pc' = "idle" /\ listed' = {}
        /\ UNCHANGED <<hash, size, alloc, pairs, oldPairs, cursor, arg>>
        /\ ret' = Lookup(pairs, alloc, k)
    BY <1>1 DEF Get
  <2>2. Lookup(pairs, alloc, k) \in Values \cup {NULL}
    BY <2>1, LookupIsStored
  <2>3. TypeOK'
    BY <2>1, <2>2 DEF IInv, TypeOK
  <2>4. QED
    BY <2>1, <2>3, TablesUnchanged DEF IInv
<1>2. ASSUME NEW k \in Keys, NEW v \in Values, PutCall(k, v) PROVE IInv'
  <2>1. /\ pc = "idle" /\ pc' = "put" /\ arg' = [key |-> k, value |-> v]
        /\ UNCHANGED <<hash, size, alloc, pairs, oldPairs, cursor, ret, listed>>
    BY <1>2 DEF PutCall
  <2>2. TypeOK'
    BY <2>1 DEF IInv, TypeOK
  <2>3. QED
    BY <2>1, <2>2, TablesUnchanged DEF IInv
<1>3. CASE GetKeys
  <2>1. /\ pc = "idle" /\ pc' = "idle" /\ ret' = NULL
        /\ UNCHANGED <<hash, size, alloc, pairs, oldPairs, cursor, arg>>
        /\ listed' = {pairs[i].key : i \in 0..alloc-1} \ {NULL}
    BY <1>3 DEF GetKeys
  <2>2. listed' \subseteq Keys
    BY <2>1 DEF IInv, TypeOK, PairType, EmptyPair
  <2>3. TypeOK'
    BY <2>1, <2>2 DEF IInv, TypeOK
  <2>4. QED
    BY <2>1, <2>3, TablesUnchanged DEF IInv
<1>4. CASE UNCHANGED vars
  <2>1. UNCHANGED <<hash, size, alloc, pairs, oldPairs, cursor, pc, arg, ret, listed>>
    BY <1>4 DEF vars
  <2>2. TypeOK'
    BY <2>1 DEF IInv, TypeOK
  <2>3. QED
    BY <2>1, <2>2, TablesUnchanged DEF IInv, HasRoom
<1>5. QED
  BY <1>1, <1>2, <1>3, <1>4, PutSizeInvariant, RehashPairInvariant,
     RehashDoneInvariant, PutInsertInvariant DEF Next
-----------------------------------------------------------------------------
(***************************************************************************)
(* The theorems.                                                           *)
(***************************************************************************)

\* The inductive invariant holds in every state of hashmap.c's table: probing
\* finds every pair, no key is stored twice, and size counts the pairs.
THEOREM Invariance == Spec => []IInv
BY InitInvariant, NextInvariant, PTL DEF Spec

\* The variables of hashmap.c keep their types, and `alloc` stays a power of
\* two, which the masks HASHMAP_SIZE_MOD takes for granted.
THEOREM TypeCorrectness == Spec => []TypeOK
<1>1. IInv => TypeOK
  BY DEF IInv
<1>2. QED
  BY <1>1, Invariance, PTL

\* No call of hashmap_put ever makes a second pair of a key or hides an
\* earlier pair from hashmap_find_pair, however the keys collide and wherever
\* the rehash loop is.
THEOREM ProbingIsSound == Spec => []TableIsSound
<1>1. IInv => TableIsSound
  BY DEF IInv, TableIsSound
<1>2. QED
  BY <1>1, Invariance, PTL

\* The assertion of hashmap_rehash holds and hashmap_put never runs out of
\* slots, from every initial size above two.
THEOREM AlwaysRoom == Spec => []RoomToInsert
<1>1. IInv => RoomToInsert
  <2> SUFFICES ASSUME IInv PROVE RoomToInsert
    OBVIOUS
  <2>1. /\ alloc \in PowersOfTwo /\ hash \in [Keys -> Hashes]
        /\ alloc \in Nat /\ size \in Nat
    BY SizesArePositive DEF IInv, TypeOK
  <2>2. ASSUME pc = "rehash", cursor \in Unmoved
        PROVE  FindPair(pairs, alloc, oldPairs[cursor].key) # NoSlot
    <3>1. PICK n \in PowersOfTwo : oldPairs \in [0..n-1 -> PairType]
      BY <2>2 DEF IInv, TypeOK
    <3>2. oldPairs[cursor].key \in Keys
      BY <2>2, <3>1 DEF Unmoved, PairType, EmptyPair
    <3>3. Cardinality(Unmoved) > 0
      BY <2>2, TableIsFinite, FS_EmptySet DEF IInv
    <3>4. Cardinality(Occupied) < alloc
      BY <2>1, <2>2, <3>3, TableIsFinite DEF IInv, SizeCounts, HasRoom
    <3>5. QED
      BY <2>1, <3>2, <3>4, FreeSlotIsFound, FindPairStops DEF IInv
  <2>3. ASSUME pc = "insert" PROVE FindPair(pairs, alloc, arg.key) # NoSlot
    <3>1. arg.key \in Keys
      BY <2>3 DEF IInv, TypeOK
    <3>2. Unmoved = {}
      BY <2>3 DEF Unmoved
    <3>3. Cardinality(Occupied) < alloc
      BY <2>1, <2>3, <3>2, TableIsFinite, FS_EmptySet DEF IInv, SizeCounts, HasRoom
    <3>4. QED
      BY <2>1, <3>1, <3>3, FreeSlotIsFound, FindPairStops DEF IInv
  <2>4. QED
    BY <2>2, <2>3 DEF RoomToInsert
<1>2. QED
  BY <1>1, Invariance, PTL

-----------------------------------------------------------------------------
(***************************************************************************)
(* The hash table implements the dictionary.                               *)
(***************************************************************************)


\* Where the value of a key is.
Accounted == \A k \in Keys :
    /\ \A i \in Occupied : pairs[i].key = k => Stored(k) = pairs[i].value
    /\ \A i \in Unmoved : oldPairs[i].key = k => Stored(k) = oldPairs[i].value
    /\ (/\ \A i \in Occupied : pairs[i].key # k
        /\ \A i \in Unmoved : oldPairs[i].key # k) => Stored(k) = NULL

\* Stored is the value of the one pair there is for a key.
LEMMA StoredIs == IInv => Accounted
<1> SUFFICES ASSUME IInv, NEW k \in Keys
             PROVE  /\ \A i \in Occupied : pairs[i].key = k => Stored(k) = pairs[i].value
                    /\ \A i \in Unmoved : oldPairs[i].key = k => Stored(k) = oldPairs[i].value
                    /\ (/\ \A i \in Occupied : pairs[i].key # k
                        /\ \A i \in Unmoved : oldPairs[i].key # k) => Stored(k) = NULL
  BY DEF Accounted
<1>1. ASSUME NEW i \in Occupied, pairs[i].key = k PROVE Stored(k) = pairs[i].value
  <2>1. \A j \in Occupied : pairs[j].key = k => j = i
    BY <1>1 DEF IInv, OneSlotPerKey
  <2>2. QED
    BY <1>1, <2>1 DEF Stored
<1>2. ASSUME NEW i \in Unmoved, oldPairs[i].key = k PROVE Stored(k) = oldPairs[i].value
  <2>1. /\ \A j \in Unmoved : oldPairs[j].key = k => j = i
        /\ \A j \in Occupied : pairs[j].key # k
    BY <1>2 DEF IInv, OneSlotPerKey
  <2>2. QED
    BY <1>2, <2>1 DEF Stored
<1>3. QED
  BY <1>1, <1>2 DEF Stored

\* No step of a rehash loses, changes or invents an entry.
LEMMA RehashKeepsEntries ==
    ASSUME IInv, Accounted, Accounted', NEW k \in Keys,
           PutSize \/ RehashPair \/ RehashDone
    PROVE  Stored(k)' = Stored(k)
<1>1. CASE PutSize
  <2>1. Unmoved = {} /\ Occupied' = {} /\ Unmoved' = Occupied /\ oldPairs' = pairs
    BY <1>1, PutSizeTables
  <2>2. CASE \E i \in Occupied : pairs[i].key = k
    BY <2>1, <2>2 DEF Accounted
  <2>3. CASE \A i \in Occupied : pairs[i].key # k
    BY <2>1, <2>3 DEF Accounted
  <2>4. QED
    BY <2>2, <2>3
<1>2. CASE RehashPair
  <2>1. oldPairs' = oldPairs
    BY <1>2, RehashPairTables
  <2>2. CASE pairs' = pairs /\ Occupied' = Occupied /\ Unmoved' = Unmoved
    BY <2>1, <2>2 DEF Stored
  <2>3. ASSUME NEW s \in (0..alloc-1) \ Occupied,
               cursor \in Unmoved, Unmoved' = Unmoved \ {cursor},
               Occupied' = Occupied \cup {s},
               pairs'[s] = oldPairs[cursor],
               \A i \in Occupied : pairs'[i] = pairs[i]
        PROVE  Stored(k)' = Stored(k)
    <3>1. CASE \E i \in Occupied : pairs[i].key = k
      BY <2>3, <3>1 DEF Accounted
    <3>2. CASE oldPairs[cursor].key = k
      BY <2>3, <3>2 DEF Accounted
    <3>3. CASE \E i \in Unmoved \ {cursor} : oldPairs[i].key = k
      BY <2>1, <2>3, <3>3 DEF Accounted
    <3>4. CASE /\ \A i \in Occupied : pairs[i].key # k
               /\ \A i \in Unmoved : oldPairs[i].key # k
      BY <2>1, <2>3, <3>4 DEF Accounted
    <3>5. QED
      BY <3>1, <3>2, <3>3, <3>4
  <2>4. QED
    BY <1>2, <2>2, <2>3, RehashPairTables
<1>3. CASE RehashDone
  <2>1. Occupied' = Occupied /\ pairs' = pairs /\ Unmoved' = {}
    BY <1>3 DEF RehashDone, Occupied, Unmoved
  <2>2. Unmoved = {}
    <3>1. PICK n \in PowersOfTwo : /\ oldPairs \in [0..n-1 -> PairType]
                                   /\ cursor \in Nat /\ cursor <= n
                                   /\ cursor \notin 0..n-1
      BY <1>3 DEF RehashDone, IInv, TypeOK
    <3>2. n \in Nat /\ cursor = n
      BY <3>1, SizesArePositive
    <3>3. QED
      BY <3>1, <3>2 DEF Unmoved
  <2>3. QED
    BY <2>1, <2>2 DEF Stored
<1>4. QED
  BY <1>1, <1>2, <1>3

DictBar == [k \in Keys |-> Stored(k)]
DictStep == [Dict!DNext]_(Dict!dvars)

\* The empty table is the empty dictionary.
LEMMA InitImplementsInit == Init => Dict!DInit
<1> SUFFICES ASSUME Init PROVE Dict!DInit
  OBVIOUS
<1>1. IInv
  BY InitInvariant
<1>2. Accounted
  BY <1>1, StoredIs
<1>3. Occupied = {} /\ Unmoved = {}
  <2>1. alloc \in PowersOfTwo
    BY <1>1 DEF IInv, TypeOK
  <2>2. QED
    BY <2>1, CallocIsEmpty DEF Init, Occupied, Unmoved
<1>4. \A k \in Keys : Stored(k) = NULL
  BY <1>2, <1>3 DEF Accounted
<1>5. QED
  BY <1>4 DEF Init, Dict!DInit

\* The steps that do not touch the entries.
LEMMA SameEntries ==
    ASSUME UNCHANGED <<pairs, alloc, oldPairs, cursor>>,
           (pc = "rehash") = (pc' = "rehash")
    PROVE  \A k \in Keys : Stored(k)' = Stored(k)
<1>1. Occupied' = Occupied /\ Unmoved' = Unmoved
  BY DEF Occupied, Unmoved
<1>2. QED
  BY <1>1 DEF Stored

\* The rest of hashmap_put is a put of the dictionary.
LEMMA PutInsertImplements ==
    ASSUME IInv, Accounted, Accounted', PutInsert
    PROVE  Dict!DNext
<1> DEFINE s == FindPair(pairs, alloc, arg.key)
<1>1. /\ pc = "insert" /\ pc' = "idle" /\ listed' = {}
      /\ UNCHANGED <<hash, alloc, oldPairs, cursor>>
      /\ arg \in [key : Keys, value : Values]
      /\ alloc \in PowersOfTwo /\ alloc \in Nat /\ hash \in [Keys -> Hashes]
      /\ Unmoved = {} /\ Unmoved' = {}
  BY SizesArePositive DEF PutInsert, IInv, TypeOK, Unmoved
<1>2. Stops(pairs, alloc, arg.key) # {}
  <2>1. Cardinality(Occupied) < alloc
    BY <1>1, TableIsFinite, FS_EmptySet DEF IInv, SizeCounts, HasRoom
  <2>2. QED
    BY <1>1, <2>1, FreeSlotIsFound DEF IInv
<1>3. s # NoSlot /\ s \in 0..alloc-1 /\ pairs[s].key \in {NULL, arg.key}
  BY <1>1, <1>2, FindPairStops
<1>4. CASE pairs[s].key # NULL
  <2>1. ret' = "EEXIST" /\ UNCHANGED pairs
    BY <1>3, <1>4 DEF PutInsert
  <2>2. Stored(arg.key) # NULL
    <3>1. s \in Occupied /\ pairs[s].key = arg.key
      BY <1>3, <1>4 DEF Occupied
    <3>2. QED
      BY <1>1, <3>1, LookupIsStored
  <2>3. DictBar' = DictBar
    BY <1>1, <2>1, SameEntries DEF DictBar
  <2>4. Dict!DPutExisting(arg.key)
    BY <1>1, <2>1, <2>2, <2>3 DEF Dict!DPutExisting, DictBar
  <2>5. QED
    BY <1>1, <2>4 DEF Dict!DNext
<1>5. CASE pairs[s].key = NULL
  <2>1. ret' = "OK" /\ pairs' = [pairs EXCEPT ![s] = arg]
    BY <1>3, <1>5 DEF PutInsert
  <2>2. /\ Occupied' = Occupied \cup {s}
        /\ \A i \in Occupied : pairs'[i] = pairs[i]
        /\ pairs'[s] = arg
        /\ \A i \in Occupied : pairs[i].key # arg.key
    BY <1>1, <1>2, <1>5, <2>1, StoreInvariant DEF IInv
  <2>3. PICK k \in Keys, v \in Values : arg.key = k /\ arg.value = v
    BY <1>1
  <2>4. Stored(k) = NULL
    BY <1>1, <2>2, <2>3 DEF Accounted
  <2>5. Stored(k)' = v
    <3>1. \A i \in Occupied' : pairs'[i].key = k => Stored(k)' = pairs'[i].value
      BY DEF Accounted
    <3>2. QED
      BY <2>2, <2>3, <3>1
  <2>6. ASSUME NEW c \in Keys, c # k PROVE Stored(c)' = Stored(c)
    <3>1. CASE \E i \in Occupied : pairs[i].key = c
      BY <2>2, <3>1 DEF Accounted
    <3>2. CASE \A i \in Occupied : pairs[i].key # c
      BY <1>1, <2>2, <2>3, <2>6, <3>2 DEF Accounted
    <3>3. QED
      BY <3>1, <3>2
  <2>7. DictBar' = [DictBar EXCEPT ![k] = v]
    BY <2>5, <2>6 DEF DictBar
  <2>8. Dict!DPutNew(k, v)
    BY <1>1, <2>1, <2>4, <2>7 DEF Dict!DPutNew, DictBar
  <2>9. QED
    BY <2>8 DEF Dict!DNext
<1>6. QED
  BY <1>4, <1>5

\* Every step is a step of the dictionary or leaves it alone.
LEMMA NextImplementsNext ==
    ASSUME IInv, Accounted, Accounted', [Next]_vars
    PROVE  DictStep
<1>1. ASSUME NEW k \in Keys, Get(k) PROVE DictStep
  <2>1. /\ pc = "idle" /\ pc' = "idle" /\ listed' = {}
        /\ UNCHANGED <<hash, size, alloc, pairs, oldPairs, cursor, arg>>
        /\ ret' = Lookup(pairs, alloc, k)
    BY <1>1 DEF Get
  <2>2. DictBar' = DictBar
    BY <2>1, SameEntries DEF DictBar
  <2>3. ret' = Stored(k)
    BY <2>1, LookupIsStored
  <2>4. Dict!DGet(k)
    BY <2>1, <2>2, <2>3 DEF Dict!DGet, DictBar
  <2>5. QED
    BY <2>4 DEF DictStep, Dict!DNext
<1>2. ASSUME NEW k \in Keys, NEW v \in Values, PutCall(k, v) PROVE DictStep
  <2>1. /\ pc = "idle" /\ pc' = "put"
        /\ UNCHANGED <<hash, size, alloc, pairs, oldPairs, cursor, ret, listed>>
    BY <1>2 DEF PutCall
  <2>2. DictBar' = DictBar
    BY <2>1, SameEntries DEF DictBar
  <2>3. QED
    BY <2>1, <2>2 DEF DictStep, Dict!dvars, DictBar
<1>3. CASE GetKeys
  <2>1. /\ pc = "idle" /\ pc' = "idle" /\ ret' = NULL
        /\ UNCHANGED <<hash, size, alloc, pairs, oldPairs, cursor, arg>>
        /\ listed' = {pairs[i].key : i \in 0..alloc-1} \ {NULL}
    BY <1>3 DEF GetKeys
  <2>2. DictBar' = DictBar
    BY <2>1, SameEntries DEF DictBar
  <2>3. \A i \in Occupied : pairs[i].key \in Keys
    BY DEF IInv, TypeOK, PairType, EmptyPair, Occupied
  <2>4. listed' = {k \in Keys : \E i \in Occupied : pairs[i].key = k}
    BY <2>1, <2>3, KeysAssumption DEF Occupied
  <2>5. \A k \in Keys : Stored(k) # NULL <=> \E i \in Occupied : pairs[i].key = k
    BY <2>1, LookupIsStored
  <2>6. Dict!DKeys
    BY <2>1, <2>2, <2>4, <2>5 DEF Dict!DKeys, DictBar
  <2>7. QED
    BY <2>6 DEF DictStep, Dict!DNext
<1>4. CASE PutSize \/ RehashPair \/ RehashDone
  <2>1. UNCHANGED <<ret, listed>>
    BY <1>4, PutSizeTables DEF RehashPair, RehashDone
  <2>2. DictBar' = DictBar
    BY <1>4, RehashKeepsEntries DEF DictBar
  <2>3. QED
    BY <2>1, <2>2 DEF DictStep, Dict!dvars, DictBar
<1>5. CASE PutInsert
  BY <1>5, PutInsertImplements DEF DictStep
<1>6. CASE UNCHANGED vars
  <2>1. UNCHANGED <<pairs, alloc, oldPairs, cursor, pc, ret, listed>>
    BY <1>6 DEF vars
  <2>2. DictBar' = DictBar
    BY <2>1, SameEntries DEF DictBar
  <2>3. QED
    BY <2>1, <2>2 DEF DictStep, Dict!dvars, DictBar
<1>7. QED
  BY <1>1, <1>2, <1>3, <1>4, <1>5, <1>6 DEF Next

\* For every set of keys and every hash function, whatever the collisions:
\* hashmap_put, hashmap_get and hashmap_keys answer as a dictionary does.
THEOREM Refinement == Spec => IsDictionary
<1>1. Init => Dict!DInit
  BY InitImplementsInit
<1>2. IInv /\ Accounted /\ Accounted' /\ [Next]_vars => [Dict!DNext]_(Dict!dvars)
  BY NextImplementsNext DEF DictStep
<1>3. Spec => []IInv
  BY Invariance
<1>4. IInv => Accounted
  BY StoredIs
<1>5. QED
  BY <1>1, <1>2, <1>3, <1>4, PTL DEF Spec, IsDictionary, Dict!DSpec
=============================================================================
