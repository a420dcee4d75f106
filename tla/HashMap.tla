------------------------------- MODULE HashMap -------------------------------
(***************************************************************************)
(* The open-addressing hash table of hashmap.c: linear probing, no         *)
(* deletion, and a rehash in front of (almost) every put.  The rehash loop *)
(* moves one pair per step, so that the table half way through it is a     *)
(* state the invariants have to account for.                               *)
(***************************************************************************)
EXTENDS Naturals, FiniteSets

CONSTANTS Keys,        \* the strings used as keys
          Values,      \* the non-NULL pointers stored
          NULL,
          Hashes,      \* the values the hash function may take
          InitSize,    \* HASHMAP_INIT_SIZE
          MaxAlloc     \* the largest power of two `1 << n` can be as an int

ASSUME KeysAssumption == IsFiniteSet(Keys) /\ NULL \notin Keys
ASSUME ValuesAssumption == NULL \notin Values
ASSUME HashesAssumption == Hashes \subseteq Nat

\* hashmap_init_sized(1) reads __builtin_clzl(0) and a table of two slots
\* cannot grow: nothing in the repository asks for a table below 3.
ASSUME InitSizeAssumption == InitSize \in Nat /\ InitSize >= 3

PowersOfTwo == {p \in 1..MaxAlloc : \E e \in 0..30 : p = 2^e}

\* The table never gets so large that the shift overflows.
ASSUME MaxAllocAssumption ==
    /\ MaxAlloc \in PowersOfTwo
    /\ InitSize <= MaxAlloc
    /\ 2 * Cardinality(Keys) <= MaxAlloc

Minimum(S) == CHOOSE m \in S : \A n \in S : m <= n

\* Slip: the table grows to just the slots that are wanted.
UnroundedSize(n) == n

\* 1 << (64 - __builtin_clzl(n - 1)), for n > 1
RoundUp(n) == Minimum({p \in PowersOfTwo : p >= n})

VARIABLES hash,       \* HASHMAP_HASH_FUNCTION, the same for the whole run
          size,       \* map->size
          alloc,      \* map->alloc
          pairs,      \* map->pairs
          oldPairs,   \* old_pairs of a rehash that is going on
          cursor,     \* `pair` of the rehash loop, as an index
          pc,         \* where the current call is
          arg,        \* the key and the value of the current hashmap_put
          ret,        \* what the last completed call returned
          listed      \* the keys it listed, if it was hashmap_keys

vars == <<hash, size, alloc, pairs, oldPairs, cursor, pc, arg, ret, listed>>

EmptyPair == [key |-> NULL, value |-> NULL]
Calloc(n) == [i \in 0..n-1 |-> EmptyPair]
NoSlot == MaxAlloc

\* hashmap_calc_index; alloc is a power of two, so the mask is the remainder.
Home(k, n) == hash[k] % n

\* The slot `j` steps of HASHMAP_PROBE_NEXT behind slot h.
Probe(h, j, n) == IF h + j < n THEN h + j ELSE h + j - n

\* Slip: the probing goes past the key, to the first free slot.
StopsWhenFree(table, n, k) ==
    {j \in 0..n-1 : table[Probe(Home(k, n), j, n)].key = NULL}

\* The probes at which hashmap_find_pair leaves its loop.
Stops(table, n, k) ==
    {j \in 0..n-1 : table[Probe(Home(k, n), j, n)].key \in {NULL, k}}

\* hashmap_find_pair(map, k, true)
FindPair(table, n, k) ==
    IF Stops(table, n, k) = {} THEN NoSlot
    ELSE Probe(Home(k, n), Minimum(Stops(table, n, k)), n)

\* hashmap_find_pair(map, k, false): a pair that holds the key, or nothing
Lookup(table, n, k) ==
    LET i == FindPair(table, n, k)
    IN  IF i # NoSlot /\ table[i].key = k THEN table[i].value ELSE NULL

\* Slip: the table never grows.
FixedSize == alloc

CalcSize == LET n == size + size \div 3
            IN  IF n < alloc THEN alloc ELSE RoundUp(n)

-----------------------------------------------------------------------------

Init ==
    /\ hash \in [Keys -> Hashes]
    /\ size = 0
    /\ alloc = RoundUp(InitSize)
    /\ pairs = Calloc(RoundUp(InitSize))
    /\ oldPairs = <<>>
    /\ cursor = 0
    /\ pc = "idle"
    /\ arg = EmptyPair
    /\ ret = NULL
    /\ listed = {}

PutCall(k, v) ==
    /\ pc = "idle"
    /\ pc' = "put"
    /\ arg' = [key |-> k, value |-> v]
    /\ UNCHANGED <<hash, size, alloc, pairs, oldPairs, cursor, ret, listed>>

\* Slip: the rehash loop leaves out the first slot.
PutSizeSkipsFirst ==
    /\ pc = "put"
    /\ IF CalcSize > size
       THEN /\ pc' = "rehash"
            /\ oldPairs' = pairs
            /\ alloc' = CalcSize
            /\ pairs' = Calloc(CalcSize)
            /\ cursor' = 1
       ELSE /\ pc' = "insert"
            /\ UNCHANGED <<alloc, pairs, oldPairs, cursor>>
    /\ UNCHANGED <<hash, size, arg, ret, listed>>

\* The size test of hashmap_put compares the slots wanted with the number
\* of pairs stored, not with the slots there are.
PutSize ==
    /\ pc = "put"
    /\ IF CalcSize > size
       THEN /\ pc' = "rehash"
            /\ oldPairs' = pairs
            /\ alloc' = CalcSize
            /\ pairs' = Calloc(CalcSize)
            /\ cursor' = 0
       ELSE /\ pc' = "insert"
            /\ UNCHANGED <<alloc, pairs, oldPairs, cursor>>
    /\ UNCHANGED <<hash, size, arg, ret, listed>>

\* Slip: the pairs keep the slots they had in the smaller table.
RehashInPlace ==
    /\ pc = "rehash"
    /\ cursor \in DOMAIN oldPairs
    /\ pairs' = [pairs EXCEPT ![cursor] = oldPairs[cursor]]
    /\ cursor' = cursor + 1
    /\ UNCHANGED <<hash, size, alloc, oldPairs, pc, arg, ret, listed>>

RehashPair ==
    /\ pc = "rehash"
    /\ cursor \in DOMAIN oldPairs
    /\ LET pair == oldPairs[cursor]
           i == FindPair(pairs, alloc, pair.key)
       IN  pairs' = IF pair.key = NULL THEN pairs ELSE [pairs EXCEPT ![i] = pair]
    /\ cursor' = cursor + 1
    /\ UNCHANGED <<hash, size, alloc, oldPairs, pc, arg, ret, listed>>

RehashDone ==
    /\ pc = "rehash"
    /\ cursor \notin DOMAIN oldPairs
    /\ pc' = "insert"
    /\ oldPairs' = <<>>
    /\ cursor' = 0
    /\ UNCHANGED <<hash, size, alloc, pairs, arg, ret, listed>>

\* Slip: a key that is there already is counted once more.
PutInsertCountsAll ==
    /\ pc = "insert"
    /\ pc' = "idle"
    /\ arg' = EmptyPair
    /\ LET i == FindPair(pairs, alloc, arg.key)
       IN  /\ ret' = IF pairs[i].key # NULL THEN "EEXIST" ELSE "OK"
           /\ pairs' = IF pairs[i].key # NULL THEN pairs ELSE [pairs EXCEPT ![i] = arg]
           /\ size' = size + 1
    /\ listed' = {}
    /\ UNCHANGED <<hash, alloc, oldPairs, cursor>>

PutInsert ==
    /\ pc = "insert"
    /\ pc' = "idle"
    /\ arg' = EmptyPair
    /\ LET i == FindPair(pairs, alloc, arg.key)
       IN  IF i = NoSlot
           THEN ret' = "EADDRNOTAVAIL" /\ UNCHANGED <<size, pairs>>
           ELSE IF pairs[i].key # NULL
           THEN ret' = "EEXIST" /\ UNCHANGED <<size, pairs>>
           ELSE /\ ret' = "OK"
                /\ pairs' = [pairs EXCEPT ![i] = arg]
                /\ size' = size + 1
    /\ listed' = {}
    /\ UNCHANGED <<hash, alloc, oldPairs, cursor>>

Get(k) ==
    /\ pc = "idle"
    /\ ret' = Lookup(pairs, alloc, k)
    /\ listed' = {}
    /\ UNCHANGED <<hash, size, alloc, pairs, oldPairs, cursor, pc, arg>>

GetKeys ==
    /\ pc = "idle"
    /\ listed' = {pairs[i].key : i \in 0..alloc-1} \ {NULL}
    /\ ret' = NULL
    /\ UNCHANGED <<hash, size, alloc, pairs, oldPairs, cursor, pc, arg>>

Next ==
    \/ \E k \in Keys : Get(k) \/ \E v \in Values : PutCall(k, v)
    \/ PutSize
    \/ RehashPair
    \/ RehashDone
    \/ PutInsert
    \/ GetKeys

Spec == Init /\ [][Next]_vars

-----------------------------------------------------------------------------

PairType == [key : Keys, value : Values] \cup {EmptyPair}

\* The type invariant; the two tables are arrays of a power of two of pairs.
TypeOK ==
    /\ hash \in [Keys -> Hashes]
    /\ size \in Nat
    /\ alloc \in PowersOfTwo
    /\ pairs \in [0..alloc-1 -> PairType]
    /\ pc \in {"idle", "put", "rehash", "insert"}
    /\ cursor \in Nat
    /\ pc = "rehash" => \E n \in PowersOfTwo : /\ oldPairs \in [0..n-1 -> PairType]
                                             /\ cursor <= n
    /\ IF pc = "idle" THEN arg = EmptyPair
       ELSE arg \in [key : Keys, value : Values]
    /\ ret \in Values \cup {NULL, "OK", "EEXIST"}
    /\ listed \subseteq Keys

Occupied == {i \in 0..alloc-1 : pairs[i].key # NULL}

\* The pairs the rehash loop has not moved yet.
Unmoved == IF pc = "rehash"
           THEN {i \in DOMAIN oldPairs : i >= cursor /\ oldPairs[i].key # NULL}
           ELSE {}

\* No key is in two slots, or both moved and still to be moved.
OneSlotPerKey ==
    /\ \A i, j \in Occupied : pairs[i].key = pairs[j].key => i = j
    /\ \A i, j \in Unmoved : oldPairs[i].key = oldPairs[j].key => i = j
    /\ \A i \in Occupied, j \in Unmoved : pairs[i].key # oldPairs[j].key

\* Linear probing finds every pair there is: whatever was put in front of a
\* colliding key or grown around it, hashmap_find_pair stops at its slot.
Reachable == \A i \in Occupied : FindPair(pairs, alloc, pairs[i].key) = i

\* map->size is the number of pairs, in both tables together.
SizeCounts == size = Cardinality(Occupied) + Cardinality(Unmoved)

\* However the keys collide and however far a rehash is, the table holds every
\* key once, where probing finds it, and size says how many there are.
TableIsSound == OneSlotPerKey /\ Reachable /\ SizeCounts

\* assert(new_pair != 0) in hashmap_rehash, and "out of memory" in
\* hashmap_put: a pair that has to be stored always finds a free slot.
RoomToInsert ==
    /\ pc = "rehash" /\ cursor \in Unmoved
          => FindPair(pairs, alloc, oldPairs[cursor].key) # NoSlot
    /\ pc = "insert" => FindPair(pairs, alloc, arg.key) # NoSlot

\* The inductive invariant; its last part is why there is always room: the
\* table that is about to take a pair has more slots than pairs.
HasRoom == alloc >= 3 /\ (pc \in {"rehash", "insert"} => size < alloc)
IInv == TypeOK /\ OneSlotPerKey /\ Reachable /\ SizeCounts /\ HasRoom

\* What the table stores for a key, wherever the pair is.
Stored(k) ==
    IF \E i \in Occupied : pairs[i].key = k
    THEN pairs[CHOOSE i \in Occupied : pairs[i].key = k].value
    ELSE IF \E i \in Unmoved : oldPairs[i].key = k
    THEN oldPairs[CHOOSE i \in Unmoved : oldPairs[i].key = k].value
    ELSE NULL

Dict == INSTANCE Dictionary WITH dict <- [k \in Keys |-> Stored(k)]

\* The hash table is a dictionary: put, get and keys answer as one would,
\* and no step of a rehash loses, changes or invents an entry.
IsDictionary == Dict!DSpec
=============================================================================
