--------------------------- MODULE HashMapProofs ----------------------------
(***************************************************************************)
(* Proofs about the hash table of map.c, for every set of keys, every hash *)
(* function and every history of operations.                               *)
(***************************************************************************)
EXTENDS HashMap, FiniteSetTheorems, TLAPS

-----------------------------------------------------------------------------
(* Cursors *)

LEMMA StartType ==
  ASSUME NEW k \in Key, NEW n \in Nat, n > 0
  PROVE  Start(k, n) \in Slots(n) /\ Start(k, n) \in Nat
BY HashAssumption DEF Start, Slots

LEMMA AfterValue ==
  ASSUME NEW n \in Nat, NEW s \in Slots(n)
  PROVE  After(s, n) = IF s + 1 = n THEN 0 ELSE s + 1
BY DEF After, Slots

LEMMA AfterType ==
  ASSUME NEW n \in Nat, NEW s \in Slots(n)
  PROVE  After(s, n) \in Slots(n) /\ After(s, n) \in Nat
BY AfterValue DEF Slots

LEMMA BetweenStart ==
  ASSUME NEW n \in Nat, NEW h \in Slots(n)
  PROVE  Between(h, h, n) = {}
BY DEF Between, Slots

LEMMA BetweenAfter ==
  ASSUME NEW n \in Nat, NEW h \in Slots(n), NEW s \in Slots(n)
  PROVE  Between(h, After(s, n), n) \subseteq Between(h, s, n) \cup {s}
BY AfterValue DEF Between, Slots

LEMMA BetweenTotal ==
  ASSUME NEW n \in Nat, NEW h \in Slots(n), NEW s \in Slots(n),
         NEW t \in Slots(n), s # t
  PROVE  s \in Between(h, t, n) \/ t \in Between(h, s, n)
BY DEF Between, Slots

-----------------------------------------------------------------------------
(* Counting slots *)

LEMMA SlotsFinite ==
  ASSUME NEW n \in Nat
  PROVE  IsFiniteSet(Slots(n)) /\ Cardinality(Slots(n)) = n
<1>1. /\ IsFiniteSet(0 .. n - 1)
      /\ Cardinality(0 .. n - 1) = IF 0 > n - 1 THEN 0 ELSE (n - 1) - 0 + 1
  BY FS_Interval
<1> QED
  BY <1>1 DEF Slots

LEMMA UsedCount ==
  ASSUME NEW K, NEW n \in Nat
  PROVE  /\ IsFiniteSet(Used(K, n)) /\ IsFiniteSet(Live(K, n))
         /\ Cardinality(Used(K, n)) \in Nat /\ Cardinality(Live(K, n)) \in Nat
         /\ Cardinality(Live(K, n)) <= Cardinality(Used(K, n))
         /\ Cardinality(Used(K, n)) <= n
<1>1. Used(K, n) \in SUBSET Slots(n)
  BY DEF Used
<1>2. Live(K, n) \in SUBSET Used(K, n)
  BY KeyAssumption DEF Used, Live
<1>3. IsFiniteSet(Used(K, n)) /\ Cardinality(Used(K, n)) <= n
  BY <1>1, SlotsFinite, FS_Subset
<1>4. /\ IsFiniteSet(Live(K, n))
      /\ Cardinality(Live(K, n)) <= Cardinality(Used(K, n))
  BY <1>2, <1>3, FS_Subset
<1> QED
  BY <1>3, <1>4, FS_CardinalityType

\* Fewer used slots than slots leave a NULL slot.
LEMMA NullSlot ==
  ASSUME NEW K, NEW n \in Nat, Cardinality(Used(K, n)) < n
  PROVE  \E s \in Slots(n) : K[s] = NULL
<1>1. Used(K, n) # Slots(n)
  BY SlotsFinite
<1> QED
  BY <1>1 DEF Used

LEMMA FreshCount ==
  ASSUME NEW n \in Nat
  PROVE  Used(Fresh(n), n) = {} /\ Live(Fresh(n), n) = {}
BY KeyAssumption DEF Used, Live, Fresh

\* A tombstone leaves the slot used, and takes it from the live ones.
LEMMA BuryCount ==
  ASSUME NEW n \in Nat, NEW K \in [Slots(n) -> Key \cup {NULL, TOMBSTONE}],
         NEW s \in Slots(n), K[s] \in Key
  PROVE  /\ Used([K EXCEPT ![s] = TOMBSTONE], n) = Used(K, n)
         /\ Live([K EXCEPT ![s] = TOMBSTONE], n) = Live(K, n) \ {s}
BY KeyAssumption DEF Used, Live

\* Where no slot is a tombstone the used slots are the live ones.
LEMMA NoTombCount ==
  ASSUME NEW n \in Nat, NEW K \in [Slots(n) -> Key \cup {NULL}]
  PROVE  Used(K, n) = Live(K, n)
BY KeyAssumption DEF Used, Live

-----------------------------------------------------------------------------
(* Probe paths *)

\* A store at a slot that the probe of the stored key reaches without meeting
\* NULL keeps every key of the array findable.
LEMMA StorePath ==
  ASSUME NEW n \in Nat, NEW K \in [Slots(n) -> Key \cup {NULL, TOMBSTONE}],
         Path(K, n),
         NEW s \in Slots(n), NEW k \in Key,
         \A t \in Between(Start(k, n), s, n) : K[t] # NULL
  PROVE  Path([K EXCEPT ![s] = k], n)
<1> DEFINE L == [K EXCEPT ![s] = k]
<1>1. \A t \in Slots(n) : K[t] # NULL => L[t] # NULL
  BY KeyAssumption
<1>2. \A t \in Slots(n) : L[t] = IF t = s THEN k ELSE K[t]
  OBVIOUS
<1>3. ASSUME NEW h, NEW u, NEW t \in Between(h, u, n) PROVE t \in Slots(n)
  BY <1>3 DEF Between
<1> QED
  BY <1>1, <1>2, <1>3 DEF Path

LEMMA BuryPath ==
  ASSUME NEW n \in Nat, NEW K \in [Slots(n) -> Key \cup {NULL, TOMBSTONE}],
         Path(K, n),
         NEW s \in Slots(n)
  PROVE  Path([K EXCEPT ![s] = TOMBSTONE], n)
<1> DEFINE L == [K EXCEPT ![s] = TOMBSTONE]
<1>1. \A t \in Slots(n) : K[t] # NULL => L[t] # NULL
  BY KeyAssumption
<1>2. \A t \in Slots(n) : L[t] = IF t = s THEN TOMBSTONE ELSE K[t]
  OBVIOUS
<1>3. ASSUME NEW h, NEW u, NEW t \in Between(h, u, n) PROVE t \in Slots(n)
  BY <1>3 DEF Between
<1> QED
  BY <1>1, <1>2, <1>3, KeyAssumption DEF Path

LEMMA FreshPath ==
  ASSUME NEW n \in Nat
  PROVE  Path(Fresh(n), n)
BY KeyAssumption DEF Path, Fresh

-----------------------------------------------------------------------------
(* Types *)

\* An allocated array has at least INIT_SIZE slots, and no step reads an array
\* that was not allocated.
Sizes == /\ size = 0 \/ size >= 4
         /\ pc = "probe" => size >= 4
         /\ pc \in {"rehash", "place"} => size >= 4 /\ newsize >= 4

Types == TypeOK /\ Sizes

LEMMA CallShape ==
  ASSUME NEW c \in Calls
  PROVE  /\ c.op \in {"put", "get", "remove"}
         /\ c.key \in Key
         /\ c.op = "put" => c.val \in Val
BY KeyAssumption DEF Calls

LEMMA TypesInit == Init => Types
BY KeyAssumption, SizeAssumption
DEF Init, Types, TypeOK, Sizes, Slots, Fresh, Binding
LEMMA TypesStep == Types /\ [Next]_vars => Types'
<1> SUFFICES ASSUME Types, [Next]_vars PROVE Types'
  OBVIOUS
<1> USE KeyAssumption, SizeAssumption, CallShape
        DEF Types, TypeOK, Sizes, table, rehash, Calling, Return, Advance, Probe
<1>1. CASE Invoke
  BY <1>1 DEF Invoke
<1>2. CASE OuterPut
  BY <1>2 DEF OuterPut, Binding
<1>3. CASE Allocate
  BY <1>3, StartType DEF Allocate, Fresh, Slots
<1>4. CASE KeepTable
  BY <1>4, StartType DEF KeepTable
<1>5. CASE StartRehash
  BY <1>5 DEF StartRehash, GrownSize, Fresh, Slots
<1>6. CASE SkipSlot
  BY <1>6 DEF SkipSlot
<1>7. CASE TakeSlot
  BY <1>7, StartType DEF TakeSlot, Slots
<1>8. CASE PlaceNext
  BY <1>8, AfterType DEF PlaceNext
<1>9. CASE Place
  BY <1>9 DEF Place, Slots
<1>10. CASE Install
  <2>1. /\ Start(call.key, newsize) \in Slots(newsize)
        /\ Start(call.key, newsize) \in Nat
    BY <1>10, StartType DEF Install
  <2>2. newkey \in [Slots(newsize) -> Key \cup {NULL, TOMBSTONE}]
    OBVIOUS
  <2>3. Fresh(0) \in [Slots(0) -> Key \cup {NULL}]
        /\ Fresh(0) \in [Slots(0) -> Val \cup {NULL}]
    BY DEF Fresh
  <2>4. /\ size' = newsize /\ key' = newkey /\ val' = newval /\ newsize' = 0
        /\ newkey' = Fresh(0) /\ newval' = Fresh(0) /\ from' = 0 /\ j' = 0
        /\ pc = "rehash" /\ pc' = "probe" /\ i' = Start(call.key, newsize)
        /\ nused' = nelem /\ nelem' = nelem /\ UNCHANGED <<outer, call, ret>>
    BY <1>10 DEF Install
  <2> QED
    BY <2>1, <2>2, <2>3, <2>4
<1>11. CASE PutNext
  BY <1>11, AfterType DEF PutNext
<1>12. CASE Insert
  BY <1>12 DEF Insert
<1>13. CASE Overwrite
  BY <1>13 DEF Overwrite
<1>14. CASE StartGet
  BY <1>14, StartType DEF StartGet
<1>15. CASE GetNext
  BY <1>15, AfterType DEF GetNext
<1>16. CASE GetHit
  BY <1>16 DEF GetHit, Binding
<1>17. CASE GetMiss
  BY <1>17 DEF GetMiss, Binding
<1>18. CASE StartRemove
  BY <1>18, StartType DEF StartRemove
<1>19. CASE RemoveNext
  BY <1>19, AfterType DEF RemoveNext
<1>20. CASE Bury
  BY <1>20 DEF Bury
<1>21. CASE RemoveMiss
  BY <1>21 DEF RemoveMiss
<1>22. CASE UNCHANGED vars
  BY <1>22 DEF vars
<1> QED
  BY <1>1, <1>2, <1>3, <1>4, <1>5, <1>6, <1>7, <1>8, <1>9, <1>10, <1>11,
     <1>12, <1>13, <1>14, <1>15, <1>16, <1>17, <1>18, <1>19, <1>20, <1>21,
     <1>22 DEF Next, Step, Rehash, MapPut, MapGet, MapRemove

\* Every field, cursor and local of map.c keeps its type, and no loop reads an
\* array out of its bounds.
THEOREM TypeCorrect == Spec => []TypeOK
<1>1. Types => TypeOK
  BY DEF Types
<1> QED
  BY TypesInit, TypesStep, <1>1, PTL DEF Spec
-----------------------------------------------------------------------------
(* The counters *)

\* The counters count; and enough slots are free: `nused' stays below size, a
\* probing map_put may still use up one slot, and the array being filled has
\* received exactly the live slots already walked and has room for the rest.
Count == /\ Counters
         /\ size > 0 => nused < size
         /\ pc = "probe" /\ call.op = "put" => nused + 1 < size
         /\ pc \in {"rehash", "place"} =>
               /\ nelem + 1 < newsize
               /\ Cardinality(Used(newkey, newsize))
                     = Cardinality(Live(key, from))

LEMMA CountInit == Init => Count
<1> SUFFICES ASSUME Init PROVE Count
  OBVIOUS
<1>1. size \in Nat /\ Cardinality(Used(key, size)) = 0
      /\ Cardinality(Live(key, size)) = 0
  BY FreshCount, FS_EmptySet, SizeAssumption DEF Init
<1> QED
  BY <1>1 DEF Init, Count, Counters

\* The steps that move a cursor, answer, or start to probe leave the arrays.
Quiet == Invoke \/ OuterPut \/ PlaceNext \/ TakeSlot \/ PutNext \/ Overwrite
         \/ MapGet \/ StartRemove \/ RemoveNext \/ RemoveMiss

LEMMA CountQuiet == Types /\ Count /\ Quiet => Count'
BY DEF Types, TypeOK, Count, Counters, Quiet, Invoke, OuterPut, PlaceNext,
       TakeSlot, PutNext, Overwrite, MapGet, StartGet, GetNext, GetHit, GetMiss,
       StartRemove, RemoveNext, RemoveMiss,
       table, rehash, Calling, Return, Advance, Probe

LEMMA CountStep == Types /\ Count /\ [Next]_vars => Count'
<1> SUFFICES ASSUME Types, Count, [Next]_vars PROVE Count'
  OBVIOUS
<1> USE SizeAssumption DEF table, rehash, Calling, Return, Advance, Probe
<1>a. /\ size \in Nat /\ nelem \in Int /\ nused \in Int /\ newsize \in Nat
      /\ from \in 0 .. size /\ (size = 0 \/ size >= 4)
      /\ nelem <= nused /\ nelem >= 0 /\ nused <= size
  BY UsedCount DEF Types, TypeOK, Sizes, Count, Counters
<1>1. CASE Quiet
  BY <1>1, CountQuiet
<1>2. CASE Allocate
  <2>1. Cardinality(Used(key', size')) = 0 /\ Cardinality(Live(key', size')) = 0
    BY <1>2, FreshCount, FS_EmptySet DEF Allocate
  <2>2. nelem = 0 /\ nused = 0
    BY <1>2, <1>a DEF Allocate
  <2> QED
    BY <1>2, <2>1, <2>2 DEF Allocate, Count, Counters
<1>3. CASE KeepTable
  BY <1>3, <1>a DEF KeepTable, Crowded, Count, Counters
<1>4. CASE StartRehash
  <2>1. Cardinality(Used(newkey', newsize')) = 0
    BY <1>4, <1>a, FreshCount, FS_EmptySet DEF StartRehash, GrownSize
  <2>2. Cardinality(Live(key', from')) = 0
    <3>1. Live(key', 0) = {}
      BY DEF Live, Slots
    <3> QED
      BY <1>4, <3>1, FS_EmptySet DEF StartRehash
  <2>3. nelem + 1 < newsize'
    BY <1>4, <1>a DEF StartRehash, GrownSize, Count
  <2> QED
    BY <1>4, <2>1, <2>2, <2>3 DEF StartRehash, Count, Counters
<1>5. CASE SkipSlot
  <2>1. Live(key, from + 1) = Live(key, from)
    BY <1>5, <1>a, KeyAssumption DEF SkipSlot, Live, Slots
  <2> QED
    BY <1>5, <2>1 DEF SkipSlot, Count, Counters
<1>6. CASE Place
  <2>1. /\ j \in Slots(newsize) /\ from \in Slots(size) /\ key[from] \in Key
        /\ newkey \in [Slots(newsize) -> Key \cup {NULL, TOMBSTONE}]
    BY <1>6 DEF Place, Types, TypeOK
  <2>2. Used(newkey', newsize) = Used(newkey, newsize) \cup {j}
    <3>1. newkey' = [newkey EXCEPT ![j] = key[from]]
      BY <1>6 DEF Place
    <3> QED
      BY <3>1, <2>1, KeyAssumption DEF Used, Live
  <2>3. j \notin Used(newkey, newsize)
    BY <1>6 DEF Place, Used
  <2>4. Live(key, from + 1) = Live(key, from) \cup {from}
    BY <2>1, <1>a DEF Live, Slots
  <2>5. from \notin Live(key, from)
    BY <1>a DEF Live, Slots
  <2>6. /\ Cardinality(Used(newkey', newsize))
              = Cardinality(Used(newkey, newsize)) + 1
        /\ Cardinality(Live(key, from + 1)) = Cardinality(Live(key, from)) + 1
    <3>1. from \in Nat
      BY <1>a
    <3>2. /\ IsFiniteSet(Used(newkey, newsize)) /\ IsFiniteSet(Live(key, from))
      BY <3>1, <1>a, UsedCount
    <3>3. Cardinality(Used(newkey, newsize) \cup {j})
              = Cardinality(Used(newkey, newsize)) + 1
      BY <3>2, <2>3, FS_AddElement
    <3>4. Cardinality(Live(key, from) \cup {from})
              = Cardinality(Live(key, from)) + 1
      BY <3>2, <2>5, FS_AddElement
    <3> QED
      BY <2>2, <2>4, <3>3, <3>4
  <2> QED
    BY <1>6, <2>6 DEF Place, Count, Counters
<1>7. CASE Install
  <2>1. newkey \in [Slots(newsize) -> Key \cup {NULL}]
    BY DEF Types, TypeOK
  <2>2. Cardinality(Used(newkey, newsize)) = nelem
    BY <1>7 DEF Install, Count, Counters
  <2>3. Cardinality(Live(newkey, newsize)) = nelem
    BY <2>1, <2>2, <1>a, NoTombCount
  <2> QED
    BY <1>7, <1>a, <2>2, <2>3 DEF Install, Count, Counters
<1>8. CASE Insert
  <2>1. /\ i \in Slots(size) /\ call.key \in Key
        /\ key \in [Slots(size) -> Key \cup {NULL, TOMBSTONE}]
    BY <1>8, CallShape DEF Insert, Types, TypeOK
  <2>2. /\ Used(key', size) = Used(key, size) \cup {i}
        /\ Live(key', size) = Live(key, size) \cup {i}
    <3>1. key' = [key EXCEPT ![i] = call.key]
      BY <1>8 DEF Insert
    <3> QED
      BY <3>1, <2>1, KeyAssumption DEF Used, Live
  <2>3. /\ i \notin Live(key, size)
        /\ i \in Used(key, size) <=> key[i] # NULL
    <3>1. key[i] = NULL \/ key[i] = TOMBSTONE
      BY <1>8 DEF Insert
    <3> QED
      BY <2>1, <3>1, KeyAssumption DEF Used, Live
  <2>4. /\ Cardinality(Live(key', size)) = nelem + 1
        /\ Cardinality(Used(key', size)) =
              IF key[i] = NULL THEN nused + 1 ELSE nused
    <3>1. /\ IsFiniteSet(Live(key, size)) /\ IsFiniteSet(Used(key, size))
          /\ Cardinality(Live(key, size)) = nelem
          /\ Cardinality(Used(key, size)) = nused
      BY <1>a, UsedCount DEF Count, Counters
    <3>2. Cardinality(Live(key', size)) = nelem + 1
      BY <2>2, <2>3, <3>1, FS_AddElement
    <3>3. CASE key[i] = NULL
      <4>1. i \notin Used(key, size)
        BY <2>3, <3>3
      <4>2. Cardinality(Used(key', size)) = nused + 1
        BY <2>2, <3>1, <4>1, FS_AddElement
      <4> QED
        BY <3>2, <3>3, <4>2
    <3>4. CASE key[i] # NULL
      <4>1. Used(key', size) = Used(key, size)
        BY <2>2, <2>3, <3>4
      <4> QED
        BY <3>1, <3>2, <3>4, <4>1
    <3> QED
      BY <3>3, <3>4
  <2> QED
    BY <1>8, <1>a, <2>4 DEF Insert, Count, Counters
<1>9. CASE Bury
  <2>1. /\ i \in Slots(size) /\ key[i] \in Key
        /\ key \in [Slots(size) -> Key \cup {NULL, TOMBSTONE}]
    BY <1>9, CallShape DEF Bury, Types, TypeOK
  <2>2. /\ Used(key', size) = Used(key, size)
        /\ Live(key', size) = Live(key, size) \ {i}
    BY <1>9, <1>a, <2>1, BuryCount DEF Bury
  <2>3. i \in Live(key, size)
    BY <2>1 DEF Live
  <2>4. Cardinality(Live(key', size)) = nelem - 1
    <3>1. IsFiniteSet(Live(key, size)) /\ Cardinality(Live(key, size)) = nelem
      BY <1>a, UsedCount DEF Count, Counters
    <3>2. Cardinality(Live(key, size) \ {i}) = nelem - 1
      BY <2>3, <3>1, FS_RemoveElement
    <3> QED
      BY <2>2, <3>2
  <2> QED
    BY <1>9, <1>a, <2>2, <2>4 DEF Bury, Count, Counters
<1>10. CASE UNCHANGED vars
  BY <1>10 DEF vars, Count, Counters
<1> QED
  BY <1>1, <1>2, <1>3, <1>4, <1>5, <1>6, <1>7, <1>8, <1>9, <1>10
  DEF Next, Step, Rehash, MapPut, MapGet, MapRemove, Quiet

\* nelem is the number of live slots and nused that of slots that are not NULL,
\* after every sequence of puts, overwrites, removes and rehashes.
THEOREM CountersCorrect == Spec => []Counters
<1>1. Count => Counters
  BY DEF Count
<1> QED
  BY TypesInit, TypesStep, CountInit, CountStep, <1>1, PTL DEF Spec

\* Every probe meets a NULL slot if it meets nothing else: the load limit of
\* 0.7 and the growth rule leave one in any table of at least four slots.
THEOREM ProbesStop == Spec => []ProbeStops
<1>1. Types /\ Count => ProbeStops
  <2> SUFFICES ASSUME Types, Count PROVE ProbeStops
    OBVIOUS
  <2>1. size \in Nat /\ newsize \in Nat /\ from \in 0 .. size
        /\ nelem \in Int
    BY DEF Types, TypeOK
  <2>2. ASSUME size > 0 PROVE \E s \in Slots(size) : key[s] = NULL
    BY <2>1, <2>2, NullSlot DEF Count, Counters
  <2>3. ASSUME pc \in {"rehash", "place"}
        PROVE  \E s \in Slots(newsize) : newkey[s] = NULL
    <3>1. Live(key, from) \subseteq Live(key, size)
      BY <2>1 DEF Live, Slots
    <3>2. Cardinality(Live(key, from)) <= Cardinality(Live(key, size))
      BY <3>1, <2>1, UsedCount, FS_Subset
    <3>3. Cardinality(Used(newkey, newsize)) < newsize
      BY <3>2, <2>3, <2>1, UsedCount DEF Count, Counters
    <3> QED
      BY <3>3, <2>1, NullSlot
  <2> QED
    BY <2>2, <2>3 DEF ProbeStops
<1> QED
  BY TypesInit, TypesStep, CountInit, CountStep, <1>1, PTL DEF Spec
-----------------------------------------------------------------------------
(* Probe paths and unique keys *)

\* Both arrays keep their keys findable, and a probe for k that has come to a
\* slot has met no NULL on its way.
Passed(K, k, s, n) == \A t \in Between(Start(k, n), s, n) : K[t] # NULL

Paths == /\ Findable
         /\ pc = "probe" => Passed(key, call.key, i, size)
         /\ pc = "place" => Passed(newkey, key[from], j, newsize)

LEMMA PassedStart ==
  ASSUME NEW K, NEW k \in Key, NEW n \in Nat, n > 0
  PROVE  Passed(K, k, Start(k, n), n)
BY StartType, BetweenStart DEF Passed

LEMMA PassedAfter ==
  ASSUME NEW K, NEW k \in Key, NEW n \in Nat, n > 0, NEW s \in Slots(n),
         Passed(K, k, s, n), K[s] # NULL
  PROVE  Passed(K, k, After(s, n), n)
BY StartType, BetweenAfter DEF Passed

LEMMA PathsInit == Init => Paths
BY FreshPath, SizeAssumption DEF Init, Paths, Findable

LEMMA PathsStep == Types /\ Types' /\ Paths /\ [Next]_vars => Paths'
<1> SUFFICES ASSUME Types, Types', Paths, [Next]_vars PROVE Paths'
  OBVIOUS
<1> USE DEF Paths, Findable, table, rehash, Calling, Return, Advance, Probe
<1>a. /\ size \in Nat /\ newsize \in Nat
      /\ key \in [Slots(size) -> Key \cup {NULL, TOMBSTONE}]
      /\ newkey \in [Slots(newsize) -> Key \cup {NULL, TOMBSTONE}]
      /\ pc # "idle" => call.key \in Key
      /\ pc = "probe" => size > 0 /\ i \in Slots(size)
      /\ pc = "place" => newsize > 0 /\ j \in Slots(newsize) /\ key[from] \in Key
      /\ pc = "rehash" => newsize > 0
  BY CallShape DEF Types, TypeOK, Sizes
<1>1. CASE Invoke \/ OuterPut \/ SkipSlot
  BY <1>1 DEF Invoke, OuterPut, SkipSlot
<1>2. CASE Allocate
  BY <1>2, <1>a, FreshPath, PassedStart, SizeAssumption DEF Allocate
<1>3. CASE KeepTable \/ StartGet \/ StartRemove
  <2>1. Passed(key, call.key, Start(call.key, size), size)
    BY <1>3, <1>a, PassedStart DEF KeepTable, StartGet, StartRemove
  <2> QED
    BY <1>3, <2>1 DEF KeepTable, StartGet, StartRemove
<1>4. CASE StartRehash
  <2>1. newsize' \in Nat
    BY DEF Types, TypeOK
  <2>2. Path(newkey', newsize')
    BY <1>4, <2>1, FreshPath DEF StartRehash
  <2> QED
    BY <1>4, <2>2 DEF StartRehash
<1>5. CASE TakeSlot
  <2>1. key[from] \in Key
    BY <1>5 DEF TakeSlot, Types, TypeOK
  <2>2. Passed(newkey, key[from], Start(key[from], newsize), newsize)
    BY <1>5, <1>a, <2>1, PassedStart DEF TakeSlot
  <2> QED
    BY <1>5, <2>2 DEF TakeSlot
<1>6. CASE PlaceNext
  <2>1. Passed(newkey, key[from], After(j, newsize), newsize)
    BY <1>6, <1>a, PassedAfter DEF PlaceNext
  <2> QED
    BY <1>6, <2>1 DEF PlaceNext
<1>7. CASE Place
  <2>1. Path([newkey EXCEPT ![j] = key[from]], newsize)
    BY <1>7, <1>a, StorePath DEF Place, Passed
  <2> QED
    BY <1>7, <2>1 DEF Place
<1>8. CASE Install
  <2>1. Passed(newkey, call.key, Start(call.key, newsize), newsize)
    BY <1>8, <1>a, PassedStart DEF Install
  <2>2. Path(Fresh(0), 0)
    BY FreshPath
  <2> QED
    BY <1>8, <2>1, <2>2 DEF Install
<1>9. CASE PutNext \/ GetNext \/ RemoveNext
  <2>1. Passed(key, call.key, After(i, size), size)
    BY <1>9, <1>a, PassedAfter DEF PutNext, GetNext, RemoveNext
  <2> QED
    BY <1>9, <2>1 DEF PutNext, GetNext, RemoveNext
<1>10. CASE Insert
  <2>1. Path([key EXCEPT ![i] = call.key], size)
    BY <1>10, <1>a, StorePath DEF Insert, Passed
  <2> QED
    BY <1>10, <2>1 DEF Insert
<1>11. CASE Bury
  <2>1. Path([key EXCEPT ![i] = TOMBSTONE], size)
    BY <1>11, <1>a, BuryPath DEF Bury
  <2> QED
    BY <1>11, <2>1 DEF Bury
<1>12. CASE Overwrite \/ GetHit \/ GetMiss \/ RemoveMiss
  BY <1>12 DEF Overwrite, GetHit, GetMiss, RemoveMiss
<1>13. CASE UNCHANGED vars
  BY <1>13 DEF vars, Passed
<1> QED
  BY <1>1, <1>2, <1>3, <1>4, <1>5, <1>6, <1>7, <1>8, <1>9, <1>10, <1>11,
     <1>12, <1>13 DEF Next, Step, Rehash, MapPut, MapGet, MapRemove

\* A key that is in the table is found by the probe for it, whatever was
\* removed and rehashed before.
THEOREM KeysFindable == Spec => []Findable
<1>1. Paths => Findable
  BY DEF Paths
<1> QED
  BY TypesInit, TypesStep, PathsInit, PathsStep, <1>1, PTL DEF Spec

Injective(K, n) == \A s, t \in Slots(n) : K[s] \in Key /\ K[s] = K[t] => s = t

\* In a table no key is removed from there is no tombstone; the array being
\* filled holds keys already walked, and a probing map_put has passed no slot
\* with its key.
Distinct ==
  Removable = {} =>
     /\ \A s \in Slots(size) : key[s] # TOMBSTONE
     /\ Injective(key, size) /\ Injective(newkey, newsize)
     /\ pc \in {"rehash", "place"} =>
           \A t \in Slots(newsize) :
              newkey[t] \in Key => \E s \in Slots(from) : key[s] = newkey[t]
     /\ pc = "probe" /\ call.op = "put" =>
           \A t \in Between(Start(call.key, size), i, size) : key[t] # call.key

LEMMA DistinctInit == Init => Distinct
BY KeyAssumption DEF Init, Distinct, Injective, Fresh

\* A NULL slot that the probe for k comes to without passing k proves that k is
\* nowhere in the table.
LEMMA NullProvesAbsent ==
  ASSUME NEW n \in Nat, NEW K \in [Slots(n) -> Key \cup {NULL, TOMBSTONE}],
         Path(K, n), NEW k \in Key, NEW s \in Slots(n), K[s] = NULL,
         \A t \in Between(Start(k, n), s, n) : K[t] # k
  PROVE  \A t \in Slots(n) : K[t] # k
<1> SUFFICES ASSUME NEW t \in Slots(n), K[t] = k PROVE FALSE
  OBVIOUS
<1>1. s # t
  BY KeyAssumption
<1>2. Start(k, n) \in Slots(n)
  <2>1. n > 0
    BY DEF Slots
  <2> QED
    BY <2>1, StartType
<1>3. s \in Between(Start(k, n), t, n) \/ t \in Between(Start(k, n), s, n)
  BY <1>1, <1>2, BetweenTotal
<1> QED
  BY <1>3 DEF Path

LEMMA DistinctStep ==
  Types /\ Types' /\ Paths /\ Distinct /\ [Next]_vars => Distinct'
<1> SUFFICES ASSUME Types, Types', Paths, Distinct, [Next]_vars, Removable = {}
             PROVE  Distinct'
  BY DEF Distinct
<1> USE DEF Distinct, table, rehash, Calling, Return, Advance, Probe
<1>a. /\ size \in Nat /\ newsize \in Nat /\ from \in 0 .. size
      /\ key \in [Slots(size) -> Key \cup {NULL, TOMBSTONE}]
      /\ newkey \in [Slots(newsize) -> Key \cup {NULL}]
      /\ pc # "idle" => call.key \in Key /\ call.op # "remove"
      /\ pc = "probe" => size > 0 /\ i \in Slots(size)
      /\ pc = "place" => /\ newsize > 0 /\ j \in Slots(newsize)
                         /\ from \in Slots(size) /\ key[from] \in Key
      /\ pc = "rehash" => newsize > 0
  <2>1. pc # "idle" => call.op # "remove"
    BY DEF Types, TypeOK, Calls
  <2> QED
    BY <2>1, CallShape DEF Types, TypeOK, Sizes
<1>1. CASE Invoke \/ OuterPut \/ TakeSlot \/ PlaceNext
  BY <1>1 DEF Invoke, OuterPut, TakeSlot, PlaceNext
<1>2. CASE Allocate
  <2>1. Between(Start(call.key, InitSize), Start(call.key, InitSize), InitSize)
          = {}
    BY <1>2, <1>a, StartType, BetweenStart, SizeAssumption DEF Allocate
  <2> QED
    BY <1>2, <2>1, KeyAssumption DEF Allocate, Injective, Fresh
<1>3. CASE KeepTable
  <2>1. Between(Start(call.key, size), Start(call.key, size), size) = {}
    BY <1>3, <1>a, StartType, BetweenStart DEF KeepTable
  <2> QED
    BY <1>3, <2>1 DEF KeepTable
<1>4. CASE StartRehash
  <2>1. Injective(newkey', newsize')
        /\ \A t \in Slots(newsize') : newkey'[t] \notin Key
    BY <1>4, KeyAssumption DEF StartRehash, Injective, Fresh
  <2> QED
    BY <1>4, <2>1 DEF StartRehash
<1>5. CASE SkipSlot
  <2>1. Slots(from) \subseteq Slots(from + 1)
    BY <1>a DEF Slots
  <2> QED
    BY <1>5, <2>1 DEF SkipSlot
<1>6. CASE Place
  <2>1. Slots(from + 1) = Slots(from) \cup {from} /\ from \notin Slots(from)
    BY <1>a DEF Slots
  <2>2. \A t \in Slots(newsize) : newkey[t] # key[from]
    <3> SUFFICES ASSUME NEW t \in Slots(newsize), newkey[t] = key[from]
                 PROVE  FALSE
      OBVIOUS
    <3>1. PICK s \in Slots(from) : key[s] = key[from]
      BY <1>6, <1>a DEF Place
    <3>2. s \in Slots(size) /\ s # from
      BY <1>a, <2>1 DEF Slots
    <3> QED
      BY <1>6, <1>a, <3>1, <3>2 DEF Place, Injective
  <2>3. \A t \in Slots(newsize) :
           newkey'[t] = IF t = j THEN key[from] ELSE newkey[t]
    BY <1>6, <1>a DEF Place
  <2>4. Injective(newkey', newsize)
    BY <2>2, <2>3 DEF Injective
  <2>5. \A t \in Slots(newsize) :
           newkey'[t] \in Key => \E s \in Slots(from + 1) : key[s] = newkey'[t]
    BY <1>6, <2>1, <2>3 DEF Place
  <2> QED
    BY <1>6, <2>4, <2>5 DEF Place
<1>7. CASE Install
  <2>1. Between(Start(call.key, newsize), Start(call.key, newsize), newsize)
          = {}
    BY <1>7, <1>a, StartType, BetweenStart DEF Install
  <2>2. Injective(Fresh(0), 0)
    BY DEF Injective, Slots
  <2>3. \A s \in Slots(newsize) : newkey[s] # TOMBSTONE
    BY <1>a, KeyAssumption
  <2> QED
    BY <1>7, <2>1, <2>2, <2>3 DEF Install
<1>8. CASE PutNext
  <2>1. Between(Start(call.key, size), After(i, size), size)
          \subseteq Between(Start(call.key, size), i, size) \cup {i}
    BY <1>8, <1>a, StartType, BetweenAfter DEF PutNext
  <2> QED
    BY <1>8, <2>1 DEF PutNext
<1>9. CASE Insert
  <2>1. key[i] = NULL
    BY <1>9, <1>a DEF Insert
  <2>2. \A t \in Slots(size) : key[t] # call.key
    BY <1>9, <1>a, <2>1, NullProvesAbsent DEF Insert, Paths, Findable
  <2>3. \A t \in Slots(size) : key'[t] = IF t = i THEN call.key ELSE key[t]
    BY <1>9, <1>a DEF Insert
  <2>4. Injective(key', size)
    BY <2>2, <2>3 DEF Injective
  <2>5. \A s \in Slots(size) : key'[s] # TOMBSTONE
    BY <1>9, <1>a, <2>3, KeyAssumption DEF Insert
  <2> QED
    BY <1>9, <2>4, <2>5 DEF Insert
<1>10. CASE Bury \/ RemoveNext \/ StartRemove
  BY <1>10, <1>a DEF Bury, RemoveNext, StartRemove
<1>11. CASE Overwrite \/ StartGet \/ GetNext \/ GetHit \/ GetMiss \/ RemoveMiss
  BY <1>11 DEF Overwrite, StartGet, GetNext, GetHit, GetMiss, RemoveMiss
<1>12. CASE UNCHANGED vars
  BY <1>12 DEF vars
<1> QED
  BY <1>1, <1>2, <1>3, <1>4, <1>5, <1>6, <1>7, <1>8, <1>9, <1>10, <1>11,
     <1>12 DEF Next, Step, Rehash, MapPut, MapGet, MapRemove

\* In a map that nothing is removed from - every environment of the parser and
\* the generator - no key ever sits in two slots, through every wrap-around,
\* rehash and growth.
THEOREM KeysUnique == Spec => []Unique
<1>1. Distinct => Unique
  BY DEF Distinct, Unique, Injective
<1> QED
  BY TypesInit, TypesStep, PathsInit, PathsStep, DistinctInit, DistinctStep,
     <1>1, PTL DEF Spec

-----------------------------------------------------------------------------
(* The hash table of map.c, where no key is removed, is the association     *)
(* map.c promises its callers: the safety part of the refinement that run    *)
(* HashMap checks on tables of 4 and 8 slots.                                *)

(* What a table without removals binds *)

\* A slot with a key binds it to the slot's value, and a key without a slot is
\* not bound.
Reads == Removable = {} =>
           /\ \A s \in Slots(size) : key[s] \in Key => bindings[key[s]] = val[s]
           /\ \A k \in Key :
                 (\A s \in Slots(size) : key[s] # k) => bindings[k] = NULL

LEMMA ReadsHold == Types /\ Distinct => Reads
<1> SUFFICES ASSUME Types, Distinct, Removable = {} PROVE Reads
  BY DEF Reads
<1>1. ASSUME NEW s \in Slots(size), key[s] \in Key
      PROVE  bindings[key[s]] = val[s]
  <2> DEFINE k == key[s]
  <2>1. Holding(k) = {s}
    BY <1>1 DEF Holding, Distinct, Injective
  <2>2. Distance(k, s) \in Nat
    <3>1. size \in Nat /\ Between(Start(k, size), s, size) \in SUBSET Slots(size)
      BY DEF Types, TypeOK, Between
    <3> QED
      BY <3>1, SlotsFinite, FS_Subset, FS_CardinalityType DEF Distance
  <2>3. s \in Holding(k)
        /\ \A t \in Holding(k) : Distance(k, s) <= Distance(k, t)
    BY <2>1, <2>2
  <2>4. Found(k) \in Holding(k)
    BY <2>3 DEF Found
  <2> QED
    BY <1>1, <2>1, <2>4 DEF bindings
<1>2. ASSUME NEW k \in Key, \A s \in Slots(size) : key[s] # k
      PROVE  bindings[k] = NULL
  BY <1>2 DEF bindings, Holding
<1> QED
  BY <1>1, <1>2 DEF Reads

-----------------------------------------------------------------------------
(* Rehashing copies, and searching misses nothing *)

\* The array being filled holds every live slot already walked, with its value;
\* and a map_get that probes has passed no slot with its key.
Kept ==
  Removable = {} =>
     /\ pc \in {"rehash", "place"} =>
           \A s \in Slots(from) : key[s] \in Key =>
              \E t \in Slots(newsize) : newkey[t] = key[s] /\ newval[t] = val[s]
     /\ pc = "probe" /\ call.op = "get" =>
           \A t \in Between(Start(call.key, size), i, size) : key[t] # call.key

LEMMA KeptInit == Init => Kept
BY DEF Init, Kept

LEMMA KeptStep == Types /\ Kept /\ [Next]_vars => Kept'
<1> SUFFICES ASSUME Types, Kept, [Next]_vars, Removable = {} PROVE Kept'
  BY DEF Kept
<1> USE DEF Kept, table, rehash, Calling, Return, Advance, Probe
<1>a. /\ size \in Nat /\ newsize \in Nat /\ from \in 0 .. size
      /\ newkey \in [Slots(newsize) -> Key \cup {NULL}]
      /\ newval \in [Slots(newsize) -> Val \cup {NULL}]
      /\ pc # "idle" => call.key \in Key /\ call.op # "remove"
      /\ pc = "probe" => size > 0 /\ i \in Slots(size)
      /\ pc = "place" => /\ newsize > 0 /\ j \in Slots(newsize)
                         /\ from \in Slots(size) /\ key[from] \in Key
      /\ pc \in {"rehash", "place"} => call.op = "put"
      /\ Slots(from + 1) = Slots(from) \cup {from}
  <2>1. pc # "idle" => call.op # "remove"
    BY DEF Types, TypeOK, Calls
  <2>2. from \in 0 .. size
    BY DEF Types, TypeOK
  <2>3. Slots(from + 1) = Slots(from) \cup {from}
    BY <2>2 DEF Slots
  <2> QED
    BY <2>1, <2>2, <2>3, CallShape DEF Types, TypeOK, Sizes
<1>1. CASE Invoke \/ OuterPut \/ TakeSlot \/ PlaceNext
  BY <1>1 DEF Invoke, OuterPut, TakeSlot, PlaceNext
<1>2. CASE Allocate \/ KeepTable \/ Install \/ PutNext
  BY <1>2, <1>a DEF Allocate, KeepTable, Install, PutNext
<1>3. CASE StartRehash
  <2>1. Slots(0) = {}
    BY DEF Slots
  <2> QED
    BY <1>3, <2>1 DEF StartRehash
<1>4. CASE SkipSlot
  BY <1>4, <1>a, KeyAssumption DEF SkipSlot
<1>5. CASE Place
  <2>1. /\ newkey'[j] = key[from] /\ newval'[j] = val[from]
        /\ \A t \in Slots(newsize) :
              t # j => newkey'[t] = newkey[t] /\ newval'[t] = newval[t]
    BY <1>5, <1>a DEF Place
  <2>2. UNCHANGED <<table, call, newsize>> /\ from' = from + 1 /\ pc' = "rehash"
        /\ pc = "place" /\ newkey[j] = NULL
    BY <1>5 DEF Place
  <2>3. ASSUME NEW s \in Slots(from + 1), key[s] \in Key
        PROVE  \E t \in Slots(newsize) :
                  newkey'[t] = key[s] /\ newval'[t] = val[s]
    <3>1. CASE s = from
      BY <3>1, <2>1, <2>2, <1>a
    <3>2. CASE s \in Slots(from)
      <4>1. PICK t \in Slots(newsize) : newkey[t] = key[s] /\ newval[t] = val[s]
        BY <3>2, <2>2, <2>3
      <4>2. t # j
        BY <4>1, <2>2, <2>3, KeyAssumption
      <4> QED
        BY <4>1, <4>2, <2>1
    <3> QED
      BY <3>1, <3>2, <1>a
  <2> QED
    BY <2>2, <2>3
<1>6. CASE StartGet
  <2>1. Between(Start(call.key, size), Start(call.key, size), size) = {}
    BY <1>6, <1>a, StartType, BetweenStart DEF StartGet
  <2> QED
    BY <1>6, <2>1 DEF StartGet
<1>7. CASE GetNext
  <2>1. Between(Start(call.key, size), After(i, size), size)
          \subseteq Between(Start(call.key, size), i, size) \cup {i}
    BY <1>7, <1>a, StartType, BetweenAfter DEF GetNext
  <2> QED
    BY <1>7, <2>1 DEF GetNext
<1>8. CASE Insert \/ Overwrite \/ GetHit \/ GetMiss \/ RemoveMiss
  BY <1>8 DEF Insert, Overwrite, GetHit, GetMiss, RemoveMiss
<1>9. CASE Bury \/ RemoveNext \/ StartRemove
  BY <1>9, <1>a DEF Bury, RemoveNext, StartRemove
<1>10. CASE UNCHANGED vars
  BY <1>10 DEF vars
<1> QED
  BY <1>1, <1>2, <1>3, <1>4, <1>5, <1>6, <1>7, <1>8, <1>9, <1>10
  DEF Next, Step, Rehash, MapPut, MapGet, MapRemove

-----------------------------------------------------------------------------
(* Every step of the table is a step of the map, or leaves it alone *)

\* The steps that move a cursor, and those of a rehash before Install.
Inner == KeepTable \/ StartRehash \/ SkipSlot \/ TakeSlot \/ PlaceNext \/ Place
         \/ PutNext \/ StartGet \/ GetNext \/ StartRemove \/ RemoveNext

LEMMA BindingsFixed == UNCHANGED <<key, val, size>> => UNCHANGED bindings
BY DEF bindings, Holding, Found, Distance

LEMMA InnerStutters == Types /\ Inner => UNCHANGED Assoc!vars
<1> SUFFICES ASSUME Types, Inner PROVE UNCHANGED Assoc!vars
  OBVIOUS
<1>1. UNCHANGED <<key, val, size, outer, call, ret>>
  BY DEF Inner, KeepTable, StartRehash, SkipSlot, TakeSlot, PlaceNext, Place,
         PutNext, StartGet, GetNext, StartRemove, RemoveNext, table, rehash,
         Calling, Advance, Probe
<1> QED
  BY <1>1, BindingsFixed DEF Assoc!vars

\* The first map_put allocates an empty array: still nothing is bound.
LEMMA AllocateStutters ==
  Reads /\ Reads' /\ Removable = {} /\ Allocate => UNCHANGED Assoc!vars
<1> SUFFICES ASSUME Reads, Reads', Removable = {}, Allocate
             PROVE  UNCHANGED Assoc!vars
  OBVIOUS
<1>1. \A k \in Key : bindings[k] = NULL
  <2>1. Slots(size) = {}
    BY DEF Allocate, Slots
  <2> QED
    BY <2>1 DEF Reads
<1>2. \A k \in Key : bindings'[k] = NULL
  <2>1. \A s \in Slots(size') : key'[s] \notin Key
    BY KeyAssumption DEF Allocate, Fresh
  <2> QED
    BY <2>1 DEF Reads
<1>3. UNCHANGED bindings
  BY <1>1, <1>2 DEF bindings
<1> QED
  BY <1>3 DEF Allocate, Assoc!vars

\* The new array binds what the old one bound.
LEMMA InstallStutters ==
  /\ Types /\ Distinct /\ Kept /\ Reads /\ Reads' /\ Removable = {} /\ Install
  => UNCHANGED Assoc!vars
<1> SUFFICES ASSUME Types, Distinct, Kept, Reads, Reads', Removable = {}, Install
             PROVE  UNCHANGED Assoc!vars
  OBVIOUS
<1>1. /\ pc = "rehash" /\ from = size
      /\ key' = newkey /\ val' = newval /\ size' = newsize
      /\ UNCHANGED <<outer, call, ret>>
  BY DEF Install
<1>2. ASSUME NEW k \in Key PROVE bindings'[k] = bindings[k]
  <2>1. CASE \E s \in Slots(size) : key[s] = k
    <3>1. PICK s \in Slots(size) : key[s] = k
      BY <2>1
    <3>2. PICK t \in Slots(newsize) : newkey[t] = k /\ newval[t] = val[s]
      BY <3>1, <1>1 DEF Kept
    <3> QED
      BY <3>1, <3>2, <1>1 DEF Reads
  <2>2. CASE \A s \in Slots(size) : key[s] # k
    <3>1. \A t \in Slots(newsize) : newkey[t] # k
      BY <2>2, <1>1 DEF Distinct
    <3> QED
      BY <2>2, <3>1, <1>1 DEF Reads
  <2> QED
    BY <2>1, <2>2
<1>3. UNCHANGED bindings
  BY <1>2 DEF bindings
<1> QED
  BY <1>1, <1>3 DEF Assoc!vars

\* The last step of a map_put binds its key to its value, and no other.
LEMMA StoreBinds ==
  /\ Types /\ Paths /\ Distinct /\ Reads /\ Reads' /\ Removable = {}
  /\ Insert \/ Overwrite
  => Assoc!Put
<1> SUFFICES ASSUME Types, Paths, Distinct, Reads, Reads', Removable = {},
                    Insert \/ Overwrite
             PROVE  Assoc!Put
  OBVIOUS
<1>1. /\ pc = "probe" /\ call.op = "put" /\ call # NULL
      /\ call.key \in Key /\ i \in Slots(size) /\ size \in Nat
      /\ key \in [Slots(size) -> Key \cup {NULL, TOMBSTONE}]
      /\ val \in [Slots(size) -> Val \cup {NULL}]
      /\ size' = size /\ val' = [val EXCEPT ![i] = call.val]
      /\ key' = [key EXCEPT ![i] = call.key]
      /\ call' = NULL /\ ret' = NULL /\ outer' = outer
  <2>1. pc = "probe" /\ call.op = "put"
    BY DEF Insert, Overwrite, Calling
  <2>2. call \in Calls
    BY <2>1 DEF Types, TypeOK
  <2>3. call # NULL
    BY <2>2, CallAssumption
  <2>4. key' = [key EXCEPT ![i] = call.key]
    BY DEF Insert, Overwrite, Types, TypeOK
  <2> QED
    BY <2>1, <2>2, <2>3, <2>4, CallShape
    DEF Insert, Overwrite, Calling, Return, Types, TypeOK
<1>2. \A s \in Slots(size) : s # i => key[s] # call.key
  <2>1. CASE Insert
    <3>1. key[i] = NULL
      BY <2>1, <1>1 DEF Insert, Distinct
    <3>2. \A t \in Between(Start(call.key, size), i, size) : key[t] # call.key
      BY <1>1 DEF Distinct
    <3>3. \A s \in Slots(size) : key[s] # call.key
      BY <3>1, <3>2, <1>1, NullProvesAbsent DEF Paths, Findable
    <3> QED
      BY <3>3
  <2>2. CASE Overwrite
    BY <2>2, <1>1 DEF Overwrite, Distinct, Injective
  <2> QED
    BY <2>1, <2>2
<1>3. key[i] \in Key => key[i] = call.key
  BY <1>1, KeyAssumption DEF Insert, Overwrite
<1>4. ASSUME NEW k \in Key
      PROVE  bindings'[k] = IF k = call.key THEN call.val ELSE bindings[k]
  <2>1. CASE k = call.key
    BY <2>1, <1>1 DEF Reads
  <2>2. CASE k # call.key /\ \E s \in Slots(size) : key[s] = k
    <3>1. PICK s \in Slots(size) : key[s] = k
      BY <2>2
    <3>2. s # i
      BY <3>1, <2>2, <1>3
    <3>3. key'[s] = k /\ val'[s] = val[s]
      BY <3>1, <3>2, <1>1
    <3> QED
      BY <2>2, <3>1, <3>3, <1>1 DEF Reads
  <2>3. CASE k # call.key /\ \A s \in Slots(size) : key[s] # k
    <3>1. \A s \in Slots(size') : key'[s] # k
      BY <2>3, <1>1
    <3> QED
      BY <2>3, <3>1 DEF Reads
  <2> QED
    BY <2>1, <2>2, <2>3
<1>5. bindings' = [bindings EXCEPT ![call.key] = call.val]
  BY <1>4, <1>1 DEF bindings
<1> QED
  BY <1>1, <1>5 DEF Assoc!Put, Assoc!Return

\* map_get answers the binding of its key, or the parent's.
LEMMA GetAnswers ==
  /\ Types /\ Paths /\ Distinct /\ Kept /\ Reads /\ Removable = {}
  /\ GetHit \/ GetMiss
  => Assoc!Get
<1> SUFFICES ASSUME Types, Paths, Distinct, Kept, Reads, Removable = {},
                    GetHit \/ GetMiss
             PROVE  Assoc!Get
  OBVIOUS
<1>1. /\ pc # "idle" /\ call.op = "get" /\ call # NULL /\ call.key \in Key
      /\ UNCHANGED <<key, val, size, outer>> /\ call' = NULL
  <2>1. pc # "idle" /\ call.op = "get"
    BY DEF GetHit, GetMiss, Calling
  <2>2. call \in Calls
    BY <2>1 DEF Types, TypeOK
  <2>3. call # NULL
    BY <2>2, CallAssumption
  <2> QED
    BY <2>1, <2>2, <2>3, CallShape DEF GetHit, GetMiss, Return, table
<1>2. UNCHANGED bindings
  BY <1>1, BindingsFixed
<1>3. ret' = Assoc!Answer(call.key)
  <2>1. CASE GetHit
    <3>1. key[i] = call.key /\ i \in Slots(size)
      BY <2>1 DEF GetHit, Calling, Types, TypeOK
    <3>2. bindings[call.key] = val[i]
      BY <3>1, <1>1 DEF Reads
    <3> QED
      BY <2>1, <3>2 DEF GetHit, Return, Assoc!Answer
  <2>2. CASE GetMiss
    <3>1. \A s \in Slots(size) : key[s] # call.key
      <4>1. CASE size = 0
        BY <4>1 DEF Slots
      <4>2. CASE size # 0
        <5>1. /\ pc = "probe" /\ key[i] = NULL /\ i \in Slots(size)
              /\ size \in Nat
              /\ key \in [Slots(size) -> Key \cup {NULL, TOMBSTONE}]
          BY <2>2, <4>2 DEF GetMiss, Calling, Types, TypeOK
        <5> QED
          BY <5>1, <1>1, NullProvesAbsent DEF Kept, Paths, Findable
      <4> QED
        BY <4>1, <4>2
    <3>2. bindings[call.key] = NULL
      BY <3>1, <1>1 DEF Reads
    <3> QED
      BY <2>2, <3>2 DEF GetMiss, Return, Assoc!Answer
  <2> QED
    BY <2>1, <2>2
<1> QED
  BY <1>1, <1>2, <1>3 DEF Assoc!Get, Assoc!Return

LEMMA StepRefines ==
  /\ Removable = {} /\ Types /\ Paths /\ Distinct /\ Kept /\ Reads /\ Reads'
  /\ [Next]_vars
  => [Assoc!Next]_(Assoc!vars)
<1> SUFFICES ASSUME Removable = {}, Types, Paths, Distinct, Kept, Reads, Reads',
                    [Next]_vars
             PROVE  Assoc!Next \/ UNCHANGED Assoc!vars
  OBVIOUS
<1>1. CASE Invoke
  <2>1. call = NULL /\ call' \in Assoc!Calls
    BY <1>1 DEF Invoke, Types, TypeOK, Calls, Assoc!Calls
  <2>2. UNCHANGED <<key, val, size, outer, ret>>
    BY <1>1 DEF Invoke, table
  <2> QED
    BY <2>1, <2>2, BindingsFixed DEF Assoc!Next, Assoc!Invoke
<1>2. CASE OuterPut
  <2>1. call = NULL
    BY <1>2 DEF OuterPut, Types, TypeOK
  <2>2. UNCHANGED <<key, val, size, call, ret>>
    BY <1>2 DEF OuterPut, table
  <2>3. \E k \in Key, v \in Val : outer' = [outer EXCEPT ![k] = v]
    BY <1>2, KeyAssumption DEF OuterPut
  <2> QED
    BY <2>1, <2>2, <2>3, BindingsFixed DEF Assoc!Next, Assoc!OuterPut
<1>3. CASE Inner
  BY <1>3, InnerStutters
<1>4. CASE Allocate
  BY <1>4, AllocateStutters
<1>5. CASE Install
  BY <1>5, InstallStutters
<1>6. CASE Insert \/ Overwrite
  BY <1>6, StoreBinds DEF Assoc!Next
<1>7. CASE GetHit \/ GetMiss
  BY <1>7, GetAnswers DEF Assoc!Next
<1>8. CASE Bury \/ RemoveMiss
  BY <1>8 DEF Bury, RemoveMiss, Calling, Types, TypeOK, Calls
<1>9. CASE UNCHANGED vars
  BY <1>9, BindingsFixed DEF vars, table, Assoc!vars
<1> QED
  BY <1>1, <1>2, <1>3, <1>4, <1>5, <1>6, <1>7, <1>8, <1>9
  DEF Next, Step, Rehash, MapPut, MapGet, MapRemove, Inner

LEMMA InitRefines == Removable = {} /\ Init /\ Types /\ Reads => Assoc!Init
<1> SUFFICES ASSUME Removable = {}, Init, Types, Reads PROVE Assoc!Init
  OBVIOUS
<1>1. \A s \in Slots(size) : key[s] \notin Key
  BY KeyAssumption DEF Init, Fresh
<1>2. \A k \in Key : bindings[k] = NULL
  BY <1>1 DEF Reads
<1>3. bindings = [k \in Key |-> NULL]
  BY <1>2 DEF bindings
<1> QED
  BY <1>3 DEF Init, Assoc!Init, Types, TypeOK, Binding, Assoc!Binding

\* A table no key is removed from is the map its callers rely on: no probe, no
\* step of a rehash and no growth changes what a key is bound to, map_put binds
\* its key and no other, and map_get answers the binding of the innermost map
\* of the chain that has one.
THEOREM RefinesAssocMap == Removable = {} => (Spec => Assoc!SafeSpec)
<1> SUFFICES ASSUME Removable = {} PROVE Spec => Assoc!SafeSpec
  OBVIOUS
<1>1. Types /\ Distinct => Reads
  BY ReadsHold
<1>2. Init /\ Types /\ Reads => Assoc!Init
  BY InitRefines
<1>3. /\ Types /\ Paths /\ Distinct /\ Kept /\ Reads /\ Reads' /\ [Next]_vars
      => [Assoc!Next]_(Assoc!vars)
  BY StepRefines
<1> QED
  BY TypesInit, TypesStep, PathsInit, PathsStep, DistinctInit, DistinctStep,
     KeptInit, KeptStep, <1>1, <1>2, <1>3, PTL DEF Spec, Assoc!SafeSpec
=============================================================================
