------------------------------ MODULE HashMap -------------------------------
(***************************************************************************)
(* The open-addressing hash table of map.c, one loop iteration per step.   *)
(* The preprocessor keeps its macros and include guards in such tables,    *)
(* the parser its scopes and tags, the generator its stack slots.          *)
(*                                                                         *)
(* A table is an array of slots; a slot holds a key, NULL (never used) or  *)
(* TOMBSTONE (its key was removed).  `mask' is size-1 and sizes are powers *)
(* of two, so `x & mask' is x % size.  A static Map has no arrays until    *)
(* its first map_put: size = 0 stands for key == NULL.                     *)
(***************************************************************************)
EXTENDS Integers, FiniteSets

CONSTANTS Key, Val,
          Removable,    \* the keys map_remove is ever called with
          OuterKey,     \* the keys the parent map ever binds
          Hash,         \* hash(): the 32-bit FNV value of each key
          InitSize,     \* INIT_SIZE
          MaxSize,      \* bound: no map_put that would grow beyond this
          NULL, TOMBSTONE

ASSUME KeyAssumption == /\ NULL \notin Key \cup Val
                        /\ TOMBSTONE \notin Key
                        /\ NULL # TOMBSTONE
                        /\ Removable \subseteq Key /\ OuterKey \subseteq Key
ASSUME HashAssumption == Hash \in [Key -> Nat]
ASSUME SizeAssumption == InitSize \in Nat /\ InitSize >= 4 /\ MaxSize \in Nat

VARIABLES key, val, size, nelem, nused,    \* the fields of the Map
          outer,        \* what map_get(m->parent, k) answers
          call, ret,    \* the operation under way (or NULL), the last answer
          pc,           \* where it is
          i,            \* the probe cursor of put, get and remove
          newkey, newval, newsize,         \* maybe_rehash's k, v, newsize
          from, j       \* maybe_rehash's cursors in the old and new arrays

table   == <<key, val, size, nelem, nused>>
rehash  == <<newkey, newval, newsize, from, j>>
vars    == <<table, outer, call, ret, pc, i, rehash>>

Binding == [Key -> Val \cup {NULL}]
Calls   == [op : {"put"}, key : Key, val : Val]
           \cup [op : {"get"}, key : Key]
           \cup [op : {"remove"}, key : Removable]
ASSUME CallAssumption == NULL \notin Calls

Slots(n)     == 0 .. n - 1
Fresh(n)     == [s \in Slots(n) |-> NULL]
StartUnmasked(k, n) == Hash[k]   \* mutant: `& mask' forgotten
Start(k, n)  == Hash[k] % n
After(s, n)  == (s + 1) % n
Live(K, n)   == {s \in Slots(n) : K[s] \in Key}
Used(K, n)   == {s \in Slots(n) : K[s] # NULL}

-----------------------------------------------------------------------------
\* make_map() allocates the arrays; a static Map starts without them.
Init == /\ size \in {0, InitSize}
        /\ key = Fresh(size) /\ val = Fresh(size)
        /\ nelem = 0 /\ nused = 0
        /\ outer = [k \in Key |-> NULL]
        /\ call = NULL /\ ret = NULL /\ pc = "idle" /\ i = 0
        /\ newkey = Fresh(0) /\ newval = Fresh(0) /\ newsize = 0
        /\ from = 0 /\ j = 0

\* mutant: the load is judged by the live elements, tombstones not counted
CrowdedByElems == 10 * nelem >= 7 * size

Crowded == 10 * nused >= 7 * size          \* !(nused < size * 0.7)

GrownSize == IF 100 * nelem < 35 * size THEN size ELSE 2 * size

Invoke == /\ pc = "idle"
          /\ call' \in Calls
          /\ call'.op = "put" /\ Crowded => GrownSize <= MaxSize
          /\ pc' = "called"
          /\ UNCHANGED <<table, outer, ret, i, rehash>>

\* The parent is another Map: its bindings change between operations.
OuterPut == /\ pc = "idle"
            /\ \E k \in OuterKey, v \in Val : outer' = [outer EXCEPT ![k] = v]
            /\ UNCHANGED <<table, call, ret, pc, i, rehash>>

Calling(op, p) == pc = p /\ call.op = op

Probe(n) == pc' = "probe" /\ i' = Start(call.key, n)

Return(r) == /\ pc' = "idle" /\ call' = NULL /\ ret' = r /\ i' = 0
             /\ UNCHANGED <<outer, rehash>>

Advance == /\ i' = After(i, size)
           /\ UNCHANGED <<table, outer, call, ret, pc, rehash>>

-----------------------------------------------------------------------------
(* maybe_rehash *)
Allocate == /\ Calling("put", "called") /\ size = 0
            /\ size' = InitSize
            /\ key' = Fresh(InitSize) /\ val' = Fresh(InitSize)
            /\ Probe(InitSize)
            /\ UNCHANGED <<nelem, nused, outer, call, ret, rehash>>

KeepTable == /\ Calling("put", "called") /\ size # 0 /\ ~ Crowded
             /\ Probe(size)
             /\ UNCHANGED <<table, outer, call, ret, rehash>>

StartRehash == /\ Calling("put", "called") /\ size # 0 /\ Crowded
               /\ newsize' = GrownSize
               /\ newkey' = Fresh(GrownSize) /\ newval' = Fresh(GrownSize)
               /\ from' = 0 /\ j' = 0 /\ pc' = "rehash"
               /\ UNCHANGED <<table, outer, call, ret, i>>

SkipSlot == /\ pc = "rehash" /\ from < size /\ key[from] \in {NULL, TOMBSTONE}
            /\ from' = from + 1
            /\ UNCHANGED <<table, outer, call, ret, pc, i,
                           newkey, newval, newsize, j>>

\* mutant: the old table's mask used for the new table
TakeSlotOldMask == /\ pc = "rehash" /\ from < size
                   /\ key[from] \notin {NULL, TOMBSTONE}
                   /\ j' = Start(key[from], size) /\ pc' = "place"
                   /\ UNCHANGED <<table, outer, call, ret, i,
                                  newkey, newval, newsize, from>>

TakeSlot == /\ pc = "rehash" /\ from < size
            /\ key[from] \notin {NULL, TOMBSTONE}
            /\ j' = Start(key[from], newsize) /\ pc' = "place"
            /\ UNCHANGED <<table, outer, call, ret, i,
                           newkey, newval, newsize, from>>

PlaceNext == /\ pc = "place" /\ newkey[j] # NULL
             /\ j' = After(j, newsize)
             /\ UNCHANGED <<table, outer, call, ret, pc, i,
                            newkey, newval, newsize, from>>

Place == /\ pc = "place" /\ newkey[j] = NULL
         /\ newkey' = [newkey EXCEPT ![j] = key[from]]
         /\ newval' = [newval EXCEPT ![j] = val[from]]
         /\ from' = from + 1 /\ pc' = "rehash"
         /\ UNCHANGED <<table, outer, call, ret, i, newsize, j>>

Install == /\ pc = "rehash" /\ from = size
           /\ key' = newkey /\ val' = newval /\ size' = newsize
           /\ nused' = nelem
           /\ newkey' = Fresh(0) /\ newval' = Fresh(0) /\ newsize' = 0
           /\ from' = 0 /\ j' = 0
           /\ Probe(newsize)
           /\ UNCHANGED <<nelem, outer, call, ret>>

-----------------------------------------------------------------------------
(* map_put, after maybe_rehash *)
PutNext == /\ Calling("put", "probe")
           /\ key[i] \notin {NULL, TOMBSTONE, call.key}
           /\ Advance

\* mutant: a reused tombstone counted as a newly used slot
InsertRecount == /\ Calling("put", "probe") /\ key[i] \in {NULL, TOMBSTONE}
                 /\ key' = [key EXCEPT ![i] = call.key]
                 /\ val' = [val EXCEPT ![i] = call.val]
                 /\ nelem' = nelem + 1 /\ nused' = nused + 1
                 /\ Return(NULL)
                 /\ UNCHANGED size

Insert == /\ Calling("put", "probe") /\ key[i] \in {NULL, TOMBSTONE}
          /\ key' = [key EXCEPT ![i] = call.key]
          /\ val' = [val EXCEPT ![i] = call.val]
          /\ nelem' = nelem + 1
          /\ nused' = IF key[i] = NULL THEN nused + 1 ELSE nused
          /\ Return(NULL)
          /\ UNCHANGED size

Overwrite == /\ Calling("put", "probe") /\ key[i] = call.key
             /\ val' = [val EXCEPT ![i] = call.val]
             /\ Return(NULL)
             /\ UNCHANGED <<key, size, nelem, nused>>

(* map_get: map_get_nostack, then the parent when it answers NULL *)
StartGet == /\ Calling("get", "called") /\ size # 0
            /\ Probe(size)
            /\ UNCHANGED <<table, outer, call, ret, rehash>>

GetNext == /\ Calling("get", "probe") /\ key[i] \notin {NULL, call.key}
           /\ Advance

GetHit == /\ Calling("get", "probe") /\ key[i] = call.key
          /\ Return(IF val[i] # NULL THEN val[i] ELSE outer[call.key])
          /\ UNCHANGED table

\* mutant: the parent not consulted
GetMissNoParent == /\ \/ Calling("get", "called") /\ size = 0
                      \/ Calling("get", "probe") /\ key[i] = NULL
                   /\ Return(NULL)
                   /\ UNCHANGED table

GetMiss == /\ \/ Calling("get", "called") /\ size = 0
              \/ Calling("get", "probe") /\ key[i] = NULL
           /\ Return(outer[call.key])
           /\ UNCHANGED table

(* map_remove *)
StartRemove == /\ Calling("remove", "called") /\ size # 0
               /\ Probe(size)
               /\ UNCHANGED <<table, outer, call, ret, rehash>>

RemoveNext == /\ Calling("remove", "probe") /\ key[i] \notin {NULL, call.key}
              /\ Advance

\* mutant: the removed slot cleared to NULL instead of TOMBSTONE
BuryAsNull == /\ Calling("remove", "probe") /\ key[i] = call.key
              /\ key' = [key EXCEPT ![i] = NULL]
              /\ val' = [val EXCEPT ![i] = NULL]
              /\ nelem' = nelem - 1
              /\ Return(NULL)
              /\ UNCHANGED <<size, nused>>

Bury == /\ Calling("remove", "probe") /\ key[i] = call.key
        /\ key' = [key EXCEPT ![i] = TOMBSTONE]
        /\ val' = [val EXCEPT ![i] = NULL]
        /\ nelem' = nelem - 1
        /\ Return(NULL)
        /\ UNCHANGED <<size, nused>>

RemoveMiss == /\ \/ Calling("remove", "called") /\ size = 0
                 \/ Calling("remove", "probe") /\ key[i] = NULL
              /\ Return(NULL)
              /\ UNCHANGED table

-----------------------------------------------------------------------------
Rehash == Allocate \/ KeepTable \/ StartRehash \/ SkipSlot \/ TakeSlot
          \/ PlaceNext \/ Place \/ Install
MapPut    == PutNext \/ Insert \/ Overwrite
MapGet    == StartGet \/ GetNext \/ GetHit \/ GetMiss
MapRemove == StartRemove \/ RemoveNext \/ Bury \/ RemoveMiss
Step == Rehash \/ MapPut \/ MapGet \/ MapRemove

Next == Invoke \/ OuterPut \/ Step

Spec     == Init /\ [][Next]_vars
FairSpec == Spec /\ WF_vars(Step)
-----------------------------------------------------------------------------
TypeOK == /\ size \in Nat /\ nelem \in Int /\ nused \in Int
          /\ key \in [Slots(size) -> Key \cup {NULL, TOMBSTONE}]
          /\ val \in [Slots(size) -> Val \cup {NULL}]
          /\ outer \in Binding
          /\ IF pc = "idle" THEN call = NULL ELSE call \in Calls
          /\ ret \in Val \cup {NULL}
          /\ pc \in {"idle", "called", "rehash", "place", "probe"}
          /\ pc \in {"rehash", "place"} => call.op = "put"
          /\ i \in Nat /\ (pc = "probe" => i \in Slots(size))
          /\ newsize \in Nat
          /\ newkey \in [Slots(newsize) -> Key \cup {NULL}]
          /\ newval \in [Slots(newsize) -> Val \cup {NULL}]
          /\ from \in 0 .. size
          /\ j \in Nat
          /\ pc = "place" => /\ j \in Slots(newsize)
                            /\ from \in Slots(size) /\ key[from] \in Key

\* The two counters maybe_rehash decides by count what they claim to: the live
\* slots and the slots that are not NULL.  An overwrite, a reused tombstone and
\* a rehash each change them in a way of their own.
Counters == /\ nelem = Cardinality(Live(key, size))
            /\ nused = Cardinality(Used(key, size))

\* No probe loop runs around a full table: whatever puts and removes came
\* before, an array that is probed or refilled has a NULL slot.
ProbeStops == /\ size > 0 => \E s \in Slots(size) : key[s] = NULL
              /\ pc \in {"rehash", "place"} =>
                    \E s \in Slots(newsize) : newkey[s] = NULL

\* The slots a probe for a key that starts at slot h visits before slot s.
Between(h, s, n) == IF h <= s THEN {t \in Slots(n) : h <= t /\ t < s}
                              ELSE {t \in Slots(n) : h <= t \/ t < s}

Path(K, n) == \A s \in Slots(n) : K[s] \in Key =>
                 \A t \in Between(Start(K[s], n), s, n) : K[t] # NULL

\* A key that is in the table is found: no NULL slot separates it from the slot
\* its probe starts at, although removals punch holes and rehashing moves it.
Findable == Path(key, size) /\ Path(newkey, newsize)

\* Where no key is ever removed, no key sits in two slots.
Unique == Removable = {} =>
            \A s, t \in Slots(size) :
               key[s] \in Key /\ key[s] = key[t] => s = t

\* What the table binds: for each key, the value at the slot its probe finds.
Distance(k, s) == Cardinality(Between(Start(k, size), s, size))
Holding(k) == {s \in Slots(size) : key[s] = k}
Found(k) == CHOOSE s \in Holding(k) :
               \A t \in Holding(k) : Distance(k, s) <= Distance(k, t)
bindings == [k \in Key |-> IF Holding(k) = {} THEN NULL ELSE val[Found(k)]]

\* The abstract map, and the table as its implementation: every step that is
\* not the end of an operation (a probe, every step of a rehash) keeps the
\* bindings, the last step of each operation does what map.c promises of it,
\* and every operation ends.
Assoc == INSTANCE AssocMap WITH map <- bindings
ImplementsMap == Assoc!Spec

\* Every call returns: no probe and no rehash goes on for ever, whatever was
\* removed before.
Returns == pc # "idle" ~> pc = "idle"

\* utiltest.c:102-103 `map_remove(m, k); assert_null(map_get(m, k));' of every
\* reachable table: the step that removes a key leaves no binding of it.
RemoveUnbinds == [][Calling("remove", "probe") /\ pc' = "idle"
                       => bindings'[call.key] = NULL]_vars
=============================================================================
