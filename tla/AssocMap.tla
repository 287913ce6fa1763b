------------------------------ MODULE AssocMap ------------------------------
(***************************************************************************)
(* What map.c promises its callers: an association of keys with values in  *)
(* which map_put binds, map_remove unbinds, and map_get answers the        *)
(* binding of the innermost map of the chain that has one.  Nothing here   *)
(* knows of slots, hashing, tombstones or rehashing.                       *)
(***************************************************************************)
CONSTANTS Key, Val,
          NULL          \* the C NULL: "no value"

VARIABLES map,          \* this map: [Key -> Val \cup {NULL}]
          outer,        \* what map_get(m->parent, k) answers
          call,         \* the operation under way, or NULL
          ret           \* what the last operation answered

vars == <<map, outer, call, ret>>

Binding == [Key -> Val \cup {NULL}]

Calls == [op : {"put"}, key : Key, val : Val]
         \cup [op : {"get", "remove"}, key : Key]

Answer(k) == IF map[k] # NULL THEN map[k] ELSE outer[k]

Init == /\ map = [k \in Key |-> NULL]
        /\ outer \in Binding
        /\ call = NULL
        /\ ret = NULL

Invoke == /\ call = NULL
          /\ call' \in Calls
          /\ UNCHANGED <<map, outer, ret>>

Return(m, r) == /\ map' = m
                /\ ret' = r
                /\ call' = NULL
                /\ UNCHANGED outer

Put    == call # NULL /\ call.op = "put"
          /\ Return([map EXCEPT ![call.key] = call.val], NULL)
Remove == call # NULL /\ call.op = "remove"
          /\ Return([map EXCEPT ![call.key] = NULL], NULL)
Get    == call # NULL /\ call.op = "get" /\ Return(map, Answer(call.key))

OuterPut == /\ call = NULL
            /\ \E k \in Key, v \in Val : outer' = [outer EXCEPT ![k] = v]
            /\ UNCHANGED <<map, call, ret>>

Next == Invoke \/ Put \/ Remove \/ Get \/ OuterPut

SafeSpec == Init /\ [][Next]_vars
Spec     == SafeSpec /\ WF_vars(Put \/ Remove \/ Get)
=============================================================================
