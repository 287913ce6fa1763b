----------------------------- MODULE MCHashMap ------------------------------
(***************************************************************************)
(* Four keys on tables of 4 and 8 slots.  a and b always collide, and their *)
(* probe starts at the last slot of a small table, so it wraps around; c    *)
(* collides with them at size 4 and not at size 8; d starts at slot 0.      *)
(***************************************************************************)
EXTENDS HashMap

CONSTANTS a, b, c, d

AllKeys == {a, b, c, d}
ThreeKeys == {a, b, c}
NoKeys  == {}
OneKey  == {a}
MCHash  == [k \in Key |-> IF k = c THEN 7 ELSE IF k = d THEN 4 ELSE 3]
=============================================================================
