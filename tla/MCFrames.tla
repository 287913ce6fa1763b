------------------------------ MODULE MCFrames ------------------------------
(***************************************************************************)
(* Functions of two variables, of one and two cells: calls between functions *)
(* without blocks, nested blocks in one function, and both together.         *)
(***************************************************************************)
EXTENDS Frames, TLC

CONSTANTS x, y

Bound(sizes, cells, lits, regs, scopes, depth) ==
    [sizes |-> sizes, cells |-> cells, lits |-> lits, regs |-> regs,
     scopes |-> scopes, depth |-> depth]

Calls  == Bound({1, 2}, 4, 2, 2, 1, 2)
Blocks == Bound({1, 2}, 5, 2, 2, 2, 1)
Both   == Bound({1, 2}, 4, 1, 1, 2, 2)
Deep   == Bound({1}, 4, 2, 1, 1, 3)

AllBounds  == {Calls, Blocks, Both, Deep}
CallBounds == {Calls}

Renamings == Permutations({x, y})
=============================================================================
