---------------------------- MODULE MCFollowGraph ----------------------------
(***************************************************************************)
(* Instances of FollowGraph for TLC: two users, one of whom may follow the *)
(* other, room for a duplicate row, two requests and a job worker.         *)
(***************************************************************************)
EXTENDS FollowGraph, TLC

CONSTANTS a, b, i1, i2, r1, r2, w

MCUsers == {a, b}
MCPairs == {<<a, b>>}
MCIds == {i1, i2}
MCRequests == {r1, r2}
MCWorkers == {w}

Symmetry == Permutations(MCIds) \cup Permutations(MCRequests)
=============================================================================
