--------------------------- MODULE MCRateLimiter ---------------------------
(***************************************************************************)
(* Instances of RateLimiter for TLC: a window of three seconds, a limit of   *)
(* one and a burst of one, and more requests than a window takes.          *)
(***************************************************************************)
EXTENDS RateLimiter, TLC

CONSTANTS r1, r2, r3, r4

MCRequests == {r1, r2, r3, r4}

Symmetry == Permutations(MCRequests)
=============================================================================
