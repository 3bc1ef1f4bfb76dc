--------------------------- MODULE MCWorkerProcess ---------------------------
(***************************************************************************)
(* Instances of WorkerProcess for TLC: the two goroutines of Start and one *)
(* more for restarts, two handlers.                                        *)
(***************************************************************************)
EXTENDS WorkerProcess

CONSTANTS g1, g2, g3, h1, h2

MCGoroutines == {g1, g2, g3}
MCHandlers == {h1, h2}
=============================================================================
