----------------------------- MODULE MCJobQueue -----------------------------
(***************************************************************************)
(* Instances of JobQueue for TLC: two jobs and two workers, the smallest   *)
(* pool in which two workers race for one member.                          *)
(***************************************************************************)
EXTENDS JobQueue, TLC

CONSTANTS j1, j2, w1, w2

MCJobs == {j1, j2}
MCWorkers == {w1, w2}
MCNone == {}
MCUnhandled == {j2}

(* j1 relies on the configuration, j2 carries a limit of its own.          *)
MCOwnLimit == (j1 :> 0) @@ (j2 :> 1)

MCDelays == {0, 1}
MCNow == {0}

WorkerSymmetry == Permutations(MCWorkers)
=============================================================================
