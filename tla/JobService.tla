----------------------------- MODULE JobService -----------------------------
(***************************************************************************)
(* What the background job queue promises to the code that enqueues a job. *)
(* A job is accepted once, executed at most Limit[j] times with at least   *)
(* one attempt between two outcomes, and ends in exactly one way.  It      *)
(* disappears without an outcome only when the process or Redis fails      *)
(* under it, or when an operator clears the queue.  No worker, no Redis    *)
(* key and no clock appear here.                                           *)
(***************************************************************************)
EXTENDS Integers

CONSTANTS Jobs,      \* the jobs that callers may enqueue
          Limit,     \* Limit[j]: executions a job is entitled to
          Unknown    \* jobs whose type nobody handles

VARIABLES status,    \* where each job is in its life
          tries      \* executions started so far

svars == <<status, tries>>

Settled == {"done", "dead", "dropped", "lost", "cleared"}

TypeOK ==
    /\ status \in [Jobs -> {"none", "waiting", "executing"} \cup Settled]
    /\ tries \in [Jobs -> Nat]

Init ==
    /\ status = [j \in Jobs |-> "none"]
    /\ tries = [j \in Jobs |-> 0]

Move(j, from, to) ==
    /\ status[j] = from
    /\ status' = [status EXCEPT ![j] = to]

Submit(j) == Move(j, "none", "waiting") /\ UNCHANGED tries

Execute(j) ==
    /\ Move(j, "waiting", "executing")
    /\ j \notin Unknown
    /\ tries[j] < Limit[j]
    /\ tries' = [tries EXCEPT ![j] = @ + 1]

Succeed(j) == Move(j, "executing", "done") /\ UNCHANGED tries

Reschedule(j) ==
    /\ Move(j, "executing", "waiting")
    /\ tries[j] < Limit[j]
    /\ UNCHANGED tries

Exhaust(j) ==
    /\ Move(j, "executing", "dead")
    /\ tries[j] = Limit[j]
    /\ UNCHANGED tries

Drop(j) ==
    /\ Move(j, "waiting", "dropped")
    /\ j \in Unknown
    /\ UNCHANGED tries

(* A failure takes every job that was out of Redis at that moment.         *)
Lose ==
    \E S \in SUBSET {j \in Jobs : status[j] \in {"waiting", "executing"}} :
        /\ status' = [j \in Jobs |-> IF j \in S THEN "lost" ELSE status[j]]
        /\ UNCHANGED tries

Clear ==
    \E S \in SUBSET {j \in Jobs : status[j] = "waiting"} :
        /\ status' = [j \in Jobs |-> IF j \in S THEN "cleared" ELSE status[j]]
        /\ UNCHANGED tries

Next ==
    \/ \E j \in Jobs :
          \/ Submit(j) \/ Execute(j) \/ Succeed(j)
          \/ Reschedule(j) \/ Exhaust(j) \/ Drop(j)
    \/ Lose
    \/ Clear

Spec == Init /\ [][Next]_svars

=============================================================================
