------------------------------ MODULE JobQueue ------------------------------
(***************************************************************************)
(* The Redis-backed job queue of the worker process                        *)
(* (internal/worker/queue.go): one sorted set "job_queue" whose members    *)
(* are serialised jobs scored by run time, a pool of polling workers, a    *)
(* handler goroutine per execution, retries, and the faults the process    *)
(* meets: lost Redis replies and crashes.                                  *)
(*                                                                         *)
(* A member of the sorted set is the record of the fields that decide its  *)
(* treatment; its serialisation is injective on them, so the set of        *)
(* records is the set of members.  The clock counts minutes, the unit of   *)
(* the retry delay.                                                        *)
(***************************************************************************)
EXTENDS Integers, FiniteSets

CONSTANTS Jobs,              \* jobs callers may enqueue; each has a fresh UUID
          Workers,           \* worker goroutines of the process
          Unhandled,         \* jobs whose type has no registered handler
          JobMaxRetries,     \* Job.MaxRetries of each job, 0 when unset
          ConfigMaxRetries,  \* WorkerConfig.MaxRetries, 0 when unset
          Delays,            \* delays a caller may pass to Enqueue
          MaxTime,           \* bound: the clock stops here
          MaxFaults          \* bound: crashes, panics and lost Redis replies

ASSUME JobQueueAssumption ==
    /\ Unhandled \subseteq Jobs
    /\ JobMaxRetries \in [Jobs -> Nat]
    /\ ConfigMaxRetries \in Nat
    /\ Delays \subseteq Nat
    /\ MaxTime \in Nat
    /\ MaxFaults \in Nat

VARIABLES
    jobQueue,    \* the Redis sorted set: [id, attempts, runAt]
    now,         \* minutes since the start
    pc,          \* where each worker goroutine is
    held,        \* the job each worker read from the set, if any
    executing,   \* handler goroutines that have not returned: [id, attempt]
    isRunning,   \* Queue.isRunning
    stopCh,      \* Queue.stopCh is closed
    ctxDone,     \* the manager cancelled the context
    stats        \* QueueStats counters

(* History: not in the program, read only by the properties.               *)
VARIABLES
    fate,        \* what became of each job
    attempts,    \* handler invocations of each job
    failedAt,    \* time of the last rescheduled failure of each job
    faults,      \* faults so far
    past,        \* jobs that an earlier process settled
    executions   \* handler invocations of this process

queueVars == <<jobQueue, now, pc, held, executing, isRunning, stopCh, ctxDone,
               stats>>
life == <<past, executions>>
historyVars == <<fate, attempts, failedAt, faults, life>>
vars == <<queueVars, historyVars>>

(* The retry limit of a job: its own, else the configured one, else 3.     *)
MaxRetriesOf(j) ==
    IF JobMaxRetries[j] # 0 THEN JobMaxRetries[j]
    ELSE IF ConfigMaxRetries # 0 THEN ConfigMaxRetries ELSE 3

Job == [id : Jobs, attempts : Nat, runAt : Nat]
NoJob == [id |-> "none", attempts |-> 0, runAt |-> 0]

(* Worker locations: not started or returned; waiting for the ticker; has  *)
(* read a member; has removed it; waits for the handler; must reschedule.  *)
Locations == {"off", "idle", "picked", "claimed", "running", "failed"}
OwnsJob == {"claimed", "running", "failed"}
Owners == {w \in Workers : pc[w] \in OwnsJob}
Ended == {"done", "dead", "dropped", "lost", "cleared"}

TypeOK ==
    /\ jobQueue \in SUBSET Job
    /\ now \in Nat
    /\ pc \in [Workers -> Locations]
    /\ held \in [Workers -> Job \cup {NoJob}]
    /\ \A w \in Workers : pc[w] \in {"picked"} \cup OwnsJob => held[w] \in Job
    /\ executing \in SUBSET [id : Jobs, attempt : Nat]
    /\ isRunning \in BOOLEAN /\ stopCh \in BOOLEAN /\ ctxDone \in BOOLEAN
    /\ stats \in [processed : Nat, failed : Nat, retried : Nat]
    /\ fate \in [Jobs -> {"none", "live"} \cup Ended]
    /\ attempts \in [Jobs -> Nat]
    /\ failedAt \in [Jobs -> Nat]
    /\ faults \in Nat
    /\ past \in SUBSET Jobs
    /\ executions \in Nat

NoStats == [processed |-> 0, failed |-> 0, retried |-> 0]

Init ==
    /\ jobQueue = {}
    /\ now = 0
    /\ pc = [w \in Workers |-> "off"]
    /\ held = [w \in Workers |-> NoJob]
    /\ executing = {}
    /\ isRunning = FALSE /\ stopCh = FALSE /\ ctxDone = FALSE
    /\ stats = NoStats
    /\ fate = [j \in Jobs |-> "none"]
    /\ attempts = [j \in Jobs |-> 0]
    /\ failedAt = [j \in Jobs |-> 0]
    /\ faults = 0
    /\ past = {} /\ executions = 0

-----------------------------------------------------------------------------
(* Helpers *)

Goto(w, to) == pc' = [pc EXCEPT ![w] = to]
Settle(j, how) == fate' = [fate EXCEPT ![j] = how]

(* The worker leaves processNextJob and waits for its ticker again.        *)
BackToTicker(w) ==
    /\ Goto(w, "idle")
    /\ held' = [held EXCEPT ![w] = NoJob]

Fault ==
    /\ faults < MaxFaults
    /\ faults' = faults + 1

CountSuccess == stats' = [stats EXCEPT !.processed = @ + 1]
CountFailure == stats' = [stats EXCEPT !.failed = @ + 1]
CountRetry == stats' = [stats EXCEPT !.failed = @ + 1, !.retried = @ + 1]

(* ZRANGEBYSCORE job_queue 0 now.  Mutant: the upper bound is exclusive.   *)
DueBefore == {e \in jobQueue : e.runAt < now}
DueJobs == {e \in jobQueue : e.runAt <= now}

(* The member that is put back after a failed execution.  Mutant: the      *)
(* delay is forgotten.                                                     *)
RescheduledAtOnce(e) == [e EXCEPT !.runAt = now]
Rescheduled(e) == [e EXCEPT !.runAt = now + e.attempts]

-----------------------------------------------------------------------------
(* Callers and operators *)

(* A failed ZADD that had no effect leaves nothing behind and the caller   *)
(* is told; one whose reply was lost looks like this step to the queue.    *)
Enqueue(j, delay) ==
    /\ fate[j] = "none"
    /\ jobQueue' = jobQueue \cup
         {[id |-> j, attempts |-> 0, runAt |-> now + delay]}
    /\ Settle(j, "live")
    /\ UNCHANGED <<now, pc, held, executing, isRunning, stopCh, ctxDone,
                   stats, attempts, failedAt, faults, life>>

ClearQueue ==
    /\ jobQueue # {}
    /\ jobQueue' = {}
    /\ fate' = [j \in Jobs |-> IF \E e \in jobQueue : e.id = j
                               THEN "cleared" ELSE fate[j]]
    /\ UNCHANGED <<now, pc, held, executing, isRunning, stopCh, ctxDone,
                   stats, attempts, failedAt, faults, life>>

(* Start spawns the pool and then waits for it.                            *)
Start ==
    /\ ~isRunning
    /\ isRunning' = TRUE
    /\ pc' = [w \in Workers |-> "idle"]
    /\ UNCHANGED <<jobQueue, now, held, executing, stopCh, ctxDone, stats,
                   historyVars>>

(* Start returns once every worker goroutine has returned.                 *)
StartReturns ==
    /\ isRunning
    /\ \A w \in Workers : pc[w] = "off"
    /\ isRunning' = FALSE
    /\ UNCHANGED <<jobQueue, now, pc, held, executing, stopCh, ctxDone, stats,
                   historyVars>>

Stop ==
    /\ isRunning
    /\ ~stopCh
    /\ stopCh' = TRUE
    /\ UNCHANGED <<jobQueue, now, pc, held, executing, isRunning, ctxDone,
                   stats, historyVars>>

CancelContext ==
    /\ ~ctxDone
    /\ ctxDone' = TRUE
    /\ UNCHANGED <<jobQueue, now, pc, held, executing, isRunning, stopCh, stats,
                   historyVars>>

(* The process dies and its supervisor starts a new one: Redis survives,   *)
(* every goroutine and what it held does not.                              *)
ProcessRestart ==
    /\ Fault
    /\ pc' = [w \in Workers |-> "off"]
    /\ held' = [w \in Workers |-> NoJob]
    /\ executing' = {}
    /\ isRunning' = FALSE /\ stopCh' = FALSE /\ ctxDone' = FALSE
    /\ stats' = NoStats
    /\ fate' = [j \in Jobs |-> IF \E w \in Owners : held[w].id = j
                               THEN "lost" ELSE fate[j]]
    /\ past' = {j \in Jobs : fate[j] \in Ended} /\ executions' = 0
    /\ UNCHANGED <<jobQueue, now, attempts, failedAt>>

Crash == ProcessRestart

(* A second Stop closes a closed channel, and a handler that panics is not *)
(* recovered: both end the process.                                        *)
StopAgain == isRunning /\ stopCh /\ ProcessRestart
HandlerPanics == executing # {} /\ ProcessRestart

Tick ==
    /\ now < MaxTime
    /\ now' = now + 1
    /\ UNCHANGED <<jobQueue, pc, held, executing, isRunning, stopCh, ctxDone,
                   stats, historyVars>>

-----------------------------------------------------------------------------
(* A worker goroutine *)

(* Mutant: the worker does not listen to stopCh.                           *)
WorkerIgnoresStop(w) ==
    /\ pc[w] = "idle"
    /\ ctxDone
    /\ Goto(w, "off")
    /\ UNCHANGED <<jobQueue, now, held, executing, isRunning, stopCh, ctxDone, stats,
                   historyVars>>

(* select chooses among the ready cases at random, so a worker may poll    *)
(* after the stop was requested.                                           *)
WorkerReturns(w) ==
    /\ pc[w] = "idle"
    /\ stopCh \/ ctxDone
    /\ Goto(w, "off")
    /\ UNCHANGED <<jobQueue, now, held, executing, isRunning, stopCh, ctxDone,
                   stats, historyVars>>

(* The due member with the lowest score; members of one score are ordered  *)
(* by their text, which starts with a random UUID.  A Redis command on a   *)
(* cancelled context is refused by the client.                             *)
PickNext(w) ==
    /\ pc[w] = "idle"
    /\ ~ctxDone
    /\ \E e \in DueJobs :
          /\ \A f \in DueJobs : e.runAt <= f.runAt
          /\ held' = [held EXCEPT ![w] = e]
    /\ Goto(w, "picked")
    /\ UNCHANGED <<jobQueue, now, executing, isRunning, stopCh, ctxDone, stats,
                   historyVars>>

(* Mutant: the count that ZREM returns is ignored.                         *)
ClaimUnchecked(w) ==
    /\ pc[w] = "picked"
    /\ ~ctxDone
    /\ jobQueue' = jobQueue \ {held[w]}
    /\ Goto(w, "claimed")
    /\ UNCHANGED <<now, held, executing, isRunning, stopCh, ctxDone, stats,
                   historyVars>>

(* ZREM tells whether this worker removed the member.                      *)
Claim(w) ==
    /\ pc[w] = "picked"
    /\ ~ctxDone
    /\ held[w] \in jobQueue
    /\ jobQueue' = jobQueue \ {held[w]}
    /\ Goto(w, "claimed")
    /\ UNCHANGED <<now, held, executing, isRunning, stopCh, ctxDone, stats,
                   historyVars>>

ClaimTooLate(w) ==
    /\ pc[w] = "picked"
    /\ ~ctxDone
    /\ held[w] \notin jobQueue
    /\ BackToTicker(w)
    /\ UNCHANGED <<jobQueue, now, executing, isRunning, stopCh, ctxDone, stats,
                   historyVars>>

ClaimCancelled(w) ==
    /\ pc[w] = "picked"
    /\ ctxDone
    /\ BackToTicker(w)
    /\ UNCHANGED <<jobQueue, now, executing, isRunning, stopCh, ctxDone, stats,
                   historyVars>>

(* ZREM fails without effect: the member stays for another poll.           *)
ClaimFails(w) ==
    /\ pc[w] = "picked"
    /\ Fault
    /\ BackToTicker(w)
    /\ UNCHANGED <<jobQueue, now, executing, isRunning, stopCh, ctxDone,
                   stats, fate, attempts, failedAt, life>>

(* ZREM takes effect but its reply is lost: an error, or 0 from the        *)
(* client's own retry.  Either way the worker gives the member up.         *)
ClaimReplyLost(w) ==
    /\ pc[w] = "picked"
    /\ held[w] \in jobQueue
    /\ Fault
    /\ jobQueue' = jobQueue \ {held[w]}
    /\ Settle(held[w].id, "lost")
    /\ BackToTicker(w)
    /\ UNCHANGED <<now, executing, isRunning, stopCh, ctxDone, stats,
                   attempts, failedAt, life>>

NoHandler(w) ==
    /\ pc[w] = "claimed"
    /\ held[w].id \in Unhandled
    /\ CountFailure
    /\ Settle(held[w].id, "dropped")
    /\ BackToTicker(w)
    /\ UNCHANGED <<jobQueue, now, executing, isRunning, stopCh, ctxDone,
                   attempts, failedAt, faults, life>>

(* Mutant: the attempt is not counted in the job.                          *)
RunUncounted(w) ==
    LET e == held[w] IN
    /\ pc[w] = "claimed"
    /\ e.id \notin Unhandled
    /\ executing' = executing \cup {[id |-> e.id, attempt |-> e.attempts]}
    /\ attempts' = [attempts EXCEPT ![e.id] = @ + 1]
    /\ executions' = executions + 1
    /\ Goto(w, "running")
    /\ UNCHANGED <<jobQueue, now, held, isRunning, stopCh, ctxDone, stats, fate,
                   failedAt, faults, past>>

RunHandler(w) ==
    LET e == [held[w] EXCEPT !.attempts = @ + 1] IN
    /\ pc[w] = "claimed"
    /\ e.id \notin Unhandled
    /\ held' = [held EXCEPT ![w] = e]
    /\ executing' = executing \cup {[id |-> e.id, attempt |-> e.attempts]}
    /\ attempts' = [attempts EXCEPT ![e.id] = @ + 1]
    /\ executions' = executions + 1
    /\ Goto(w, "running")
    /\ UNCHANGED <<jobQueue, now, isRunning, stopCh, ctxDone, stats, fate,
                   failedAt, faults, past>>

Execution(w) == [id |-> held[w].id, attempt |-> held[w].attempts]

HandlerSucceeds(w) ==
    /\ pc[w] = "running"
    /\ executing' = executing \ {Execution(w)}
    /\ CountSuccess
    /\ Settle(held[w].id, "done")
    /\ BackToTicker(w)
    /\ UNCHANGED <<jobQueue, now, isRunning, stopCh, ctxDone, attempts,
                   failedAt, faults, life>>

HandlerFails(w) ==
    /\ pc[w] = "running"
    /\ executing' = executing \ {Execution(w)}
    /\ Goto(w, "failed")
    /\ UNCHANGED <<jobQueue, now, held, isRunning, stopCh, ctxDone, stats,
                   historyVars>>

(* The deadline of the job context, or the cancellation of its parent.     *)
(* The handler goroutine is not told and keeps running.                    *)
Timeout(w) ==
    /\ pc[w] = "running"
    /\ Goto(w, "failed")
    /\ UNCHANGED <<jobQueue, now, held, executing, isRunning, stopCh, ctxDone,
                   stats, historyVars>>

(* A handler whose worker stopped waiting returns into a buffered channel  *)
(* that nobody reads.                                                      *)
OrphanReturns(x) ==
    /\ x \in executing
    /\ \A w \in Workers : pc[w] = "running" => Execution(w) # x
    /\ executing' = executing \ {x}
    /\ UNCHANGED <<jobQueue, now, pc, held, isRunning, stopCh, ctxDone, stats,
                   historyVars>>

(* Mutant: one retry too many.                                             *)
MayRetryOnceMore(w) == held[w].attempts <= MaxRetriesOf(held[w].id)
MayRetry(w) == held[w].attempts < MaxRetriesOf(held[w].id)

(* Mutant: the failed job is not put back.                                 *)
RetryNotQueued(w) ==
    /\ pc[w] = "failed"
    /\ MayRetry(w)
    /\ failedAt' = [failedAt EXCEPT ![held[w].id] = now]
    /\ CountRetry
    /\ BackToTicker(w)
    /\ UNCHANGED <<jobQueue, now, executing, isRunning, stopCh, ctxDone, fate,
                   attempts, faults, life>>

Retry(w) ==
    /\ pc[w] = "failed"
    /\ MayRetry(w)
    /\ jobQueue' = jobQueue \cup {Rescheduled(held[w])}
    /\ failedAt' = [failedAt EXCEPT ![held[w].id] = now]
    /\ CountRetry
    /\ BackToTicker(w)
    /\ UNCHANGED <<now, executing, isRunning, stopCh, ctxDone, fate, attempts,
                   faults, life>>

(* Mutant: the error of the ZADD is returned at once, nothing is counted.  *)
RetryFailsUncounted(w) ==
    /\ pc[w] = "failed"
    /\ MayRetry(w)
    /\ Fault
    /\ Settle(held[w].id, "lost")
    /\ BackToTicker(w)
    /\ UNCHANGED <<jobQueue, now, executing, isRunning, stopCh, ctxDone, stats,
                   attempts, failedAt, life>>

(* The ZADD of the retry fails: the job is out of Redis and nobody keeps   *)
(* it.                                                                     *)
RetryFails(w) ==
    /\ pc[w] = "failed"
    /\ MayRetry(w)
    /\ Fault
    /\ Settle(held[w].id, "lost")
    /\ CountFailure
    /\ BackToTicker(w)
    /\ UNCHANGED <<jobQueue, now, executing, isRunning, stopCh, ctxDone,
                   attempts, failedAt, life>>

(* The ZADD took effect but its reply was lost: counted as a failure, and  *)
(* the job runs again.                                                     *)
RetryReplyLost(w) ==
    /\ pc[w] = "failed"
    /\ MayRetry(w)
    /\ Fault
    /\ jobQueue' = jobQueue \cup {Rescheduled(held[w])}
    /\ failedAt' = [failedAt EXCEPT ![held[w].id] = now]
    /\ CountFailure
    /\ BackToTicker(w)
    /\ UNCHANGED <<now, executing, isRunning, stopCh, ctxDone, fate, attempts,
                   life>>

GiveUp(w) ==
    /\ pc[w] = "failed"
    /\ ~MayRetry(w)
    /\ CountFailure
    /\ Settle(held[w].id, "dead")
    /\ BackToTicker(w)
    /\ UNCHANGED <<jobQueue, now, executing, isRunning, stopCh, ctxDone,
                   attempts, failedAt, faults, life>>

(* processNextJob and processJob of one worker, without faults.            *)
WorkerStep(w) ==
    \/ PickNext(w) \/ Claim(w) \/ ClaimTooLate(w) \/ ClaimCancelled(w)
    \/ NoHandler(w) \/ RunHandler(w)
    \/ HandlerSucceeds(w) \/ HandlerFails(w) \/ Timeout(w)
    \/ Retry(w) \/ GiveUp(w)

WorkerFault(w) ==
    \/ ClaimFails(w) \/ ClaimReplyLost(w)
    \/ RetryFails(w) \/ RetryReplyLost(w)

Next ==
    \/ \E j \in Jobs, d \in Delays : Enqueue(j, d)
    \/ ClearQueue
    \/ Start \/ StartReturns \/ Stop \/ CancelContext
    \/ Crash \/ StopAgain \/ HandlerPanics
    \/ Tick
    \/ \E w \in Workers : WorkerReturns(w) \/ WorkerStep(w) \/ WorkerFault(w)
    \/ \E x \in executing : OrphanReturns(x)

Spec == Init /\ [][Next]_vars

(* The goroutines run: a tick fires while a worker waits, Redis answers,   *)
(* and the job context ends every wait for a handler.  select picks at     *)
(* random among ready cases, so a requested stop is not overlooked for     *)
(* ever although polling disables it again and again.                      *)
Fairness ==
    /\ WF_vars(~stopCh /\ ~ctxDone /\ Start) /\ WF_vars(StartReturns)
    /\ \A w \in Workers :
          /\ WF_vars(WorkerStep(w))
          /\ SF_vars(WorkerReturns(w))

FairSpec == Spec /\ Fairness

-----------------------------------------------------------------------------
(* Properties *)

InQueue(j) == \E e \in jobQueue : e.id = j
HeldByAWorker(j) == \E w \in Owners : held[w].id = j

(* A job is in one place: at most one member of the set, or one worker that *)
(* removed it, never both.  ZREM's count is what makes two workers that    *)
(* read the same member agree (queue.go:254-261).                          *)
SingleCopy ==
    /\ \A e, f \in jobQueue : e.id = f.id => e = f
    /\ \A w \in Owners : ~InQueue(held[w].id)
    /\ \A v, w \in Owners : held[v].id = held[w].id => v = w

(* A job that was accepted and has no outcome is in Redis or in the hands  *)
(* of a worker, and nothing else is: no path of processNextJob, processJob *)
(* or the retry forgets a job or revives a finished one.                   *)
LiveJobsAreKept ==
    \A j \in Jobs : fate[j] = "live" <=> InQueue(j) \/ HeldByAWorker(j)

(* However failures, timeouts, lost replies and crashes interleave, a      *)
(* handler is invoked at most as often as the retry limit allows: the      *)
(* count travels inside the Redis member (queue.go:296, 337).              *)
AttemptsBounded == \A j \in Jobs : attempts[j] <= MaxRetriesOf(j)

(* A job that failed k times is not executed again before k minutes passed *)
(* since the failure, whichever worker picks it up (queue.go:338-340).     *)
RetrySpacing ==
    \A w \in Owners :
        pc[w] = "claimed" /\ held[w].attempts > 0 =>
            now >= failedAt[held[w].id] + held[w].attempts

(* The counters of a process account for its jobs, whatever fails:         *)
(* JobsProcessed counts the jobs it completed; every execution that it     *)
(* began and does not wait for any more is counted once, as processed or   *)
(* failed, and so is every job it dropped; JobsFailed exceeds JobsRetried  *)
(* by the jobs it gave up and, at most, one for each retry whose ZADD      *)
(* returned an error (queue.go:342-357).                                   *)
Here(outcomes) == {j \in Jobs \ past : fate[j] \in outcomes}
Waiting == {w \in Workers : pc[w] \in {"running", "failed"}}

StatsMatchFates ==
    /\ stats.processed = Cardinality(Here({"done"}))
    /\ stats.processed + stats.failed + Cardinality(Waiting)
         = executions + Cardinality(Here({"dropped"}))
    /\ stats.failed - stats.retried - Cardinality(Here({"dead", "dropped"}))
         \in 0 .. faults

(* The queue keeps the promise of JobService: outcomes are final, attempts *)
(* are counted, and a job vanishes only in a failure or a clear.           *)
InExecution(j) ==
    \E w \in Workers : pc[w] \in {"running", "failed"} /\ held[w].id = j
Status ==
    [j \in Jobs |-> IF fate[j] # "live" THEN fate[j]
                    ELSE IF InExecution(j) THEN "executing" ELSE "waiting"]
Limits == [j \in Jobs |-> MaxRetriesOf(j)]

Service == INSTANCE JobService WITH
    Limit <- Limits, Unknown <- Unhandled, status <- Status, tries <- attempts

ServiceSpec == Service!Spec

ScheduledLater(j) == \E e \in jobQueue : e.id = j /\ e.runAt > now

(* A due job, or one a worker holds, is settled or put off to a later time *)
(* unless the queue is being stopped: no worker waits for a handler for    *)
(* ever and no member is passed over for ever.                             *)
JobAdvances ==
    \A j \in Jobs :
        fate[j] = "live" /\ ~ScheduledLater(j)
          ~> fate[j] \in Ended \/ ScheduledLater(j) \/ stopCh \/ ctxDone

(* Once Stop or the manager's cancellation is visible, every worker        *)
(* goroutine returns, so Start's wait ends (or the process is replaced).   *)
StopDrains ==
    stopCh \/ ctxDone ~> \A w \in Workers : pc[w] = "off"
=============================================================================
