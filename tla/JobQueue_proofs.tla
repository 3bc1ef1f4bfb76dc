--------------------------- MODULE JobQueue_proofs ---------------------------
(***************************************************************************)
(* Proofs about the job queue, for every set of jobs and workers, every    *)
(* retry limit and every number of faults.                                 *)
(***************************************************************************)
EXTENDS JobQueue, FiniteSetTheorems, TLAPS

LEMMA LimitIsPositive ==
    ASSUME NEW j \in Jobs
    PROVE  MaxRetriesOf(j) \in Nat \ {0}
BY JobQueueAssumption DEF MaxRetriesOf

-----------------------------------------------------------------------------
(* Type correctness *)

LEMMA InitTypeOK == Init => TypeOK
<1> SUFFICES ASSUME Init PROVE TypeOK
  OBVIOUS
<1>1. stats \in [processed : Nat, failed : Nat, retried : Nat]
  BY DEF Init, NoStats
<1>2. /\ pc \in [Workers -> Locations]
      /\ held \in [Workers -> Job \cup {NoJob}]
      /\ \A w \in Workers : pc[w] \in {"picked"} \cup OwnsJob => held[w] \in Job
  BY DEF Init, Locations, OwnsJob
<1>3. /\ fate \in [Jobs -> {"none", "live"} \cup Ended]
      /\ attempts \in [Jobs -> Nat]
      /\ failedAt \in [Jobs -> Nat]
  BY DEF Init
<1>4. QED  BY <1>1, <1>2, <1>3 DEF Init, TypeOK

LEMMA CountersStayTyped ==
    ASSUME stats \in [processed : Nat, failed : Nat, retried : Nat],
           CountSuccess \/ CountFailure \/ CountRetry
    PROVE  stats' \in [processed : Nat, failed : Nat, retried : Nat]
<1>1. CASE CountSuccess
  BY <1>1 DEF CountSuccess
<1>2. CASE CountFailure
  BY <1>2 DEF CountFailure
<1>3. CASE CountRetry
  <2>1. stats' = [processed |-> stats.processed, failed |-> stats.failed + 1,
                  retried |-> stats.retried + 1]
    BY <1>3 DEF CountRetry
  <2>2. QED  BY <2>1
<1>4. QED  BY <1>1, <1>2, <1>3

LEMMA EnvironmentTypeOK ==
    ASSUME TypeOK,
           \/ \E j \in Jobs, d \in Delays : Enqueue(j, d)
           \/ ClearQueue \/ Start \/ StartReturns \/ Stop \/ CancelContext
           \/ ProcessRestart \/ Tick
           \/ \E x \in executing : OrphanReturns(x)
    PROVE  TypeOK'
<1> USE JobQueueAssumption
    DEF TypeOK, vars, queueVars, historyVars, life, Locations, OwnsJob
<1>1. CASE \E j \in Jobs, d \in Delays : Enqueue(j, d)
  BY <1>1 DEF Enqueue, Settle, Job
<1>2. CASE ClearQueue
  BY <1>2 DEF ClearQueue, Ended
<1>3. CASE Start \/ StartReturns \/ Stop \/ CancelContext
  BY <1>3 DEF Start, StartReturns, Stop, CancelContext
<1>4. CASE ProcessRestart
  <2>1. stats' \in [processed : Nat, failed : Nat, retried : Nat]
    BY <1>4 DEF ProcessRestart, NoStats
  <2>2. fate' \in [Jobs -> {"none", "live"} \cup Ended]
    BY <1>4 DEF ProcessRestart, Ended
  <2>3. /\ pc' \in [Workers -> Locations]
        /\ held' \in [Workers -> Job \cup {NoJob}]
        /\ \A w \in Workers :
             pc'[w] \in {"picked"} \cup OwnsJob => held'[w] \in Job
    BY <1>4 DEF ProcessRestart
  <2>4. faults' \in Nat
    BY <1>4 DEF ProcessRestart, Fault
  <2>5. executing' \in SUBSET [id : Jobs, attempt : Nat]
    BY <1>4 DEF ProcessRestart
  <2>6. isRunning' \in BOOLEAN /\ stopCh' \in BOOLEAN /\ ctxDone' \in BOOLEAN
    BY <1>4 DEF ProcessRestart
  <2>7. UNCHANGED <<jobQueue, now, attempts, failedAt>>
    BY <1>4 DEF ProcessRestart
  <2>8. past' \in SUBSET Jobs /\ executions' \in Nat
    BY <1>4 DEF ProcessRestart
  <2>9. QED  BY <2>1, <2>2, <2>3, <2>4, <2>5, <2>6, <2>7, <2>8
<1>5. CASE Tick
  BY <1>5 DEF Tick
<1>6. CASE \E x \in executing : OrphanReturns(x)
  BY <1>6 DEF OrphanReturns
<1>7. QED  BY <1>1, <1>2, <1>3, <1>4, <1>5, <1>6

LEMMA WorkerTypeOK ==
    ASSUME TypeOK, NEW w \in Workers,
           WorkerReturns(w) \/ WorkerStep(w) \/ WorkerFault(w)
    PROVE  TypeOK'
<1> USE DEF TypeOK, vars, queueVars, historyVars, life, Locations, OwnsJob, Goto
<1>1. CASE WorkerReturns(w)
  BY <1>1 DEF WorkerReturns
<1>2. CASE PickNext(w)
  BY <1>2 DEF PickNext, DueJobs
<1>3. CASE Claim(w) \/ ClaimTooLate(w) \/ ClaimCancelled(w)
  BY <1>3 DEF Claim, ClaimTooLate, ClaimCancelled, BackToTicker
<1>4. CASE NoHandler(w)
  BY <1>4 DEF NoHandler, BackToTicker, CountFailure, Settle, Job, Ended
<1>5. CASE RunHandler(w)
  <2>1. held[w] \in Job
    BY <1>5 DEF RunHandler
  <2>2. [held[w] EXCEPT !.attempts = @ + 1] \in Job
    BY <2>1 DEF Job
  <2>3. [id |-> held[w].id, attempt |-> held[w].attempts + 1]
          \in [id : Jobs, attempt : Nat]
    BY <2>1 DEF Job
  <2>4. QED  BY <1>5, <2>1, <2>2, <2>3 DEF RunHandler, Job
<1>6. CASE HandlerSucceeds(w)
  BY <1>6 DEF HandlerSucceeds, BackToTicker, CountSuccess, Settle, Job, Ended
<1>7. CASE HandlerFails(w) \/ Timeout(w)
  BY <1>7 DEF HandlerFails, Timeout
<1>8. CASE Retry(w) \/ RetryReplyLost(w)
  <2>1. held[w] \in Job
    BY <1>8 DEF Retry, RetryReplyLost
  <2>2. Rescheduled(held[w]) \in Job
    BY <2>1 DEF Job, Rescheduled
  <2>3. stats' \in [processed : Nat, failed : Nat, retried : Nat]
    BY <1>8, CountersStayTyped DEF Retry, RetryReplyLost
  <2>4. failedAt' \in [Jobs -> Nat]
    BY <1>8, <2>1 DEF Retry, RetryReplyLost, Job
  <2>5. /\ pc' \in [Workers -> Locations]
        /\ held' \in [Workers -> Job \cup {NoJob}]
        /\ \A v \in Workers :
             pc'[v] \in {"picked"} \cup OwnsJob => held'[v] \in Job
    BY <1>8 DEF Retry, RetryReplyLost, BackToTicker
  <2>6. jobQueue' \in SUBSET Job
    BY <1>8, <2>2 DEF Retry, RetryReplyLost
  <2>7. faults' \in Nat
    BY <1>8 DEF Retry, RetryReplyLost, Fault
  <2>8. UNCHANGED <<now, executing, isRunning, stopCh, ctxDone, fate, attempts, life>>
    BY <1>8 DEF Retry, RetryReplyLost
  <2>9. QED  BY <2>3, <2>4, <2>5, <2>6, <2>7, <2>8
<1>9. CASE GiveUp(w)
  BY <1>9 DEF GiveUp, BackToTicker, CountFailure, Settle, Job, Ended
<1>10. CASE ClaimFails(w) \/ ClaimReplyLost(w)
  BY <1>10 DEF ClaimFails, ClaimReplyLost, BackToTicker, Fault, Settle, Job, Ended
<1>11. CASE RetryFails(w)
  BY <1>11 DEF RetryFails, BackToTicker, Fault, CountFailure, Settle, Job, Ended
<1>12. QED
  BY <1>1, <1>2, <1>3, <1>4, <1>5, <1>6, <1>7, <1>8, <1>9, <1>10, <1>11
  DEF WorkerStep, WorkerFault

LEMMA NextCases ==
    ASSUME Next
    PROVE  \/ \/ \E j \in Jobs, d \in Delays : Enqueue(j, d)
              \/ ClearQueue \/ Start \/ StartReturns \/ Stop \/ CancelContext
              \/ ProcessRestart \/ Tick
              \/ \E x \in executing : OrphanReturns(x)
           \/ \E w \in Workers : WorkerReturns(w) \/ WorkerStep(w) \/ WorkerFault(w)
BY DEF Next, Crash, StopAgain, HandlerPanics

(* Every variable keeps its type, the members of the Redis set and the     *)
(* jobs the workers hold included.                                         *)
THEOREM TypeCorrect == Spec => []TypeOK
<1>1. TypeOK /\ [Next]_vars => TypeOK'
  <2> SUFFICES ASSUME TypeOK, [Next]_vars PROVE TypeOK'
    OBVIOUS
  <2>1. CASE Next
    BY <2>1, NextCases, EnvironmentTypeOK, WorkerTypeOK
  <2>2. CASE UNCHANGED vars
    BY <2>2 DEF TypeOK, vars, queueVars, historyVars, life
  <2>3. QED  BY <2>1, <2>2
<1>2. QED  BY InitTypeOK, <1>1, PTL DEF Spec

-----------------------------------------------------------------------------
(* Custody of a job: where its only copy is *)

(* Start runs on an empty pool, so it never takes a job from a worker.     *)
PoolStopped == ~isRunning => \A w \in Workers : pc[w] = "off"

Custody == PoolStopped /\ SingleCopy /\ LiveJobsAreKept

LEMMA InitCustody == Init => Custody
BY DEF Init, Custody, PoolStopped, SingleCopy, LiveJobsAreKept, InQueue,
       HeldByAWorker, Owners, OwnsJob

(* A step that changes neither the set, nor the outcomes, nor which worker *)
(* owns which job keeps the custody.                                       *)
LEMMA CustodyIsLocal ==
    ASSUME Custody, PoolStopped',
           UNCHANGED <<jobQueue, fate>>,
           Owners' = Owners,
           \A w \in Owners : held'[w].id = held[w].id
    PROVE  Custody'
BY DEF Custody, SingleCopy, LiveJobsAreKept, InQueue, HeldByAWorker

LEMMA EnvironmentCustody ==
    ASSUME TypeOK, Custody,
           \/ \E j \in Jobs, d \in Delays : Enqueue(j, d)
           \/ ClearQueue \/ Start \/ StartReturns \/ Stop \/ CancelContext
           \/ ProcessRestart \/ Tick
           \/ \E x \in executing : OrphanReturns(x)
    PROVE  Custody'
<1>1. CASE \E j \in Jobs, d \in Delays : Enqueue(j, d)
  <2>1. PICK j \in Jobs, d \in Delays : Enqueue(j, d)
    BY <1>1
  <2>2. ~InQueue(j) /\ ~HeldByAWorker(j)
    BY <2>1 DEF Enqueue, Custody, LiveJobsAreKept
  <2> DEFINE new == [id |-> j, attempts |-> 0, runAt |-> now + d]
  <2>3. jobQueue' = jobQueue \cup {new} /\ new.id = j
    BY <2>1 DEF Enqueue
  <2>4. UNCHANGED <<pc, held, isRunning>> /\ fate' = [fate EXCEPT ![j] = "live"]
    BY <2>1 DEF Enqueue, Settle
  <2> HIDE DEF new
  <2>5. SingleCopy'
    BY <2>2, <2>3, <2>4
    DEF Custody, SingleCopy, InQueue, HeldByAWorker, Owners, OwnsJob
  <2>6. LiveJobsAreKept'
    BY <2>2, <2>3, <2>4
    DEF Custody, LiveJobsAreKept, InQueue, HeldByAWorker, Owners, OwnsJob, TypeOK
  <2>7. QED  BY <2>4, <2>5, <2>6 DEF Custody, PoolStopped
<1>2. CASE ClearQueue
  <2>1. /\ jobQueue' = {} /\ UNCHANGED <<pc, held, isRunning>>
        /\ fate' = [j \in Jobs |-> IF InQueue(j) THEN "cleared" ELSE fate[j]]
    BY <1>2 DEF ClearQueue, InQueue
  <2>2. \A j \in Jobs : InQueue(j) => ~HeldByAWorker(j)
    BY DEF Custody, SingleCopy, HeldByAWorker
  <2>3. QED
    BY <2>1, <2>2
    DEF Custody, PoolStopped, SingleCopy, LiveJobsAreKept, InQueue,
        HeldByAWorker, Owners, OwnsJob
<1>3. CASE Start
  <2>1. Owners = {} /\ Owners' = {}
    BY <1>3 DEF Start, Custody, PoolStopped, Owners, OwnsJob
  <2>2. PoolStopped' /\ UNCHANGED <<jobQueue, fate>>
    BY <1>3 DEF Start, PoolStopped, historyVars
  <2>3. QED  BY <2>1, <2>2, CustodyIsLocal
<1>4. CASE StartReturns \/ Stop \/ CancelContext \/ Tick
           \/ \E x \in executing : OrphanReturns(x)
  <2>1. UNCHANGED <<jobQueue, fate, pc, held>>
    BY <1>4
    DEF StartReturns, Stop, CancelContext, Tick, OrphanReturns, historyVars
  <2>2. PoolStopped'
    BY <1>4, <2>1
    DEF StartReturns, Stop, CancelContext, Tick, OrphanReturns, Custody, PoolStopped
  <2>3. QED  BY <2>1, <2>2, CustodyIsLocal DEF Owners
<1>5. CASE ProcessRestart
  <2>1. /\ UNCHANGED jobQueue
        /\ pc' = [w \in Workers |-> "off"]
        /\ fate' = [j \in Jobs |-> IF HeldByAWorker(j) THEN "lost" ELSE fate[j]]
    BY <1>5 DEF ProcessRestart, HeldByAWorker
  <2>2. Owners' = {}
    BY <2>1 DEF Owners, OwnsJob
  <2>3. \A j \in Jobs : InQueue(j) => ~HeldByAWorker(j)
    BY DEF Custody, SingleCopy, HeldByAWorker
  <2>4. QED
    BY <2>1, <2>2, <2>3
    DEF Custody, PoolStopped, SingleCopy, LiveJobsAreKept, InQueue, HeldByAWorker
<1>6. QED  BY <1>1, <1>2, <1>3, <1>4, <1>5

LEMMA WorkerCustody ==
    ASSUME TypeOK, Custody, NEW w \in Workers,
           WorkerReturns(w) \/ WorkerStep(w) \/ WorkerFault(w)
    PROVE  Custody'
<1>a. isRunning' = isRunning /\ (pc[w] # "off" => isRunning)
  BY DEF WorkerReturns, WorkerStep, WorkerFault, PickNext, Claim, ClaimTooLate, ClaimCancelled,
         NoHandler, RunHandler, HandlerSucceeds, HandlerFails, Timeout, Retry,
         GiveUp, ClaimFails, ClaimReplyLost, RetryFails, RetryReplyLost,
         Custody, PoolStopped
<1>b. pc[w] # "off"
  BY DEF WorkerReturns, WorkerStep, WorkerFault, PickNext, Claim, ClaimTooLate, ClaimCancelled,
         NoHandler, RunHandler, HandlerSucceeds, HandlerFails, Timeout, Retry,
         GiveUp, ClaimFails, ClaimReplyLost, RetryFails, RetryReplyLost
<1>c. PoolStopped'
  BY <1>a, <1>b DEF PoolStopped
<1>1. CASE \/ WorkerReturns(w) \/ PickNext(w) \/ ClaimTooLate(w) \/ ClaimCancelled(w)
           \/ ClaimFails(w)
  <2>1. /\ UNCHANGED <<jobQueue, fate>>
        /\ w \notin Owners
        /\ \E to \in {"off", "idle", "picked"} : pc' = [pc EXCEPT ![w] = to]
        /\ \A v \in Workers \ {w} : held'[v] = held[v]
    BY <1>1
    DEF WorkerReturns, PickNext, ClaimTooLate, ClaimCancelled, ClaimFails, BackToTicker, Goto,
        Owners, OwnsJob, TypeOK, historyVars
  <2>2. Owners' = Owners
    BY <2>1 DEF Owners, OwnsJob, TypeOK
  <2>3. \A v \in Owners : held'[v].id = held[v].id
    BY <2>1 DEF Owners
  <2>4. QED  BY <1>c, <2>1, <2>2, <2>3, CustodyIsLocal
<1>2. CASE RunHandler(w) \/ HandlerFails(w) \/ Timeout(w)
  <2>1. /\ UNCHANGED <<jobQueue, fate>>
        /\ w \in Owners
        /\ \E to \in OwnsJob : pc' = [pc EXCEPT ![w] = to]
    BY <1>2
    DEF RunHandler, HandlerFails, Timeout, Goto, Owners, OwnsJob, historyVars
  <2>2. Owners' = Owners
    BY <2>1 DEF Owners, OwnsJob, TypeOK
  <2>3. CASE RunHandler(w)
    <3>1. held[w] \in Job
      BY <2>1 DEF Owners, TypeOK
    <3>2. held' = [held EXCEPT ![w] = [held[w] EXCEPT !.attempts = @ + 1]]
      BY <2>3 DEF RunHandler
    <3>3. \A v \in Owners : held'[v].id = held[v].id
      BY <3>1, <3>2 DEF Owners, TypeOK, Job
    <3>4. QED  BY <1>c, <2>1, <2>2, <3>3, CustodyIsLocal
  <2>4. CASE HandlerFails(w) \/ Timeout(w)
    <3>1. held' = held
      BY <2>4 DEF HandlerFails, Timeout
    <3>2. QED  BY <1>c, <2>1, <2>2, <3>1, CustodyIsLocal
  <2>5. QED  BY <1>2, <2>3, <2>4
<1>3. CASE Claim(w)
  <2>1. /\ held[w] \in jobQueue /\ jobQueue' = jobQueue \ {held[w]}
        /\ pc' = [pc EXCEPT ![w] = "claimed"] /\ UNCHANGED <<held, fate>>
        /\ w \notin Owners
    BY <1>3 DEF Claim, Goto, historyVars, Owners, OwnsJob
  <2>2. Owners' = Owners \cup {w}
    BY <2>1 DEF Owners, OwnsJob, TypeOK
  <2>3. \A j : InQueue(j)' <=> InQueue(j) /\ j # held[w].id
    BY <2>1 DEF Custody, SingleCopy, InQueue
  <2>4. \A j : HeldByAWorker(j)' <=> HeldByAWorker(j) \/ j = held[w].id
    BY <2>1, <2>2 DEF HeldByAWorker
  <2>5. InQueue(held[w].id)
    BY <2>1 DEF InQueue
  <2>6. SingleCopy'
    BY <2>1, <2>2, <2>3, <2>5 DEF Custody, SingleCopy
  <2>7. LiveJobsAreKept'
    BY <2>1, <2>3, <2>4, <2>5 DEF Custody, LiveJobsAreKept
  <2>8. QED  BY <1>c, <2>6, <2>7 DEF Custody
<1>4. CASE ClaimReplyLost(w)
  <2>1. /\ held[w] \in jobQueue /\ jobQueue' = jobQueue \ {held[w]}
        /\ pc' = [pc EXCEPT ![w] = "idle"]
        /\ held' = [held EXCEPT ![w] = NoJob]
        /\ fate' = [fate EXCEPT ![held[w].id] = "lost"]
        /\ w \notin Owners /\ held[w] \in Job
    BY <1>4
    DEF ClaimReplyLost, BackToTicker, Goto, Settle, Owners, OwnsJob, TypeOK
  <2>2. Owners' = Owners
    BY <2>1 DEF Owners, OwnsJob, TypeOK
  <2>3. \A j : InQueue(j)' <=> InQueue(j) /\ j # held[w].id
    BY <2>1 DEF Custody, SingleCopy, InQueue
  <2>4. \A v \in Owners : held'[v] = held[v]
    BY <2>1 DEF TypeOK, Owners
  <2>5. \A j : HeldByAWorker(j)' <=> HeldByAWorker(j)
    BY <2>2, <2>4 DEF HeldByAWorker
  <2>6. ~HeldByAWorker(held[w].id)
    BY <2>1 DEF Custody, SingleCopy, InQueue, HeldByAWorker
  <2>7. SingleCopy'
    BY <2>1, <2>2, <2>3, <2>4 DEF Custody, SingleCopy
  <2>8. LiveJobsAreKept'
    BY <2>1, <2>3, <2>5, <2>6 DEF Custody, LiveJobsAreKept, TypeOK
  <2>9. QED  BY <1>c, <2>7, <2>8 DEF Custody
<1>5. CASE NoHandler(w) \/ HandlerSucceeds(w) \/ GiveUp(w) \/ RetryFails(w)
  <2>1. /\ UNCHANGED jobQueue
        /\ pc' = [pc EXCEPT ![w] = "idle"]
        /\ held' = [held EXCEPT ![w] = NoJob]
        /\ \E how \in Ended : fate' = [fate EXCEPT ![held[w].id] = how]
        /\ w \in Owners /\ held[w] \in Job
    BY <1>5
    DEF NoHandler, HandlerSucceeds, GiveUp, RetryFails, BackToTicker, Goto,
        Settle, Owners, OwnsJob, TypeOK, Ended
  <2>2. Owners' = Owners \ {w}
    BY <2>1 DEF Owners, OwnsJob, TypeOK
  <2>3. \A v \in Owners \ {w} : held'[v] = held[v]
    BY <2>1 DEF TypeOK, Owners
  <2>4. \A j : HeldByAWorker(j)' <=> HeldByAWorker(j) /\ j # held[w].id
    BY <2>1, <2>2, <2>3 DEF HeldByAWorker, Custody, SingleCopy
  <2>5. \A j : InQueue(j)' <=> InQueue(j)
    BY <2>1 DEF InQueue
  <2>6. ~InQueue(held[w].id)
    BY <2>1 DEF Custody, SingleCopy
  <2>7. SingleCopy'
    BY <2>1, <2>2, <2>3, <2>5 DEF Custody, SingleCopy
  <2>8. LiveJobsAreKept'
    BY <2>1, <2>4, <2>5, <2>6 DEF Custody, LiveJobsAreKept, TypeOK, Ended, Job
  <2>9. QED  BY <1>c, <2>7, <2>8 DEF Custody
<1>6. CASE Retry(w) \/ RetryReplyLost(w)
  <2> DEFINE back == Rescheduled(held[w])
  <2>1. /\ jobQueue' = jobQueue \cup {back}
        /\ pc' = [pc EXCEPT ![w] = "idle"]
        /\ held' = [held EXCEPT ![w] = NoJob]
        /\ UNCHANGED fate
        /\ w \in Owners /\ held[w] \in Job
    BY <1>6
    DEF Retry, RetryReplyLost, BackToTicker, Goto, Owners, OwnsJob, TypeOK
  <2>2. back.id = held[w].id
    BY <2>1 DEF Rescheduled, Job
  <2> HIDE DEF back
  <2>3. Owners' = Owners \ {w}
    BY <2>1 DEF Owners, OwnsJob, TypeOK
  <2>4. \A v \in Owners \ {w} : held'[v] = held[v]
    BY <2>1 DEF TypeOK, Owners
  <2>5. \A j : HeldByAWorker(j)' <=> HeldByAWorker(j) /\ j # held[w].id
    BY <2>1, <2>3, <2>4 DEF HeldByAWorker, Custody, SingleCopy
  <2>6. \A j : InQueue(j)' <=> InQueue(j) \/ j = held[w].id
    BY <2>1, <2>2 DEF InQueue
  <2>7. ~InQueue(held[w].id) /\ HeldByAWorker(held[w].id)
    BY <2>1 DEF Custody, SingleCopy, HeldByAWorker
  <2>8. SingleCopy'
    BY <2>1, <2>2, <2>3, <2>4, <2>6, <2>7 DEF Custody, SingleCopy, InQueue
  <2>9. LiveJobsAreKept'
    BY <2>1, <2>5, <2>6, <2>7 DEF Custody, LiveJobsAreKept
  <2>10. QED  BY <1>c, <2>8, <2>9 DEF Custody
<1>7. QED
  BY <1>1, <1>2, <1>3, <1>4, <1>5, <1>6 DEF WorkerStep, WorkerFault

LEMMA CustodyHolds == Spec => []Custody
<1>1. TypeOK /\ Custody /\ [Next]_vars => Custody'
  <2> SUFFICES ASSUME TypeOK, Custody, [Next]_vars PROVE Custody'
    OBVIOUS
  <2>1. CASE Next
    BY <2>1, NextCases, EnvironmentCustody, WorkerCustody
  <2>2. CASE UNCHANGED vars
    BY <2>2
    DEF vars, queueVars, historyVars, Custody, PoolStopped, SingleCopy,
        LiveJobsAreKept, InQueue, HeldByAWorker, Owners
  <2>3. QED  BY <2>1, <2>2
<1>2. QED  BY InitCustody, <1>1, TypeCorrect, PTL DEF Spec

(* Two workers never hold the same job, and a job a worker holds is not in *)
(* Redis, for any number of workers, retries, crashes and lost replies.    *)
THEOREM OneCopy == Spec => []SingleCopy
BY CustodyHolds, PTL DEF Custody

(* A job without an outcome is always in Redis or held by a worker.        *)
THEOREM NothingForgotten == Spec => []LiveJobsAreKept
BY CustodyHolds, PTL DEF Custody

-----------------------------------------------------------------------------
(* Attempts and retry times *)

(* The attempt count inside the one copy of a job is the true one, and a   *)
(* copy that waits for an execution has one left.                          *)
Counting ==
    /\ \A j \in Jobs : fate[j] = "none" => attempts[j] = 0
    /\ \A e \in jobQueue :
          e.attempts = attempts[e.id] /\ e.attempts < MaxRetriesOf(e.id)
    /\ \A w \in Owners :
          /\ held[w].attempts = attempts[held[w].id]
          /\ pc[w] = "claimed" => held[w].attempts < MaxRetriesOf(held[w].id)
    /\ AttemptsBounded

(* A copy that waits for a retry is not due before its delay is over, and  *)
(* a worker reads only due copies.                                         *)
Spacing ==
    /\ \A e \in jobQueue :
          e.attempts > 0 => e.runAt >= failedAt[e.id] + e.attempts
    /\ \A w \in Workers : pc[w] = "picked" => held[w].runAt <= now
    /\ RetrySpacing

LEMMA InitLedger == Init => Counting /\ Spacing
<1> SUFFICES ASSUME Init PROVE Counting /\ Spacing
  OBVIOUS
<1>1. AttemptsBounded
  BY LimitIsPositive DEF Init, AttemptsBounded
<1>2. QED
  BY <1>1 DEF Init, Counting, Spacing, RetrySpacing, Owners, OwnsJob

LEMMA EnvironmentLedger ==
    ASSUME TypeOK, Custody, Counting, Spacing,
           \/ \E j \in Jobs, d \in Delays : Enqueue(j, d)
           \/ ClearQueue \/ Start \/ StartReturns \/ Stop \/ CancelContext
           \/ ProcessRestart \/ Tick
           \/ \E x \in executing : OrphanReturns(x)
    PROVE  Counting' /\ Spacing'
<1> USE JobQueueAssumption
<1>1. CASE \E j \in Jobs, d \in Delays : Enqueue(j, d)
  <2>1. PICK j \in Jobs, d \in Delays : Enqueue(j, d)
    BY <1>1
  <2> DEFINE new == [id |-> j, attempts |-> 0, runAt |-> now + d]
  <2>2. /\ jobQueue' = jobQueue \cup {new}
        /\ UNCHANGED <<pc, held, now, attempts, failedAt>>
        /\ fate' = [fate EXCEPT ![j] = "live"] /\ fate[j] = "none"
    BY <2>1 DEF Enqueue, Settle
  <2>3. new.id = j /\ new.attempts = 0 /\ 0 < MaxRetriesOf(j)
    BY LimitIsPositive
  <2> HIDE DEF new
  <2>4. Counting'
    BY <2>2, <2>3
    DEF Counting, AttemptsBounded, Owners, OwnsJob, TypeOK, MaxRetriesOf
  <2>5. Spacing'
    BY <2>2, <2>3 DEF Spacing, RetrySpacing, Owners, OwnsJob
  <2>6. QED  BY <2>4, <2>5
<1>2. CASE ClearQueue
  BY <1>2
  DEF ClearQueue, Counting, Spacing, AttemptsBounded, RetrySpacing, Owners,
      OwnsJob, MaxRetriesOf
<1>3. CASE Start
  <2>1. \A w \in Workers : pc'[w] = "idle"
    BY <1>3 DEF Start
  <2>2. UNCHANGED <<jobQueue, held, now, attempts, failedAt, fate>>
    BY <1>3 DEF Start, historyVars
  <2>3. QED
    BY <2>1, <2>2
    DEF Counting, Spacing, AttemptsBounded, RetrySpacing, Owners, OwnsJob,
        MaxRetriesOf
<1>4. CASE StartReturns \/ Stop \/ CancelContext
           \/ \E x \in executing : OrphanReturns(x)
  <2>1. UNCHANGED <<jobQueue, pc, held, now, attempts, failedAt, fate>>
    BY <1>4
    DEF StartReturns, Stop, CancelContext, OrphanReturns, historyVars
  <2>2. QED
    BY <2>1
    DEF Counting, Spacing, AttemptsBounded, RetrySpacing, Owners, OwnsJob,
        MaxRetriesOf
<1>5. CASE Tick
  <2>1. now' = now + 1 /\ UNCHANGED <<jobQueue, pc, held, attempts, failedAt, fate>>
    BY <1>5 DEF Tick, historyVars
  <2>2. Counting'
    BY <2>1 DEF Counting, AttemptsBounded, Owners, OwnsJob, MaxRetriesOf
  <2>3. \A w \in Workers : pc[w] = "picked" => held[w].runAt <= now'
    BY <2>1 DEF Spacing, TypeOK, Job
  <2>4. \A w \in Owners :
          /\ held[w] \in Job
          /\ failedAt[held[w].id] \in Nat
    BY DEF TypeOK, Owners, Job
  <2>5. RetrySpacing'
    BY <2>1, <2>4 DEF Spacing, RetrySpacing, Owners, TypeOK, Job
  <2>6. QED  BY <2>1, <2>2, <2>3, <2>5 DEF Spacing
<1>6. CASE ProcessRestart
  <2>1. /\ \A w \in Workers : pc'[w] = "off"
        /\ UNCHANGED <<jobQueue, now, attempts, failedAt>>
        /\ \A j \in Jobs : fate'[j] = "none" => fate[j] = "none"
    BY <1>6 DEF ProcessRestart
  <2>2. QED
    BY <2>1
    DEF Counting, Spacing, AttemptsBounded, RetrySpacing, Owners, OwnsJob,
        MaxRetriesOf
<1>7. QED  BY <1>1, <1>2, <1>3, <1>4, <1>5, <1>6

LEMMA WorkerLedger ==
    ASSUME TypeOK, Custody, Counting, Spacing, NEW w \in Workers,
           WorkerReturns(w) \/ WorkerStep(w) \/ WorkerFault(w)
    PROVE  Counting' /\ Spacing'
<1>1. CASE WorkerReturns(w) \/ ClaimTooLate(w) \/ ClaimCancelled(w) \/ ClaimFails(w)
  <2>1. /\ UNCHANGED <<jobQueue, now, attempts, failedAt, fate>>
        /\ \E to \in {"off", "idle"} : pc' = [pc EXCEPT ![w] = to]
        /\ \A v \in Workers \ {w} : held'[v] = held[v]
    BY <1>1
    DEF WorkerReturns, ClaimTooLate, ClaimCancelled, ClaimFails, BackToTicker, Goto, TypeOK,
        historyVars
  <2>2. QED
    BY <2>1
    DEF Counting, Spacing, AttemptsBounded, RetrySpacing, Owners, OwnsJob,
        MaxRetriesOf, TypeOK
<1>2. CASE PickNext(w)
  <2>1. PICK e \in DueJobs : held' = [held EXCEPT ![w] = e]
    BY <1>2 DEF PickNext
  <2>2. e.runAt <= now
    BY <2>1 DEF DueJobs
  <2>3. /\ UNCHANGED <<jobQueue, now, attempts, failedAt, fate>>
        /\ pc' = [pc EXCEPT ![w] = "picked"]
    BY <1>2 DEF PickNext, Goto, historyVars
  <2>4. QED
    BY <2>1, <2>2, <2>3
    DEF Counting, Spacing, AttemptsBounded, RetrySpacing, Owners, OwnsJob,
        MaxRetriesOf, TypeOK
<1>3. CASE Claim(w)
  <2>1. /\ held[w] \in jobQueue /\ jobQueue' = jobQueue \ {held[w]}
        /\ pc' = [pc EXCEPT ![w] = "claimed"]
        /\ UNCHANGED <<held, now, attempts, failedAt, fate>>
        /\ pc[w] = "picked"
    BY <1>3 DEF Claim, Goto, historyVars
  <2>2. Counting'
    BY <2>1
    DEF Counting, AttemptsBounded, Owners, OwnsJob, MaxRetriesOf, TypeOK
  <2>3. held[w].attempts > 0 => now >= failedAt[held[w].id] + held[w].attempts
    <3>1. held[w] \in Job /\ failedAt[held[w].id] \in Nat
      BY <2>1 DEF TypeOK, Job
    <3>2. QED  BY <2>1, <3>1 DEF Spacing, TypeOK, Job
  <2>4. Spacing'
    BY <2>1, <2>3 DEF Spacing, RetrySpacing, Owners, OwnsJob, TypeOK
  <2>5. QED  BY <2>2, <2>4
<1>4. CASE ClaimReplyLost(w)
  <2>1. /\ jobQueue' \subseteq jobQueue
        /\ pc' = [pc EXCEPT ![w] = "idle"]
        /\ \A v \in Workers \ {w} : held'[v] = held[v]
        /\ fate' = [fate EXCEPT ![held[w].id] = "lost"]
        /\ UNCHANGED <<now, attempts, failedAt>>
    BY <1>4 DEF ClaimReplyLost, BackToTicker, Goto, Settle, TypeOK
  <2>2. QED
    BY <2>1
    DEF Counting, Spacing, AttemptsBounded, RetrySpacing, Owners, OwnsJob,
        MaxRetriesOf, TypeOK
<1>5. CASE NoHandler(w) \/ HandlerSucceeds(w) \/ GiveUp(w) \/ RetryFails(w)
  <2>1. /\ pc' = [pc EXCEPT ![w] = "idle"]
        /\ \A v \in Workers \ {w} : held'[v] = held[v]
        /\ \A j \in Jobs : fate'[j] = "none" => fate[j] = "none"
        /\ UNCHANGED <<jobQueue, now, attempts, failedAt>>
    BY <1>5
    DEF NoHandler, HandlerSucceeds, GiveUp, RetryFails, BackToTicker, Goto,
        Settle, TypeOK
  <2>2. QED
    BY <2>1
    DEF Counting, Spacing, AttemptsBounded, RetrySpacing, Owners, OwnsJob,
        MaxRetriesOf, TypeOK
<1>6. CASE RunHandler(w)
  <2> DEFINE id == held[w].id
             e == [held[w] EXCEPT !.attempts = @ + 1]
  <2>1. /\ w \in Owners /\ pc[w] = "claimed" /\ held[w] \in Job
        /\ pc' = [pc EXCEPT ![w] = "running"]
        /\ held' = [held EXCEPT ![w] = e]
        /\ UNCHANGED <<jobQueue, now, failedAt, fate>>
    BY <1>6 DEF RunHandler, Goto, Owners, OwnsJob, TypeOK, historyVars
  <2>2. e.id = id /\ e.attempts = held[w].attempts + 1 /\ id \in Jobs
    BY <2>1 DEF Job
  <2>3. attempts' = [attempts EXCEPT ![id] = @ + 1]
    BY <1>6, <2>2 DEF RunHandler
  <2>4. Owners' = Owners
    BY <2>1 DEF Owners, OwnsJob, TypeOK
  <2> HIDE DEF e
  <2>5. fate[id] = "live" /\ ~InQueue(id)
        /\ \A v \in Owners \ {w} : held[v].id # id
    BY <2>1, <2>2
    DEF Custody, SingleCopy, LiveJobsAreKept, HeldByAWorker
  <2>6. \A j \in Jobs \ {id} : attempts'[j] = attempts[j]
    BY <2>3 DEF TypeOK
  <2>7. attempts'[id] = e.attempts /\ e.attempts <= MaxRetriesOf(id)
    <3>1. held[w].attempts = attempts[id] /\ held[w].attempts < MaxRetriesOf(id)
      BY <2>1 DEF Counting
    <3>2. MaxRetriesOf(id) \in Nat /\ held[w].attempts \in Nat
      BY <2>1, <2>2, LimitIsPositive DEF Job
    <3>3. QED  BY <2>2, <2>3, <3>1, <3>2 DEF TypeOK
  <2>8. \A q \in jobQueue : q.id \in Jobs \ {id}
    BY <2>5 DEF InQueue, TypeOK, Job
  <2>9. \A v \in Owners \ {w} : held[v].id \in Jobs \ {id} /\ held'[v] = held[v]
    BY <2>1, <2>5 DEF Owners, TypeOK, Job
  <2>10. held'[w] = e
    BY <2>1 DEF TypeOK
  <2>11. Counting'
    <3>1. \A j \in Jobs : fate'[j] = "none" => attempts'[j] = 0
      BY <2>1, <2>5, <2>6 DEF Counting
    <3>2. \A q \in jobQueue' :
            q.attempts = attempts'[q.id] /\ q.attempts < MaxRetriesOf(q.id)
      BY <2>1, <2>6, <2>8 DEF Counting
    <3>3. \A v \in Owners' :
            /\ held'[v].attempts = attempts'[held'[v].id]
            /\ pc'[v] = "claimed" =>
                 held'[v].attempts < MaxRetriesOf(held'[v].id)
      BY <2>1, <2>2, <2>4, <2>6, <2>7, <2>9, <2>10 DEF Counting, Owners, TypeOK
    <3>4. \A j \in Jobs : attempts'[j] <= MaxRetriesOf(j)
      BY <2>6, <2>7 DEF Counting, AttemptsBounded
    <3>5. QED
      BY <3>1, <3>2, <3>3, <3>4 DEF Counting, AttemptsBounded, MaxRetriesOf
  <2>12. Spacing'
    BY <2>1, <2>4, <2>9, <2>10 DEF Spacing, RetrySpacing, Owners, TypeOK
  <2>13. QED  BY <2>11, <2>12
<1>7. CASE HandlerFails(w) \/ Timeout(w)
  <2>1. /\ pc' = [pc EXCEPT ![w] = "failed"] /\ pc[w] = "running"
        /\ UNCHANGED <<jobQueue, held, now, attempts, failedAt, fate>>
    BY <1>7 DEF HandlerFails, Timeout, Goto, historyVars
  <2>2. QED
    BY <2>1
    DEF Counting, Spacing, AttemptsBounded, RetrySpacing, Owners, OwnsJob,
        MaxRetriesOf, TypeOK
<1>8. CASE Retry(w) \/ RetryReplyLost(w)
  <2> DEFINE id == held[w].id
             back == Rescheduled(held[w])
  <2>1. /\ jobQueue' = jobQueue \cup {back}
        /\ pc' = [pc EXCEPT ![w] = "idle"]
        /\ held' = [held EXCEPT ![w] = NoJob]
        /\ failedAt' = [failedAt EXCEPT ![id] = now]
        /\ UNCHANGED <<now, attempts, fate>>
        /\ w \in Owners /\ held[w] \in Job
        /\ held[w].attempts < MaxRetriesOf(id)
    BY <1>8
    DEF Retry, RetryReplyLost, BackToTicker, Goto, MayRetry, Owners, OwnsJob,
        TypeOK
  <2>2. /\ back.id = id /\ back.attempts = held[w].attempts
        /\ back.runAt = now + held[w].attempts /\ id \in Jobs
    BY <2>1 DEF Rescheduled, Job
  <2> HIDE DEF back
  <2>3. Owners' = Owners \ {w}
    BY <2>1 DEF Owners, OwnsJob, TypeOK
  <2>4. \A v \in Workers \ {w} : held'[v] = held[v] /\ pc'[v] = pc[v]
    BY <2>1 DEF TypeOK
  <2>5. ~InQueue(id) /\ \A v \in Owners \ {w} : held[v].id # id
    BY <2>1 DEF Custody, SingleCopy
  <2>6. Counting'
    <3>1. \A q \in jobQueue' :
            q.attempts = attempts'[q.id] /\ q.attempts < MaxRetriesOf(q.id)
      BY <2>1, <2>2 DEF Counting
    <3>2. QED
      BY <2>1, <2>3, <2>4, <3>1
      DEF Counting, AttemptsBounded, MaxRetriesOf, Owners
  <2>7. Spacing'
    <3>1. \A j \in Jobs \ {id} : failedAt'[j] = failedAt[j]
      BY <2>1 DEF TypeOK
    <3>2. failedAt'[id] = now
      BY <2>1, <2>2 DEF TypeOK
    <3>3. \A q \in jobQueue : q.id \in Jobs \ {id}
      BY <2>5 DEF InQueue, TypeOK, Job
    <3>4. \A q \in jobQueue' :
            q.attempts > 0 => q.runAt >= failedAt'[q.id] + q.attempts
      BY <2>1, <2>2, <3>1, <3>2, <3>3 DEF Spacing, TypeOK, Job
    <3>5. \A v \in Owners \ {w} : held[v].id \in Jobs \ {id}
      BY <2>5 DEF Owners, TypeOK, Job
    <3>6. RetrySpacing'
      BY <2>1, <2>3, <2>4, <3>1, <3>5 DEF Spacing, RetrySpacing, Owners
    <3>7. \A v \in Workers : pc'[v] = "picked" => held'[v].runAt <= now'
      BY <2>1, <2>4 DEF Spacing, TypeOK
    <3>8. QED  BY <3>4, <3>6, <3>7 DEF Spacing
  <2>8. QED  BY <2>6, <2>7
<1>9. QED
  BY <1>1, <1>2, <1>3, <1>4, <1>5, <1>6, <1>7, <1>8 DEF WorkerStep, WorkerFault

LEMMA LedgerHolds == Spec => [](Counting /\ Spacing)
<1>1. /\ TypeOK /\ Custody /\ (Counting /\ Spacing) /\ [Next]_vars
      => (Counting /\ Spacing)'
  <2> SUFFICES ASSUME TypeOK, Custody, Counting, Spacing, [Next]_vars
               PROVE  (Counting /\ Spacing)'
    OBVIOUS
  <2>1. CASE Next
    BY <2>1, NextCases, EnvironmentLedger, WorkerLedger
  <2>2. CASE UNCHANGED vars
    BY <2>2
    DEF vars, queueVars, historyVars, Counting, Spacing, AttemptsBounded,
        RetrySpacing, Owners, MaxRetriesOf
  <2>3. QED  BY <2>1, <2>2
<1>2. QED  BY InitLedger, <1>1, TypeCorrect, CustodyHolds, PTL DEF Spec

(* No interleaving of failures, timeouts, crashes and lost replies makes   *)
(* the queue invoke a handler more often than the retry limit of the job.  *)
THEOREM RetriesBounded == Spec => []AttemptsBounded
BY LedgerHolds, PTL DEF Counting

(* No worker executes a job again before its retry delay has passed.       *)
THEOREM DelaysRespected == Spec => []RetrySpacing
BY LedgerHolds, PTL DEF Spacing

-----------------------------------------------------------------------------
(* The counters *)

Completed == Here({"done"})
Dropped == Here({"dropped"})
GivenUp == Here({"dead", "dropped"})

(* A cardinality counts only a finite set: there are finitely many         *)
(* outcomes and executions at any time, however many jobs and workers      *)
(* there may be.  What an earlier process settled stays settled.           *)
Books ==
    /\ IsFiniteSet(Completed) /\ IsFiniteSet(Dropped) /\ IsFiniteSet(GivenUp)
    /\ IsFiniteSet(Waiting)
    /\ \A j \in past : fate[j] \in Ended
    /\ StatsMatchFates

LEMMA InitBooks == Init => Books
<1> SUFFICES ASSUME Init PROVE Books
  OBVIOUS
<1>1. Completed = {} /\ Dropped = {} /\ GivenUp = {} /\ Waiting = {}
  BY DEF Init, Completed, Dropped, GivenUp, Here, Waiting
<1>2. QED
  BY <1>1, FS_EmptySet
  DEF Books, StatsMatchFates, Init, NoStats, Completed, Dropped, GivenUp

(* The equations of the books, as facts about natural numbers.             *)
LEMMA BookEntries ==
    ASSUME TypeOK, Books
    PROVE  /\ Cardinality(Completed) \in Nat /\ Cardinality(Dropped) \in Nat
           /\ Cardinality(GivenUp) \in Nat /\ Cardinality(Waiting) \in Nat
           /\ stats.processed \in Nat /\ stats.failed \in Nat /\ stats.retried \in Nat
           /\ executions \in Nat /\ faults \in Nat
           /\ stats.processed = Cardinality(Completed)
           /\ stats.processed + stats.failed + Cardinality(Waiting)
                = executions + Cardinality(Dropped)
           /\ stats.failed - stats.retried - Cardinality(GivenUp) >= 0
           /\ stats.failed - stats.retried - Cardinality(GivenUp) <= faults
<1>1. /\ Cardinality(Completed) \in Nat /\ Cardinality(Dropped) \in Nat
      /\ Cardinality(GivenUp) \in Nat /\ Cardinality(Waiting) \in Nat
  BY FS_CardinalityType DEF Books
<1>2. /\ stats.processed \in Nat /\ stats.failed \in Nat /\ stats.retried \in Nat
      /\ executions \in Nat /\ faults \in Nat
  BY DEF TypeOK
<1>3. /\ stats.processed = Cardinality(Completed)
      /\ stats.processed + stats.failed + Cardinality(Waiting)
           = executions + Cardinality(Dropped)
      /\ stats.failed - stats.retried - Cardinality(GivenUp) \in 0 .. faults
  BY DEF Books, StatsMatchFates, Completed, Dropped, GivenUp
<1>4. QED  BY <1>1, <1>2, <1>3

(* A step that counts nothing, settles no job one way or the other, and    *)
(* neither begins nor ends an execution.                                   *)
LEMMA BooksUntouched ==
    ASSUME TypeOK, Books, UNCHANGED <<stats, life>>, faults' \in {faults, faults + 1},
           Completed' = Completed, Dropped' = Dropped, GivenUp' = GivenUp,
           Waiting' = Waiting, \A j \in past : fate'[j] \in Ended
    PROVE  Books'
<1>1. stats.failed - stats.retried - Cardinality(GivenUp) \in 0 .. faults'
  BY BookEntries
<1>2. UNCHANGED <<past, executions>>
  BY DEF life
<1>3. QED
  BY <1>1, <1>2 DEF Books, StatsMatchFates, Completed, Dropped, GivenUp

(* A job that a worker owns or that waits in Redis has no outcome yet.     *)
LEMMA OpenJobs ==
    ASSUME TypeOK, Custody
    PROVE  /\ \A j \in Jobs : InQueue(j) => fate[j] = "live"
           /\ \A w \in Owners : held[w].id \in Jobs /\ fate[held[w].id] = "live"
<1>1. ASSUME NEW w \in Owners PROVE held[w].id \in Jobs
  BY DEF Owners, TypeOK, Job
<1>2. QED  BY <1>1 DEF Custody, LiveJobsAreKept, HeldByAWorker

(* An outcome is written into the books of this process only.              *)
LEMMA SettlingAJob ==
    ASSUME TypeOK, Books, NEW id \in Jobs, fate[id] = "live", past' = past,
           NEW how \in Ended, fate' = [fate EXCEPT ![id] = how]
    PROVE  /\ id \notin Completed /\ id \notin Dropped /\ id \notin GivenUp
           /\ Completed' = IF how = "done" THEN Completed \cup {id} ELSE Completed
           /\ Dropped' = IF how = "dropped" THEN Dropped \cup {id} ELSE Dropped
           /\ GivenUp' = IF how \in {"dead", "dropped"} THEN GivenUp \cup {id} ELSE GivenUp
           /\ \A j \in past : fate'[j] \in Ended
<1>1. id \notin past
  BY DEF Books, Ended
<1>2. \A j \in Jobs : fate'[j] = IF j = id THEN how ELSE fate[j]
  BY DEF TypeOK
<1>3. id \notin Completed /\ id \notin Dropped /\ id \notin GivenUp
  BY DEF Completed, Dropped, GivenUp, Here
<1>4. Completed' = IF how = "done" THEN Completed \cup {id} ELSE Completed
  BY <1>1, <1>2, <1>3 DEF Completed, Here
<1>5. Dropped' = IF how = "dropped" THEN Dropped \cup {id} ELSE Dropped
  BY <1>1, <1>2, <1>3 DEF Dropped, Here
<1>6. GivenUp' = IF how \in {"dead", "dropped"} THEN GivenUp \cup {id} ELSE GivenUp
  BY <1>1, <1>2, <1>3 DEF GivenUp, Here
<1>7. \A j \in past : fate'[j] \in Ended
  BY <1>2 DEF Books, TypeOK
<1>8. QED  BY <1>3, <1>4, <1>5, <1>6, <1>7

(* A worker stops waiting for its handler.                                 *)
LEMMA EndOfAWait ==
    ASSUME TypeOK, Books, NEW w \in Workers, pc[w] \in {"running", "failed"},
           pc' = [pc EXCEPT ![w] = "idle"]
    PROVE  /\ IsFiniteSet(Waiting') /\ Cardinality(Waiting) \in Nat \ {0}
           /\ Cardinality(Waiting') = Cardinality(Waiting) - 1
<1>1. w \in Waiting /\ Waiting' = Waiting \ {w}
  BY DEF Waiting, TypeOK
<1>2. IsFiniteSet(Waiting) /\ Cardinality(Waiting) \in Nat
  BY FS_CardinalityType DEF Books
<1>3. Cardinality(Waiting) # 0
  BY <1>1, <1>2, FS_EmptySet
<1>4. QED  BY <1>1, <1>2, <1>3, FS_RemoveElement

LEMMA RestartBooks ==
    ASSUME TypeOK, ProcessRestart
    PROVE  Books'
<1>1. /\ past' = {j \in Jobs : fate[j] \in Ended} /\ executions' = 0
      /\ \A j \in Jobs : fate'[j] \in {fate[j], "lost"}
      /\ stats' = NoStats /\ faults' \in Nat
      /\ pc' = [w \in Workers |-> "off"]
  BY DEF ProcessRestart, Fault, TypeOK
<1>2. Completed' = {} /\ Dropped' = {} /\ GivenUp' = {}
  BY <1>1 DEF Completed, Dropped, GivenUp, Here, Ended
<1>3. Waiting' = {}
  BY <1>1 DEF Waiting
<1>4. \A j \in past' : fate'[j] \in Ended
  BY <1>1 DEF Ended
<1>5. /\ Cardinality(Completed') = 0 /\ Cardinality(Dropped') = 0
      /\ Cardinality(GivenUp') = 0 /\ Cardinality(Waiting') = 0
      /\ IsFiniteSet(Completed') /\ IsFiniteSet(Dropped')
      /\ IsFiniteSet(GivenUp') /\ IsFiniteSet(Waiting')
  BY <1>2, <1>3, FS_EmptySet
<1>6. stats'.processed = 0 /\ stats'.failed = 0 /\ stats'.retried = 0
  BY <1>1 DEF NoStats
<1>7. /\ stats'.processed + stats'.failed + Cardinality(Waiting')
           = executions' + Cardinality(Dropped')
      /\ stats'.failed - stats'.retried - Cardinality(GivenUp') \in 0 .. faults'
  BY <1>1, <1>5, <1>6
<1>8. QED
  BY <1>4, <1>5, <1>6, <1>7
  DEF Books, StatsMatchFates, Completed, Dropped, GivenUp

LEMMA EnvironmentBooks ==
    ASSUME TypeOK, Custody, Books,
           \/ \E j \in Jobs, d \in Delays : Enqueue(j, d)
           \/ ClearQueue \/ Start \/ StartReturns \/ Stop \/ CancelContext
           \/ ProcessRestart \/ Tick
           \/ \E x \in executing : OrphanReturns(x)
    PROVE  Books'
<1>1. CASE ProcessRestart
  BY <1>1, RestartBooks
<1>2. CASE \E j \in Jobs, d \in Delays : Enqueue(j, d)
  <2>1. PICK j \in Jobs, d \in Delays : Enqueue(j, d)
    BY <1>2
  <2>2. /\ fate[j] = "none" /\ fate' = [fate EXCEPT ![j] = "live"]
        /\ UNCHANGED <<stats, life, faults, pc>>
    BY <2>1 DEF Enqueue, Settle
  <2>3. /\ Completed' = Completed /\ Dropped' = Dropped /\ GivenUp' = GivenUp
        /\ Waiting' = Waiting
    BY <2>2 DEF Completed, Dropped, GivenUp, Here, Waiting, TypeOK, life
  <2>4. \A i \in past : fate'[i] \in Ended
    BY <2>2 DEF Books, Ended, TypeOK
  <2>5. QED  BY <2>2, <2>3, <2>4, BooksUntouched
<1>3. CASE ClearQueue
  <2>1. /\ fate' = [j \in Jobs |-> IF InQueue(j) THEN "cleared" ELSE fate[j]]
        /\ UNCHANGED <<stats, life, faults, pc>>
    BY <1>3 DEF ClearQueue, InQueue
  <2>2. \A j \in Jobs : InQueue(j) => fate[j] = "live"
    BY OpenJobs
  <2>3. /\ Completed' = Completed /\ Dropped' = Dropped /\ GivenUp' = GivenUp
        /\ Waiting' = Waiting
    BY <2>1, <2>2 DEF Completed, Dropped, GivenUp, Here, Waiting, life
  <2>4. \A j \in past : fate'[j] \in Ended
    BY <2>1 DEF Books, Ended, TypeOK
  <2>5. QED  BY <2>1, <2>3, <2>4, BooksUntouched
<1>4. CASE Start
  <2>1. UNCHANGED <<fate, stats, life, faults>>
    BY <1>4 DEF Start, historyVars
  <2>2. Waiting' = Waiting
    BY <1>4 DEF Start, Waiting, Custody, PoolStopped
  <2>3. QED
    BY <2>1, <2>2, BooksUntouched DEF Completed, Dropped, GivenUp, Here, life, Books
<1>5. CASE StartReturns \/ Stop \/ CancelContext \/ Tick
           \/ \E x \in executing : OrphanReturns(x)
  <2>1. UNCHANGED <<fate, stats, life, faults, pc>>
    BY <1>5 DEF StartReturns, Stop, CancelContext, Tick, OrphanReturns, historyVars
  <2>2. QED
    BY <2>1, BooksUntouched
    DEF Completed, Dropped, GivenUp, Here, Waiting, life, Books
<1>6. QED  BY <1>1, <1>2, <1>3, <1>4, <1>5

(* The steps of a worker that count something.                             *)
LEMMA RunBooks ==
    ASSUME TypeOK, Books, NEW w \in Workers, RunHandler(w)
    PROVE  Books'
<1>1. /\ pc[w] = "claimed" /\ pc' = [pc EXCEPT ![w] = "running"]
      /\ executions' = executions + 1 /\ UNCHANGED <<fate, stats, faults, past>>
  BY DEF RunHandler, Goto
<1>2. w \notin Waiting /\ Waiting' = Waiting \cup {w}
  BY <1>1 DEF Waiting, TypeOK
<1>3. IsFiniteSet(Waiting') /\ Cardinality(Waiting') = Cardinality(Waiting) + 1
  BY <1>2, FS_AddElement DEF Books
<1>4. Completed' = Completed /\ Dropped' = Dropped /\ GivenUp' = GivenUp
  BY <1>1 DEF Completed, Dropped, GivenUp, Here
<1>5. stats.processed + stats.failed + Cardinality(Waiting')
        = executions' + Cardinality(Dropped)
  BY <1>1, <1>3, BookEntries
<1>6. QED
  BY <1>1, <1>3, <1>4, <1>5
  DEF Books, StatsMatchFates, Completed, Dropped, GivenUp

LEMMA SuccessBooks ==
    ASSUME TypeOK, Custody, Books, NEW w \in Workers, HandlerSucceeds(w)
    PROVE  Books'
<1> DEFINE id == held[w].id
<1>1. /\ id \in Jobs /\ fate[id] = "live" /\ fate' = [fate EXCEPT ![id] = "done"]
      /\ pc[w] = "running" /\ pc' = [pc EXCEPT ![w] = "idle"]
      /\ UNCHANGED <<faults, past, executions>>
  BY OpenJobs
  DEF HandlerSucceeds, Owners, OwnsJob, Settle, BackToTicker, Goto, life
<1>2. /\ Completed' = Completed \cup {id} /\ id \notin Completed
      /\ Dropped' = Dropped /\ GivenUp' = GivenUp
      /\ \A j \in past : fate'[j] \in Ended
  <2> HIDE DEF id
  <2>1. QED  BY <1>1, SettlingAJob DEF Ended
<1>3. IsFiniteSet(Completed') /\ Cardinality(Completed') = Cardinality(Completed) + 1
  BY <1>2, FS_AddElement DEF Books
<1>4. /\ IsFiniteSet(Waiting') /\ Cardinality(Waiting) \in Nat \ {0}
      /\ Cardinality(Waiting') = Cardinality(Waiting) - 1
  BY <1>1, EndOfAWait
<1>5. /\ stats'.processed = stats.processed + 1
      /\ stats'.failed = stats.failed /\ stats'.retried = stats.retried
  BY DEF HandlerSucceeds, CountSuccess, TypeOK
<1>6. /\ stats'.processed = Cardinality(Completed')
      /\ stats'.processed + stats'.failed + Cardinality(Waiting')
           = executions + Cardinality(Dropped)
      /\ stats'.failed - stats'.retried - Cardinality(GivenUp) \in 0 .. faults
  BY <1>3, <1>4, <1>5, BookEntries
<1>7. QED
  BY <1>1, <1>2, <1>3, <1>4, <1>6
  DEF Books, StatsMatchFates, Completed, Dropped, GivenUp

LEMMA DropBooks ==
    ASSUME TypeOK, Custody, Books, NEW w \in Workers, NoHandler(w)
    PROVE  Books'
<1> DEFINE id == held[w].id
<1>1. /\ id \in Jobs /\ fate[id] = "live" /\ fate' = [fate EXCEPT ![id] = "dropped"]
      /\ pc[w] = "claimed" /\ pc' = [pc EXCEPT ![w] = "idle"]
      /\ UNCHANGED <<faults, past, executions>>
  BY OpenJobs DEF NoHandler, Owners, OwnsJob, Settle, BackToTicker, Goto, life
<1>2. /\ Completed' = Completed
      /\ Dropped' = Dropped \cup {id} /\ id \notin Dropped
      /\ GivenUp' = GivenUp \cup {id} /\ id \notin GivenUp
      /\ \A j \in past : fate'[j] \in Ended
  <2> HIDE DEF id
  <2>1. QED  BY <1>1, SettlingAJob DEF Ended
<1>3. /\ IsFiniteSet(Dropped') /\ Cardinality(Dropped') = Cardinality(Dropped) + 1
      /\ IsFiniteSet(GivenUp') /\ Cardinality(GivenUp') = Cardinality(GivenUp) + 1
  <2>1. IsFiniteSet(Dropped) /\ IsFiniteSet(GivenUp)
    BY DEF Books
  <2> HIDE DEF id
  <2>2. QED  BY ONLY <1>2, <2>1, FS_AddElement
<1>4. Waiting' = Waiting
  BY <1>1 DEF Waiting, TypeOK
<1>5. /\ stats'.processed = stats.processed
      /\ stats'.failed = stats.failed + 1 /\ stats'.retried = stats.retried
  BY DEF NoHandler, CountFailure, TypeOK
<1>6. /\ stats'.processed = Cardinality(Completed)
      /\ stats'.processed + stats'.failed + Cardinality(Waiting)
           = executions + Cardinality(Dropped')
      /\ stats'.failed - stats'.retried - Cardinality(GivenUp') \in 0 .. faults
  <2>1. stats'.processed = Cardinality(Completed)
    BY <1>5, BookEntries
  <2>2. stats'.processed + stats'.failed + Cardinality(Waiting)
          = executions + Cardinality(Dropped')
    BY <1>3, <1>5, BookEntries
  <2>3. stats'.failed - stats'.retried - Cardinality(GivenUp') \in 0 .. faults
    BY <1>3, <1>5, BookEntries
  <2>4. QED  BY <2>1, <2>2, <2>3
<1>7. QED
  BY <1>1, <1>2, <1>3, <1>4, <1>5, <1>6
  DEF Books, StatsMatchFates, Completed, Dropped, GivenUp

LEMMA GiveUpBooks ==
    ASSUME TypeOK, Custody, Books, NEW w \in Workers, GiveUp(w)
    PROVE  Books'
<1> DEFINE id == held[w].id
<1>1. /\ id \in Jobs /\ fate[id] = "live" /\ fate' = [fate EXCEPT ![id] = "dead"]
      /\ pc[w] = "failed" /\ pc' = [pc EXCEPT ![w] = "idle"]
      /\ UNCHANGED <<faults, past, executions>>
  BY OpenJobs DEF GiveUp, Owners, OwnsJob, Settle, BackToTicker, Goto, life
<1>2. /\ Completed' = Completed /\ Dropped' = Dropped
      /\ GivenUp' = GivenUp \cup {id} /\ id \notin GivenUp
      /\ \A j \in past : fate'[j] \in Ended
  <2> HIDE DEF id
  <2>1. QED  BY <1>1, SettlingAJob DEF Ended
<1>3. IsFiniteSet(GivenUp') /\ Cardinality(GivenUp') = Cardinality(GivenUp) + 1
  <2>1. IsFiniteSet(GivenUp)
    BY DEF Books
  <2> HIDE DEF id
  <2>2. QED  BY ONLY <1>2, <2>1, FS_AddElement
<1>4. /\ IsFiniteSet(Waiting') /\ Cardinality(Waiting) \in Nat \ {0}
      /\ Cardinality(Waiting') = Cardinality(Waiting) - 1
  BY <1>1, EndOfAWait
<1>5. /\ stats'.processed = stats.processed
      /\ stats'.failed = stats.failed + 1 /\ stats'.retried = stats.retried
  BY DEF GiveUp, CountFailure, TypeOK
<1>6. /\ stats'.processed = Cardinality(Completed)
      /\ stats'.processed + stats'.failed + Cardinality(Waiting')
           = executions + Cardinality(Dropped)
      /\ stats'.failed - stats'.retried - Cardinality(GivenUp') \in 0 .. faults
  BY <1>3, <1>4, <1>5, BookEntries
<1>7. QED
  BY <1>1, <1>2, <1>3, <1>4, <1>5, <1>6
  DEF Books, StatsMatchFates, Completed, Dropped, GivenUp

(* A retry whose ZADD returns an error is counted as a failure only: a     *)
(* fault more accounts for it.                                             *)
LEMMA RetryBooks ==
    ASSUME TypeOK, Custody, Books, NEW w \in Workers,
           Retry(w) \/ RetryFails(w) \/ RetryReplyLost(w)
    PROVE  Books'
<1> DEFINE id == held[w].id
<1>1. /\ id \in Jobs /\ fate[id] = "live"
      /\ fate' = fate \/ fate' = [fate EXCEPT ![id] = "lost"]
      /\ pc[w] = "failed" /\ pc' = [pc EXCEPT ![w] = "idle"]
      /\ UNCHANGED <<past, executions>>
  BY OpenJobs
  DEF Retry, RetryFails, RetryReplyLost, Owners, OwnsJob, Settle, BackToTicker, Goto, life
<1>2. /\ Completed' = Completed /\ Dropped' = Dropped /\ GivenUp' = GivenUp
      /\ \A j \in past : fate'[j] \in Ended
  <2>1. CASE fate' = fate
    BY <1>1, <2>1 DEF Completed, Dropped, GivenUp, Here, Books
  <2>2. CASE fate' = [fate EXCEPT ![id] = "lost"]
    <3> HIDE DEF id
    <3>1. QED  BY <1>1, <2>2, SettlingAJob DEF Ended
  <2>3. QED  BY <1>1, <2>1, <2>2
<1>3. /\ IsFiniteSet(Waiting') /\ Cardinality(Waiting) \in Nat \ {0}
      /\ Cardinality(Waiting') = Cardinality(Waiting) - 1
  BY <1>1, EndOfAWait
<1>4. /\ stats'.processed = stats.processed /\ stats'.failed = stats.failed + 1
      /\ \/ stats'.retried = stats.retried + 1 /\ faults' = faults
         \/ stats'.retried = stats.retried /\ faults' = faults + 1
  BY DEF Retry, RetryFails, RetryReplyLost, CountRetry, CountFailure, Fault, TypeOK
<1>5. /\ stats'.processed = Cardinality(Completed)
      /\ stats'.processed + stats'.failed + Cardinality(Waiting')
           = executions + Cardinality(Dropped)
      /\ stats'.failed - stats'.retried - Cardinality(GivenUp) \in 0 .. faults'
  BY <1>3, <1>4, BookEntries
<1>6. QED
  BY <1>1, <1>2, <1>3, <1>4, <1>5
  DEF Books, StatsMatchFates, Completed, Dropped, GivenUp

LEMMA WorkerBooks ==
    ASSUME TypeOK, Custody, Books, NEW w \in Workers,
           WorkerReturns(w) \/ WorkerStep(w) \/ WorkerFault(w)
    PROVE  Books'
<1>1. CASE \/ WorkerReturns(w) \/ PickNext(w) \/ Claim(w) \/ ClaimTooLate(w)
           \/ ClaimCancelled(w) \/ ClaimFails(w) \/ HandlerFails(w) \/ Timeout(w)
  <2>1. UNCHANGED <<fate, stats, life>> /\ faults' \in {faults, faults + 1}
    BY <1>1
    DEF WorkerReturns, PickNext, Claim, ClaimTooLate, ClaimCancelled, ClaimFails,
        HandlerFails, Timeout, Fault, historyVars
  <2>2. Waiting' = Waiting
    BY <1>1
    DEF WorkerReturns, PickNext, Claim, ClaimTooLate, ClaimCancelled, ClaimFails,
        HandlerFails, Timeout, BackToTicker, Goto, Waiting, TypeOK
  <2>3. QED
    BY <2>1, <2>2, BooksUntouched DEF Completed, Dropped, GivenUp, Here, life, Books
<1>2. CASE ClaimReplyLost(w)
  <2>1. /\ InQueue(held[w].id) /\ held[w].id \in Jobs
        /\ fate' = [fate EXCEPT ![held[w].id] = "lost"]
        /\ UNCHANGED <<stats, life>> /\ faults' \in {faults, faults + 1}
    BY <1>2 DEF ClaimReplyLost, InQueue, Settle, Fault, TypeOK, Job
  <2>2. fate[held[w].id] = "live" /\ past' = past
    BY <2>1, OpenJobs DEF life
  <2>3. /\ Completed' = Completed /\ Dropped' = Dropped /\ GivenUp' = GivenUp
        /\ \A j \in past : fate'[j] \in Ended
    BY <2>1, <2>2, SettlingAJob DEF Ended
  <2>4. Waiting' = Waiting
    BY <1>2 DEF ClaimReplyLost, BackToTicker, Goto, Waiting, TypeOK
  <2>5. QED  BY <2>1, <2>3, <2>4, BooksUntouched
<1>3. CASE RunHandler(w)
  BY <1>3, RunBooks
<1>4. CASE HandlerSucceeds(w)
  BY <1>4, SuccessBooks
<1>5. CASE NoHandler(w) \/ GiveUp(w)
  BY <1>5, DropBooks, GiveUpBooks
<1>6. CASE Retry(w) \/ RetryFails(w) \/ RetryReplyLost(w)
  BY <1>6, RetryBooks
<1>7. QED
  BY <1>1, <1>2, <1>3, <1>4, <1>5, <1>6 DEF WorkerStep, WorkerFault

LEMMA BooksHold == Spec => []Books
<1>1. TypeOK /\ Custody /\ Books /\ [Next]_vars => Books'
  <2> SUFFICES ASSUME TypeOK, Custody, Books, [Next]_vars PROVE Books'
    OBVIOUS
  <2>1. CASE Next
    BY <2>1, NextCases, EnvironmentBooks, WorkerBooks
  <2>2. CASE UNCHANGED vars
    BY <2>2
    DEF vars, queueVars, historyVars, life, Books, StatsMatchFates, Completed, Dropped,
        GivenUp, Here, Waiting
  <2>3. QED  BY <2>1, <2>2
<1>2. QED  BY InitBooks, <1>1, TypeCorrect, CustodyHolds, PTL DEF Spec

(* The counters of a process account for its jobs: every execution is      *)
(* counted once, whatever is retried, dropped, cleared, left behind or     *)
(* lost on the way to Redis.                                               *)
THEOREM CountersMatchOutcomes == Spec => []StatsMatchFates
<1>1. Books => StatsMatchFates
  BY DEF Books, StatsMatchFates
<1>2. QED  BY BooksHold, <1>1, PTL

-----------------------------------------------------------------------------
(* The queue implements JobService *)

LEMMA InitImplements == Init => Service!Init
BY DEF Init, Service!Init, Status

LEMMA StatusFacts ==
    ASSUME TypeOK, Custody, NEW j \in Jobs
    PROVE  /\ Status[j] = IF fate[j] # "live" THEN fate[j]
                          ELSE IF InExecution(j) THEN "executing" ELSE "waiting"
           /\ InExecution(j) => HeldByAWorker(j) /\ fate[j] = "live"
           /\ InQueue(j) => ~InExecution(j) /\ fate[j] = "live"
<1>1. InExecution(j) => HeldByAWorker(j)
  BY DEF InExecution, HeldByAWorker, Owners, OwnsJob
<1>2. InQueue(j) => ~HeldByAWorker(j)
  BY DEF Custody, SingleCopy, HeldByAWorker
<1>3. QED  BY <1>1, <1>2 DEF Status, Custody, LiveJobsAreKept

LEMMA EnvironmentImplements ==
    ASSUME TypeOK, Custody, Custody',
           \/ \E j \in Jobs, d \in Delays : Enqueue(j, d)
           \/ ClearQueue \/ Start \/ StartReturns \/ Stop \/ CancelContext
           \/ ProcessRestart \/ Tick
           \/ \E x \in executing : OrphanReturns(x)
    PROVE  Service!Next \/ UNCHANGED <<Status, attempts>>
<1>1. CASE \E j \in Jobs, d \in Delays : Enqueue(j, d)
  <2>1. PICK j \in Jobs, d \in Delays : Enqueue(j, d)
    BY <1>1
  <2>2. /\ fate[j] = "none" /\ fate' = [fate EXCEPT ![j] = "live"]
        /\ UNCHANGED <<pc, held, attempts>>
    BY <2>1 DEF Enqueue, Settle
  <2>3. ~InExecution(j)
    BY <2>2, StatusFacts
  <2>4. Status' = [Status EXCEPT ![j] = "waiting"] /\ Status[j] = "none"
    BY <2>2, <2>3 DEF Status, InExecution, TypeOK
  <2>5. Service!Submit(j)
    BY <2>2, <2>4 DEF Service!Submit, Service!Move
  <2>6. QED  BY <2>5 DEF Service!Next
<1>2. CASE ClearQueue
  <2> DEFINE S == {j \in Jobs : InQueue(j)}
  <2>1. /\ UNCHANGED <<pc, held, attempts>>
        /\ fate' = [j \in Jobs |-> IF j \in S THEN "cleared" ELSE fate[j]]
    BY <1>2 DEF ClearQueue, InQueue
  <2>2. \A j \in S : Status[j] = "waiting"
    BY StatusFacts
  <2>3. Status' = [j \in Jobs |-> IF j \in S THEN "cleared" ELSE Status[j]]
    BY <2>1 DEF Status, InExecution
  <2>4. S \in SUBSET {j \in Jobs : Status[j] = "waiting"}
    BY <2>2
  <2>5. Service!Clear
    BY <2>1, <2>3, <2>4 DEF Service!Clear
  <2>6. QED  BY <2>5 DEF Service!Next
<1>3. CASE Start
  <2>1. \A j \in Jobs : ~InExecution(j)
    BY <1>3 DEF Start, Custody, PoolStopped, InExecution
  <2>2. \A j \in Jobs : ~InExecution(j)'
    BY <1>3 DEF Start, InExecution
  <2>3. QED  BY <1>3, <2>1, <2>2 DEF Start, Status, historyVars
<1>4. CASE StartReturns \/ Stop \/ CancelContext \/ Tick
           \/ \E x \in executing : OrphanReturns(x)
  <2>1. UNCHANGED <<fate, pc, held, attempts>>
    BY <1>4
    DEF StartReturns, Stop, CancelContext, Tick, OrphanReturns, historyVars
  <2>2. QED  BY <2>1 DEF Status, InExecution
<1>5. CASE ProcessRestart
  <2> DEFINE S == {j \in Jobs : HeldByAWorker(j)}
  <2>1. /\ UNCHANGED attempts
        /\ \A w \in Workers : pc'[w] = "off"
        /\ fate' = [j \in Jobs |-> IF j \in S THEN "lost" ELSE fate[j]]
    BY <1>5 DEF ProcessRestart, HeldByAWorker
  <2>2. \A j \in Jobs : ~InExecution(j)'
    BY <2>1 DEF InExecution
  <2>3. \A j \in S : fate[j] = "live"
    BY DEF Custody, LiveJobsAreKept
  <2>4. \A j \in S : Status[j] \in {"waiting", "executing"}
    BY <2>3 DEF Status
  <2>5. \A j \in Jobs \ S : ~InExecution(j)
    BY StatusFacts
  <2>6. Status' = [j \in Jobs |-> IF j \in S THEN "lost" ELSE Status[j]]
    BY <2>1, <2>2, <2>5 DEF Status
  <2>7. S \in SUBSET {j \in Jobs : Status[j] \in {"waiting", "executing"}}
    BY <2>4
  <2>8. Service!Lose
    BY <2>1, <2>6, <2>7 DEF Service!Lose
  <2>9. QED  BY <2>8 DEF Service!Next
<1>6. QED  BY <1>1, <1>2, <1>3, <1>4, <1>5

LEMMA WorkerImplements ==
    ASSUME TypeOK, Custody, Custody', Counting, NEW w \in Workers,
           NEW id, id = held[w].id,
           WorkerReturns(w) \/ WorkerStep(w) \/ WorkerFault(w)
    PROVE  Service!Next \/ UNCHANGED <<Status, attempts>>
<1>1. CASE \/ WorkerReturns(w) \/ PickNext(w) \/ ClaimTooLate(w) \/ ClaimCancelled(w)
           \/ ClaimFails(w) \/ Claim(w)
  <2>1. /\ UNCHANGED <<attempts, fate>>
        /\ pc[w] \notin {"running", "failed"}
        /\ \E to \in {"off", "idle", "picked", "claimed"} :
              pc' = [pc EXCEPT ![w] = to]
        /\ \A v \in Workers \ {w} : held'[v] = held[v]
    BY <1>1
    DEF WorkerReturns, PickNext, ClaimTooLate, ClaimCancelled, ClaimFails, Claim, BackToTicker,
        Goto, TypeOK, historyVars
  <2>2. \A j \in Jobs : InExecution(j)' <=> InExecution(j)
    BY <2>1 DEF InExecution, TypeOK
  <2>3. QED  BY <2>1, <2>2 DEF Status
<1>2. CASE HandlerFails(w) \/ Timeout(w)
  <2>1. /\ UNCHANGED <<attempts, fate, held>>
        /\ pc[w] = "running" /\ pc' = [pc EXCEPT ![w] = "failed"]
    BY <1>2 DEF HandlerFails, Timeout, Goto, historyVars
  <2>2. \A j \in Jobs : InExecution(j)' <=> InExecution(j)
    BY <2>1 DEF InExecution, TypeOK
  <2>3. QED  BY <2>1, <2>2 DEF Status
<1>3. CASE RunHandler(w)
  <2> DEFINE e == [held[w] EXCEPT !.attempts = @ + 1]
  <2>1. /\ w \in Owners /\ held[w] \in Job /\ pc[w] = "claimed"
        /\ pc' = [pc EXCEPT ![w] = "running"]
        /\ held' = [held EXCEPT ![w] = e]
        /\ UNCHANGED fate /\ id \notin Unhandled
    BY <1>3 DEF RunHandler, Goto, Owners, OwnsJob, TypeOK, Job
  <2>2. e.id = id /\ id \in Jobs
    BY <2>1 DEF Job
  <2>3. attempts' = [attempts EXCEPT ![id] = @ + 1]
    BY <1>3, <2>2 DEF RunHandler
  <2>4. fate[id] = "live" /\ \A v \in Owners \ {w} : held[v].id # id
    BY <2>1, <2>2 DEF Custody, SingleCopy, LiveJobsAreKept, HeldByAWorker
  <2> HIDE DEF e
  <2>5. ~InExecution(id)
    BY <2>1, <2>4 DEF InExecution, Owners, OwnsJob
  <2>6. InExecution(id)'
    BY <2>1, <2>2 DEF InExecution, TypeOK
  <2>7. \A j \in Jobs \ {id} : InExecution(j)' <=> InExecution(j)
    BY <2>1, <2>2 DEF InExecution, TypeOK
  <2>8. Status[id] = "waiting" /\ Status' = [Status EXCEPT ![id] = "executing"]
    BY <2>1, <2>2, <2>4, <2>5, <2>6, <2>7 DEF Status
  <2>9. attempts[id] < Limits[id]
    BY <2>1, <2>2 DEF Counting, Limits
  <2>10. Service!Execute(id)
    BY <2>1, <2>3, <2>8, <2>9 DEF Service!Execute, Service!Move
  <2>11. QED  BY <2>2, <2>10 DEF Service!Next
<1>4. CASE \/ NoHandler(w) \/ HandlerSucceeds(w) \/ GiveUp(w) \/ RetryFails(w)
           \/ Retry(w) \/ RetryReplyLost(w)
  <2>1. /\ w \in Owners /\ held[w] \in Job
        /\ pc' = [pc EXCEPT ![w] = "idle"]
        /\ held' = [held EXCEPT ![w] = NoJob]
        /\ UNCHANGED attempts
    BY <1>4
    DEF NoHandler, HandlerSucceeds, GiveUp, RetryFails, Retry, RetryReplyLost,
        BackToTicker, Goto, Owners, OwnsJob, TypeOK
  <2>2. id \in Jobs
    BY <2>1 DEF Job
  <2>3. fate[id] = "live" /\ \A v \in Owners \ {w} : held[v].id # id
    BY <2>1, <2>2 DEF Custody, SingleCopy, LiveJobsAreKept, HeldByAWorker
  <2>4. ~InExecution(id)'
    BY <2>1, <2>3 DEF InExecution, Owners, OwnsJob, TypeOK
  <2>5. \A j \in Jobs \ {id} : InExecution(j)' <=> InExecution(j)
    BY <2>1 DEF InExecution, TypeOK
  <2>6. InExecution(id) <=> pc[w] \in {"running", "failed"}
    BY <2>1, <2>3 DEF InExecution, Owners, OwnsJob
  <2>7. ASSUME NEW how \in Ended, fate' = [fate EXCEPT ![id] = how]
        PROVE  Status' = [Status EXCEPT ![id] = how]
    BY <2>2, <2>4, <2>5, <2>7 DEF Status, Ended, TypeOK
  <2>8. Status[id] = IF pc[w] \in {"running", "failed"} THEN "executing" ELSE "waiting"
    BY <2>2, <2>3, <2>6 DEF Status
  <2>9. ASSUME Status[id] \in {"waiting", "executing"},
               Status' = [Status EXCEPT ![id] = "lost"]
        PROVE  Service!Lose
    <3>1. Status' = [j \in Jobs |-> IF j \in {id} THEN "lost" ELSE Status[j]]
      BY <2>9 DEF Status
    <3>2. {id} \in SUBSET {j \in Jobs : Status[j] \in {"waiting", "executing"}}
      BY <2>2, <2>9
    <3>3. QED  BY <2>1, <3>1, <3>2 DEF Service!Lose
  <2>10. CASE NoHandler(w)
    <3>1. /\ fate' = [fate EXCEPT ![id] = "dropped"] /\ pc[w] = "claimed"
          /\ id \in Unhandled
      BY <2>10 DEF NoHandler, Settle
    <3>2. Service!Drop(id)
      BY <2>1, <2>7, <2>8, <3>1 DEF Service!Drop, Service!Move, Ended
    <3>3. QED  BY <2>2, <3>2 DEF Service!Next
  <2>11. CASE HandlerSucceeds(w)
    <3>1. fate' = [fate EXCEPT ![id] = "done"] /\ pc[w] = "running"
      BY <2>11 DEF HandlerSucceeds, Settle
    <3>2. Service!Succeed(id)
      BY <2>1, <2>7, <2>8, <3>1 DEF Service!Succeed, Service!Move, Ended
    <3>3. QED  BY <2>2, <3>2 DEF Service!Next
  <2>12. CASE GiveUp(w)
    <3>1. /\ fate' = [fate EXCEPT ![id] = "dead"] /\ pc[w] = "failed"
          /\ ~(held[w].attempts < MaxRetriesOf(id))
      BY <2>12 DEF GiveUp, Settle, MayRetry
    <3>2. /\ held[w].attempts = attempts[id] /\ attempts[id] <= MaxRetriesOf(id)
          /\ attempts[id] \in Nat /\ MaxRetriesOf(id) \in Nat
      BY <2>1, <2>2, LimitIsPositive DEF Counting, AttemptsBounded, TypeOK
    <3>3. attempts[id] = Limits[id]
      BY <2>2, <3>1, <3>2 DEF Limits
    <3>4. Service!Exhaust(id)
      BY <2>1, <2>7, <2>8, <3>1, <3>3 DEF Service!Exhaust, Service!Move, Ended
    <3>5. QED  BY <2>2, <3>4 DEF Service!Next
  <2>13. CASE RetryFails(w)
    <3>1. fate' = [fate EXCEPT ![id] = "lost"] /\ pc[w] = "failed"
      BY <2>13 DEF RetryFails, Settle
    <3>2. Service!Lose
      BY <2>7, <2>8, <2>9, <3>1 DEF Ended
    <3>3. QED  BY <3>2 DEF Service!Next
  <2>14. CASE Retry(w) \/ RetryReplyLost(w)
    <3>1. /\ UNCHANGED fate /\ pc[w] = "failed"
          /\ held[w].attempts < MaxRetriesOf(id)
      BY <2>14 DEF Retry, RetryReplyLost, MayRetry
    <3>2. Status' = [Status EXCEPT ![id] = "waiting"]
      BY <2>2, <2>3, <2>4, <2>5, <3>1 DEF Status
    <3>3. attempts[id] < Limits[id]
      BY <2>1, <2>2, <3>1 DEF Counting, Limits
    <3>4. Service!Reschedule(id)
      BY <2>1, <2>8, <3>1, <3>2, <3>3 DEF Service!Reschedule, Service!Move
    <3>5. QED  BY <2>2, <3>4 DEF Service!Next
  <2>15. QED  BY <1>4, <2>10, <2>11, <2>12, <2>13, <2>14
<1>5. CASE ClaimReplyLost(w)
  <2>1. /\ held[w] \in jobQueue /\ held[w] \in Job /\ w \notin Owners
        /\ pc' = [pc EXCEPT ![w] = "idle"]
        /\ held' = [held EXCEPT ![w] = NoJob]
        /\ fate' = [fate EXCEPT ![id] = "lost"] /\ UNCHANGED attempts
    BY <1>5
    DEF ClaimReplyLost, BackToTicker, Goto, Settle, Owners, OwnsJob, TypeOK
  <2>2. id \in Jobs /\ InQueue(id)
    BY <2>1 DEF Job, InQueue
  <2>3. Status[id] = "waiting"
    BY <2>2, StatusFacts
  <2>4. \A j \in Jobs : InExecution(j)' <=> InExecution(j)
    BY <2>1 DEF InExecution, Owners, OwnsJob, TypeOK
  <2>5. Status' = [j \in Jobs |-> IF j \in {id} THEN "lost" ELSE Status[j]]
    BY <2>1, <2>2, <2>4 DEF Status, TypeOK
  <2>6. {id} \in SUBSET {j \in Jobs : Status[j] \in {"waiting", "executing"}}
    BY <2>2, <2>3
  <2>7. Service!Lose
    BY <2>1, <2>5, <2>6 DEF Service!Lose
  <2>8. QED  BY <2>7 DEF Service!Next
<1>6. QED
  BY <1>1, <1>2, <1>3, <1>4, <1>5 DEF WorkerStep, WorkerFault

(* Every behaviour of the Redis queue, its workers and their faults is a   *)
(* behaviour of the abstract job service: outcomes are final, executions   *)
(* are counted against the limit, and only faults or a clear take a job.   *)
THEOREM Implements == Spec => ServiceSpec
<1>1. TypeOK /\ Custody /\ Custody' /\ Counting /\ [Next]_vars
        => [Service!Next]_<<Status, attempts>>
  <2> SUFFICES ASSUME TypeOK, Custody, Custody', Counting, [Next]_vars
               PROVE  Service!Next \/ UNCHANGED <<Status, attempts>>
    OBVIOUS
  <2>1. CASE Next
    BY <2>1, NextCases, EnvironmentImplements, WorkerImplements
  <2>2. CASE UNCHANGED vars
    BY <2>2 DEF vars, queueVars, historyVars, Status, InExecution
  <2>3. QED  BY <2>1, <2>2
<1>2. QED
  BY InitImplements, <1>1, TypeCorrect, CustodyHolds, LedgerHolds, PTL
  DEF Spec, ServiceSpec, Service!Spec, Service!svars
=============================================================================
