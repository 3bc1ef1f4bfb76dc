---------------------------- MODULE WorkerProcess ----------------------------
(***************************************************************************)
(* The life of the worker process: main starts the manager in a goroutine  *)
(* of its own and waits for a signal, the manager starts the expiration    *)
(* worker and the job queue, RestartWorker stops and starts one of them,   *)
(* and Shutdown cancels, waits, stops them and closes the connections      *)
(* (cmd/worker/main.go, worker/manager.go, and Start and Stop of           *)
(* worker/queue.go and worker/expiration.go).                              *)
(*                                                                         *)
(* One polling goroutine stands for the queue's pool, whose jobs JobQueue  *)
(* models; the expiration pass is StoryLifecycle's.  isRunning of a worker *)
(* is read and written without a lock, so that Start tests it and sets it  *)
(* in two steps.  Nothing in the program calls RestartWorker yet; it is    *)
(* taken to be called by an operator, one call at a time.                  *)
(***************************************************************************)

CONSTANTS Goroutines,   \* goroutines that may run a worker's Start at one time
          Handlers,     \* job handlers that may run at one time
          QueueEnabled  \* config.Workers.Queue.Enabled

Idle == "idle"
Nobody == "nobody"
Workers == {"expiration", "queue"}

ASSUME ProcessAssumption ==
    /\ QueueEnabled \in BOOLEAN
    /\ {Idle, Nobody} \cap Goroutines = {}

VARIABLES
    main,        \* where main is, and Shutdown once it has called it
    booted,      \* manager.Start has returned
    mu,          \* who holds Manager.mu: "free", "main", "operator"
    managing,    \* Manager.isRunning
    ctxDone,     \* Manager.cancel was called
    deadline,    \* the 30 s of the shutdown context are over
    role, at,    \* which worker a goroutine starts, and where it is
    running,     \* isRunning of each worker
    stopped,     \* stopCh of each worker is closed
    waiter,      \* the goroutine that waits for each handler
    dbOpen       \* the connections are open

(* History: not in the program, read only by the properties.               *)
VARIABLES
    restarted,   \* RestartWorker was called
    overlapped   \* workers that were started while they ran

manager == <<booted, mu, managing, ctxDone, deadline>>
loops == <<role, at, running>>
history == <<restarted, overlapped>>
vars == <<main, manager, loops, stopped, waiter, dbOpen, history>>

Over == {"exited", "panicked"}
ShutdownSteps == {"lock", "wait", "stopExpiration", "waitExpiration", "stopQueue", "close"}

TypeOK ==
    /\ main \in {"signal"} \cup ShutdownSteps \cup Over
    /\ booted \in BOOLEAN /\ managing \in BOOLEAN
    /\ ctxDone \in BOOLEAN /\ deadline \in BOOLEAN
    /\ mu \in {"free", "main", "operator"}
    /\ role \in [Goroutines -> Workers \cup {Nobody}]
    /\ at \in [Goroutines -> {"gone", "begin", "claim", "loop", "busy"}]
    /\ \A g \in Goroutines : at[g] # "gone" => role[g] \in Workers
    /\ running \in [Workers -> BOOLEAN]
    /\ stopped \in [Workers -> BOOLEAN]
    /\ waiter \in [Handlers -> Goroutines \cup {Idle, Nobody}]
    /\ \A h \in Handlers : waiter[h] \in Goroutines =>
          role[waiter[h]] = "queue" /\ at[waiter[h]] = "busy"
    /\ dbOpen \in BOOLEAN
    /\ restarted \in BOOLEAN
    /\ overlapped \in SUBSET Workers
    /\ mu = "main" <=> main \in ShutdownSteps \ {"lock"}

Init ==
    /\ main = "signal"
    /\ booted = FALSE /\ mu = "free" /\ managing = FALSE
    /\ ctxDone = FALSE /\ deadline = FALSE
    /\ role = [g \in Goroutines |-> Nobody]
    /\ at = [g \in Goroutines |-> "gone"]
    /\ running = [w \in Workers |-> FALSE]
    /\ stopped = [w \in Workers |-> FALSE]
    /\ waiter = [h \in Handlers |-> Idle]
    /\ dbOpen = TRUE
    /\ restarted = FALSE /\ overlapped = {}

Alive == main \notin Over

-----------------------------------------------------------------------------
(* A worker's goroutine *)

Goto(g, from, to) ==
    /\ Alive
    /\ at[g] = from
    /\ at' = [at EXCEPT ![g] = to]

Returns(g, from) ==
    /\ Goto(g, from, "gone")
    /\ role' = [role EXCEPT ![g] = Nobody]

Looping(w) == {g \in Goroutines : role[g] = w /\ at[g] \in {"loop", "busy"}}

(* Start: "already running", or the queue is disabled, or go on.           *)
CheckRunning(g) ==
    /\ at[g] = "begin"
    /\ IF running[role[g]] \/ (role[g] = "queue" /\ ~QueueEnabled)
       THEN Returns(g, "begin")
       ELSE Goto(g, "begin", "claim") /\ UNCHANGED role
    /\ UNCHANGED <<main, manager, running, stopped, waiter, dbOpen, history>>

SetRunning(g) ==
    /\ Goto(g, "claim", "loop")
    /\ running' = [running EXCEPT ![role[g]] = TRUE]
    /\ overlapped' = IF Looping(role[g]) = {} THEN overlapped ELSE overlapped \cup {role[g]}
    /\ UNCHANGED <<main, manager, role, stopped, waiter, dbOpen, restarted>>

(* The ticker may win the select even when the worker was told to stop.    *)
RunPass(g) ==
    /\ role[g] = "expiration"
    /\ Goto(g, "loop", "busy")
    /\ UNCHANGED <<main, manager, role, running, stopped, waiter, dbOpen, history>>

PassEnds(g) ==
    /\ role[g] = "expiration"
    /\ Goto(g, "busy", "loop")
    /\ UNCHANGED <<main, manager, role, running, stopped, waiter, dbOpen, history>>

RunJob(g, h) ==
    /\ role[g] = "queue"
    /\ waiter[h] = Idle
    /\ Goto(g, "loop", "busy")
    /\ waiter' = [waiter EXCEPT ![h] = g]
    /\ UNCHANGED <<main, manager, role, running, stopped, dbOpen, history>>

HandlerReturns(g, h) ==
    /\ waiter[h] = g
    /\ Goto(g, "busy", "loop")
    /\ waiter' = [waiter EXCEPT ![h] = Idle]
    /\ UNCHANGED <<main, manager, role, running, stopped, dbOpen, history>>

(* jobCtx is done, by its own timeout or with the manager's context: the   *)
(* worker goes on, the handler's goroutine too.                            *)
LeaveHandler(g, h) ==
    /\ waiter[h] = g
    /\ Goto(g, "busy", "loop")
    /\ waiter' = [waiter EXCEPT ![h] = Nobody]
    /\ UNCHANGED <<main, manager, role, running, stopped, dbOpen, history>>

LeftHandlerReturns(h) ==
    /\ Alive
    /\ waiter[h] = Nobody
    /\ waiter' = [waiter EXCEPT ![h] = Idle]
    /\ UNCHANGED <<main, manager, loops, stopped, dbOpen, history>>

(* Mutant: one of the returns forgets to reset isRunning.                  *)
LoopLeavesFlag(g) ==
    /\ at[g] = "loop"
    /\ ctxDone \/ stopped[role[g]]
    /\ Returns(g, "loop")
    /\ running' = [running EXCEPT ![role[g]] = ~ctxDone]
    /\ UNCHANGED <<main, manager, stopped, waiter, dbOpen, history>>

LoopReturns(g) ==
    /\ at[g] = "loop"
    /\ ctxDone \/ stopped[role[g]]
    /\ Returns(g, "loop")
    /\ running' = [running EXCEPT ![role[g]] = FALSE]
    /\ UNCHANGED <<main, manager, stopped, waiter, dbOpen, history>>

GoroutineNext(g) ==
    \/ CheckRunning(g) \/ SetRunning(g) \/ LoopReturns(g) \/ RunPass(g) \/ PassEnds(g)
    \/ \E h \in Handlers : RunJob(g, h) \/ HandlerReturns(g, h) \/ LeaveHandler(g, h)

-----------------------------------------------------------------------------
(* The manager *)

Spawned(started) ==
    /\ at' = [g \in Goroutines |-> IF g \in DOMAIN started THEN "begin" ELSE at[g]]
    /\ role' = [g \in Goroutines |-> IF g \in DOMAIN started THEN started[g] ELSE role[g]]

(* Manager.Start, whole under the lock.                                    *)
Start ==
    /\ Alive
    /\ ~booted /\ mu = "free"
    /\ \E e, q \in Goroutines :
          /\ e # q /\ at[e] = "gone" /\ at[q] = "gone"
          /\ Spawned([g \in {e, q} |-> IF g = e THEN "expiration" ELSE "queue"])
    /\ booted' = TRUE
    /\ managing' = TRUE
    /\ UNCHANGED <<main, mu, ctxDone, deadline, running, stopped, waiter, dbOpen, history>>

(* Stop of a worker: nothing unless it runs; closing a closed channel      *)
(* panics.                                                                 *)
CloseStopCh(w) == stopped' = [stopped EXCEPT ![w] = @ \/ running[w]]
Panics(w) == running[w] /\ stopped[w]

(* RestartWorker holds the lock while it waits 5 s for the expiration      *)
(* worker; it does not wait for the queue.                                 *)
RestartStops(w) ==
    /\ Alive
    /\ mu = "free"
    /\ \E g \in Goroutines : at[g] = "gone"
    /\ CloseStopCh(w)
    /\ restarted' = TRUE
    /\ \/ /\ Panics(w)
          /\ main' = "panicked"
          /\ UNCHANGED <<mu, role, at>>
       \/ /\ ~Panics(w)
          /\ w = "expiration" /\ running[w]
          /\ mu' = "operator"
          /\ UNCHANGED <<main, role, at>>
       \/ /\ ~Panics(w)
          /\ w = "queue" \/ ~running[w]
          /\ \E g \in Goroutines : at[g] = "gone" /\ Spawned([x \in {g} |-> w])
          /\ UNCHANGED <<main, mu>>
    /\ UNCHANGED <<booted, managing, ctxDone, deadline, running, waiter, dbOpen, overlapped>>

RestartStarts ==
    /\ Alive
    /\ mu = "operator"
    /\ mu' = "free"
    /\ \E g \in Goroutines : at[g] = "gone" /\ Spawned([x \in {g} |-> "expiration"])
    /\ UNCHANGED <<main, booted, managing, ctxDone, deadline, running, stopped, waiter,
                   dbOpen, history>>

-----------------------------------------------------------------------------
(* main and Shutdown *)

Signalled ==
    /\ main = "signal"
    /\ main' = "lock"
    /\ UNCHANGED <<manager, loops, stopped, waiter, dbOpen, history>>

DeadlinePasses ==
    /\ main \in ShutdownSteps
    /\ ~deadline
    /\ deadline' = TRUE
    /\ UNCHANGED <<main, booted, mu, managing, ctxDone, loops, stopped, waiter, dbOpen, history>>

(* A manager that was not started yet has nothing to shut down: main ends. *)
Shutdown ==
    /\ main = "lock" /\ mu = "free"
    /\ \/ /\ managing
          /\ main' = "wait"
          /\ mu' = "main"
          /\ ctxDone' = TRUE
       \/ /\ ~managing
          /\ main' = "exited"
          /\ UNCHANGED <<mu, ctxDone>>
    /\ UNCHANGED <<booted, managing, deadline, loops, stopped, waiter, dbOpen, history>>

(* wg.Wait.  Mutant: the queue was not added to the group.                 *)
ExpirationDone == \A g \in Goroutines : role[g] = "expiration" => at[g] = "gone"
AllDone == \A g \in Goroutines : at[g] = "gone"

(* Mutant: the wait has no timeout.                                        *)
WaitsForAll ==
    /\ main = "wait"
    /\ AllDone
    /\ main' = "stopExpiration"
    /\ UNCHANGED <<manager, loops, stopped, waiter, dbOpen, history>>

WaitEnds ==
    /\ main = "wait"
    /\ AllDone \/ deadline
    /\ main' = "stopExpiration"
    /\ UNCHANGED <<manager, loops, stopped, waiter, dbOpen, history>>

StopExpiration ==
    /\ main = "stopExpiration"
    /\ CloseStopCh("expiration")
    /\ main' = IF Panics("expiration") THEN "panicked" ELSE
               IF running["expiration"] THEN "waitExpiration" ELSE "stopQueue"
    /\ mu' = IF Panics("expiration") THEN "free" ELSE mu
    /\ UNCHANGED <<booted, managing, ctxDone, deadline, loops, waiter, dbOpen, history>>

(* 5 s, or what is left of the 30.                                         *)
ExpirationWaited ==
    /\ main = "waitExpiration"
    /\ main' = "stopQueue"
    /\ UNCHANGED <<manager, loops, stopped, waiter, dbOpen, history>>

StopQueue ==
    /\ main = "stopQueue"
    /\ CloseStopCh("queue")
    /\ main' = IF Panics("queue") THEN "panicked" ELSE "close"
    /\ mu' = IF Panics("queue") THEN "free" ELSE mu
    /\ UNCHANGED <<booted, managing, ctxDone, deadline, loops, waiter, dbOpen, history>>

CloseConnections ==
    /\ main = "close"
    /\ dbOpen' = FALSE
    /\ managing' = FALSE
    /\ mu' = "free"
    /\ main' = "exited"
    /\ UNCHANGED <<booted, ctxDone, deadline, loops, stopped, waiter, history>>

MainNext ==
    \/ WaitEnds \/ StopExpiration \/ ExpirationWaited \/ StopQueue \/ CloseConnections

Next ==
    \/ Start \/ (\E w \in Workers : RestartStops(w)) \/ RestartStarts
    \/ (\E g \in Goroutines : GoroutineNext(g)) \/ (\E h \in Handlers : LeftHandlerReturns(h))
    \/ Signalled \/ DeadlinePasses \/ Shutdown \/ MainNext

Spec == Init /\ [][Next]_vars

(* The timers fire and main goes on; sync.RWMutex starves no writer.  That *)
(* a pass over the database or a handler ever ends is not assumed.         *)
Fairness ==
    /\ WF_vars(MainNext)
    /\ WF_vars(DeadlinePasses)
    /\ WF_vars(RestartStarts)
    /\ SF_vars(Shutdown)

FairSpec == Spec /\ Fairness

-----------------------------------------------------------------------------
(* Properties *)

(* isRunning of a worker, on which Start, Stop and GetStatus rely, says    *)
(* whether its loop runs, unless two goroutines ran it at once; and that   *)
(* takes a RestartWorker.                                                  *)
FlagTruthful ==
    /\ overlapped # {} => restarted
    /\ \A w \in Workers \ overlapped : running[w] <=> Looping(w) # {}

(* Shutdown closes the database and Redis only when both workers have      *)
(* returned, or its 30 s were over first.                                  *)
LoopsEndBeforeClose ==
    [][dbOpen /\ ~dbOpen' => deadline \/ \A g \in Goroutines : at[g] = "gone"]_vars

(* Once the signal has come the process ends (or panics), whatever the     *)
(* workers, the handlers and the database do.                              *)
ShutdownCompletes == main = "lock" ~> main \in Over
=============================================================================
