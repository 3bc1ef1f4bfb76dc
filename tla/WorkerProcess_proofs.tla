------------------------ MODULE WorkerProcess_proofs ------------------------
(***************************************************************************)
(* Proofs about the worker process, for every number of goroutines and     *)
(* handlers, with the queue enabled or not.                                *)
(***************************************************************************)
EXTENDS WorkerProcess, TLAPS

Waited(h) == waiter[h] \in Goroutines
OneWaiter ==
    \A h, k \in Handlers : Waited(h) /\ waiter[h] = waiter[k] => h = k

OneLoop == \A w \in Workers \ overlapped : \A f, g \in Looping(w) : f = g

(* Until RestartWorker is called each worker is started once.              *)
FirstStart ==
    ~restarted =>
        /\ \A f, g \in Goroutines : at[f] # "gone" /\ at[g] # "gone" /\ role[f] = role[g]
              => f = g
        /\ ~booted => AllDone

(* Shutdown holds the lock from the wait on: nothing is started again.     *)
Drained == main \in ShutdownSteps \ {"lock", "wait"} /\ ~deadline => AllDone

Inv == OneWaiter /\ OneLoop /\ FirstStart /\ FlagTruthful /\ Drained

Places == {"gone", "begin", "claim", "loop", "busy"}

(* The goroutines and the handlers that wait for them.                     *)
LoopsTyped ==
    /\ role \in [Goroutines -> Workers \cup {Nobody}]
    /\ at \in [Goroutines -> Places]
    /\ \A g \in Goroutines : at[g] # "gone" => role[g] \in Workers
    /\ waiter \in [Handlers -> Goroutines \cup {Idle, Nobody}]
    /\ \A h \in Handlers : Waited(h) => role[waiter[h]] = "queue" /\ at[waiter[h]] = "busy"
FlagsTyped == running \in [Workers -> BOOLEAN] /\ stopped \in [Workers -> BOOLEAN]
ManagerTyped ==
    /\ main \in {"signal"} \cup ShutdownSteps \cup Over
    /\ booted \in BOOLEAN /\ managing \in BOOLEAN
    /\ ctxDone \in BOOLEAN /\ deadline \in BOOLEAN
    /\ mu \in {"free", "main", "operator"}
    /\ dbOpen \in BOOLEAN
    /\ restarted \in BOOLEAN
    /\ overlapped \in SUBSET Workers
    /\ mu = "main" <=> main \in ShutdownSteps \ {"lock"}

LEMMA TypeParts == TypeOK <=> LoopsTyped /\ FlagsTyped /\ ManagerTyped
BY DEF TypeOK, LoopsTyped, FlagsTyped, ManagerTyped, Places, Waited

LEMMA Assembled ==
    ASSUME LoopsTyped', FlagsTyped', ManagerTyped'
    PROVE  TypeOK'
BY DEF TypeOK, LoopsTyped, FlagsTyped, ManagerTyped, Places, Waited

LEMMA Strangers == Idle \notin Goroutines /\ Nobody \notin Goroutines /\ Idle # Nobody
                   /\ Nobody \notin Workers
BY ProcessAssumption DEF Idle, Nobody, Workers

LEMMA InitHolds == Init => TypeOK /\ Inv
<1> SUFFICES ASSUME Init PROVE TypeOK /\ Inv
  OBVIOUS
<1>1. TypeOK
  BY Strangers DEF Init, TypeOK, ShutdownSteps, Workers
<1>2. OneWaiter
  BY Strangers DEF Init, OneWaiter, Waited
<1>3. OneLoop /\ FlagTruthful
  BY DEF Init, OneLoop, FlagTruthful, Looping
<1>4. FirstStart /\ Drained
  BY DEF Init, FirstStart, Drained, AllDone, ShutdownSteps
<1>5. QED  BY <1>1, <1>2, <1>3, <1>4 DEF Inv

-----------------------------------------------------------------------------
(* A step of one goroutine *)

LEMMA MovePlaces ==
    ASSUME TypeOK, Inv, NEW g \in Goroutines, at[g] # "gone", NEW to \in Places,
           at' = [at EXCEPT ![g] = to],
           \/ role' = role
           \/ to = "gone" /\ role' = [role EXCEPT ![g] = Nobody]
    PROVE  /\ role' \in [Goroutines -> Workers \cup {Nobody}]
           /\ at' \in [Goroutines -> Places]
           /\ \A f \in Goroutines : at'[f] # "gone" => role'[f] \in Workers
           /\ \A f \in Goroutines : f # g => at'[f] = at[f] /\ role'[f] = role[f]
           /\ at'[g] = to
           /\ to # "gone" => role'[g] = role[g]
           /\ UNCHANGED <<main, booted, deadline, restarted>> => FirstStart' /\ Drained'
<1>1. LoopsTyped
  BY TypeParts
<1>2. /\ \A f \in Goroutines : f # g => at'[f] = at[f] /\ role'[f] = role[f]
      /\ at'[g] = to /\ (to # "gone" => role'[g] = role[g])
      /\ role' \in [Goroutines -> Workers \cup {Nobody}]
      /\ at' \in [Goroutines -> Places]
      /\ \A f \in Goroutines : at'[f] # "gone" => role'[f] \in Workers
  BY <1>1 DEF LoopsTyped
<1>3. ASSUME UNCHANGED <<main, booted, deadline, restarted>> PROVE FirstStart' /\ Drained'
  BY <1>2, <1>3 DEF Inv, FirstStart, Drained, AllDone
<1>4. QED  BY <1>2, <1>3

(* A worker that is neither entered nor left keeps its loops.              *)
LEMMA SameLoops ==
    ASSUME TypeOK, Inv, NEW g \in Goroutines,
           at[g] \in {"loop", "busy"} <=> at'[g] \in {"loop", "busy"},
           at[g] \in {"loop", "busy"} => role'[g] = role[g],
           \A f \in Goroutines : f # g => at'[f] = at[f] /\ role'[f] = role[f],
           UNCHANGED <<running, restarted, overlapped>>
    PROVE  OneLoop' /\ FlagTruthful'
<1>1. \A w : Looping(w)' = Looping(w)
  BY DEF Looping
<1>2. QED  BY <1>1 DEF Inv, OneLoop, FlagTruthful

LEMMA StartingStep ==
    ASSUME TypeOK, Inv, NEW g \in Goroutines, CheckRunning(g) \/ SetRunning(g)
    PROVE  TypeOK' /\ Inv'
<1>1. LoopsTyped /\ FlagsTyped /\ ManagerTyped
  BY TypeParts
<1>2. at[g] # "gone" /\ at[g] \notin {"loop", "busy"} /\ role[g] \in Workers
  BY <1>1 DEF CheckRunning, SetRunning, Goto, LoopsTyped
<1>3. PICK to \in {"gone", "claim", "loop"} :
        /\ at' = [at EXCEPT ![g] = to]
        /\ role' = role \/ (to = "gone" /\ role' = [role EXCEPT ![g] = Nobody])
        /\ to = "loop" <=> SetRunning(g)
  BY <1>1 DEF CheckRunning, SetRunning, Returns, Goto, LoopsTyped
<1>4. /\ UNCHANGED <<main, booted, mu, managing, ctxDone, deadline, stopped, waiter, dbOpen,
                     restarted>>
      /\ ~SetRunning(g) => UNCHANGED <<running, overlapped>>
  BY DEF CheckRunning, SetRunning, manager, history
<1>5. /\ role' \in [Goroutines -> Workers \cup {Nobody}]
      /\ at' \in [Goroutines -> Places]
      /\ \A f \in Goroutines : at'[f] # "gone" => role'[f] \in Workers
      /\ \A f \in Goroutines : f # g => at'[f] = at[f] /\ role'[f] = role[f]
      /\ at'[g] = to
      /\ to # "gone" => role'[g] = role[g]
      /\ FirstStart' /\ Drained'
  <2>1. to \in Places
    BY DEF Places
  <2>2. QED  BY <1>2, <1>3, <1>4, <2>1, MovePlaces
<1>6. LoopsTyped'
  BY <1>1, <1>2, <1>4, <1>5 DEF LoopsTyped, Waited
<1>7. FlagsTyped' /\ ManagerTyped'
  BY <1>1, <1>2, <1>4 DEF FlagsTyped, ManagerTyped, SetRunning
<1>8. OneWaiter'
  BY <1>4 DEF Inv, OneWaiter, Waited
<1>9. OneLoop' /\ FlagTruthful'
  <2>1. CASE ~SetRunning(g)
    BY <1>2, <1>3, <1>4, <1>5, <2>1, SameLoops
  <2>2. CASE SetRunning(g)
    <3>0. PICK w \in Workers : w = role[g]
      BY <1>2
    <3>1. at'[g] = "loop" /\ role'[g] = w
      BY <1>3, <1>5, <2>2, <3>0
    <3>2. Looping(w)' = Looping(w) \cup {g}
      BY <1>2, <1>5, <3>0, <3>1 DEF Looping
    <3>3. \A v \in Workers : v # w => Looping(v)' = Looping(v)
      BY <1>2, <1>5, <3>0, <3>1 DEF Looping
    <3>4. \A v \in Workers : v # w => running'[v] = running[v]
      BY <1>1, <2>2, <3>0 DEF SetRunning, FlagsTyped
    <3>5. running'[w] = TRUE
      BY <1>1, <2>2, <3>0 DEF SetRunning, FlagsTyped
    <3>6. CASE Looping(w) = {}
      <4>1. overlapped' = overlapped
        BY <2>2, <3>0, <3>6 DEF SetRunning
      <4>2. Looping(w)' = {g}
        BY <3>2, <3>6
      <4>3. QED
        BY <1>4, <3>3, <3>4, <3>5, <4>1, <4>2 DEF Inv, OneLoop, FlagTruthful
    <3>7. CASE Looping(w) # {}
      <4>1. overlapped' = overlapped \cup {w}
        BY <2>2, <3>0, <3>7 DEF SetRunning
      <4>2. restarted
        BY <1>2, <3>0, <3>7 DEF Inv, FirstStart, Looping
      <4>3. QED
        BY <1>4, <3>3, <3>4, <4>1, <4>2 DEF Inv, OneLoop, FlagTruthful
    <3>8. QED  BY <3>6, <3>7
  <2>3. QED  BY <2>1, <2>2
<1>10. QED  BY <1>5, <1>6, <1>7, <1>8, <1>9, Assembled DEF Inv

LEMMA WorkingStep ==
    ASSUME TypeOK, Inv, NEW g \in Goroutines,
           \/ RunPass(g) \/ PassEnds(g)
           \/ \E h \in Handlers : RunJob(g, h) \/ HandlerReturns(g, h) \/ LeaveHandler(g, h)
    PROVE  TypeOK' /\ Inv'
<1>1. LoopsTyped /\ FlagsTyped /\ ManagerTyped
  BY TypeParts
<1>2. /\ at[g] \in {"loop", "busy"}
      /\ UNCHANGED <<main, booted, mu, managing, ctxDone, deadline, running, stopped, dbOpen,
                     restarted, overlapped, role>>
  BY DEF RunPass, PassEnds, RunJob, HandlerReturns, LeaveHandler, Goto, manager, history
<1>3. PICK to \in {"loop", "busy"} : at' = [at EXCEPT ![g] = to]
  BY DEF RunPass, PassEnds, RunJob, HandlerReturns, LeaveHandler, Goto
<1>4. /\ role' \in [Goroutines -> Workers \cup {Nobody}]
      /\ at' \in [Goroutines -> Places]
      /\ \A f \in Goroutines : at'[f] # "gone" => role'[f] \in Workers
      /\ \A f \in Goroutines : f # g => at'[f] = at[f] /\ role'[f] = role[f]
      /\ at'[g] = to
      /\ FirstStart' /\ Drained'
  <2>1. to \in Places
    BY DEF Places
  <2>2. QED  BY <1>2, <1>3, <2>1, MovePlaces
<1>5. OneLoop' /\ FlagTruthful'
  BY <1>2, <1>4, SameLoops
<1>6. LoopsTyped' /\ OneWaiter'
  <2>1. CASE RunPass(g) \/ PassEnds(g)
    <3>1. waiter' = waiter /\ role[g] = "expiration"
      BY <2>1 DEF RunPass, PassEnds
    <3>2. \A h \in Handlers : waiter[h] # g
      BY <1>1, <3>1 DEF LoopsTyped, Waited
    <3>3. QED
      BY <1>1, <1>2, <1>4, <3>1, <3>2 DEF LoopsTyped, Waited, Inv, OneWaiter
  <2>2. ASSUME NEW h \in Handlers, RunJob(g, h) PROVE LoopsTyped' /\ OneWaiter'
    <3>1. at[g] = "loop" /\ at' = [at EXCEPT ![g] = "busy"] /\ role[g] = "queue"
          /\ waiter' = [waiter EXCEPT ![h] = g]
      BY <2>2 DEF RunJob, Goto
    <3>2. \A k \in Handlers : waiter[k] # g
      BY <1>1, <3>1 DEF LoopsTyped, Waited
    <3>3. waiter'[h] = g /\ \A k \in Handlers : k # h => waiter'[k] = waiter[k]
      BY <1>1, <3>1 DEF LoopsTyped
    <3>4. at'[g] = "busy"
      BY <1>1, <3>1 DEF LoopsTyped
    <3>5. LoopsTyped'
      BY <1>1, <1>2, <1>4, <3>1, <3>2, <3>3, <3>4 DEF LoopsTyped, Waited
    <3>6. OneWaiter'
      BY <1>1, <3>2, <3>3 DEF Inv, OneWaiter, Waited
    <3>7. QED  BY <3>5, <3>6
  <2>3. ASSUME NEW h \in Handlers, HandlerReturns(g, h) \/ LeaveHandler(g, h)
        PROVE  LoopsTyped' /\ OneWaiter'
    <3>1. PICK n \in {Idle, Nobody} : waiter' = [waiter EXCEPT ![h] = n]
      BY <2>3 DEF HandlerReturns, LeaveHandler
    <3>2. waiter[h] = g /\ n \notin Goroutines
      BY <2>3, Strangers DEF HandlerReturns, LeaveHandler
    <3>3. waiter'[h] = n /\ \A k \in Handlers : k # h => waiter'[k] = waiter[k] /\ waiter[k] # g
      BY <1>1, <3>1, <3>2 DEF LoopsTyped, Inv, OneWaiter, Waited
    <3>4. LoopsTyped'
      BY <1>1, <1>2, <1>4, <3>1, <3>2, <3>3 DEF LoopsTyped, Waited
    <3>5. OneWaiter'
      BY <3>2, <3>3 DEF Inv, OneWaiter, Waited
    <3>6. QED  BY <3>4, <3>5
  <2>4. QED  BY <2>1, <2>2, <2>3
<1>7. FlagsTyped' /\ ManagerTyped'
  BY <1>1, <1>2 DEF FlagsTyped, ManagerTyped
<1>8. QED  BY <1>4, <1>5, <1>6, <1>7, Assembled DEF Inv

LEMMA LeavingStep ==
    ASSUME TypeOK, Inv, NEW g \in Goroutines, LoopReturns(g)
    PROVE  TypeOK' /\ Inv'
<1>1. LoopsTyped /\ FlagsTyped /\ ManagerTyped
  BY TypeParts
<1>0. PICK w \in Workers : w = role[g]
  BY <1>1 DEF LoopReturns, Goto, Returns, LoopsTyped
<1>2. /\ at[g] = "loop" /\ at' = [at EXCEPT ![g] = "gone"]
      /\ role' = [role EXCEPT ![g] = Nobody]
      /\ running' = [running EXCEPT ![w] = FALSE]
      /\ UNCHANGED <<main, booted, mu, managing, ctxDone, deadline, stopped, dbOpen,
                     restarted, overlapped, waiter>>
  BY <1>0 DEF LoopReturns, Returns, Goto, manager, history
<1>3. /\ role' \in [Goroutines -> Workers \cup {Nobody}]
      /\ at' \in [Goroutines -> Places]
      /\ \A f \in Goroutines : at'[f] # "gone" => role'[f] \in Workers
      /\ \A f \in Goroutines : f # g => at'[f] = at[f] /\ role'[f] = role[f]
      /\ at'[g] = "gone"
      /\ FirstStart' /\ Drained'
  <2>1. "gone" \in Places
    BY DEF Places
  <2>2. QED  BY <1>2, <2>1, MovePlaces
<1>4. LoopsTyped' /\ OneWaiter'
  <2>1. \A h \in Handlers : waiter[h] # g
    BY <1>1, <1>2 DEF LoopsTyped, Waited
  <2>2. QED  BY <1>1, <1>2, <1>3, <2>1 DEF LoopsTyped, Waited, Inv, OneWaiter
<1>5. FlagsTyped' /\ ManagerTyped'
  BY <1>1, <1>2 DEF FlagsTyped, ManagerTyped
<1>6. g \in Looping(w)
  BY <1>2, <1>0 DEF Looping
<1>7. Looping(w)' = Looping(w) \ {g} /\ \A v \in Workers : v # w => Looping(v)' = Looping(v)
  BY <1>2, <1>3, <1>0 DEF Looping
<1>8. running'[w] = FALSE /\ \A v \in Workers : v # w => running'[v] = running[v]
  BY <1>1, <1>2, <1>6 DEF FlagsTyped
<1>9. OneLoop' /\ FlagTruthful'
  BY <1>2, <1>6, <1>7, <1>8 DEF Inv, OneLoop, FlagTruthful
<1>10. QED  BY <1>3, <1>4, <1>5, <1>9, Assembled DEF Inv

LEMMA LeftHandlerStep ==
    ASSUME TypeOK, Inv, NEW h \in Handlers, LeftHandlerReturns(h)
    PROVE  TypeOK' /\ Inv'
<1>1. LoopsTyped /\ FlagsTyped /\ ManagerTyped
  BY TypeParts
<1>2. /\ waiter' = [waiter EXCEPT ![h] = Idle]
      /\ UNCHANGED <<main, booted, mu, managing, ctxDone, deadline, role, at, running, stopped,
                     dbOpen, restarted, overlapped>>
  BY DEF LeftHandlerReturns, manager, loops, history
<1>3. LoopsTyped' /\ OneWaiter'
  BY <1>1, <1>2, Strangers DEF LoopsTyped, Waited, Inv, OneWaiter
<1>4. FlagsTyped' /\ ManagerTyped'
  BY <1>1, <1>2 DEF FlagsTyped, ManagerTyped
<1>5. OneLoop' /\ FlagTruthful' /\ FirstStart' /\ Drained'
  BY <1>2 DEF Inv, OneLoop, FlagTruthful, Looping, FirstStart, Drained, AllDone
<1>6. QED  BY <1>3, <1>4, <1>5, Assembled DEF Inv

-----------------------------------------------------------------------------
(* The manager starts goroutines *)

LEMMA SpawnPlaces ==
    ASSUME TypeOK, Inv, NEW S, NEW started \in [S -> Workers], Spawned(started),
           S \subseteq {g \in Goroutines : at[g] = "gone"},
           UNCHANGED <<waiter, running, overlapped>>, restarted => restarted'
    PROVE  /\ LoopsTyped'
           /\ OneWaiter' /\ OneLoop' /\ FlagTruthful'
           /\ \A g \in S : at'[g] = "begin" /\ role'[g] = started[g]
           /\ \A g \in Goroutines \ S : at'[g] = at[g] /\ role'[g] = role[g]
<1>1. LoopsTyped
  BY TypeParts
<1>2. DOMAIN started = S
  OBVIOUS
<1>3. /\ \A g \in S : at'[g] = "begin" /\ role'[g] = started[g]
      /\ \A g \in Goroutines \ S : at'[g] = at[g] /\ role'[g] = role[g]
  BY <1>2 DEF Spawned
<1>4. /\ at' \in [Goroutines -> Places]
      /\ role' \in [Goroutines -> Workers \cup {Nobody}]
  <2>1. \A g \in Goroutines : (IF g \in S THEN "begin" ELSE at[g]) \in Places
    BY <1>1 DEF LoopsTyped, Places
  <2>2. \A g \in Goroutines : (IF g \in S THEN started[g] ELSE role[g]) \in Workers \cup {Nobody}
    BY <1>1 DEF LoopsTyped
  <2>3. QED  BY <1>2, <2>1, <2>2 DEF Spawned
<1>5. LoopsTyped'
  <2>1. \A g \in Goroutines : at'[g] # "gone" => role'[g] \in Workers
    BY <1>1, <1>3 DEF LoopsTyped
  <2>2. \A h \in Handlers : Waited(h)' => role'[waiter'[h]] = "queue" /\ at'[waiter'[h]] = "busy"
    BY <1>1, <1>3 DEF LoopsTyped, Waited
  <2>3. QED  BY <1>1, <1>4, <2>1, <2>2 DEF LoopsTyped
<1>6. \A w : Looping(w)' = Looping(w)
  BY <1>3 DEF Looping
<1>7. OneWaiter' /\ OneLoop' /\ FlagTruthful'
  BY <1>6 DEF Inv, OneWaiter, Waited, OneLoop, FlagTruthful
<1>8. QED  BY <1>3, <1>5, <1>7

LEMMA StartStep ==
    ASSUME TypeOK, Inv, Start
    PROVE  TypeOK' /\ Inv'
<1>1. LoopsTyped /\ FlagsTyped /\ ManagerTyped
  BY TypeParts
<1>2. PICK e \in Goroutines, q \in Goroutines :
        /\ e # q /\ at[e] = "gone" /\ at[q] = "gone"
        /\ Spawned([g \in {e, q} |-> IF g = e THEN "expiration" ELSE "queue"])
  BY DEF Start
<1>3. /\ ~booted /\ mu = "free" /\ booted' = TRUE /\ managing' = TRUE
      /\ UNCHANGED <<main, mu, ctxDone, deadline, running, stopped, waiter, dbOpen,
                     restarted, overlapped>>
  BY DEF Start, history
<1> DEFINE started == [g \in {e, q} |-> IF g = e THEN "expiration" ELSE "queue"]
<1>4. started \in [{e, q} -> Workers] /\ started[e] = "expiration" /\ started[q] = "queue"
  BY <1>2 DEF Workers
<1>5. Spawned(started)
  BY <1>2
<1> HIDE DEF started
<1>6. /\ LoopsTyped' /\ OneWaiter' /\ OneLoop' /\ FlagTruthful'
      /\ \A g \in {e, q} : at'[g] = "begin" /\ role'[g] = started[g]
      /\ \A g \in Goroutines \ {e, q} : at'[g] = at[g] /\ role'[g] = role[g]
  BY <1>2, <1>3, <1>4, <1>5, SpawnPlaces
<1>7. FlagsTyped' /\ ManagerTyped'
  BY <1>1, <1>3 DEF FlagsTyped, ManagerTyped
<1>8. FirstStart'
  <2>1. ~restarted => \A g \in Goroutines : at[g] = "gone"
    BY <1>3 DEF Inv, FirstStart, AllDone
  <2>2. QED  BY <1>2, <1>3, <1>4, <1>6, <2>1 DEF FirstStart
<1>9. Drained'
  BY <1>1, <1>3 DEF Drained, ManagerTyped
<1>10. QED  BY <1>6, <1>7, <1>8, <1>9, Assembled DEF Inv

LEMMA SpawnOne ==
    ASSUME TypeOK, Inv, NEW g \in Goroutines, NEW w \in Workers, at[g] = "gone",
           Spawned([x \in {g} |-> w]), UNCHANGED <<waiter, running, overlapped>>, restarted'
    PROVE  LoopsTyped' /\ OneWaiter' /\ OneLoop' /\ FlagTruthful' /\ FirstStart'
<1>1. [x \in {g} |-> w] \in [{g} -> Workers]
  OBVIOUS
<1>2. LoopsTyped' /\ OneWaiter' /\ OneLoop' /\ FlagTruthful'
  BY <1>1, SpawnPlaces
<1>3. QED  BY <1>2 DEF FirstStart

LEMMA RestartStopsStep ==
    ASSUME TypeOK, Inv, NEW w \in Workers, RestartStops(w)
    PROVE  TypeOK' /\ Inv'
<1>1. LoopsTyped /\ FlagsTyped /\ ManagerTyped
  BY TypeParts
<1>2. /\ mu = "free" /\ restarted' = TRUE /\ CloseStopCh(w)
      /\ UNCHANGED <<booted, managing, ctxDone, deadline, running, waiter, dbOpen, overlapped>>
  BY DEF RestartStops
<1>3. FlagsTyped'
  BY <1>1, <1>2 DEF FlagsTyped, CloseStopCh
<1>4. main \notin ShutdownSteps \ {"lock"}
  BY <1>1, <1>2 DEF ManagerTyped
<1>5. /\ mu' \in {"free", "operator"}
      /\ main' = main \/ main' = "panicked"
  BY <1>2 DEF RestartStops
<1>6. ManagerTyped' /\ Drained'
  BY <1>1, <1>2, <1>4, <1>5 DEF ManagerTyped, Drained, ShutdownSteps, Over
<1>7. LoopsTyped' /\ OneWaiter' /\ OneLoop' /\ FlagTruthful' /\ FirstStart'
  <2>1. CASE UNCHANGED <<role, at>>
    <3>1. LoopsTyped'
      BY <1>1, <1>2, <2>1 DEF LoopsTyped, Waited
    <3>2. \A v : Looping(v)' = Looping(v)
      BY <2>1 DEF Looping
    <3>3. QED
      BY <1>2, <3>1, <3>2 DEF Inv, OneWaiter, Waited, OneLoop, FlagTruthful, FirstStart
  <2>2. CASE \E g \in Goroutines : at[g] = "gone" /\ Spawned([x \in {g} |-> w])
    BY <1>2, <2>2, SpawnOne
  <2>3. QED  BY <2>1, <2>2 DEF RestartStops
<1>8. QED  BY <1>3, <1>6, <1>7, Assembled DEF Inv

LEMMA RestartStartsStep ==
    ASSUME TypeOK, Inv, restarted, RestartStarts
    PROVE  TypeOK' /\ Inv'
<1>1. LoopsTyped /\ FlagsTyped /\ ManagerTyped
  BY TypeParts
<1>2. /\ mu = "operator" /\ mu' = "free"
      /\ UNCHANGED <<main, booted, managing, ctxDone, deadline, running, stopped, waiter,
                     dbOpen, restarted, overlapped>>
  BY DEF RestartStarts, history
<1>3. PICK g \in Goroutines : at[g] = "gone" /\ Spawned([x \in {g} |-> "expiration"])
  BY DEF RestartStarts
<1>4. "expiration" \in Workers
  BY DEF Workers
<1>5. LoopsTyped' /\ OneWaiter' /\ OneLoop' /\ FlagTruthful' /\ FirstStart'
  BY <1>2, <1>3, <1>4, SpawnOne
<1>6. FlagsTyped' /\ ManagerTyped' /\ Drained'
  BY <1>1, <1>2 DEF FlagsTyped, ManagerTyped, Drained
<1>7. QED  BY <1>5, <1>6, Assembled DEF Inv

-----------------------------------------------------------------------------
(* main and Shutdown *)

LEMMA MainStep ==
    ASSUME TypeOK, Inv, Signalled \/ DeadlinePasses \/ Shutdown \/ MainNext
    PROVE  TypeOK' /\ Inv'
<1>1. LoopsTyped /\ FlagsTyped /\ ManagerTyped
  BY TypeParts
<1> USE DEF MainNext, manager, loops, history
<1>2. UNCHANGED <<role, at, waiter, running, restarted, overlapped, booted>>
  BY DEF Signalled, DeadlinePasses, Shutdown, WaitEnds, StopExpiration, ExpirationWaited,
     StopQueue, CloseConnections
<1>3. FlagsTyped'
  BY <1>1 DEF FlagsTyped, CloseStopCh, Signalled, DeadlinePasses, Shutdown, WaitEnds,
     StopExpiration, ExpirationWaited, StopQueue, CloseConnections
<1>4. ManagerTyped' /\ Drained'
  <2> USE DEF ShutdownSteps, Over
  <2>1. CASE Signalled \/ DeadlinePasses \/ Shutdown
    BY <1>1, <2>1 DEF ManagerTyped, Drained, AllDone, Inv, Signalled, DeadlinePasses, Shutdown
  <2>2. CASE WaitEnds \/ ExpirationWaited \/ CloseConnections
    BY <1>1, <2>2 DEF ManagerTyped, Drained, AllDone, Inv, WaitEnds, ExpirationWaited,
       CloseConnections
  <2>3. CASE StopExpiration \/ StopQueue
    BY <1>1, <2>3 DEF ManagerTyped, Drained, AllDone, Inv, StopExpiration, StopQueue
  <2>4. QED  BY <2>1, <2>2, <2>3
<1>5. LoopsTyped' /\ OneWaiter' /\ OneLoop' /\ FlagTruthful' /\ FirstStart'
  BY <1>1, <1>2 DEF LoopsTyped, Waited, OneWaiter, OneLoop, FlagTruthful, Looping, FirstStart,
     AllDone, Inv
<1>6. QED  BY <1>3, <1>4, <1>5, Assembled DEF Inv

(* The operator holds the lock only inside RestartWorker.                  *)
OperatorRestarts == mu = "operator" => restarted

LEMMA OperatorStep ==
    ASSUME TypeOK, OperatorRestarts, [Next]_vars
    PROVE  OperatorRestarts'
<1>1. /\ restarted => restarted'
      /\ mu' = "operator" => mu = "operator" \/ restarted'
  BY DEF Next, vars, manager, loops, history, GoroutineNext, MainNext, CheckRunning,
     SetRunning, LoopReturns, RunPass, PassEnds, RunJob, HandlerReturns, LeaveHandler,
     LeftHandlerReturns, Start, RestartStops, RestartStarts, Signalled, DeadlinePasses,
     Shutdown, WaitEnds, StopExpiration, ExpirationWaited, StopQueue, CloseConnections
<1>2. QED  BY <1>1 DEF OperatorRestarts, vars, history, manager

LEMMA NextHolds ==
    TypeOK /\ Inv /\ OperatorRestarts /\ [Next]_vars => TypeOK' /\ Inv' /\ OperatorRestarts'
<1> SUFFICES ASSUME TypeOK, Inv, OperatorRestarts, [Next]_vars PROVE TypeOK' /\ Inv'
  BY OperatorStep
<1>1. ASSUME NEW g \in Goroutines, GoroutineNext(g) PROVE TypeOK' /\ Inv'
  BY <1>1, StartingStep, WorkingStep, LeavingStep DEF GoroutineNext
<1>2. CASE RestartStarts
  BY <1>2, RestartStartsStep DEF OperatorRestarts, RestartStarts
<1>3. CASE UNCHANGED vars
  <2> USE DEF vars, manager, loops, history
  <2>1. TypeOK'
    BY <1>3 DEF TypeOK
  <2>2. Inv'
    BY <1>3 DEF Inv, OneWaiter, Waited, OneLoop, FlagTruthful, Looping, FirstStart, Drained,
       AllDone
  <2>3. QED  BY <2>1, <2>2
<1>4. QED
  BY <1>1, <1>2, <1>3, LeftHandlerStep, StartStep, RestartStopsStep, MainStep DEF Next

LEMMA Invariance == Spec => [](TypeOK /\ Inv /\ OperatorRestarts)
<1>1. Init => OperatorRestarts
  BY DEF Init, OperatorRestarts
<1>2. QED  BY <1>1, InitHolds, NextHolds, PTL DEF Spec

-----------------------------------------------------------------------------
(* Results *)

(* Every goroutine and handler is where it can be, and the lock is held    *)
(* from the wait of Shutdown to its return.                                *)
THEOREM ProcessTypeCorrect == Spec => []TypeOK
<1>1. QED  BY Invariance, PTL

(* isRunning tells whether a worker's loop runs, unless RestartWorker had  *)
(* two of them run at once.                                                *)
THEOREM FlagsTruthful == Spec => []FlagTruthful
<1>1. Inv => FlagTruthful
  BY DEF Inv
<1>2. QED  BY <1>1, Invariance, PTL

(* The connections are closed after the workers have returned, or after    *)
(* the deadline.                                                           *)
THEOREM ClosesLast == Spec => LoopsEndBeforeClose
<1> DEFINE Last == dbOpen /\ ~dbOpen' => deadline \/ \A g \in Goroutines : at[g] = "gone"
<1>1. ASSUME Inv, [Next]_vars, dbOpen, ~dbOpen'
      PROVE  deadline \/ \A g \in Goroutines : at[g] = "gone"
  <2>1. CloseConnections
    BY <1>1 DEF Next, vars, manager, loops, history, GoroutineNext, MainNext, CheckRunning,
       SetRunning, LoopReturns, RunPass, PassEnds, RunJob, HandlerReturns, LeaveHandler,
       LeftHandlerReturns, Start, RestartStops, RestartStarts, Signalled, DeadlinePasses,
       Shutdown, WaitEnds, StopExpiration, ExpirationWaited, StopQueue
  <2>2. QED  BY <1>1, <2>1 DEF CloseConnections, Inv, Drained, AllDone, ShutdownSteps
<1>2. Inv /\ [Next]_vars => [Last]_vars
  BY <1>1
<1>3. QED  BY <1>2, Invariance, PTL DEF Spec, LoopsEndBeforeClose
=============================================================================
