------------------------- MODULE RealtimeHub_proofs -------------------------
(***************************************************************************)
(* Proofs about the hub, for every set of connections and users and every  *)
(* channel capacity.                                                       *)
(***************************************************************************)
EXTENDS RealtimeHub, TLAPS

(* The steps, grouped by the goroutine that takes them.                    *)
HubSelects ==
    \/ AcceptBroadcast
    \/ \E u \in Users : AcceptUserEvent(u)
    \/ \E c \in Clients :
          AcceptRegister(c) \/ AcceptUnregister(c) \/ AcceptTyping(c)
Connects(c) == Connect(c) \/ StartPumps(c) \/ ConnectionLost(c)
Shuts ==
    \/ ShutdownBegins \/ ShutdownStep \/ ProcessExits
    \/ \E c \in Clients : FatalMapAccess(c)

LEMMA StepCases ==
    ASSUME Next
    PROVE  \/ HubStep \/ HubSelects \/ Shuts
           \/ \E c \in Clients :
                Connects(c) \/ ReadMessage(c) \/ ReadPump(c) \/ WritePump(c)
BY DEF Next, Step, HubSelects, Connects, Shuts

-----------------------------------------------------------------------------
(* Type correctness *)

LEMMA InitTypeOK == Init => TypeOK
<1> SUFFICES ASSUME Init PROVE TypeOK
  OBVIOUS
<1>1. MapTypes /\ HubTypes
  BY DEF Init, MapTypes, HubTypes, None
<1>2. ChannelTypes
  BY HubAssumption DEF Init, ChannelTypes
<1>3. PumpTypes
  BY HubAssumption DEF Init, PumpTypes
<1>4. EndTypes
  BY DEF Init, EndTypes, None
<1>5. QED  BY <1>1, <1>2, <1>3, <1>4 DEF TypeOK

LEMMA HubTypeOK ==
    ASSUME TypeOK, HubStep \/ HubSelects
    PROVE  TypeOK'
<1> USE HubAssumption
    DEF TypeOK, MapTypes, ChannelTypes, HubTypes, PumpTypes, EndTypes,
        hubVars, pumpVars, downVars, causes, None, Panics
<1>1. CASE HubSelects
  <2>1. MapTypes' /\ ChannelTypes' /\ HubTypes'
    BY <1>1
    DEF HubSelects, HubReceives, AcceptBroadcast, AcceptUserEvent, AcceptRegister,
      AcceptUnregister, AcceptTyping
  <2>2. PumpTypes' /\ EndTypes'
    BY <1>1
    DEF HubSelects, HubReceives, AcceptBroadcast, AcceptUserEvent, AcceptRegister,
      AcceptUnregister, AcceptTyping
  <2>3. QED  BY <2>1, <2>2
<1>2. CASE RegisterClient
  <2>1. MapTypes' /\ ChannelTypes' /\ HubTypes'
    BY <1>2
    DEF RegisterClient, BeginLoop
  <2>2. PumpTypes' /\ EndTypes'
    BY <1>2
    DEF RegisterClient, BeginLoop
  <2>3. QED  BY <2>1, <2>2
<1>3. CASE UnregisterClient
  <2>1. MapTypes' /\ HubTypes'
    BY <1>3
    DEF UnregisterClient, PanicNow, CloseSend, HubBackToSelect
  <2>2. ChannelTypes'
    BY <1>3
    DEF UnregisterClient, PanicNow, CloseSend, HubBackToSelect
  <2>3. PumpTypes' /\ EndTypes'
    BY <1>3
    DEF UnregisterClient, PanicNow, CloseSend, HubBackToSelect
  <2>4. QED  BY <2>1, <2>2, <2>3
<1>4. CASE UnregisterUnknown
  <2>1. MapTypes' /\ ChannelTypes' /\ HubTypes'
    BY <1>4
    DEF UnregisterUnknown, HubBackToSelect
  <2>2. PumpTypes' /\ EndTypes'
    BY <1>4
    DEF UnregisterUnknown, HubBackToSelect
  <2>3. QED  BY <2>1, <2>2
<1>5. CASE BroadcastEvent \/ SendToUser
  <2>1. MapTypes' /\ ChannelTypes' /\ HubTypes'
    BY <1>5
    DEF BroadcastEvent, SendToUser, BeginLoop
  <2>2. PumpTypes' /\ EndTypes'
    BY <1>5
    DEF BroadcastEvent, SendToUser, BeginLoop
  <2>3. QED  BY <2>1, <2>2
<1>6. CASE (\E c \in Clients : VisitNext(c)) \/ VisitDone
  <2>1. MapTypes' /\ ChannelTypes' /\ HubTypes'
    BY <1>6
    DEF VisitNext, VisitDone, HubBackToSelect
  <2>2. PumpTypes' /\ EndTypes'
    BY <1>6
    DEF VisitNext, VisitDone, HubBackToSelect
  <2>3. QED  BY <2>1, <2>2
<1>7. CASE HubTry
  <2>1. MapTypes' /\ ChannelTypes' /\ HubTypes'
    BY <1>7
    DEF HubTry, PanicNow, Full, Put, HubContinuesLoop
  <2>2. PumpTypes' /\ EndTypes'
    BY <1>7
    DEF HubTry, PanicNow, Full, Put, HubContinuesLoop
  <2>3. QED  BY <2>1, <2>2
<1>8. CASE HubClose
  <2>1. MapTypes' /\ ChannelTypes' /\ HubTypes'
    BY <1>8
    DEF HubClose, PanicNow, CloseSend
  <2>2. PumpTypes' /\ EndTypes'
    BY <1>8
    DEF HubClose, PanicNow, CloseSend
  <2>3. QED  BY <2>1, <2>2
<1>9. CASE HubDelete
  <2>1. MapTypes' /\ ChannelTypes' /\ HubTypes'
    BY <1>9
    DEF HubDelete, HubContinuesLoop
  <2>2. PumpTypes' /\ EndTypes'
    BY <1>9
    DEF HubDelete, HubContinuesLoop
  <2>3. QED  BY <2>1, <2>2
<1>10. QED
  BY <1>1, <1>2, <1>3, <1>4, <1>5, <1>6, <1>7, <1>8, <1>9 DEF HubStep

LEMMA PumpTypeOK ==
    ASSUME TypeOK, NEW c \in Clients,
           Connects(c) \/ ReadMessage(c) \/ ReadPump(c) \/ WritePump(c)
    PROVE  TypeOK'
<1> USE HubAssumption
    DEF TypeOK, MapTypes, ChannelTypes, HubTypes, PumpTypes, EndTypes,
        hubVars, pumpVars, downVars, causes, None, Panics
<1>1. CASE Connects(c)
  <2>1. MapTypes' /\ ChannelTypes' /\ HubTypes' /\ EndTypes'
    BY <1>1
    DEF Connects, Connect, StartPumps, ConnectionLost
  <2>2. PumpTypes'
    <3>1. CASE Connect(c)  BY <3>1 DEF Connect
    <3>2. CASE StartPumps(c)  BY <3>2 DEF StartPumps
    <3>3. CASE ConnectionLost(c)  BY <3>3 DEF ConnectionLost
    <3>4. QED  BY <1>1, <3>1, <3>2, <3>3 DEF Connects
  <2>3. QED  BY <2>1, <2>2
<1>2. CASE ReadMessage(c) \/ ReadFails(c) \/ ReplyDelete(c) \/ CloseConnection(c)
  <2>1. MapTypes' /\ ChannelTypes' /\ HubTypes'
    BY <1>2
    DEF ReadMessage, ReadFails, ReplyDelete, CloseConnection, ReadPumpStep
  <2>2. EndTypes'
    BY <1>2
    DEF ReadMessage, ReadFails, ReplyDelete, CloseConnection, ReadPumpStep
  <2>3. PumpTypes'
    <3>1. CASE ReadMessage(c)  BY <3>1 DEF ReadMessage, ReadPumpStep
    <3>2. CASE ReadFails(c)  BY <3>2 DEF ReadFails, ReadPumpStep
    <3>3. CASE ReplyDelete(c)  BY <3>3 DEF ReplyDelete, ReadPumpStep
    <3>4. CASE CloseConnection(c)  BY <3>4 DEF CloseConnection, ReadPumpStep
    <3>5. QED  BY <1>2, <3>1, <3>2, <3>3, <3>4
  <2>4. QED  BY <2>1, <2>2, <2>3
<1>3. CASE ReplyTry(c)
  <2>1. MapTypes' /\ ChannelTypes' /\ HubTypes'
    BY <1>3
    DEF ReplyTry, ReadPumpStep, PanicInReadPump, Full, Put
  <2>2. PumpTypes'
    BY <1>3
    DEF ReplyTry, ReadPumpStep, PanicInReadPump, Full, Put
  <2>3. EndTypes'
    BY <1>3
    DEF ReplyTry, ReadPumpStep, PanicInReadPump, Full, Put
  <2>4. QED  BY <2>1, <2>2, <2>3
<1>4. CASE ReplyClose(c)
  <2>1. MapTypes' /\ ChannelTypes' /\ HubTypes'
    BY <1>4
    DEF ReplyClose, ReadPumpStep, PanicInReadPump, CloseSend
  <2>2. PumpTypes' /\ EndTypes'
    BY <1>4
    DEF ReplyClose, ReadPumpStep, PanicInReadPump, CloseSend
  <2>3. QED  BY <2>1, <2>2
<1>5. CASE TakeMessage(c)
  <2>1. MapTypes' /\ ChannelTypes' /\ HubTypes' /\ EndTypes'
    BY <1>5
    DEF TakeMessage, WritePumpStep, WritePumpReturns
  <2>2. PumpTypes'
    <3>1. CASE connUp[c]
      BY <1>5, <3>1 DEF TakeMessage, WritePumpStep, WritePumpReturns
    <3>2. CASE ~connUp[c]
      <4>1. UNCHANGED <<handler, rp, batch>>
        BY <1>5 DEF TakeMessage, WritePumpStep
      <4>2. wp' = [wp EXCEPT ![c] = "exited"] /\ connUp' = [connUp EXCEPT ![c] = FALSE]
        BY <1>5, <3>2 DEF TakeMessage, WritePumpReturns
      <4>3. QED  BY <4>1, <4>2
    <3>3. QED  BY <3>1, <3>2
  <2>3. QED  BY <2>1, <2>2
<1>6. CASE CountQueued(c)
  <2>1. MapTypes' /\ ChannelTypes' /\ HubTypes'
    BY <1>6
    DEF CountQueued, WritePumpStep
  <2>2. PumpTypes' /\ EndTypes'
    BY <1>6
    DEF CountQueued, WritePumpStep
  <2>3. QED  BY <2>1, <2>2
<1>7. CASE TakeQueued(c)
  <2>1. MapTypes' /\ ChannelTypes' /\ HubTypes'
    BY <1>7
    DEF TakeQueued, WritePumpStep
  <2>2. PumpTypes' /\ EndTypes'
    BY <1>7
    DEF TakeQueued, WritePumpStep
  <2>3. QED  BY <2>1, <2>2
<1>8. CASE Flush(c) \/ SeeClosed(c) \/ PingFails(c)
  <2>1. MapTypes' /\ ChannelTypes' /\ HubTypes'
    BY <1>8
    DEF Flush, SeeClosed, PingFails, WritePumpStep, WritePumpReturns
  <2>2. EndTypes'
    BY <1>8
    DEF Flush, SeeClosed, PingFails, WritePumpStep
  <2>3. PumpTypes'
    <3>1. UNCHANGED <<handler, rp, batch>>
      BY <1>8 DEF Flush, SeeClosed, PingFails, WritePumpStep
    <3>2. \/ WritePumpReturns(c)
          \/ wp' = [wp EXCEPT ![c] = "select"] /\ UNCHANGED connUp
      BY <1>8 DEF Flush, SeeClosed, PingFails
    <3>3. wp' \in [Clients -> {"off", "select", "count", "batch", "exited"}]
      BY <3>2 DEF WritePumpReturns
    <3>4. connUp' \in [Clients -> BOOLEAN]
      BY <3>2 DEF WritePumpReturns
    <3>5. QED  BY <3>1, <3>3, <3>4
  <2>4. QED  BY <2>1, <2>2, <2>3
<1>9. QED
  BY <1>1, <1>2, <1>3, <1>4, <1>5, <1>6, <1>7, <1>8 DEF ReadPump, WritePump

LEMMA ShutsTypeOK ==
    ASSUME TypeOK, Shuts
    PROVE  TypeOK'
<1> USE DEF TypeOK, MapTypes, ChannelTypes, HubTypes, PumpTypes, EndTypes,
        hubVars, pumpVars, downVars, causes, None, Panics
<1>1. CASE ShutdownBegins \/ ShutdownEnds \/ ProcessExits
  <2>1. MapTypes' /\ ChannelTypes' /\ HubTypes'
    BY <1>1
    DEF ShutdownBegins, ShutdownEnds, ProcessExits
  <2>2. PumpTypes' /\ EndTypes'
    BY <1>1
    DEF ShutdownBegins, ShutdownEnds, ProcessExits
  <2>3. QED  BY <2>1, <2>2
<1>2. CASE \E c \in Clients : ShutdownCloses(c) \/ FatalMapAccess(c)
  <2>1. MapTypes' /\ ChannelTypes' /\ HubTypes'
    BY <1>2
    DEF ShutdownCloses, FatalMapAccess, PanicNow, CloseSend
  <2>2. PumpTypes' /\ EndTypes'
    BY <1>2
    DEF ShutdownCloses, FatalMapAccess, PanicNow, CloseSend
  <2>3. QED  BY <2>1, <2>2
<1>3. QED  BY <1>1, <1>2 DEF Shuts, ShutdownStep

(* Every variable keeps its type: a buffer never exceeds its capacity, and *)
(* the hub works on a client or a user exactly when its location says so.  *)
THEOREM TypeCorrect == Spec => []TypeOK
<1>1. TypeOK /\ [Next]_vars => TypeOK'
  <2> SUFFICES ASSUME TypeOK, [Next]_vars PROVE TypeOK'
    OBVIOUS
  <2>1. CASE Next
    BY <2>1, StepCases, HubTypeOK, PumpTypeOK, ShutsTypeOK
  <2>2. CASE UNCHANGED vars
    BY <2>2
    DEF TypeOK, MapTypes, ChannelTypes, HubTypes, PumpTypes, EndTypes, vars,
        hubVars, pumpVars, downVars, causes
  <2>3. QED  BY <2>1, <2>2
<1>2. QED  BY InitTypeOK, <1>1, PTL DEF Spec

-----------------------------------------------------------------------------
(* The life of a connection: it is registered before it is unregistered,   *)
(* and each of the two happens once.                                       *)

Working(work, c) == hubPc = work /\ hubClient = c
Entered(c) == handler[c] \in {"accepted", "done"}
Leaving(c) == rp[c] \in {"closing", "exited"}

LifeOf(c) ==
    /\ handler[c] # "done" => rp[c] = "off"
    /\ c \in clients => Entered(c) /\ ~Working("register", c)
    /\ Working("register", c) => Entered(c) /\ ~Leaving(c)
    /\ Working("unregister", c) => Leaving(c)
    /\ Leaving(c) /\ ~Working("unregister", c) => c \notin clients
Lifecycle == \A c \in Clients : LifeOf(c)

LEMMA HubLifecycle ==
    ASSUME TypeOK, Lifecycle, HubStep
    PROVE  Lifecycle'
<1> SUFFICES ASSUME NEW d \in Clients PROVE LifeOf(d)'
  BY DEF Lifecycle
<1> USE DEF Lifecycle, LifeOf, Working, Entered, Leaving, TypeOK, HubTypes,
            MapTypes, None, hubVars, pumpVars
<1>1. CASE RegisterClient
  BY <1>1 DEF RegisterClient, BeginLoop
<1>2. CASE UnregisterClient
  BY <1>2 DEF UnregisterClient, HubBackToSelect
<1>3. CASE UnregisterUnknown
  BY <1>3 DEF UnregisterUnknown, HubBackToSelect
<1>4. CASE BroadcastEvent \/ SendToUser
  BY <1>4 DEF BroadcastEvent, SendToUser, BeginLoop
<1>5. CASE (\E c \in Clients : VisitNext(c)) \/ VisitDone
  BY <1>5 DEF VisitNext, VisitDone, HubBackToSelect
<1>6. CASE HubTry \/ HubClose
  BY <1>6 DEF HubTry, HubClose, HubContinuesLoop
<1>7. CASE HubDelete
  BY <1>7 DEF HubDelete, HubContinuesLoop
<1>8. QED  BY <1>1, <1>2, <1>3, <1>4, <1>5, <1>6, <1>7 DEF HubStep

LEMMA SelectLifecycle ==
    ASSUME TypeOK, Lifecycle, HubSelects
    PROVE  Lifecycle'
<1> SUFFICES ASSUME NEW d \in Clients PROVE LifeOf(d)'
  BY DEF Lifecycle
<1> USE DEF Lifecycle, LifeOf, Working, Entered, Leaving, TypeOK, PumpTypes, None,
            HubReceives
<1>1. CASE AcceptBroadcast \/ \E u \in Users : AcceptUserEvent(u)
  BY <1>1 DEF AcceptBroadcast, AcceptUserEvent
<1>2. ASSUME NEW c \in Clients, AcceptRegister(c) PROVE LifeOf(d)'
  BY <1>2 DEF AcceptRegister
<1>3. ASSUME NEW c \in Clients, AcceptUnregister(c) PROVE LifeOf(d)'
  BY <1>3 DEF AcceptUnregister
<1>4. ASSUME NEW c \in Clients, AcceptTyping(c) PROVE LifeOf(d)'
  BY <1>4 DEF AcceptTyping
<1>5. QED  BY <1>1, <1>2, <1>3, <1>4 DEF HubSelects

LEMMA PumpLifecycle ==
    ASSUME TypeOK, Lifecycle, NEW c \in Clients,
           Connects(c) \/ ReadMessage(c) \/ ReadPump(c) \/ WritePump(c)
    PROVE  Lifecycle'
<1> SUFFICES ASSUME NEW d \in Clients PROVE LifeOf(d)'
  BY DEF Lifecycle
<1> USE DEF Lifecycle, LifeOf, Working, Entered, Leaving, TypeOK, PumpTypes,
            hubVars, pumpVars, ReadPumpStep, WritePumpStep
<1>1. CASE Connects(c)
  BY <1>1 DEF Connects, Connect, StartPumps, ConnectionLost
<1>2. CASE ReadMessage(c) \/ ReadFails(c)
  BY <1>2 DEF ReadMessage, ReadFails
<1>3. CASE ReplyTry(c) \/ ReplyClose(c)
  BY <1>3 DEF ReplyTry, ReplyClose, PanicInReadPump
<1>4. CASE ReplyDelete(c)
  BY <1>4 DEF ReplyDelete
<1>5. CASE CloseConnection(c)
  BY <1>5 DEF CloseConnection
<1>6. CASE WritePump(c)
  BY <1>6 DEF WritePump, TakeMessage, CountQueued, TakeQueued, Flush, SeeClosed,
              PingFails
<1>7. QED  BY <1>1, <1>2, <1>3, <1>4, <1>5, <1>6 DEF ReadPump

LEMMA ShutsLifecycle ==
    ASSUME TypeOK, Lifecycle, Shuts
    PROVE  Lifecycle'
<1> SUFFICES ASSUME NEW d \in Clients PROVE LifeOf(d)'
  BY DEF Lifecycle
<1> QED
  BY DEF Shuts, ShutdownStep, ShutdownBegins, ShutdownCloses, ShutdownEnds,
         ProcessExits, FatalMapAccess, Lifecycle, LifeOf, Working, Entered,
         Leaving, hubVars, pumpVars

LEMMA LifecycleHolds == Spec => []Lifecycle
<1>1. Init => Lifecycle
  BY DEF Init, Lifecycle, LifeOf, Working, Entered, Leaving
<1>2. TypeOK /\ Lifecycle /\ [Next]_vars => Lifecycle'
  <2> SUFFICES ASSUME TypeOK, Lifecycle, [Next]_vars PROVE Lifecycle'
    OBVIOUS
  <2>1. CASE Next
    BY <2>1, StepCases, HubLifecycle, SelectLifecycle, PumpLifecycle, ShutsLifecycle
  <2>2. CASE UNCHANGED vars
    BY <2>2 DEF Lifecycle, LifeOf, Working, Entered, Leaving, vars, hubVars, pumpVars
  <2>3. QED  BY <2>1, <2>2
<1>3. QED  BY <1>1, <1>2, TypeCorrect, PTL DEF Spec

(* A connection whose ReadPump has returned is out of the hub's map as     *)
(* soon as the hub has processed its request, for any number of clients.   *)
THEOREM NoGhosts == Spec => []NoGhostClient
<1>1. Lifecycle => NoGhostClient
  BY DEF Lifecycle, LifeOf, Working, Entered, Leaving, NoGhostClient
<1>2. QED  BY LifecycleHolds, <1>1, PTL

-----------------------------------------------------------------------------
(* What WritePump counted is still there when it takes it: the others only *)
(* add to the channel.                                                     *)

LEMMA HubSends ==
    ASSUME TypeOK, HubStep \/ HubSelects \/ Shuts, NEW d \in Clients
    PROVE  send'[d] >= send[d] /\ wp' = wp /\ batch' = batch
<1> USE DEF TypeOK, ChannelTypes, HubTypes, hubVars, pumpVars
<1>1. CASE HubTry
  BY <1>1, HubAssumption DEF HubTry, Put
<1>2. CASE HubStep /\ ~HubTry
  BY <1>2, HubAssumption
  DEF HubStep, RegisterClient, UnregisterClient, UnregisterUnknown, BroadcastEvent,
      SendToUser, VisitNext, VisitDone, HubClose, HubDelete, BeginLoop
<1>3. CASE HubSelects \/ Shuts
  BY <1>3, HubAssumption
  DEF HubSelects, HubReceives, AcceptBroadcast, AcceptUserEvent, AcceptRegister,
      AcceptUnregister, AcceptTyping, Shuts, ShutdownStep, ShutdownBegins,
      ShutdownCloses, ShutdownEnds, ProcessExits, FatalMapAccess
<1>4. QED  BY <1>1, <1>2, <1>3

(* WritePump never blocks in the middle of a frame.                        *)
THEOREM BatchesAreBuffered == Spec => []BatchIsBuffered
<1>1. Init => BatchIsBuffered
  BY DEF Init, BatchIsBuffered
<1>2. TypeOK /\ BatchIsBuffered /\ [Next]_vars => BatchIsBuffered'
  <2> SUFFICES ASSUME TypeOK, BatchIsBuffered, [Next]_vars, NEW d \in Clients,
                      wp'[d] = "batch"
               PROVE  batch'[d] <= send'[d]
    BY DEF BatchIsBuffered
  <2>1. send[d] \in Int /\ batch[d] \in Int /\ send'[d] \in Int
    <3>1. TypeOK'
      BY StepCases, HubTypeOK, PumpTypeOK, ShutsTypeOK
      DEF TypeOK, MapTypes, ChannelTypes, HubTypes, PumpTypes, EndTypes, vars,
          hubVars, pumpVars, downVars, causes
    <3>2. QED  BY <3>1, HubAssumption DEF TypeOK, ChannelTypes, PumpTypes
  <2>2. CASE HubStep \/ HubSelects \/ Shuts
    BY <2>1, <2>2, HubSends DEF BatchIsBuffered
  <2>3. ASSUME NEW c \in Clients, Connects(c) \/ ReadMessage(c) \/ ReadPump(c)
        PROVE  batch'[d] <= send'[d]
    BY <2>1, <2>3
    DEF Connects, Connect, StartPumps, ConnectionLost, ReadMessage, ReadPump,
        ReadFails, ReplyTry, ReplyClose, ReplyDelete, CloseConnection, ReadPumpStep,
        Put, BatchIsBuffered, TypeOK, ChannelTypes, PumpTypes
  <2>4. ASSUME NEW c \in Clients, WritePump(c)
        PROVE  batch'[d] <= send'[d]
    <3> USE DEF WritePumpStep, BatchIsBuffered, TypeOK, ChannelTypes, PumpTypes
    <3>1. CASE TakeMessage(c)
      BY <2>1, <3>1 DEF TakeMessage, WritePumpReturns
    <3>2. CASE CountQueued(c)
      BY <2>1, <3>2 DEF CountQueued
    <3>3. CASE TakeQueued(c)
      BY <2>1, <3>3 DEF TakeQueued
    <3>4. CASE Flush(c) \/ SeeClosed(c) \/ PingFails(c)
      BY <2>1, <3>4 DEF Flush, SeeClosed, PingFails, WritePumpReturns
    <3>5. QED  BY <2>4, <3>1, <3>2, <3>3, <3>4 DEF WritePump
  <2>5. CASE UNCHANGED vars
    BY <2>1, <2>5 DEF BatchIsBuffered, vars, pumpVars
  <2>6. QED  BY <2>2, <2>3, <2>4, <2>5, StepCases
<1>3. QED  BY <1>1, <1>2, TypeCorrect, PTL DEF Spec

-----------------------------------------------------------------------------
(* Only the hub and Shutdown close the channel of a client that has not    *)
(* overflowed, each under the mutex, and the hub visits it only as long as *)
(* it is registered.                                                       *)

MutexExclusive == HubHoldsMutex => sdPc # "closing"

Reachable == \A c \in clients : c \in userClients[UserOf[c]]

QuietClient(c) ==
    /\ rp[c] \notin {"close", "delete"}
    /\ hubPc \in {"close", "delete"} => hubClient # c
    /\ HubHoldsMutex /\ c \in hubTodo => c \in clients
    /\ hubPc = "try" /\ hubClient = c => c \in clients
    /\ \A u \in Users : c \in userClients[u] => c \in clients /\ UserOf[c] = u
    /\ c \in clients /\ (sdPc = "closing" => c \in sdTodo) => ~closed[c]
    /\ closed[c] => Entered(c) /\ ~Working("register", c)
    /\ closed[c] /\ c \notin shut => Leaving(c)
Quiet == \A c \in Clients : c \notin overflowed => QuietClient(c)

Strong ==
    /\ TypeOK /\ Lifecycle /\ MutexExclusive /\ Reachable
    /\ Quiet /\ PanicHasACause

LEMMA HubExclusive ==
    ASSUME TypeOK, MutexExclusive, Reachable, [Next]_vars
    PROVE  MutexExclusive' /\ Reachable'
<1> USE HubAssumption
    DEF MutexExclusive, HubHoldsMutex, Reachable, MutexFree, hubVars, pumpVars,
        TypeOK, MapTypes, HubTypes
<1>1. CASE HubStep
  <2>1. CASE RegisterClient
    BY <2>1 DEF RegisterClient, BeginLoop
  <2>2. CASE UnregisterClient \/ UnregisterUnknown
    BY <2>2 DEF UnregisterClient, UnregisterUnknown, HubBackToSelect
  <2>3. CASE BroadcastEvent \/ SendToUser
    BY <2>3 DEF BroadcastEvent, SendToUser, BeginLoop
  <2>4. CASE (\E c \in Clients : VisitNext(c)) \/ VisitDone
    BY <2>4 DEF VisitNext, VisitDone, HubBackToSelect
  <2>5. CASE HubTry \/ HubClose \/ HubDelete
    BY <2>5 DEF HubTry, HubClose, HubDelete, HubContinuesLoop
  <2>6. QED  BY <1>1, <2>1, <2>2, <2>3, <2>4, <2>5 DEF HubStep
<1>2. CASE HubSelects
  BY <1>2 DEF HubSelects, HubReceives, AcceptBroadcast, AcceptUserEvent,
              AcceptRegister, AcceptUnregister, AcceptTyping
<1>3. ASSUME NEW c \in Clients, Connects(c) \/ ReadMessage(c) \/ WritePump(c)
      PROVE  MutexExclusive' /\ Reachable'
  BY <1>3
  DEF Connects, Connect, StartPumps, ConnectionLost, ReadMessage, ReadPumpStep,
      WritePump, TakeMessage, CountQueued, TakeQueued, Flush, SeeClosed, PingFails,
      WritePumpStep
<1>4. ASSUME NEW c \in Clients, ReadPump(c)
      PROVE  MutexExclusive' /\ Reachable'
  BY <1>4
  DEF ReadPump, ReadFails, ReplyTry, ReplyClose, ReplyDelete, CloseConnection,
      ReadPumpStep
<1>5. CASE Shuts
  BY <1>5
  DEF Shuts, ShutdownStep, ShutdownBegins, ShutdownCloses, ShutdownEnds,
      ProcessExits, FatalMapAccess
<1>6. CASE UNCHANGED vars
  BY <1>6 DEF vars
<1>7. QED  BY <1>1, <1>2, <1>3, <1>4, <1>5, <1>6, StepCases

LEMMA OverflowIsRemembered ==
    ASSUME [Next]_vars
    PROVE  overflowed \subseteq overflowed'
<1> USE DEF hubVars, pumpVars, downVars, causes, vars, HubReceives, ReadPumpStep,
            WritePumpStep
<1>1. CASE HubStep \/ HubSelects
  BY <1>1
  DEF HubStep, RegisterClient, UnregisterClient, UnregisterUnknown, BroadcastEvent,
      SendToUser, VisitNext, VisitDone, HubTry, HubClose, HubDelete, HubSelects,
      AcceptBroadcast, AcceptUserEvent, AcceptRegister, AcceptUnregister, AcceptTyping
<1>2. ASSUME NEW c \in Clients,
             Connects(c) \/ ReadMessage(c) \/ ReadPump(c) \/ WritePump(c)
      PROVE  overflowed \subseteq overflowed'
  BY <1>2
  DEF Connects, Connect, StartPumps, ConnectionLost, ReadMessage, ReadPump,
      ReadFails, ReplyTry, ReplyClose, ReplyDelete, CloseConnection, WritePump,
      TakeMessage, CountQueued, TakeQueued, Flush, SeeClosed, PingFails
<1>3. CASE Shuts
  BY <1>3
  DEF Shuts, ShutdownStep, ShutdownBegins, ShutdownCloses, ShutdownEnds,
      ProcessExits, FatalMapAccess
<1>4. CASE UNCHANGED vars
  BY <1>4
<1>5. QED  BY <1>1, <1>2, <1>3, <1>4, StepCases

(* One client that has not overflowed, before and after a step.            *)
LEMMA QuietSelects ==
    ASSUME Strong, HubSelects, NEW d \in Clients, d \notin overflowed
    PROVE  QuietClient(d)'
<1> USE DEF Strong, Quiet, QuietClient, HubHoldsMutex, Entered, Leaving, Working,
            TypeOK, PumpTypes, HubReceives, causes
<1>1. CASE AcceptBroadcast \/ \E u \in Users : AcceptUserEvent(u)
  BY <1>1 DEF AcceptBroadcast, AcceptUserEvent, None, HubTypes
<1>2. ASSUME NEW c \in Clients, AcceptRegister(c) PROVE QuietClient(d)'
  BY <1>2 DEF AcceptRegister, Lifecycle, LifeOf
<1>3. ASSUME NEW c \in Clients, AcceptUnregister(c) PROVE QuietClient(d)'
  BY <1>3 DEF AcceptUnregister
<1>4. ASSUME NEW c \in Clients, AcceptTyping(c) PROVE QuietClient(d)'
  BY <1>4 DEF AcceptTyping
<1>5. QED  BY <1>1, <1>2, <1>3, <1>4 DEF HubSelects

LEMMA QuietHubStep ==
    ASSUME Strong, HubStep, NEW d \in Clients, d \notin overflowed, d \notin overflowed'
    PROVE  QuietClient(d)'
<1> USE HubAssumption
    DEF Strong, Quiet, QuietClient, HubHoldsMutex, Entered, Leaving, Working,
        TypeOK, MapTypes, HubTypes, pumpVars, causes
<1>1. CASE RegisterClient
  BY <1>1 DEF RegisterClient, BeginLoop, MutexFree, Lifecycle, LifeOf
<1>2. CASE UnregisterUnknown
  BY <1>2 DEF UnregisterUnknown, HubBackToSelect
<1>3. CASE UnregisterClient
  BY <1>3 DEF UnregisterClient, HubBackToSelect, MutexFree, CloseSend, Lifecycle,
              LifeOf, ChannelTypes
<1>4. CASE BroadcastEvent
  BY <1>4 DEF BroadcastEvent, BeginLoop
<1>5. CASE SendToUser
  BY <1>5 DEF SendToUser, BeginLoop
<1>6. CASE (\E c \in Clients : VisitNext(c)) \/ VisitDone
  BY <1>6 DEF VisitNext, VisitDone, ToVisit, HubBackToSelect
<1>7. CASE HubTry
  BY <1>7 DEF HubTry, HubContinuesLoop
<1>8. CASE HubClose
  BY <1>8 DEF HubClose, CloseSend, ChannelTypes
<1>9. CASE HubDelete
  BY <1>9 DEF HubDelete, HubContinuesLoop
<1>10. QED  BY <1>1, <1>2, <1>3, <1>4, <1>5, <1>6, <1>7, <1>8, <1>9 DEF HubStep

LEMMA QuietPumps ==
    ASSUME Strong, NEW c \in Clients,
           Connects(c) \/ ReadMessage(c) \/ ReadPump(c) \/ WritePump(c),
           NEW d \in Clients, d \notin overflowed, d \notin overflowed'
    PROVE  QuietClient(d)'
<1> USE DEF Strong, Quiet, QuietClient, HubHoldsMutex, Entered, Leaving, Working,
            TypeOK, PumpTypes, ChannelTypes, hubVars, pumpVars, causes
<1>1. CASE Connects(c)
  BY <1>1 DEF Connects, Connect, StartPumps, ConnectionLost, Lifecycle, LifeOf
<1>2. CASE ReadMessage(c) \/ ReadFails(c)
  BY <1>2 DEF ReadMessage, ReadFails, ReadPumpStep
<1>3. CASE ReplyTry(c)
  BY <1>3 DEF ReplyTry, ReadPumpStep, PanicInReadPump
<1>4. CASE ReplyClose(c)
  BY <1>4 DEF ReplyClose, ReadPumpStep, PanicInReadPump, CloseSend
<1>5. CASE ReplyDelete(c)
  BY <1>5 DEF ReplyDelete, ReadPumpStep
<1>6. CASE CloseConnection(c)
  BY <1>6 DEF CloseConnection, ReadPumpStep
<1>7. CASE WritePump(c)
  BY <1>7 DEF WritePump, TakeMessage, CountQueued, TakeQueued, Flush, SeeClosed,
              PingFails, WritePumpStep
<1>8. QED  BY <1>1, <1>2, <1>3, <1>4, <1>5, <1>6, <1>7 DEF ReadPump

LEMMA QuietShuts ==
    ASSUME Strong, Shuts, NEW d \in Clients, d \notin overflowed
    PROVE  QuietClient(d)'
<1> USE DEF Strong, Quiet, QuietClient, HubHoldsMutex, Entered, Leaving, Working,
            hubVars, pumpVars, causes
<1>1. CASE ShutdownBegins
  BY <1>1 DEF ShutdownBegins
<1>2. ASSUME NEW c \in Clients, ShutdownCloses(c) PROVE QuietClient(d)'
  BY <1>2 DEF ShutdownCloses, CloseSend, Lifecycle, LifeOf, TypeOK, ChannelTypes
<1>3. CASE ShutdownEnds
  BY <1>3 DEF ShutdownEnds, MutexExclusive, HubHoldsMutex
<1>4. CASE ProcessExits
  BY <1>4 DEF ProcessExits
<1>5. ASSUME NEW c \in Clients, FatalMapAccess(c) PROVE QuietClient(d)'
  BY <1>5 DEF FatalMapAccess
<1>6. QED  BY <1>1, <1>2, <1>3, <1>4, <1>5 DEF Shuts, ShutdownStep

(* Every step that panics does so on a client that overflowed, or is a     *)
(* ReadPump answering after Shutdown; nothing takes an excuse back.        *)
LEMMA PanicCaused ==
    ASSUME Strong, [Next]_vars
    PROVE  PanicHasACause'
<1> USE DEF Strong, PanicHasACause, hubVars, pumpVars, downVars, causes
<1>0. overflowed \subseteq overflowed'
  BY OverflowIsRemembered
<1>1. CASE UnregisterClient
  <2>1. hubClient \in Clients /\ (hubClient \notin overflowed => ~closed[hubClient])
    BY <1>1 DEF UnregisterClient, MutexFree, Quiet, QuietClient, TypeOK, HubTypes
  <2>2. QED  BY <1>1, <2>1 DEF UnregisterClient, PanicNow
<1>2. CASE HubTry
  <2>1. hubClient \in Clients /\ (hubClient \notin overflowed => ~closed[hubClient])
    BY <1>2 DEF HubTry, MutexExclusive, HubHoldsMutex, Quiet, QuietClient, TypeOK, HubTypes
  <2>2. QED  BY <1>0, <1>2, <2>1 DEF HubTry, PanicNow
<1>3. CASE HubClose
  <2>1. hubClient \in Clients /\ hubClient \in overflowed
    BY <1>3 DEF HubClose, Quiet, QuietClient, TypeOK, HubTypes
  <2>2. QED  BY <1>3, <2>1 DEF HubClose, PanicNow
<1>4. CASE HubStep /\ ~UnregisterClient /\ ~HubTry /\ ~HubClose
  BY <1>4
  DEF HubStep, RegisterClient, UnregisterUnknown, BroadcastEvent, SendToUser,
      VisitNext, VisitDone, HubDelete
<1>5. CASE HubSelects
  BY <1>5
  DEF HubSelects, HubReceives, AcceptBroadcast, AcceptUserEvent, AcceptRegister,
      AcceptUnregister, AcceptTyping
<1>6. ASSUME NEW c \in Clients, ReplyTry(c) PROVE PanicHasACause'
  <2>1. closed[c] /\ c \notin overflowed => c \in shut
    BY <1>6 DEF ReplyTry, ReadPumpStep, Quiet, QuietClient, Leaving
  <2>2. QED  BY <1>0, <1>6, <2>1 DEF ReplyTry, ReadPumpStep, PanicInReadPump
<1>7. ASSUME NEW c \in Clients, ReplyClose(c) PROVE PanicHasACause'
  <2>1. c \in overflowed
    BY <1>7 DEF ReplyClose, ReadPumpStep, Quiet, QuietClient
  <2>2. QED  BY <1>7, <2>1 DEF ReplyClose, ReadPumpStep, PanicInReadPump
<1>8. ASSUME NEW c \in Clients,
             \/ Connects(c) \/ ReadMessage(c) \/ WritePump(c)
             \/ ReadFails(c) \/ ReplyDelete(c) \/ CloseConnection(c)
      PROVE  PanicHasACause'
  BY <1>8
  DEF Connects, Connect, StartPumps, ConnectionLost, ReadMessage, ReadFails,
      ReplyDelete, CloseConnection, ReadPumpStep, WritePump, TakeMessage, CountQueued,
      TakeQueued, Flush, SeeClosed, PingFails, WritePumpStep
<1>9. ASSUME NEW c \in Clients, ShutdownCloses(c) PROVE PanicHasACause'
  <2>1. c \notin overflowed => ~closed[c]
    BY <1>9 DEF ShutdownCloses, Quiet, QuietClient
  <2>2. QED  BY <1>9, <2>1 DEF ShutdownCloses, PanicNow
<1>10. ASSUME NEW c \in Clients, FatalMapAccess(c) PROVE PanicHasACause'
  <2>1. c \in overflowed
    BY <1>10 DEF FatalMapAccess, MapRace, Quiet, QuietClient
  <2>2. QED  BY <1>10, <2>1 DEF FatalMapAccess, PanicNow
<1>11. CASE ShutdownBegins \/ ShutdownEnds \/ ProcessExits \/ UNCHANGED vars
  BY <1>11 DEF ShutdownBegins, ShutdownEnds, ProcessExits, vars
<1>12. QED
  BY <1>1, <1>2, <1>3, <1>4, <1>5, <1>6, <1>7, <1>8, <1>9, <1>10, <1>11, StepCases
  DEF ReadPump, Shuts, ShutdownStep

LEMMA StrongHolds == Spec => []Strong
<1>1. Init => MutexExclusive /\ Reachable /\ Quiet /\ PanicHasACause
  BY DEF Init, MutexExclusive, HubHoldsMutex, Reachable, Quiet, QuietClient,
         PanicHasACause
<1>2. Strong /\ [Next]_vars => MutexExclusive' /\ Reachable' /\ Quiet' /\ PanicHasACause'
  <2> SUFFICES ASSUME Strong, [Next]_vars
               PROVE  MutexExclusive' /\ Reachable' /\ Quiet' /\ PanicHasACause'
    OBVIOUS
  <2>1. MutexExclusive' /\ Reachable'
    BY HubExclusive DEF Strong
  <2>2. ASSUME NEW d \in Clients, d \notin overflowed' PROVE QuietClient(d)'
    <3>1. d \notin overflowed
      BY <2>2, OverflowIsRemembered
    <3>2. CASE Next
      BY <2>2, <3>1, <3>2, StepCases, QuietSelects, QuietHubStep, QuietPumps, QuietShuts
    <3>3. CASE UNCHANGED vars
      BY <3>1, <3>3
      DEF Strong, Quiet, QuietClient, HubHoldsMutex, Entered, Leaving, Working,
          vars, hubVars, pumpVars, causes
    <3>4. QED  BY <3>2, <3>3
  <2>3. QED  BY <2>1, <2>2, PanicCaused DEF Quiet
<1>3. Spec => [](MutexExclusive /\ Reachable /\ Quiet /\ PanicHasACause)
  BY <1>1, <1>2, TypeCorrect, LifecycleHolds, PTL DEF Spec, Strong
<1>4. QED  BY <1>3, TypeCorrect, LifecycleHolds, PTL DEF Strong

(* No goroutine sends on or closes a closed channel, and no map access     *)
(* races, except on account of a client that was itself too slow or whose  *)
(* ReadPump answers after Shutdown.                                        *)
THEOREM PanicsHaveACause == Spec => []PanicHasACause
BY StrongHolds, PTL DEF Strong

(* Every registered client can be reached through its user, and the lists  *)
(* hold besides them only clients that overflowed.                         *)
THEOREM MapsStayTogether == Spec => []MapsAgree
<1>1. Strong => MapsAgree
  BY HubAssumption DEF Strong, Reachable, Quiet, QuietClient, MapsAgree, TypeOK, MapTypes
<1>2. QED  BY StrongHolds, <1>1, PTL
=============================================================================
