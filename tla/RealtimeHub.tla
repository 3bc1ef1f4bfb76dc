---------------------------- MODULE RealtimeHub ----------------------------
(***************************************************************************)
(* The WebSocket hub of the API process (internal/realtime) with the       *)
(* goroutines around it: the hub's own loop, one handler, one ReadPump and *)
(* one WritePump per connection, the API handlers that publish events, and *)
(* the Shutdown call of main.                                              *)
(*                                                                         *)
(* An event is one unit in a client's buffered channel: no property        *)
(* depends on its contents.  A userClients list is the set of its          *)
(* elements, because a client is appended at most once.  Client.Send is    *)
(* split where another goroutine can run between its statements: the       *)
(* non-blocking send, the close, and the map delete.                       *)
(***************************************************************************)
EXTENDS Integers, FiniteSets

CONSTANTS Clients,   \* connections; a client object is never reused
          Users,
          UserOf,    \* UserOf[c]: the authenticated user of the connection
          SendCap    \* capacity of a client's send channel (256 in the code)

ASSUME HubAssumption ==
    /\ UserOf \in [Clients -> Users]
    /\ SendCap \in Nat \ {0}

VARIABLES
    clients,      \* Hub.clients
    userClients,  \* Hub.userClients
    send,         \* number of messages buffered in each client's channel
    closed,       \* which send channels are closed
    hubPc,        \* where the hub goroutine is
    hubClient,    \* the client it is working on
    hubTodo,      \* the clients its current loop has not visited
    hubLoop,      \* what it loops over: the clients map or one user's list
    handler,      \* HandleWebSocket of each connection
    rp,           \* ReadPump of each connection
    wp,           \* WritePump of each connection
    batch,        \* messages WritePump still has to add to its frame
    connUp,       \* the connection works
    sdPc, sdTodo, \* Shutdown and the clients it has not visited
    unwinding,    \* ReadPumps that run their deferred calls after a panic
    panic,        \* the first panic or fatal error of the process
    down          \* the process has ended

VARIABLES  \* history
    overflowed,  \* the clients whose channel a send found full
    shut,        \* the clients whose channel Shutdown closed
    victim       \* the client that the panic is about

hubVars == <<hubPc, hubClient, hubTodo, hubLoop>>
pumpVars == <<handler, rp, wp, batch, connUp>>
downVars == <<unwinding, panic, victim, down>>
causes == <<overflowed, shut>>
vars == <<clients, userClients, send, closed, hubVars, pumpVars, sdPc, sdTodo,
          downVars, causes>>

None == "none"
Panics == {"sendOnClosed", "closeOfClosed", "mapRace"}

MapTypes ==
    /\ clients \in SUBSET Clients
    /\ userClients \in [Users -> SUBSET Clients]

ChannelTypes ==
    /\ send \in [Clients -> 0..SendCap]
    /\ closed \in [Clients -> BOOLEAN]

HubTypes ==
    /\ hubPc \in {"select", "register", "unregister", "broadcast", "notify",
                  "visit", "try", "close", "delete"}
    /\ hubClient \in Clients \cup Users \cup {None}
    /\ hubPc \in {"register", "unregister", "try", "close", "delete"}
         => hubClient \in Clients
    /\ hubPc = "notify" => hubClient \in Users
    /\ hubTodo \in SUBSET Clients
    /\ hubLoop \in {"map", "list"}

PumpTypes ==
    /\ handler \in [Clients -> {"new", "registering", "accepted", "done"}]
    /\ rp \in [Clients -> {"off", "read", "reply", "close", "delete",
                           "broadcast", "unregister", "closing", "exited"}]
    /\ wp \in [Clients -> {"off", "select", "count", "batch", "exited"}]
    /\ batch \in [Clients -> 0..SendCap]
    /\ connUp \in [Clients -> BOOLEAN]

EndTypes ==
    /\ sdPc \in {"no", "closing", "done"}
    /\ sdTodo \in SUBSET Clients
    /\ unwinding \in SUBSET Clients
    /\ panic \in Panics \cup {None}
    /\ down \in BOOLEAN
    /\ victim \in Clients \cup {None}
    /\ overflowed \in SUBSET Clients
    /\ shut \in SUBSET Clients

TypeOK == MapTypes /\ ChannelTypes /\ HubTypes /\ PumpTypes /\ EndTypes

Init ==
    /\ clients = {}
    /\ userClients = [u \in Users |-> {}]
    /\ send = [c \in Clients |-> 0]
    /\ closed = [c \in Clients |-> FALSE]
    /\ hubPc = "select" /\ hubClient = None /\ hubTodo = {} /\ hubLoop = "list"
    /\ handler = [c \in Clients |-> "new"]
    /\ rp = [c \in Clients |-> "off"]
    /\ wp = [c \in Clients |-> "off"]
    /\ batch = [c \in Clients |-> 0]
    /\ connUp = [c \in Clients |-> FALSE]
    /\ sdPc = "no" /\ sdTodo = {}
    /\ unwinding = {} /\ panic = None /\ victim = None /\ down = FALSE
    /\ overflowed = {} /\ shut = {}

-----------------------------------------------------------------------------
(* Locks, panics and channel operations *)

(* The hub holds the mutex from the start of a loop to its end; Shutdown   *)
(* holds it while it closes the channels.                                  *)
HubHoldsMutex == hubPc \in {"visit", "try", "close", "delete"}
MutexFree == ~HubHoldsMutex /\ sdPc # "closing"

(* A panic of the hub or of main ends the process at once.                 *)
PanicNow(cause, c) ==
    /\ panic' = cause
    /\ victim' = c
    /\ down' = TRUE
    /\ UNCHANGED unwinding

(* A panic in ReadPump first runs the deferred Unregister and Close.       *)
PanicInReadPump(c, cause) ==
    /\ panic' = IF panic = None THEN cause ELSE panic
    /\ victim' = IF panic = None THEN c ELSE victim
    /\ unwinding' = unwinding \cup {c}
    /\ rp' = [rp EXCEPT ![c] = "unregister"]
    /\ UNCHANGED down

Full(c) == send[c] = SendCap
Put(c) == send' = [send EXCEPT ![c] = @ + 1]
CloseSend(c) == closed' = [closed EXCEPT ![c] = TRUE]

-----------------------------------------------------------------------------
(* HandleWebSocket *)

Connect(c) ==
    /\ handler[c] = "new"
    /\ handler' = [handler EXCEPT ![c] = "registering"]
    /\ connUp' = [connUp EXCEPT ![c] = TRUE]
    /\ UNCHANGED <<clients, userClients, send, closed, hubVars, rp, wp, batch,
                   sdPc, sdTodo, downVars, causes>>

(* Register returns when the hub has received the client, before the hub   *)
(* has processed it.                                                       *)
StartPumps(c) ==
    /\ handler[c] = "accepted"
    /\ handler' = [handler EXCEPT ![c] = "done"]
    /\ wp' = [wp EXCEPT ![c] = "select"]
    /\ rp' = [rp EXCEPT ![c] = "read"]
    /\ UNCHANGED <<clients, userClients, send, closed, hubVars, batch, connUp,
                   sdPc, sdTodo, downVars, causes>>

(* The peer goes away, or a read or write deadline passes.                 *)
ConnectionLost(c) ==
    /\ connUp[c]
    /\ connUp' = [connUp EXCEPT ![c] = FALSE]
    /\ UNCHANGED <<clients, userClients, send, closed, hubVars, handler, rp, wp,
                   batch, sdPc, sdTodo, downVars, causes>>

-----------------------------------------------------------------------------
(* The hub goroutine: the cases of its select *)

HubReceives(work, x) ==
    /\ hubPc = "select"
    /\ hubPc' = work
    /\ hubClient' = x
    /\ UNCHANGED <<clients, userClients, send, closed, hubTodo, hubLoop, wp,
                   batch, connUp, sdPc, sdTodo, downVars, causes>>

AcceptRegister(c) ==
    /\ handler[c] = "registering"
    /\ HubReceives("register", c)
    /\ handler' = [handler EXCEPT ![c] = "accepted"]
    /\ UNCHANGED rp

AcceptUnregister(c) ==
    /\ rp[c] = "unregister"
    /\ HubReceives("unregister", c)
    /\ rp' = [rp EXCEPT ![c] = "closing"]
    /\ UNCHANGED handler

AcceptTyping(c) ==
    /\ rp[c] = "broadcast"
    /\ HubReceives("broadcast", None)
    /\ rp' = [rp EXCEPT ![c] = "read"]
    /\ UNCHANGED handler

(* An API handler published: a new story for everybody, a view or a        *)
(* reaction for one author.                                                *)
AcceptBroadcast == HubReceives("broadcast", None) /\ UNCHANGED <<handler, rp>>
AcceptUserEvent(u) == HubReceives("notify", u) /\ UNCHANGED <<handler, rp>>

BeginLoop(kind, todo) ==
    /\ MutexFree
    /\ hubPc' = "visit"
    /\ hubLoop' = kind
    /\ hubTodo' = todo
    /\ hubClient' = None

(* Mutant: the client is not entered in its user's list.                   *)
RegisterInOneMap ==
    LET c == hubClient IN
    /\ hubPc = "register"
    /\ BeginLoop("list", {c})
    /\ clients' = clients \cup {c}
    /\ UNCHANGED <<userClients, send, closed, pumpVars, sdPc, sdTodo, downVars,
                   causes>>

(* The new client is entered in both maps and is sent a welcome event.     *)
RegisterClient ==
    LET c == hubClient IN
    /\ hubPc = "register"
    /\ BeginLoop("list", {c})
    /\ clients' = clients \cup {c}
    /\ userClients' = [userClients EXCEPT ![UserOf[c]] = @ \cup {c}]
    /\ UNCHANGED <<send, closed, pumpVars, sdPc, sdTodo, downVars, causes>>

BroadcastEvent ==
    /\ hubPc = "broadcast"
    /\ BeginLoop("map", clients)
    /\ UNCHANGED <<clients, userClients, send, closed, pumpVars, sdPc, sdTodo,
                   downVars, causes>>

SendToUser ==
    /\ hubPc = "notify"
    /\ BeginLoop("list", userClients[hubClient])
    /\ UNCHANGED <<clients, userClients, send, closed, pumpVars, sdPc, sdTodo,
                   downVars, causes>>

HubBackToSelect == hubPc' = "select" /\ hubClient' = None
HubContinuesLoop == hubPc' = "visit" /\ hubClient' = None

(* A client that was dropped before is not in the map: nothing is closed,  *)
(* and nothing is removed from its user's list either.                     *)
UnregisterUnknown ==
    /\ hubPc = "unregister"
    /\ MutexFree
    /\ hubClient \notin clients
    /\ HubBackToSelect
    /\ UNCHANGED <<clients, userClients, send, closed, hubTodo, hubLoop, pumpVars,
                   sdPc, sdTodo, downVars, causes>>

(* Mutant: the channel is closed but the client stays in the clients map.  *)
UnregisterKeepsClient ==
    /\ hubPc = "unregister"
    /\ MutexFree
    /\ hubClient \in clients /\ ~closed[hubClient]
    /\ CloseSend(hubClient)
    /\ userClients' = [userClients EXCEPT ![UserOf[hubClient]] = @ \ {hubClient}]
    /\ HubBackToSelect
    /\ UNCHANGED <<clients, send, hubTodo, hubLoop, pumpVars, sdPc, sdTodo, downVars,
                   causes>>

UnregisterClient ==
    LET c == hubClient IN
    /\ hubPc = "unregister"
    /\ MutexFree
    /\ c \in clients
    /\ clients' = clients \ {c}
    /\ \/ /\ closed[c]
          /\ PanicNow("closeOfClosed", c)
          /\ UNCHANGED <<closed, userClients, hubPc, hubClient>>
       \/ /\ ~closed[c]
          /\ CloseSend(c)
          /\ userClients' = [userClients EXCEPT ![UserOf[c]] = @ \ {c}]
          /\ HubBackToSelect
          /\ UNCHANGED downVars
    /\ UNCHANGED <<send, hubTodo, hubLoop, pumpVars, sdPc, sdTodo, causes>>

(* Iterating a map skips the entries deleted meanwhile; a list is copied.  *)
ToVisit == IF hubLoop = "map" THEN hubTodo \cap clients ELSE hubTodo

VisitNext(c) ==
    /\ hubPc = "visit"
    /\ c \in ToVisit
    /\ hubPc' = "try"
    /\ hubClient' = c
    /\ hubTodo' = hubTodo \ {c}
    /\ UNCHANGED <<clients, userClients, send, closed, hubLoop, pumpVars, sdPc,
                   sdTodo, downVars, causes>>

VisitDone ==
    /\ hubPc = "visit"
    /\ ToVisit = {}
    /\ HubBackToSelect
    /\ hubTodo' = {} /\ hubLoop' = "list"
    /\ UNCHANGED <<clients, userClients, send, closed, pumpVars, sdPc, sdTodo,
                   downVars, causes>>

(* Mutant: a blocking send, without the default case of the select.        *)
HubTryBlocks ==
    LET c == hubClient IN
    /\ hubPc = "try"
    /\ ~closed[c] /\ ~Full(c)
    /\ Put(c)
    /\ HubContinuesLoop
    /\ UNCHANGED <<clients, userClients, closed, hubTodo, hubLoop, pumpVars, sdPc,
                   sdTodo, downVars, causes>>

(* Client.Send called by the hub, and the inlined copy in                  *)
(* broadcastMessage: a channel operation on a closed channel panics.       *)
HubTry ==
    LET c == hubClient IN
    /\ hubPc = "try"
    /\ \/ closed[c] /\ PanicNow("sendOnClosed", c)
          /\ UNCHANGED <<send, hubPc, hubClient, causes>>
       \/ /\ ~closed[c] /\ ~Full(c)
          /\ Put(c)
          /\ HubContinuesLoop
          /\ UNCHANGED <<downVars, causes>>
       \/ /\ ~closed[c] /\ Full(c)
          /\ hubPc' = "close"
          /\ overflowed' = overflowed \cup {c}
          /\ UNCHANGED shut
          /\ UNCHANGED <<send, hubClient, downVars>>
    /\ UNCHANGED <<clients, userClients, closed, hubTodo, hubLoop, pumpVars, sdPc,
                   sdTodo>>

HubClose ==
    LET c == hubClient IN
    /\ hubPc = "close"
    /\ \/ closed[c] /\ PanicNow("closeOfClosed", c) /\ UNCHANGED <<closed, hubPc>>
       \/ ~closed[c] /\ CloseSend(c) /\ hubPc' = "delete" /\ UNCHANGED downVars
    /\ UNCHANGED <<clients, userClients, send, hubClient, hubTodo, hubLoop,
                   pumpVars, sdPc, sdTodo, causes>>

HubDelete ==
    /\ hubPc = "delete"
    /\ clients' = clients \ {hubClient}
    /\ HubContinuesLoop
    /\ UNCHANGED <<userClients, send, closed, hubTodo, hubLoop, pumpVars, sdPc,
                   sdTodo, downVars, causes>>

-----------------------------------------------------------------------------
(* ReadPump *)

ReadPumpStep(c, from) ==
    /\ rp[c] = from
    /\ UNCHANGED <<userClients, hubVars, handler, wp, batch, sdPc, sdTodo>>

(* A ping, a malformed message and an unknown type are answered to the     *)
(* sender; a typing event is handed to the hub; the others change nothing. *)
ReadMessage(c) ==
    /\ ReadPumpStep(c, "read")
    /\ connUp[c]
    /\ \E next \in {"reply", "broadcast"} : rp' = [rp EXCEPT ![c] = next]
    /\ UNCHANGED <<clients, send, closed, connUp, downVars, causes>>

ReadFails(c) ==
    /\ ReadPumpStep(c, "read")
    /\ ~connUp[c]
    /\ rp' = [rp EXCEPT ![c] = "unregister"]
    /\ UNCHANGED <<clients, send, closed, connUp, downVars, causes>>

ReplyTry(c) ==
    /\ ReadPumpStep(c, "reply")
    /\ \/ closed[c] /\ PanicInReadPump(c, "sendOnClosed") /\ UNCHANGED <<send, causes>>
       \/ /\ ~closed[c] /\ ~Full(c)
          /\ Put(c)
          /\ rp' = [rp EXCEPT ![c] = "read"]
          /\ UNCHANGED <<downVars, causes>>
       \/ /\ ~closed[c] /\ Full(c)
          /\ rp' = [rp EXCEPT ![c] = "close"]
          /\ overflowed' = overflowed \cup {c}
          /\ UNCHANGED shut
          /\ UNCHANGED <<send, downVars>>
    /\ UNCHANGED <<clients, closed, connUp>>

ReplyClose(c) ==
    /\ ReadPumpStep(c, "close")
    /\ \/ closed[c] /\ PanicInReadPump(c, "closeOfClosed") /\ UNCHANGED closed
       \/ /\ ~closed[c]
          /\ CloseSend(c)
          /\ rp' = [rp EXCEPT ![c] = "delete"]
          /\ UNCHANGED downVars
    /\ UNCHANGED <<clients, send, connUp, causes>>

(* No lock is held here.                                                   *)
ReplyDelete(c) ==
    /\ ReadPumpStep(c, "delete")
    /\ clients' = clients \ {c}
    /\ rp' = [rp EXCEPT ![c] = "read"]
    /\ UNCHANGED <<send, closed, connUp, downVars, causes>>

(* The last deferred call; an unwinding goroutine then ends the process.   *)
CloseConnection(c) ==
    /\ ReadPumpStep(c, "closing")
    /\ rp' = [rp EXCEPT ![c] = "exited"]
    /\ connUp' = [connUp EXCEPT ![c] = FALSE]
    /\ down' = (down \/ c \in unwinding)
    /\ UNCHANGED <<clients, send, closed, unwinding, panic, victim, causes>>

-----------------------------------------------------------------------------
(* WritePump *)

WritePumpStep(c, from) ==
    /\ wp[c] = from
    /\ UNCHANGED <<clients, userClients, closed, hubVars, handler, rp, sdPc,
                   sdTodo, downVars, causes>>

WritePumpReturns(c) ==
    /\ wp' = [wp EXCEPT ![c] = "exited"]
    /\ connUp' = [connUp EXCEPT ![c] = FALSE]

TakeMessage(c) ==
    /\ WritePumpStep(c, "select")
    /\ send[c] > 0
    /\ send' = [send EXCEPT ![c] = @ - 1]
    /\ \/ connUp[c] /\ wp' = [wp EXCEPT ![c] = "count"] /\ UNCHANGED connUp
       \/ ~connUp[c] /\ WritePumpReturns(c)
    /\ UNCHANGED batch

(* Mutant: the message already taken is counted again.                     *)
CountOneMore(c) ==
    /\ WritePumpStep(c, "count")
    /\ batch' = [batch EXCEPT ![c] = send[c] + 1]
    /\ wp' = [wp EXCEPT ![c] = "batch"]
    /\ UNCHANGED <<send, connUp>>

CountQueued(c) ==
    /\ WritePumpStep(c, "count")
    /\ batch' = [batch EXCEPT ![c] = send[c]]
    /\ wp' = [wp EXCEPT ![c] = "batch"]
    /\ UNCHANGED <<send, connUp>>

(* These receives are not in a select: on an empty open channel WritePump  *)
(* would block here; a closed one yields empty messages.                   *)
TakeQueued(c) ==
    /\ WritePumpStep(c, "batch")
    /\ batch[c] > 0
    /\ \/ send[c] > 0 /\ send' = [send EXCEPT ![c] = @ - 1]
       \/ send[c] = 0 /\ closed[c] /\ UNCHANGED send
    /\ batch' = [batch EXCEPT ![c] = @ - 1]
    /\ UNCHANGED <<wp, connUp>>

Flush(c) ==
    /\ WritePumpStep(c, "batch")
    /\ batch[c] = 0
    /\ \/ connUp[c] /\ wp' = [wp EXCEPT ![c] = "select"] /\ UNCHANGED connUp
       \/ ~connUp[c] /\ WritePumpReturns(c)
    /\ UNCHANGED <<send, batch>>

(* Mutant: WritePump does not notice that its channel is closed.           *)
SeeClosedLate(c) ==
    /\ WritePumpStep(c, "select")
    /\ send[c] = 0 /\ closed[c] /\ ~connUp[c]
    /\ WritePumpReturns(c)
    /\ UNCHANGED <<send, batch>>

SeeClosed(c) ==
    /\ WritePumpStep(c, "select")
    /\ send[c] = 0 /\ closed[c]
    /\ WritePumpReturns(c)
    /\ UNCHANGED <<send, batch>>

PingFails(c) ==
    /\ WritePumpStep(c, "select")
    /\ ~connUp[c]
    /\ WritePumpReturns(c)
    /\ UNCHANGED <<send, batch>>

-----------------------------------------------------------------------------
(* Shutdown, process end and the unlocked map *)

ShutdownBegins ==
    /\ sdPc = "no"
    /\ MutexFree
    /\ sdPc' = "closing"
    /\ sdTodo' = clients
    /\ UNCHANGED <<clients, userClients, send, closed, hubVars, pumpVars, downVars,
                   causes>>

ShutdownCloses(c) ==
    /\ sdPc = "closing"
    /\ c \in sdTodo \cap clients
    /\ sdTodo' = sdTodo \ {c}
    /\ \/ /\ closed[c]
          /\ PanicNow("closeOfClosed", c)
          /\ UNCHANGED <<closed, shut>>
       \/ /\ ~closed[c]
          /\ CloseSend(c)
          /\ shut' = shut \cup {c}
          /\ UNCHANGED downVars
    /\ UNCHANGED <<clients, userClients, send, hubVars, pumpVars, sdPc, overflowed>>

(* Mutant: the users' lists are not cleared.                               *)
ShutdownKeepsLists ==
    /\ sdPc = "closing"
    /\ sdTodo \cap clients = {}
    /\ clients' = {}
    /\ sdPc' = "done" /\ sdTodo' = {}
    /\ UNCHANGED <<userClients, send, closed, hubVars, pumpVars, downVars, causes>>

ShutdownEnds ==
    /\ sdPc = "closing"
    /\ sdTodo \cap clients = {}
    /\ clients' = {}
    /\ userClients' = [u \in Users |-> {}]
    /\ sdPc' = "done" /\ sdTodo' = {}
    /\ UNCHANGED <<send, closed, hubVars, pumpVars, downVars, causes>>

(* main returns after Shutdown.                                            *)
ProcessExits ==
    /\ sdPc = "done"
    /\ down' = TRUE
    /\ UNCHANGED <<clients, userClients, send, closed, hubVars, pumpVars, sdPc,
                   sdTodo, unwinding, panic, victim, causes>>

(* A ReadPump deletes from the map without the mutex: when another         *)
(* goroutine is at an access of its own the runtime may stop the process.  *)
HubAtMap ==
    \/ hubPc \in {"register", "unregister", "delete"}
    \/ hubPc = "visit" /\ hubLoop = "map"
MapRace(c) ==
    /\ rp[c] = "delete"
    /\ HubAtMap \/ sdPc = "closing" \/ \E d \in Clients \ {c} : rp[d] = "delete"

FatalMapAccess(c) ==
    /\ MapRace(c)
    /\ PanicNow("mapRace", c)
    /\ UNCHANGED <<clients, userClients, send, closed, hubVars, pumpVars, sdPc,
                   sdTodo, causes>>

-----------------------------------------------------------------------------
HubStep ==
    \/ RegisterClient \/ UnregisterClient \/ UnregisterUnknown
    \/ BroadcastEvent \/ SendToUser
    \/ \E c \in Clients : VisitNext(c)
    \/ VisitDone \/ HubTry \/ HubClose \/ HubDelete

ReadPump(c) ==
    \/ ReadFails(c) \/ ReplyTry(c) \/ ReplyClose(c) \/ ReplyDelete(c)
    \/ CloseConnection(c)

WritePump(c) ==
    \/ TakeMessage(c) \/ CountQueued(c) \/ TakeQueued(c) \/ Flush(c)
    \/ SeeClosed(c) \/ PingFails(c)

ShutdownStep == (\E c \in Clients : ShutdownCloses(c)) \/ ShutdownEnds

Step ==
    \/ HubStep
    \/ AcceptBroadcast
    \/ \E u \in Users : AcceptUserEvent(u)
    \/ \E c \in Clients :
          \/ Connect(c) \/ StartPumps(c) \/ ConnectionLost(c)
          \/ AcceptRegister(c) \/ AcceptUnregister(c) \/ AcceptTyping(c)
          \/ ReadMessage(c) \/ ReadPump(c) \/ WritePump(c)
    \/ ShutdownBegins \/ ShutdownStep \/ ProcessExits
    \/ \E c \in Clients : FatalMapAccess(c)

Next == ~down /\ Step

Spec == Init /\ [][Next]_vars

(* Goroutines are scheduled, and a Go select picks at random among its     *)
(* ready cases, so a goroutine that waits for the hub is not passed over   *)
(* for ever.  Peers, API handlers and main owe nothing.                    *)
Fairness ==
    /\ WF_vars(~down /\ HubStep)
    /\ WF_vars(~down /\ ShutdownStep)
    /\ \A c \in Clients :
          /\ WF_vars(~down /\ StartPumps(c))
          /\ WF_vars(~down /\ ReadPump(c))
          /\ WF_vars(~down /\ WritePump(c))
          /\ SF_vars(~down /\ AcceptRegister(c))
          /\ SF_vars(~down /\ AcceptUnregister(c))
          /\ SF_vars(~down /\ AcceptTyping(c))

FairSpec == Spec /\ Fairness

-----------------------------------------------------------------------------
(* Properties *)

(* A panic is about a client that was itself too slow, never about another *)
(* one: its channel is the one that two goroutines close, that is used     *)
(* after a close, or its map entry the one deleted without the lock        *)
(* (client.go:142, hub.go:154).  The one other cause is a ReadPump that    *)
(* answers its peer after Shutdown has closed its channel (hub.go:308): it *)
(* unwinds, while the hub and main never fail on a client that kept up.    *)
PanicHasACause ==
    panic # None =>
        victim \in overflowed \/ (victim \in shut \cap unwinding)

(* A registered client can be reached by targeted events, and whom a       *)
(* user's list still names when the map has forgotten him was too slow     *)
(* himself: nobody else's overflow, unregistering or Shutdown parts the    *)
(* two maps (hub.go:13-16, 154).                                           *)
MapsAgree ==
    \A u \in Users :
        LET registered == {c \in clients : UserOf[c] = u} IN
        /\ registered \subseteq userClients[u]
        /\ userClients[u] \ registered \subseteq overflowed

(* No ghost: once ReadPump has returned and the hub is done with its       *)
(* request, the hub no longer sends to the client.                         *)
NoGhostClient ==
    \A c \in Clients :
        rp[c] = "exited" /\ ~(hubPc = "unregister" /\ hubClient = c)
          => c \notin clients

(* WritePump receives exactly as many messages as it counted, so it never  *)
(* waits in the middle of a frame for a message that may not come          *)
(* (client.go:103-107).                                                    *)
BatchIsBuffered == \A c \in Clients : wp[c] = "batch" => batch[c] <= send[c]

(* A goroutine that waits for the hub is served unless the process ends:   *)
(* the hub loop never blocks on a client.                                  *)
HubServesAll ==
    \A c \in Clients :
        handler[c] = "registering" \/ rp[c] \in {"broadcast", "unregister"}
          ~> down \/ ~(\/ handler[c] = "registering"
                       \/ rp[c] \in {"broadcast", "unregister"})

(* A connection whose channel was closed, or that broke, is released: both *)
(* pumps return and the hub forgets the client, or the process has ended.  *)
DeadClientReleased ==
    \A c \in Clients :
        handler[c] = "done" /\ (closed[c] \/ ~connUp[c])
          ~> down \/ (rp[c] = "exited" /\ wp[c] = "exited" /\ c \notin clients)
=============================================================================
