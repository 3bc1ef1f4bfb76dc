------------------------------ MODULE Reactions ------------------------------
(***************************************************************************)
(* What the audience of a story leaves behind: the rows of the reactions   *)
(* and story_views tables, the requests ViewStory, AddReaction,            *)
(* UpdateReaction and RemoveReaction, and the events they send to the      *)
(* story's author (handlers/stories.go, storage/reaction_store.go,         *)
(* storage/view_store.go, models/reaction.go, models/view.go).             *)
(*                                                                         *)
(* A statement to the database is one step and may fail.  The story itself *)
(* is looked up only to find its author, after the row is written; whether *)
(* that lookup finds it is StoryLifecycle's matter and open here.  What    *)
(* becomes of an event in the hub is RealtimeHub's.  Of a view nothing but *)
(* who saw what is kept, of a row no timestamps.                           *)
(***************************************************************************)
EXTENDS FiniteSets

CONSTANTS Users, Stories, Types,
          Ids,        \* uuid.New: an id is drawn once
          Requests,   \* API requests that may be in flight at one time
          Author      \* the author of each story

Nothing == "nothing"

ASSUME ReactionAssumption ==
    /\ Author \in [Stories -> Users]
    /\ Nothing \notin Users \cup Ids \cup Types

VARIABLES
    reactions,  \* the rows: [id, story, user, type]
    views,      \* <<story, viewer>>: the key of a story_views row
    pc,         \* where each request is
    req,        \* what it does: [op, user, story, id, type]
    copy        \* the row it has loaded

(* History: not in the program, read only by the properties.               *)
VARIABLES
    answered,   \* ids that a 201 answer told a client
    events,     \* what the hub was given: [to, story, from, id]
    removed,    \* ids of deleted rows
    swallowed   \* ids that an upsert did not store, the pair having a row

table == <<reactions, views>>
history == <<answered, events, removed, swallowed>>
vars == <<table, pc, req, copy, history>>

Rows == [id : Ids, story : Stories, user : Users, type : Types]
NoRow == [id |-> Nothing, story |-> Nothing, user |-> Nothing, type |-> Nothing]
View == [op : {"view"}, user : Users, story : Stories, id : {Nothing}, type : {Nothing}]
Add == [op : {"add"}, user : Users, story : Stories, id : Ids, type : Types]
Change == [op : {"update"}, user : Users, story : {Nothing}, id : Ids, type : Types]
Remove == [op : {"remove"}, user : Users, story : {Nothing}, id : Ids, type : {Nothing}]
NoRequest == [op |-> "none", user |-> Nothing, story |-> Nothing, id |-> Nothing,
              type |-> Nothing]

TypeOK ==
    /\ reactions \in SUBSET Rows
    /\ \A x, y \in reactions :
          x.id = y.id \/ (x.story = y.story /\ x.user = y.user) => x = y
    /\ views \in SUBSET (Stories \X Users)
    /\ pc \in [Requests -> {"idle", "record", "load", "write", "notify"}]
    /\ req \in [Requests -> View \cup Add \cup Change \cup Remove \cup {NoRequest}]
    /\ copy \in [Requests -> Rows \cup {NoRow}]
    /\ answered \in SUBSET Ids
    /\ events \in SUBSET [to : Users, story : Stories, from : Users, id : Ids \cup {Nothing}]
    /\ removed \in SUBSET Ids
    /\ swallowed \in SUBSET Ids
    /\ \A r \in Requests :
          /\ pc[r] \in {"record", "notify"} => req[r] \in View \cup Add
          /\ pc[r] \in {"load", "write"} => req[r] \in Change \cup Remove
          /\ pc[r] = "write" => copy[r] \in Rows

Init ==
    /\ reactions = {} /\ views = {}
    /\ pc = [r \in Requests |-> "idle"]
    /\ req = [r \in Requests |-> NoRequest]
    /\ copy = [r \in Requests |-> NoRow]
    /\ answered = {} /\ events = {} /\ removed = {} /\ swallowed = {}

-----------------------------------------------------------------------------
(* Rows *)

Stored == {x.id : x \in reactions}
RowOf(q) == {x \in reactions : x.story = q.story /\ x.user = q.user}
NewReaction(q) == [id |-> q.id, story |-> q.story, user |-> q.user, type |-> q.type]

(* INSERT ... ON CONFLICT (story_id, user_id) DO UPDATE SET type: the row  *)
(* there is keeps its id.  Mutant: ON CONFLICT DO NOTHING.                 *)
OnConflictDoNothing(q) ==
    IF RowOf(q) = {} THEN reactions \cup {NewReaction(q)} ELSE reactions
Upserted(q) ==
    IF RowOf(q) = {} THEN reactions \cup {NewReaction(q)}
    ELSE (reactions \ RowOf(q)) \cup {[x EXCEPT !.type = q.type] : x \in RowOf(q)}

WithId(i) == {x \in reactions : x.id = i}

-----------------------------------------------------------------------------
(* Requests *)

Goto(r, from, to) ==
    /\ pc[r] = from
    /\ pc' = [pc EXCEPT ![r] = to]

Answer(r, from) ==
    /\ Goto(r, from, "idle")
    /\ req' = [req EXCEPT ![r] = NoRequest]
    /\ copy' = [copy EXCEPT ![r] = NoRow]

Drawn == Stored \cup removed \cup swallowed \cup {req[r].id : r \in Requests}

BeginViewOrAdd(r) ==
    /\ Goto(r, "idle", "record")
    /\ \E q \in View \cup Add :
          /\ q.op = "add" => q.id \notin Drawn
          /\ req' = [req EXCEPT ![r] = q]
    /\ UNCHANGED <<table, copy, history>>

BeginChange(r) ==
    /\ Goto(r, "idle", "load")
    /\ \E q \in Change \cup Remove : req' = [req EXCEPT ![r] = q]
    /\ UNCHANGED <<table, copy, history>>

(* ViewStore.Create, an upsert too.  When it fails the client is told that *)
(* the story was viewed, but the author hears nothing.                     *)
CreateView(r) ==
    /\ Goto(r, "record", "notify")
    /\ req[r] \in View
    /\ views' = views \cup {<<req[r].story, req[r].user>>}
    /\ UNCHANGED <<reactions, req, copy, history>>

CreateReaction(r) ==
    /\ Goto(r, "record", "notify")
    /\ req[r] \in Add
    /\ reactions' = Upserted(req[r])
    /\ swallowed' = IF RowOf(req[r]) = {} THEN swallowed ELSE swallowed \cup {req[r].id}
    /\ UNCHANGED <<views, req, copy, answered, events, removed>>

(* Neither handler looks for the story before it writes.  If it is found   *)
(* now, its author is sent an event, unless it is the author who watches.  *)
Told(q) == [to |-> Author[q.story], story |-> q.story, from |-> q.user, id |-> q.id]
Notify(r) ==
    LET q == req[r] IN
    /\ Answer(r, "notify")
    /\ events' \in {events, events \cup {e \in {Told(q)} : e.to # e.from}}
    /\ answered' = answered \cup ({q.id} \ {Nothing})
    /\ UNCHANGED <<table, removed, swallowed>>

(* GetByID: 404, 403, or on to the write.  Mutant: the owner is not        *)
(* compared.                                                               *)
AnyRow(q, x) == x # NoRow
Own(q, x) == x # NoRow /\ x.user = q.user

Load(r) ==
    /\ pc[r] = "load"
    /\ \E x \in Rows \cup {NoRow} :
          /\ IF WithId(req[r].id) = {} THEN x = NoRow ELSE x \in WithId(req[r].id)
          /\ \/ /\ Own(req[r], x)
                /\ Goto(r, "load", "write")
                /\ copy' = [copy EXCEPT ![r] = x]
                /\ UNCHANGED req
             \/ ~Own(req[r], x) /\ Answer(r, "load")
    /\ UNCHANGED <<table, history>>

(* UPDATE by id; a row removed meanwhile stays removed (ErrNotFound).      *)
(* Mutant: the copy is saved with the statement of Create.                 *)
SaveCopy(r) ==
    /\ Answer(r, "write")
    /\ req[r].op = "update"
    /\ reactions' = Upserted([copy[r] EXCEPT !.type = req[r].type])
    /\ UNCHANGED <<views, history>>

Update(r) ==
    /\ Answer(r, "write")
    /\ req[r].op = "update"
    /\ reactions' = (reactions \ WithId(copy[r].id))
                       \cup {[x EXCEPT !.type = req[r].type] : x \in WithId(copy[r].id)}
    /\ UNCHANGED <<views, history>>

Delete(r) ==
    /\ Answer(r, "write")
    /\ req[r].op = "remove"
    /\ reactions' = reactions \ WithId(req[r].id)
    /\ removed' = removed \cup (Stored \cap {req[r].id})
    /\ UNCHANGED <<views, answered, events, swallowed>>

(* A statement fails, the client goes away or the process stops.  Mutant:  *)
(* a view that could not be recorded is announced all the same.            *)
AnnounceAnyway(r) ==
    /\ pc[r] # "idle"
    /\ Answer(r, pc[r])
    /\ events' = IF req[r].op # "view" THEN events
                 ELSE events \cup {e \in {Told(req[r])} : e.to # e.from}
    /\ UNCHANGED <<table, answered, removed, swallowed>>

Abandon(r) ==
    /\ pc[r] # "idle"
    /\ Answer(r, pc[r])
    /\ UNCHANGED <<table, history>>

RequestNext(r) ==
    \/ BeginViewOrAdd(r) \/ BeginChange(r) \/ CreateView(r) \/ CreateReaction(r)
    \/ Notify(r) \/ Load(r) \/ Update(r) \/ Delete(r) \/ Abandon(r)

Next == \E r \in Requests : RequestNext(r)

Spec == Init /\ [][Next]_vars

-----------------------------------------------------------------------------
(* Properties *)

(* UpdateReaction and RemoveReaction compare the owner of the row they     *)
(* read and then write by id alone: no interleaving lets a request change  *)
(* or remove a row of another user.                                        *)
OwnReactionOnly ==
    [][\A x \in reactions \ reactions' :
          \E r \in Requests : pc[r] # pc'[r] /\ req[r].user = x.user]_vars

(* An update that read its row before it was removed does not bring it     *)
(* back: an id once gone is gone.                                          *)
NoResurrection ==
    [][\A i \in removed \cup swallowed : i \notin Stored']_vars

(* An id that a client was told, in an answer or an event, names a row     *)
(* unless that row was removed or the upsert kept an older row under its   *)
(* own id; and an author hears only of views that were recorded.           *)
IdsAndEventsHaveRecords ==
    /\ answered \subseteq Stored \cup removed \cup swallowed
    /\ \A e \in events :
          /\ e.to = Author[e.story] /\ e.to # e.from
          /\ IF e.id = Nothing THEN <<e.story, e.from>> \in views
             ELSE e.id \in Stored \cup removed \cup swallowed

(* The requests of the audience behave as AudienceService promises: each   *)
(* takes effect at one moment, once or not at all, on what belongs to its  *)
(* user, and before anybody hears of it.                                   *)
Reacted(s, u) == RowOf([story |-> s, user |-> u])
Reaction ==
    [p \in Stories \X Users |->
        IF Reacted(p[1], p[2]) = {} THEN Nothing
        ELSE (CHOOSE x \in Reacted(p[1], p[2]) : TRUE).type]

Gist(q) == [op |-> q.op, user |-> q.user, story |-> q.story, type |-> q.type]
NoAsk == [op |-> "none", user |-> Nothing, story |-> Nothing, type |-> Nothing]
Asked == [r \in Requests |-> IF pc[r] = "idle" THEN NoAsk ELSE Gist(req[r])]
Done == {r \in Requests : pc[r] = "notify"}

Kind(e) == IF e.id = Nothing THEN "view" ELSE "add"
News == {[to |-> e.to, story |-> e.story, from |-> e.from, kind |-> Kind(e)] : e \in events}

Service == INSTANCE AudienceService WITH
    None <- Nothing, reaction <- Reaction, seen <- views, asked <- Asked,
    done <- Done, news <- News

ServiceSpec == Service!Spec
=============================================================================
