--------------------------- MODULE StoryLifecycle ---------------------------
(***************************************************************************)
(* The life of a story: the PostgreSQL row, its copy in the Redis cache,   *)
(* the API requests that read, edit and delete it (handlers/stories.go     *)
(* through storage/story_store.go), and the expiration worker that sweeps  *)
(* expired rows (worker/expiration.go).                                    *)
(*                                                                         *)
(* A statement to the database or to Redis is one step; everything between *)
(* two statements is local.  The content of a story is its two editable    *)
(* fields.  A request that CanView, CanEdit or CanDelete refuses has only  *)
(* read: it is a "read" here, like the lookups of GetStory and ViewStory.  *)
(***************************************************************************)
EXTENDS Integers, FiniteSets

CONSTANTS Stories,       \* stories that may be created; ids are fresh UUIDs
          Texts, Visibilities,
          Requests,      \* API requests that may be in flight at one time
          Passes,        \* expiration passes at one time: ticker and ForceRun
          BatchSize,     \* WorkerConfig.BatchSize
          MaxOffset,     \* where a pass stops paging (10000 in the code)
          Lifetimes,     \* times to live a creator may ask for: an hour or more
          MaxTime,       \* bound: the clock stops here
          MaxFaults      \* bound: crashes, failed statements, lost replies

ASSUME StoryAssumption ==
    /\ BatchSize \in Nat
    /\ MaxOffset \in Nat
    /\ Lifetimes \subseteq Nat \ {0}
    /\ MaxTime \in Nat
    /\ MaxFaults \in Nat

VARIABLES
    db,       \* the rows: [status, text, vis, expiresAt]
    cache,    \* Redis key story:<id>: the content of a story, or NoContent
    now,      \* the clock of the database
    rpc,      \* where each request is
    task,     \* what it does: [op, story, change]
    seen,     \* the content it read
    ppc,      \* where each expiration pass is
    offset,   \* its OFFSET
    batch,    \* the stories of its page it has not processed
    full,     \* whether the page had BatchSize rows
    current   \* the story it is processing

(* History: not in the program, read only by the properties.               *)
VARIABLES
    removals,   \* Delete calls that reported success, for each story
    overtaken,  \* the cached copy was stale when set, or survived a DEL
    behind,     \* requests whose copy was stale when read, or was overtaken
    due,        \* the stories that were expired when a pass began
    faults      \* faults so far

requestVars == <<rpc, task, seen>>
passVars == <<ppc, offset, batch, full, current, due>>
vars == <<db, cache, now, requestVars, passVars, removals, overtaken, behind, faults>>

Keep == "keep"        \* a field that an update request does not mention
Nothing == "nothing"

Content == [text : Texts, vis : Visibilities]
ContentOf(row) == [text |-> row.text, vis |-> row.vis]
NoContent == [text |-> Nothing, vis |-> Nothing]
Change == [text : Texts \cup {Keep}, vis : Visibilities \cup {Keep}]
NoChange == [text |-> Keep, vis |-> Keep]
Task == [op : {"read", "update", "delete"}, story : Stories, change : Change]
NoTask == [op |-> "none", story |-> Nothing, change |-> NoChange]
Row == [status : {"none", "live", "deleted"}, text : Texts \cup {Nothing},
        vis : Visibilities \cup {Nothing}, expiresAt : Nat]

DataTypes ==
    /\ db \in [Stories -> Row]
    /\ cache \in [Stories -> Content \cup {NoContent}]
    /\ now \in Nat
    /\ removals \in [Stories -> Nat]
    /\ overtaken \in [Stories -> BOOLEAN]
    /\ behind \in SUBSET Requests
    /\ faults \in Nat

RequestTypes ==
    /\ rpc \in [Requests -> {"idle", "lookup", "select", "fill", "write", "invalidate"}]
    /\ task \in [Requests -> Task \cup {NoTask}]
    /\ seen \in [Requests -> Content \cup {NoContent}]
    /\ \A r \in Requests : rpc[r] # "idle" => task[r] \in Task
    /\ \A r \in Requests : rpc[r] \in {"fill", "write"} => seen[r] \in Content

PassTypes ==
    /\ ppc \in [Passes -> {"idle", "query", "sweep", "forget", "purge", "pause"}]
    /\ offset \in [Passes -> Nat]
    /\ batch \in [Passes -> SUBSET Stories]
    /\ full \in [Passes -> BOOLEAN]
    /\ current \in [Passes -> Stories \cup {Nothing}]
    /\ \A p \in Passes : ppc[p] \in {"forget", "purge"} => current[p] \in Stories
    /\ due \in [Passes -> SUBSET Stories]

(* A published story has content.                                          *)
TypeOK ==
    /\ DataTypes /\ RequestTypes /\ PassTypes
    /\ \A s \in Stories : db[s].status # "none" => ContentOf(db[s]) \in Content

NoRow == [status |-> "none", text |-> Nothing, vis |-> Nothing, expiresAt |-> 0]

Init ==
    /\ db = [s \in Stories |-> NoRow]
    /\ cache = [s \in Stories |-> NoContent]
    /\ now = 0
    /\ rpc = [r \in Requests |-> "idle"]
    /\ task = [r \in Requests |-> NoTask]
    /\ seen = [r \in Requests |-> NoContent]
    /\ ppc = [p \in Passes |-> "idle"]
    /\ offset = [p \in Passes |-> 0]
    /\ batch = [p \in Passes |-> {}]
    /\ full = [p \in Passes |-> FALSE]
    /\ current = [p \in Passes |-> Nothing]
    /\ removals = [s \in Stories |-> 0]
    /\ overtaken = [s \in Stories |-> FALSE]
    /\ behind = {}
    /\ due = [p \in Passes |-> {}]
    /\ faults = 0

-----------------------------------------------------------------------------
(* Statements *)

Fault ==
    /\ faults < MaxFaults
    /\ faults' = faults + 1

(* Every write carries WHERE deleted_at IS NULL and reports the rows hit.  *)
(* Mutant: it does not.                                                    *)
Exists(s) == db[s].status # "none"
Live(s) == db[s].status = "live"

(* Mutant: a field that the request leaves out is written, too.            *)
EditedBlindly(c, change) ==
    [text |-> IF change.text = Keep THEN Nothing ELSE change.text,
     vis |-> IF change.vis = Keep THEN Nothing ELSE change.vis]

(* The whole content is written, whatever the request mentions: a field it *)
(* leaves out comes from the copy that the request read before.            *)
Edited(c, change) ==
    [text |-> IF change.text = Keep THEN c.text ELSE change.text,
     vis |-> IF change.vis = Keep THEN c.vis ELSE change.vis]

Rewritten(row, c) ==
    [status |-> row.status, text |-> c.text, vis |-> c.vis, expiresAt |-> row.expiresAt]
Removed(row) ==
    [status |-> "deleted", text |-> row.text, vis |-> row.vis, expiresAt |-> row.expiresAt]

(* models.NewStory: the request chooses how long the story lives.           *)
NewStory(c, life) ==
    [status |-> "live", text |-> c.text, vis |-> c.vis, expiresAt |-> now + life]

Create(s, story) == db' = [db EXCEPT ![s] = story]
SetContent(s, c) == db' = [db EXCEPT ![s] = Rewritten(@, c)]
SoftDelete(s) == db' = [db EXCEPT ![s] = Removed(@)]
CountRemoval(s) == removals' = [removals EXCEPT ![s] = @ + 1]

(* A write overtakes everyone else who is going on with a copy of the row. *)
Holders(s) == {r \in Requests : rpc[r] \in {"fill", "write"} /\ task[r].story = s}
Overtake(s, writer) == behind' = (behind \cup Holders(s)) \ writer

(* DEL story:<id>; its error is ignored by every caller.                   *)
Forget(s) ==
    /\ cache' = [cache EXCEPT ![s] = NoContent]
    /\ overtaken' = [overtaken EXCEPT ![s] = FALSE]
KeepsCopy(S) ==
    /\ overtaken' = [s \in Stories |-> overtaken[s] \/ (s \in S /\ cache[s] # NoContent)]
    /\ UNCHANGED cache

(* A writer has changed the row and has yet to delete the key.             *)
BeingForgotten(s) ==
    \/ \E r \in Requests : rpc[r] = "invalidate" /\ task[r].story = s
    \/ \E p \in Passes : ppc[p] \in {"forget", "purge"} /\ current[p] = s
Doubtful(s) == overtaken[s] \/ BeingForgotten(s)

-----------------------------------------------------------------------------
(* Creation, time and the cache's TTL *)

(* A creation that fails leaves nothing behind.                            *)
CreateStory(s) ==
    /\ db[s].status = "none"
    /\ \E c \in Content, life \in Lifetimes : Create(s, NewStory(c, life))
    /\ UNCHANGED <<cache, now, requestVars, passVars, removals, overtaken, behind, faults>>

Tick ==
    /\ now < MaxTime
    /\ now' = now + 1
    /\ UNCHANGED <<db, cache, requestVars, passVars, removals, overtaken, behind, faults>>

(* 180 seconds after the entry was set; a hit does not extend it.          *)
CacheExpires(s) ==
    /\ cache[s] # NoContent
    /\ Forget(s)
    /\ UNCHANGED <<db, now, requestVars, passVars, removals, behind, faults>>

-----------------------------------------------------------------------------
(* API requests *)

RequestStep(r, from) ==
    /\ rpc[r] = from
    /\ UNCHANGED <<now, passVars>>

Goto(r, to) == rpc' = [rpc EXCEPT ![r] = to]

Return(r) ==
    /\ Goto(r, "idle")
    /\ task' = [task EXCEPT ![r] = NoTask]
    /\ seen' = [seen EXCEPT ![r] = NoContent]

Answer(r) == Return(r) /\ behind' = behind \ {r}

BeginRequest(r) ==
    /\ RequestStep(r, "idle")
    /\ \E t \in Task :
          /\ db[t.story].status # "none"
          /\ t.op # "update" => t.change = NoChange
          /\ task' = [task EXCEPT ![r] = t]
    /\ Goto(r, "lookup")
    /\ UNCHANGED <<db, cache, seen, removals, overtaken, behind, faults>>

(* GetByID has its result: a read answers, a write goes on with it.        *)
Loaded(r, c, stale) ==
    \/ /\ task[r].op = "read"
       /\ Answer(r)
    \/ /\ task[r].op # "read"
       /\ Goto(r, "write")
       /\ seen' = [seen EXCEPT ![r] = c]
       /\ behind' = IF stale THEN behind \cup {r} ELSE behind \ {r}
       /\ UNCHANGED task

CacheHit(r) ==
    LET s == task[r].story IN
    /\ RequestStep(r, "lookup")
    /\ cache[s] # NoContent
    /\ Loaded(r, cache[s], Doubtful(s))
    /\ UNCHANGED <<db, cache, removals, overtaken, faults>>

(* An unreachable cache is treated as a miss.                              *)
CacheMiss(r) ==
    /\ RequestStep(r, "lookup")
    /\ \/ cache[task[r].story] = NoContent /\ UNCHANGED faults
       \/ Fault
    /\ Goto(r, "select")
    /\ UNCHANGED <<db, cache, task, seen, removals, overtaken, behind>>

(* Mutant: the lookup returns removed rows, too.                           *)
SelectAnyRow(r) ==
    LET s == task[r].story IN
    /\ RequestStep(r, "select")
    /\ seen' = [seen EXCEPT ![r] = ContentOf(db[s])]
    /\ behind' = behind \ {r}
    /\ Goto(r, "fill")
    /\ UNCHANGED <<db, cache, task, removals, overtaken, faults>>

SelectRow(r) ==
    LET s == task[r].story IN
    /\ RequestStep(r, "select")
    /\ Live(s)
    /\ seen' = [seen EXCEPT ![r] = ContentOf(db[s])]
    /\ behind' = behind \ {r}
    /\ Goto(r, "fill")
    /\ UNCHANGED <<db, cache, task, removals, overtaken, faults>>

SelectNothing(r) ==
    /\ RequestStep(r, "select")
    /\ ~Live(task[r].story)
    /\ Answer(r)
    /\ UNCHANGED <<db, cache, removals, overtaken, faults>>

Fill(r) ==
    LET s == task[r].story IN
    /\ RequestStep(r, "fill")
    /\ cache' = [cache EXCEPT ![s] = seen[r]]
    /\ overtaken' = [overtaken EXCEPT ![s] = r \in behind]
    /\ Loaded(r, seen[r], r \in behind)
    /\ UNCHANGED <<db, removals, faults>>

FillFails(r) ==
    /\ RequestStep(r, "fill")
    /\ Fault
    /\ Loaded(r, seen[r], r \in behind)
    /\ UNCHANGED <<db, cache, removals, overtaken>>

WriteStory(r) ==
    LET s == task[r].story IN
    /\ Live(s)
    /\ Overtake(s, {r})
    /\ \/ task[r].op = "update" /\ SetContent(s, Edited(seen[r], task[r].change))
       \/ task[r].op = "delete" /\ SoftDelete(s)

(* Mutant: the cached copy is not invalidated.                             *)
UpdateOnly(r) ==
    /\ RequestStep(r, "write")
    /\ task[r].op = "update"
    /\ WriteStory(r)
    /\ Return(r)
    /\ UNCHANGED <<cache, removals, overtaken, faults>>

UpdateStory(r) ==
    /\ RequestStep(r, "write")
    /\ task[r].op = "update"
    /\ WriteStory(r)
    /\ Goto(r, "invalidate")
    /\ UNCHANGED <<cache, task, seen, removals, overtaken, faults>>

DeleteStory(r) ==
    /\ RequestStep(r, "write")
    /\ task[r].op = "delete"
    /\ WriteStory(r)
    /\ CountRemoval(task[r].story)
    /\ Goto(r, "invalidate")
    /\ UNCHANGED <<cache, task, seen, overtaken, faults>>

(* No row was hit: ErrNotFound, nothing to invalidate.                     *)
WriteRefused(r) ==
    /\ RequestStep(r, "write")
    /\ ~Live(task[r].story)
    /\ Answer(r)
    /\ UNCHANGED <<db, cache, removals, overtaken, faults>>

InvalidateCache(r) ==
    /\ RequestStep(r, "invalidate")
    /\ Forget(task[r].story)
    /\ Answer(r)
    /\ UNCHANGED <<db, removals, faults>>

(* A client that goes away cancels the context of what is left to do.      *)
InvalidateFails(r) ==
    /\ RequestStep(r, "invalidate")
    /\ Fault
    /\ KeepsCopy({task[r].story})
    /\ Answer(r)
    /\ UNCHANGED <<db, removals>>

DatabaseFails(r) ==
    /\ \E from \in {"select", "write"} : RequestStep(r, from)
    /\ Fault
    /\ Answer(r)
    /\ UNCHANGED <<db, cache, removals, overtaken>>

(* The row is written but the handler sees an error and does not invalidate. *)
WriteReplyLost(r) ==
    /\ RequestStep(r, "write")
    /\ Fault
    /\ WriteStory(r)
    /\ KeepsCopy({task[r].story})
    /\ Return(r)
    /\ UNCHANGED removals

(* The API process dies with its requests.                                 *)
ApiCrash ==
    /\ Fault
    /\ KeepsCopy({task[r].story : r \in {q \in Requests : rpc[q] = "invalidate"}})
    /\ rpc' = [r \in Requests |-> "idle"]
    /\ task' = [r \in Requests |-> NoTask]
    /\ seen' = [r \in Requests |-> NoContent]
    /\ behind' = {}
    /\ UNCHANGED <<db, now, passVars, removals>>

-----------------------------------------------------------------------------
(* The expiration worker *)

(* Mutant: the query forgets the expiry.                                   *)
Published == {s \in Stories : Live(s)}
Expired == {s \in Stories : Live(s) /\ db[s].expiresAt <= now}
NoLater(s, t) == db[s].expiresAt <= db[t].expiresAt
Least(a, b) == IF a <= b THEN a ELSE b

(* GetExpired: ORDER BY expires_at LIMIT BatchSize OFFSET from; rows with  *)
(* one expiry come in any order.                                           *)
IsPage(page, from) ==
    \E skipped \in SUBSET (Expired \ page) :
        LET rest == Expired \ skipped IN
        /\ Cardinality(skipped) = Least(from, Cardinality(Expired))
        /\ Cardinality(page) = Least(BatchSize, Cardinality(rest))
        /\ \A s \in skipped, t \in rest : NoLater(s, t)
        /\ \A s \in page, t \in rest \ page : NoLater(s, t)

PassStep(p, from) ==
    /\ ppc[p] = from
    /\ UNCHANGED <<now, requestVars>>

PassGoto(p, to) == ppc' = [ppc EXCEPT ![p] = to]

(* Mutant: the offset is not reset between two passes.                     *)
PassEndsWhereItWas(p) ==
    /\ PassGoto(p, "idle")
    /\ batch' = [batch EXCEPT ![p] = {}]
    /\ full' = [full EXCEPT ![p] = FALSE]
    /\ current' = [current EXCEPT ![p] = Nothing]
    /\ UNCHANGED offset

PassEnds(p) ==
    /\ PassGoto(p, "idle")
    /\ offset' = [offset EXCEPT ![p] = 0]
    /\ batch' = [batch EXCEPT ![p] = {}]
    /\ full' = [full EXCEPT ![p] = FALSE]
    /\ current' = [current EXCEPT ![p] = Nothing]

BeginPass(p) ==
    /\ PassStep(p, "idle")
    /\ PassGoto(p, "query")
    /\ due' = [due EXCEPT ![p] = Expired]
    /\ UNCHANGED <<db, cache, offset, batch, full, current, removals, overtaken,
                   behind, faults>>

QueryPage(p) ==
    /\ PassStep(p, "query")
    /\ \E page \in SUBSET Expired :
          /\ IsPage(page, offset[p])
          /\ \/ page = {} /\ PassEnds(p)
             \/ /\ page # {}
                /\ batch' = [batch EXCEPT ![p] = page]
                /\ full' = [full EXCEPT ![p] = Cardinality(page) = BatchSize]
                /\ PassGoto(p, "sweep")
                /\ UNCHANGED <<offset, current>>
    /\ UNCHANGED <<db, cache, due, removals, overtaken, behind, faults>>

QueryFails(p) ==
    /\ PassStep(p, "query")
    /\ Fault
    /\ PassEnds(p)
    /\ UNCHANGED <<db, cache, due, removals, overtaken, behind>>

NextOfBatch(p, s) ==
    /\ s \in batch[p]
    /\ \A t \in batch[p] : NoLater(s, t)
    /\ batch' = [batch EXCEPT ![p] = @ \ {s}]
    /\ UNCHANGED <<offset, full, due>>

SweepStory(p, s) ==
    /\ PassStep(p, "sweep")
    /\ NextOfBatch(p, s)
    /\ Live(s)
    /\ SoftDelete(s)
    /\ Overtake(s, {})
    /\ CountRemoval(s)
    /\ current' = [current EXCEPT ![p] = s]
    /\ PassGoto(p, "forget")
    /\ UNCHANGED <<cache, overtaken, faults>>

(* Deleted by a request or by another pass meanwhile: ErrNotFound.         *)
SweepTooLate(p, s) ==
    /\ PassStep(p, "sweep")
    /\ NextOfBatch(p, s)
    /\ ~Live(s)
    /\ UNCHANGED <<db, cache, ppc, current, removals, overtaken, behind, faults>>

SweepFails(p, s) ==
    /\ PassStep(p, "sweep")
    /\ NextOfBatch(p, s)
    /\ Fault
    /\ UNCHANGED <<db, cache, ppc, current, removals, overtaken, behind>>

SweepReplyLost(p, s) ==
    /\ PassStep(p, "sweep")
    /\ NextOfBatch(p, s)
    /\ Fault
    /\ Live(s)
    /\ SoftDelete(s)
    /\ Overtake(s, {})
    /\ KeepsCopy({s})
    /\ UNCHANGED <<ppc, current, removals>>

(* The key is deleted by Delete and once more by processExpiredStory.      *)
PassForgets(p) ==
    /\ PassStep(p, "forget")
    /\ \/ Forget(current[p]) /\ UNCHANGED faults
       \/ Fault /\ UNCHANGED <<cache, overtaken>>
    /\ PassGoto(p, "purge")
    /\ UNCHANGED <<db, offset, batch, full, current, due, removals, behind>>

PassPurges(p) ==
    /\ PassStep(p, "purge")
    /\ \/ Forget(current[p]) /\ UNCHANGED faults
       \/ Fault /\ KeepsCopy({current[p]})
    /\ PassGoto(p, "sweep")
    /\ current' = [current EXCEPT ![p] = Nothing]
    /\ UNCHANGED <<db, offset, batch, full, due, removals, behind>>

NextOffset(p) == offset[p] + BatchSize

EndBatch(p) ==
    /\ PassStep(p, "sweep")
    /\ batch[p] = {}
    /\ \/ /\ ~full[p] \/ NextOffset(p) > MaxOffset
          /\ PassEnds(p)
       \/ /\ full[p] /\ NextOffset(p) <= MaxOffset
          /\ offset' = [offset EXCEPT ![p] = NextOffset(p)]
          /\ PassGoto(p, "pause")
          /\ UNCHANGED <<batch, full, current>>
    /\ UNCHANGED <<db, cache, due, removals, overtaken, behind, faults>>

Resume(p) ==
    /\ PassStep(p, "pause")
    /\ PassGoto(p, "query")
    /\ UNCHANGED <<db, cache, offset, batch, full, current, due, removals, overtaken,
                   behind, faults>>

PassCancelled(p) ==
    /\ PassStep(p, "pause")
    /\ Fault
    /\ PassEnds(p)
    /\ UNCHANGED <<db, cache, due, removals, overtaken, behind>>

(* The worker process dies and is started again.                           *)
WorkerCrash ==
    /\ Fault
    /\ KeepsCopy({current[p] : p \in {q \in Passes : ppc[q] \in {"forget", "purge"}}})
    /\ ppc' = [p \in Passes |-> "idle"]
    /\ offset' = [p \in Passes |-> 0]
    /\ batch' = [p \in Passes |-> {}]
    /\ full' = [p \in Passes |-> FALSE]
    /\ current' = [p \in Passes |-> Nothing]
    /\ UNCHANGED <<db, now, requestVars, due, removals, behind>>

-----------------------------------------------------------------------------
Request(r) ==
    \/ CacheHit(r) \/ CacheMiss(r) \/ SelectRow(r) \/ SelectNothing(r)
    \/ Fill(r) \/ UpdateStory(r) \/ DeleteStory(r) \/ WriteRefused(r)
    \/ InvalidateCache(r)

RequestFault(r) ==
    FillFails(r) \/ InvalidateFails(r) \/ DatabaseFails(r) \/ WriteReplyLost(r)

Pass(p) ==
    \/ BeginPass(p) \/ QueryPage(p)
    \/ \E s \in Stories : SweepStory(p, s) \/ SweepTooLate(p, s)
    \/ PassForgets(p) \/ PassPurges(p) \/ EndBatch(p) \/ Resume(p)

PassFault(p) ==
    \/ QueryFails(p) \/ PassCancelled(p)
    \/ \E s \in Stories : SweepFails(p, s) \/ SweepReplyLost(p, s)

Next ==
    \/ \E s \in Stories : CreateStory(s) \/ CacheExpires(s)
    \/ Tick
    \/ \E r \in Requests : BeginRequest(r) \/ Request(r) \/ RequestFault(r)
    \/ \E p \in Passes : Pass(p) \/ PassFault(p)
    \/ ApiCrash \/ WorkerCrash

Spec == Init /\ [][Next]_vars

(* Handlers and the worker's ticker run; an entry lives at most its TTL.   *)
Fairness ==
    /\ \A r \in Requests : WF_vars(Request(r))
    /\ \A p \in Passes : WF_vars(Pass(p))
    /\ \A s \in Stories : WF_vars(CacheExpires(s))

FairSpec == Spec /\ Fairness

-----------------------------------------------------------------------------
(* Properties *)

(* The author's DELETE, the ticker's pass and a forced pass may all aim at *)
(* one story: exactly one of them is told that it removed it               *)
(* (story_store.go:218-235).                                               *)
RemovedOnce ==
    \A s \in Stories :
        /\ removals[s] <= 1
        /\ removals[s] = 1 => db[s].status = "deleted"
        /\ db[s].status = "deleted" /\ faults = 0 => removals[s] = 1

(* A request that read the story before it was removed, perhaps from the   *)
(* cache, neither revives it nor edits it afterwards (story_store.go:191).  *)
FrozenOnceDeleted ==
    [][\A s \in Stories : db[s].status = "deleted" => db'[s] = db[s]]_vars

(* What the worker removes had expired, whatever happened between its query *)
(* and its delete.                                                         *)
SweepsOnlyExpired ==
    \A p \in Passes :
        /\ \A s \in batch[p] : db[s].expiresAt <= now
        /\ ppc[p] \in {"forget", "purge"} => db[current[p]].expiresAt <= now

Current(s) == Live(s) /\ cache[s] = ContentOf(db[s])

(* A cached copy differs from the row only while a writer is about to      *)
(* delete the key, or because a reader set a copy that it had read before  *)
(* the write, or because the DEL was never executed: no write path forgets *)
(* the cache.                                                              *)
StaleHasACause ==
    \A s \in Stories :
        cache[s] # NoContent /\ ~Current(s) => Doubtful(s)

(* An update that nobody overtook, on a copy that was not doubtful, changes *)
(* exactly the fields it names: a concurrent change is lost only to a       *)
(* request whose copy came from a doubtful cache entry or was overtaken by  *)
(* a write (story_store.go:188).                                           *)
LostEditHasACause ==
    [][\A r \in Requests, s \in Stories :
          /\ rpc[r] = "write" /\ rpc'[r] # "write"
          /\ task[r].op = "update" /\ task[r].story = s
          /\ db'[s] # db[s]
          /\ r \notin behind
          => db'[s] = Rewritten(db[s], Edited(ContentOf(db[s]), task[r].change))]_vars

(* Every expired story is removed in the end although a pass skips rows,   *)
(* statements fail and the worker is restarted.                            *)
ExpiredAreSwept ==
    \A s \in Stories : s \in Expired ~> db[s].status = "deleted"

(* Some time after its removal a story is out of the cache for good.       *)
DeletedIsForgotten ==
    \A s \in Stories : db[s].status = "deleted" ~> [](cache[s] = NoContent)

(* After a pass in which nothing failed (faults stay zero), what was       *)
(* expired when it began is deleted, if that was no more than one page: a  *)
(* page is asked for from the start, in the order of expiry, so stories    *)
(* that expire or vanish meanwhile displace none of them.  It fails for    *)
(* more, because the offset moves over rows the pass has deleted.          *)
OnePageIsSwept ==
    \A p \in Passes :
        ppc[p] = "idle" /\ faults = 0 /\ Cardinality(due[p]) <= BatchSize
        => \A s \in due[p] : db[s].status = "deleted"

-----------------------------------------------------------------------------
(* The rows, the cache and the requests in flight keep the promise of      *)
(* StoryService: a request is carried out at most once, on a copy that is  *)
(* still around; only what expired is removed unasked; removal is final.   *)
Open(r) ==
    /\ rpc[r] \in {"lookup", "select", "fill", "write"}
    /\ task[r].op # "read"
Asked == [r \in Requests |-> IF Open(r) THEN task[r] ELSE NoTask]

Copies ==
    [s \in Stories |->
        {c \in Content :
            \/ db[s].status # "none" /\ c = ContentOf(db[s])
            \/ cache[s] # NoContent /\ c = cache[s]
            \/ \E r \in Holders(s) : c = seen[r]}]

Service == INSTANCE StoryService WITH row <- db, copies <- Copies, asked <- Asked

ServiceSpec == Service!Spec
=============================================================================
