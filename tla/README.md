# Verification of stories-backend

TLA+ models of the stories backend (Go: an API process, a worker process,
PostgreSQL, Redis and MinIO), their model-checking configurations, and theorems
about them checked by TLAPS. The source of truth is the Go code; the
repository has no tests and no SQL schema, so what a table guarantees beyond
the statements the code sends is not assumed.

## 1. The system

| component | state it keeps | operations | interacts through |
|---|---|---|---|
| job queue `internal/worker/queue.go` | Redis sorted set `job_queue`; `isRunning`, `stopCh`, counters | Enqueue, Start, Stop, poll, execute, retry, ClearQueue | Redis; handlers of the manager |
| expiration worker `internal/worker/expiration.go` | paging offset of the running pass | pass every tick, ForceRun, Start, Stop | story rows, cached stories |
| worker manager `internal/worker/manager.go`, `cmd/worker` | context, wait group, `isRunning` | Start, Shutdown, RestartWorker, five job handlers | starts and stops the two above |
| realtime hub `internal/realtime`, `handlers/websocket.go` | `clients`, `userClients`, one send channel per client | register, unregister, broadcast, send to a user, Shutdown; ReadPump and WritePump per connection | unbuffered channels, one mutex, client channels |
| stories `storage/story_store.go`, `models/story.go`, `handlers/stories.go` | story rows; Redis keys `story:<id>` for 180 s | create, read, update, soft delete, feeds, views, reactions | hub (events), expiration worker |
| follow graph `storage/follow_store.go`, `handlers/users.go` | `follows` rows, counters in `users`, cached answers for 300 s | follow, unfollow, queries | user rows |
| reactions and views `storage/reaction_store.go`, `view_store.go` | one row per story and user | add (upsert), change, remove | story handlers, hub |
| user accounts `storage/user_store.go`, `models/user.go` | user rows; Redis keys `user:<id>` for 300 s | create, update, delete, statistics | auth, follow graph, job handlers |
| authentication `internal/auth` | none of its own: tokens are signed, the blacklist is a stub | signup, login, refresh, validate, logout, change password | user rows |
| rate limiter `middleware/ratelimit.go` | one sorted set per client and path | one Lua script per request | Redis; the worker's `cleanup_cache` job |
| media, server life cycle, storage clients, configuration, logging, health | little or none of their own | wiring, wrappers, presigned URLs | - |

What is hard here, component by component, and what makes each correct:

- *Job queue.* Several workers poll one sorted set in two commands; a job is out
  of Redis while it runs; a timed-out handler keeps running; any reply may be
  lost. Correct: one owner per job, nothing forgotten outside a failure, at most
  the allowed executions, never early, counters that add up, a stop that ends.
- *Hub.* The hub, two goroutines per connection and main share channels that
  three parties may close. Correct: no send on a closed channel, maps that agree,
  no ghost client, no goroutine blocked for ever.
- *Stories and expiration.* Row and cached copy are written in separate steps by
  two processes; updates write back what they read; passes page through a list
  that they shorten. Correct: one remover, no resurrection, only expired stories
  swept, all of them in the end, stale copies bounded and explained.
- *Follow graph.* A cached check before an insert; counters beside rows, which a
  job of the other process rewrites from an earlier count. Correct: counters equal
  the rows, one row per pair, true answers - or a known cause for each exception.
- *Accounts.* Whole-row updates from copies that may be cached, without the password
  hash, or overtaken; checks before inserts. Correct: an update changes what it
  mentions, names and addresses are unique, no copy vouches for a password.
- *Reactions and views.* An upsert that keeps the older id; read, check the owner,
  write by id. Correct: nobody touches a foreign row, what was removed stays removed,
  an id that was told has a row or a reason.
- *Worker process.* Restart and shutdown without waiting for what they stop, flags
  without a lock. Correct: one loop of each worker, flags that tell the truth,
  connections that outlive the workers, a process that ends.
- *Rate limiter.* Requests are stamped before the script that counts them runs; the key
  expires and a job of the other process deletes it. Correct: a window holds no more
  than the limit and burst, a refusal rests on what is in it, the reset time is exact.

`PROJECT.json` lists every component with its status and every hazard with its
line and the properties that cover it.

## 2. Modules

| module | models | checked by | proved in |
|---|---|---|---|
| `JobService` | what the queue promises a caller: no Redis, worker or clock | - | refined by `JobQueue` |
| `JobQueue` | `queue.go` | `MCJobQueue` | `JobQueue_proofs` |
| `RealtimeHub` | `hub.go`, `client.go`, `websocket.go` | `MCRealtimeHub` | `RealtimeHub_proofs` |
| `StoryService` | what the stories promise an author: no cache, statement or pass | - | refined by `StoryLifecycle` |
| `StoryLifecycle` | `story_store.go`, `story.go`, the story handlers and `expiration.go`, composed | `MCStoryLifecycle` | `StoryLifecycle_proofs` |
| `UserAccounts` | `user_store.go`, `user.go`, Signup, ChangePassword, UpdateCurrentUser and the lookups of `auth/service.go` | `MCUserAccounts` | `UserAccounts_proofs` |
| `FollowGraph` | `follow_store.go`, the follow handlers and the `update_user_stats` job, composed | `MCFollowGraph` | `FollowGraph_proofs` |
| `AudienceService` | what the audience of a story is promised: no ids, rows or statements | - | refined by `Reactions` |
| `Reactions` | `reaction_store.go`, `view_store.go` and the handlers ViewStory to RemoveReaction | `MCReactions` | `Reactions_proofs` |
| `WorkerProcess` | `cmd/worker/main.go`, `manager.go`, Start and Stop of both workers | `MCWorkerProcess` | `WorkerProcess_proofs` |
| `RateLimiter` | `middleware/ratelimit.go` and the `cleanup_cache` job, composed | `MCRateLimiter` | `RateLimiter_proofs` |

### JobQueue

`jobQueue` is the sorted set (a member is the record of the fields that decide
its treatment; its score is `runAt`), `pc` and `held` are the program counter and
the local `job` of each worker goroutine, `executing` the handler goroutines that
have not returned, also those whose worker gave up waiting. ZRANGEBYSCORE
(`PickNext`) and ZREM (`Claim`, `ClaimTooLate`, ...) are separate steps, as two
workers may run between them. Each Redis command can fail without effect or take
effect and lose its reply. `ProcessRestart` stands for a crash; a second Stop
(close of a closed channel) and a panicking handler end the process as well.
`fate`, `attempts`, `failedAt`, `faults`, `past` (what an earlier process settled) and
`executions` (handler invocations of this process) are history: guards read only `fate`
in `Enqueue` (a fresh UUID each time) and the fault budget. go-redis repeats a command
whose reply it missed: a repeated ZADD of the same member is the same ZADD, and a ZREM
that removed the member and answers 0 the second time is `ClaimReplyLost`. The retries
themselves are the library's and not modelled. The clock is in
minutes; Redis scores are whole seconds, so "not before k minutes" is meant up to
the second that truncation costs. `config.Enabled` is taken to be true: by
default it is not (section 3), and then Start returns at once.
A member that cannot be parsed is never written by this code.

### RealtimeHub

`hubPc`/`hubClient`/`hubTodo` are the hub goroutine inside `Run`, `handler`, `rp`
and `wp` the goroutines of each connection. The mutex is the predicate
`MutexFree`. `Client.Send` is three steps - try, close, delete - because another
goroutine can act between them; the loop of `broadcastEvent` visits clients one by
one. A channel is a count and a closed flag. Sending on or closing a closed
channel records the cause in `panic`; a panic of the hub ends the process at once,
one in a ReadPump first runs its deferred calls. `overflowed`, `shut` and `victim` are
history: whose channel a send found full, whose Shutdown closed, and whom the panic is
about. With them the properties speak of each client: an overflow or a Shutdown excuses
the client it befell and no other.
Two facts of the code that the model keeps and that no property condemns: a
client dropped by an overflow stays in `userClients` for good (`UnregisterUnknown`),
and so `IsUserConnected` may answer true for a user without connections.

### StoryLifecycle

A database statement or a Redis command is one step, everything between two is
local. `rpc`/`task`/`seen` are the requests in flight; `GetByID` is `CacheHit`, or
`CacheMiss`, `SelectRow` and `Fill`; writes are followed by `InvalidateCache`. A
pass is `BeginPass`, `QueryPage` (LIMIT/OFFSET over the rows that are expired at
that moment, ties in any order), one `SweepStory` per row with its two DELs, and
`EndBatch`. Requests that are refused have only read and are "read" here. `removals`,
`overtaken`, `behind`, `due` and `faults` are history: `behind` holds the requests whose
copy came from a doubtful cache entry or was overtaken by a write. `NOW()` of the database is the only
clock: the creator's clock (`expires_at` is computed in the API process) is taken
to agree with it. The key `user_stories:<author>` is deleted but never written or
read, and `IncrementViewCount` has no caller: both are left out.

`StoryService` sees of all this the rows, what each request still asks for (`Asked`: from
the start of a write request until its statement, not until its answer) and the contents
of a story that the row, the cache or a request still holds (`Copies`). An edit there
changes the fields it names and takes the others from one of the copies: the service
promises that much and, since the code merges in the handler, no more.

### UserAccounts

`row` and `cache` are the users table and the keys `user:<id>`; `pc`, `task` and
`copy` are the requests in flight and the `*models.User` each has loaded. A cached
copy has no password hash (`Public`, `FromCache`), because the field is tagged
`json:"-"`. Signup is `SignupEmail`, `SignupUsername`, `Create`; `GetByID` is
`CacheHit`, or `CacheMiss`, `SelectRow` and `Fill`; then `CheckName` for a profile
that changes the name, `Verified` for a password change, `Update` of every column and
`Drop`. Where the code tests `err == nil && existingUser != nil`, a failed lookup
counts as "free" (`LookupFails`). `Read` stands for the requests that only look an
account up by id: ValidateToken, RefreshToken, GetUser. A password stands for its
hash, the name for all fields of a profile. `stale` is history: what the request
holds came from the cache, was overtaken by a write, or was never looked up. The
repository has no schema; unique indexes, if the database has them, only remove
behaviours (a `Create` that fails is `Abandon`).

### FollowGraph

`follows` is the table, `followers` and `following` the counters in `users`,
`cache` the answers of `IsFollowing`. A transaction is one step that may fail
(`Abandon`): `Create` inserts the row and adds to both counters, `DeleteByUsers`
removes every row of the pair and takes one off each. FollowUser and UnfollowUser
decide on an answer that came from the cache (`CacheHit`), from a count (`Count`,
`Fill`) or, after a failed query, from nothing (`CountFails`, and the request goes
on). A worker runs the job as `GetFollowStats` and, later, `UpdateStats`.
`overtaken`, `behind`, `drifted` and `suspect` are history.
Crossing follows (a follows b while b follows a) lock the two user rows in opposite
order; PostgreSQL aborts one transaction, which is a failed `Create` here.

### Reactions

`reactions` and `views` are the two tables, with the uniqueness that the code states
in `ON CONFLICT (story_id, user_id)`. AddReaction and ViewStory write first and look
for the story afterwards, only to find whom to tell (`Notify`); UpdateReaction and
RemoveReaction read a row (`Load`), compare its owner, and write by id (`Update`,
`Delete`). `answered`, `events`, `removed` and `swallowed` are history: the ids that
clients and authors were told and what became of them. One fact the model shows and
no property condemns: the answer and the event of a second reaction carry the new
id, while the upsert keeps the row under the old one, so that an update or removal
by the id just received finds nothing.

`AudienceService` sees one reaction per story and user (`Reaction`: the row of the pair,
whatever its id), what each request asks for from its start to its answer (`Asked`), which
of them took effect (`Done`: the row is written, the answer is not) and what the authors
heard (`News`). There a request takes effect in one step, at most once; that the code
reads, compares and writes in separate steps, and that a row may be gone or replaced in
between, must not show. A change there hits some reaction of its user: which one an id
names is the matter of `IdsAndEventsHaveRecords`.

### WorkerProcess

`main` is where `main.go` and, inside it, `Shutdown` are; `mu` is the manager's lock;
`role` and `at` are the goroutines that run a worker's Start; `running` and `stopped`
are `isRunning` and the closed `stopCh` of each worker; `waiter` says which worker
waits for a handler or that it gave up waiting. One polling goroutine stands for the
queue's pool (`JobQueue` has the pool), one busy state for a pass (`StoryLifecycle`
has the pass). `isRunning` is read and written without a lock, so Start tests it
(`CheckRunning`) and sets it (`SetRunning`) in two steps. RestartWorker is exported
and has no caller in the program: the model lets an operator call it at any time,
one call at a time, as its lock does. `restarted` and `overlapped` are history.
What the model shows beyond its properties: `stopCh` is made once, so a restarted
worker finds it closed and returns at once; a second restart, or a shutdown, while
it still runs closes the channel again and panics; a restart between the test and
the assignment of `isRunning` runs the loop twice; and Shutdown, even when every
worker has returned, may close the database under a handler whose worker stopped
waiting for it (`processJob` leaves when the cancelled context is done).

### RateLimiter

`entries` is the sorted set of one client and path. Its members are their own scores,
so it is a set of seconds. `stamp` is the `now` that `checkRateLimit` takes before it
sends the script, hence a request may be stamped (`Arrive`) and counted (`Allow`,
`Deny`) with any other requests in between. The script is one step, as Redis runs it;
`ReplyLost` and `Unreachable` are the errors that let a request pass, and the first has
run the script. `Expire` removes the key in the second that EXPIRE named, at the latest
when that second ends; `FindKeys` and `DeleteKeys` are KEYS and DEL of `cleanup_cache`.
One clock stands for the API servers' and Redis's; a delayed script has the effect of
an API server whose clock is behind.

`WindowBound` is about requests whose script ran in the order of the stamps
(`InOrder`): a script with a later stamp trims seconds that an older one still needs,
so an overtaken request may be one too many. `ResetIsExact` says that after a refusal
a request in order passes if and only if its stamp has reached the reset time, as long
as nothing else is recorded. `RefusedOnlyWhenFull` holds for every request. `WindowBound`
counts from the last cleanup on, so a window with one cleanup in it lets at most twice
the limit and burst through. `forgiven` holds the requests recorded before the last DEL,
also those that came between KEYS and DEL: `RefusedOnlyWhenFull` does not let a refusal
rest on any of them, so a cleanup that misses the key it found breaks it.

## 3. Runs

Passing runs:

| run | instance | shows |
|---|---|---|
| `job_queue` | 2 jobs, 2 workers, limits 2 and 1, delays 0 and 1, clock to 2, 1 fault | `SingleCopy`, `LiveJobsAreKept`, `AttemptsBounded`, `RetrySpacing`, refinement of `JobService` |
| `job_queue_live` | the same, one job without a handler, fair | `JobAdvances`, `StopDrains`, `StatsMatchFates` |
| `hub` | 2 connections of 1 user, capacity 1 | `PanicHasACause`, `MapsAgree`, `NoGhostClient`, `BatchIsBuffered` |
| `hub_live` | 1 connection, fair | `HubServesAll`, `DeadClientReleased` |
| `story_edits` | 1 story, 2 texts, 2 requests, 2 passes, 1 fault | `RemovedOnce`, `FrozenOnceDeleted`, `SweepsOnlyExpired`, `StaleHasACause`, `LostEditHasACause`, refinement of `StoryService` |
| `story_live` | 2 stories, 1 request, 1 pass at a time, page of 1, offsets 0 and 1, 1 fault, fair | `OnePageIsSwept`, `ExpiredAreSwept`, `DeletedIsForgotten` |
| `accounts` | 2 accounts, 2 names, 2 addresses, 1 password, 2 requests | `LostUpdateHasACause`, `TwinsHaveACause`, `PasswordChangeIsVouched` |
| `follow` | 2 users, 1 pair, 2 rows at most, 2 requests, 1 job worker, counters to 2 | `CountersExactUnlessDrifted`, `CacheTruthful`, `DuplicateHasACause` |
| `reactions` | 1 story, its author and a viewer, 2 kinds, 3 ids, 2 requests | `IdsAndEventsHaveRecords`, `OwnReactionOnly`, `NoResurrection`, refinement of `AudienceService` |
| `worker_process` | 3 goroutines, 2 handlers, queue enabled, fair | `FlagTruthful`, `LoopsEndBeforeClose`, `ShutdownCompletes` |
| `rate_limiter` | 4 requests, window of 3 s, limit 1, burst 1, clock to 5 | `WindowBound`, `ResetIsExact`, `RefusedOnlyWhenFull` |

No run spends time on a type invariant: every module's `TypeOK` is proved for all constants
(section 4), with what it says of capacities (a channel never holds more than it may), of
counters (never below zero) and of unique ids and pairs.

Why the bounds suffice: two workers, two requests and two passes are the fewest
that race, and every race of the code is between two of them over one member, one
client or one row. A limit of two executions has a first, a retried and a last
attempt; a clock of two minutes holds a retry delay and a time before and after
it. Capacity 1 makes a channel empty, partly drained and full (256 differs only in
how long that takes). One fault may strike at every statement; a second one meets
states that the first could have produced by striking later. A page of one over
two rows already needs a second page. Two accounts can share
a name, and one of two requests can overtake the other between any two statements.
Two rows of one pair are the fewest that make a duplicate; `MaxCount` bounds a counter
that drifts upwards, where two is one more than the pair needs. Three ids are a row,
one that an upsert swallows and one after a removal. Three goroutines are the two of
Start and one restart, so two loops of one worker can overlap. One password
suffices, since the empty hash of a cached copy is a second value of the column; two
passwords are in `profile_wipes_password`. A job that recounts
races with requests; a second job could only write counts that are as old. Of four
requests two fill a window, a third is refused and a fourth comes back after the reset
time; a clock to five lets a window of three pass. The proofs remove the
bounds for the safety properties, `MaxCount` excepted.

`story_edits` makes `MaxOffset` 0, so that a pass ends at its first page; the two texts
are interchangeable, and the only visibility is a field that no request needs to change.
`story_live` has the pauses and the further pages: with pages of one and `MaxOffset` 1 a
pass whose first UPDATE fails and whose second page is full is ended by the offset cap with
the first row left, which `ExpiredAreSwept` leaves to later passes. More rows than the cap
lets a pass reach without any failure need three stories, which a run has no time for.
Deadlock is not checked: every process may legitimately stop (a clock at its bound,
a queue that was stopped, a process that ended, ids used up), and the liveness
properties say what must still happen.

The violated run, a finding in `PROJECT.json`:

| run | the code | what it says of itself |
|---|---|---|
| `profile_wipes_password` | a profile update writes back the copy that RequireAuth got from the cache, whose password hash is empty | `handlers/users.go:47` "updates the current user's profile" |

Disagreements met while modelling that have no run of their own. The behaviours
are in the models; the properties above name them as causes or exceptions.

- `GetByID` selects a story and sets the cached copy in two steps, so a reader can
  set what it selected before a write, after that write's DEL ("Invalidate cache",
  `story_store.go:237`); the copy stays until its 180 s are over. `StaleHasACause`
  says this is the only way besides a DEL that is under way or was lost.
- An update of a story writes text and visibility both; `models/story.go:100`
  "updates story fields from request", yet a field the request leaves out is written
  back with the value read before, which undoes a concurrent change (`Edited`).
  `LostEditHasACause` names the only two ways to lose one, and `StoryService` says what
  may be written back.
- `config.go:231` and `.env.example:115` give the expiration worker a batch size of
  1000, but the field is read from the nested key `expiration_worker.batch_size`,
  to which neither maps, and `normalizeWorkerConfigs` repairs only the intervals:
  by default the size is 0, `GetExpired` asks for LIMIT 0, and nothing is removed.
  `BatchSize` is positive in the runs. QUEUE_WORKER_ENABLED has the same gap, so the
  queue is disabled by default.
- `expiration.go:101` says a pass "processes and deletes expired stories", but the offset
  advances over rows that the pass has deleted: every second page is skipped until a
  later pass. `OnePageIsSwept` therefore speaks of one page, and `ExpiredAreSwept` of
  what later passes do.
- The rate limiter's script says it counts "current requests" (`ratelimit.go:79`), and
  `:124` reads a limit as "5 requests per minute with 2 burst". The member it adds is
  the second of the request, so the requests of one second count once and it limits
  seconds. With the defaults (`config.go:203`: 60 and 10, in 60 seconds) it never refuses
  a request in order: theorem `NeverRefuses`.
- `manager.go:293` "cleans up expired cache entries": the job deletes every window of the
  rate limiter, which expires by itself, and so only those that are still in use.
- `Hub.Shutdown` "gracefully shuts down the hub" (`hub.go:300`) and closes every
  channel while ReadPumps may still answer their peers: a late answer panics.
  `PanicHasACause` excuses only this and a client's own overflow; the hub itself
  never meets a channel that Shutdown closed.
- The mutex is "for thread-safe operations" (`hub.go:36`), but `Client.Send` deletes
  from `clients` without it and `broadcastMessage` under the read lock (`MapRace`).
- `manager.go:190` reports "All workers stopped gracefully" although handlers that
  were left behind may still use the database that is closed next.
- `queue.go:338` calls a delay that grows linearly "exponential backoff".

### Fairness

Goroutines are scheduled, so a step of a goroutine that stays enabled happens
(weak fairness on worker steps, hub loop, pumps, requests, passes, Shutdown). A Go
`select` chooses at random among ready cases, so a waiting sender or a closed
`stopCh` that is ready again and again is taken in the end: strong fairness on
`WorkerReturns` and on the hub's three receives. In `JobQueue`, `Start` is fair
while nobody asked for a stop: the worker process starts the queue. Database and
Redis answer within their timeouts, as a result or as a fault; faults are bounded
and never fair. Redis removes a key at the end of its time to live
(`CacheExpires`). In `WorkerProcess` the timers fire (`DeadlinePasses`,
`RestartStarts`), main goes on (`MainNext`), and `sync.RWMutex` does not starve a
writer: strong fairness on `Shutdown`, since restarts may take the lock again and
again. That a pass or a handler ever ends is not assumed: `ShutdownCompletes` holds
without it. Callers, peers, operators and crashes owe nothing.

## 4. Proofs

All theorems hold for every value of the constants that the named assumptions
allow: `JobQueueAssumption`, `HubAssumption`, `StoryAssumption` (typing, a capacity of
at least one, a story that lives at least one tick: `models/story.go:56` asks for an hour
and `handlers/stories.go:67` validates it), `AccountAssumption`, `ReactionAssumption`, `ProcessAssumption` (the
marks for "nothing" are no values; every story has an author),
`FollowAssumption` (nobody follows himself, which the handlers refuse) and
`LimiterAssumption` (a window of at least a second, a limit or a burst above zero).

- **Job queue.** `TypeCorrect` first. `OneCopy` and `NothingForgotten` follow from
  `Custody`: the two invariants together with `PoolStopped` (no worker exists
  outside Start), which the restart cases need; each of the two is inductive only
  with the other, since an owner is what makes a job that left Redis live.
  `RetriesBounded` needs `Counting`: the attempts written in the member, or in the
  worker's copy, equal the executions so far and stay below the limit until the
  handler runs, which ties the count that travels through Redis to the history.
  `DelaysRespected` needs `Spacing`: every member is scheduled at least its attempt
  count after the last failure of its job, and a picked one was due. `Implements`
  combines them: each action is an action of `JobService` or a stutter under
  the mapping `Status`. `CountersMatchOutcomes` compares counters with cardinalities, which
  mean nothing for infinite sets: `Books` adds that only finitely many jobs have an
  outcome and finitely many workers wait for a handler at any time, and that what an
  earlier process settled stays settled; `OpenJobs`, from `Custody`, says that a job which
  a worker settles had no outcome before, so that the set grows by exactly one when its
  counter does. It holds whatever fails: a ZADD of a retry that returned an error, with or
  without effect, is one more in the difference of JobsFailed and JobsRetried, at most one
  for each fault.
- **Hub.** `Strong` = types, `Lifecycle` (which goroutines of a connection can be
  where, and when it may be registered), `MutexExclusive`, `Reachable` (a registered
  client is in its user's list), `Quiet` (for each client that has not overflowed: the
  hub's loop visits it only while it is registered, its user's list names it only while
  the map does, its channel is open while it is registered and Shutdown has not reached it,
  and a closed channel is that of a connection which is leaving or which Shutdown closed)
  and `PanicHasACause`. The checked invariants are not inductive alone:
  that nobody sends on a closed channel depends on where every goroutine of the
  connection is. `NoGhosts`, `BatchesAreBuffered`, `PanicsHaveACause` and
  `MapsStayTogether` follow.
- **Stories.** `TypeCorrect` first. `RowSteps` says what any step may do to a row
  and its removal count; `RemovalsAreCounted` and `DeletedStaysFrozen` follow from
  it. `OnlyExpiredAreSwept` uses `PagesExpired`: expiry times never change and the
  clock never goes back, so what a page contained stays expired.
  `OnePageSuffices` speaks of a whole pass: as long as nothing failed, a due story is gone
  or on the page that the pass holds (`PageCovers`), and every story that is due is
  older than any that expires later (`DueFirst`), since a new story lives at least one
  tick; so a page of `BatchSize` rows from the start, in the order of expiry, holds all
  that is due (`PageHoldsDue`), if that is no more than `BatchSize`. The stories in
  existence are finitely many (`KnownStaysFinite`), without which a page would have no
  size.
  `StaleCopiesExplained` and `LostEditsExplained` need each other: a request's copy is
  the row, unless the request is behind (`CopyFresh`), because it took it from the row or
  from a cache entry that was not doubtful; and the cached copy is the row unless
  doubtful (`CopyOK`), because it was set by such a request. `StandingBy` is the step of
  somebody else, `OwnCopyFresh`, `RequestCopyOK`, `PassCopyOK` and `OtherCopyOK` are the
  others.
  `StoriesKeepTheirPromise` is the refinement. What a request goes on with was held
  somewhere before (`OwnCopyIsACopy`, `CacheFromCopies`), so only a write makes new
  content (`WriteImplements`); a story that is published leaves no trace before
  (`StaysBlank`), and what a pass removes has expired (`PagesExpired`). A step that leaves
  the rows alone can only end requests and lose copies (`GivesUp`).
- **Accounts.** `AccountsTypeCorrect` first. The strengthening is `Holds`, for each
  request: unless it is `stale`, the copy it has loaded is the row, and the name and
  the address it found free still are; a copy under a password change carries the
  hash it was verified against, stale or not. Every write is `Put`, which marks the
  requests it refutes (`OthersNotice`); `OwnStepHolds` treats a request's own steps.
  `LostUpdatesExplained`, `PasswordChangesVouched` and `TwinsExplained` are then facts
  about the two writing steps.
- **Follow graph.** Two inductive invariants. `CountsInv`: the rows are finite, a count
  that nobody overtook is exact (`JobExact`), and the counters are; the steps compare
  cardinalities before and after (`OneMore`, `CreateRows`), which is why a pair with
  two rows breaks them. `AnswersInv`: an answer that is neither cached nor overtaken
  is the truth (`Honest`), and a cached one has its cause. `DuplicatesExplained`
  follows from `Honest` at the insert.
- **Reactions.** `TableStep` says what any step may do to the table: upsert a fresh id,
  change a type, remove a row of the requester. `Safe`, `Distinct` and `GoneIsGone`
  (ids in use are drawn once; gone and stored are disjoint) make it inductive; the
  action properties are read off it. `AudienceKeepsItsPromise` is the refinement: a step
  that touches the rows of one pair shows in `Reaction` there and nowhere else
  (`OnePairChanges`, which needs unique pairs), and what a change finds under its id is its
  user's only row for that story, or nothing (`OwnRow`, from `Safe`); then the request
  ends without effect (`Leaves`).
- **Worker process.** `ProcessTypeCorrect` with `OneWaiter` (a handler has one waiter),
  `OneLoop` and `FirstStart` (before a restart each worker is started by one
  goroutine) give `FlagsTruthful`. `ClosesLast` needs `Drained`: once Shutdown is past its
  wait without a deadline nothing runs, and because it holds the lock nothing starts.
- **Rate limiter.** The set is bounded (`Bounded`), holds only recorded seconds
  (`FromRecords`) that are not ahead of the latest stamp and do not outlive the key
  (`NotAhead`), and misses no counted second of the latest window (`Remembered`), which
  the expiry keeps because of `NotAhead`. `WindowBound` follows since the window a new
  second falls into lies wholly in the set. `PromiseKept`: behind a binding refusal is
  a full set whose oldest second gives the reset time, or the key has expired.
  `RefusalJustified` needs of `FromRecords` that a second of the set is the stamp of a
  request recorded since the last DEL, which empties the set and forgives in one step.
  `NeverRefuses` has no run: it says what the default configuration amounts to.

Only model-checked is what needs fairness: `JobAdvances`, `StopDrains`, `HubServesAll`,
`DeadClientReleased`, `ExpiredAreSwept`, `DeletedIsForgotten` and `ShutdownCompletes`,
since liveness and ENABLED are out of this prover's reach. Every invariant and every
action property that a passing run checks is a theorem. No definition here is recursive.

## 5. Not modelled, and the plan

Not modelled, with the reason:

- *Tokens.* They are signed and stateless, nothing is stored when one is issued, and
  the blacklist and `RevokeAllUserTokens` are stubs that store nothing
  (`auth/service.go:355-420`): there is no token state yet. A `TokenLifecycle` module
  belongs beside the blacklist once it is written.
- *The job handlers besides the statistics and the cleanup job.* They only log.
- *Media* (presigned URLs, no state), *CORS, logging, metrics, health, validation,
  configuration parsing* (pure functions or I/O), *feeds, lists and suggestions*
  (read-only queries), scripts and deployments.
- *Code without callers:* `UserStore.Delete`, `FollowStore.Delete`,
  `IncrementViewCount`.

What would add most next, in this order: abstract tables that `FollowGraph` and
`UserAccounts` implement, as the stories and the reactions have them; the composition of the API's shutdown with the hub.
