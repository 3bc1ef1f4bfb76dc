----------------------------- MODULE FollowGraph -----------------------------
(***************************************************************************)
(* The follow graph: the rows of the follows table, the two counters that  *)
(* the users table keeps of them, the cached answers of IsFollowing (key   *)
(* follow:<a>:<b>, 300 s), the requests FollowUser, UnfollowUser and       *)
(* GetUser, and the update_user_stats job that counts again                *)
(* (storage/follow_store.go, handlers/users.go, storage/user_store.go,     *)
(* worker/manager.go).                                                     *)
(*                                                                         *)
(* A statement to the database or to Redis is one step, a transaction is   *)
(* one step that may fail: the code states no uniqueness of a pair, so a   *)
(* second row is possible unless the database refuses it.  The lookup of   *)
(* the target user comes first and is UserAccounts's; the story counter    *)
(* that the job also writes has no other writer and is left out.           *)
(* FollowStore.Delete, by id, has no caller.                               *)
(***************************************************************************)
EXTENDS Naturals, FiniteSets

CONSTANTS Users,
          Pairs,       \* <<follower, followee>>: who may follow whom
          FollowIds,   \* ids of rows; a new row draws an unused one
          Requests,    \* API requests that may be in flight at one time
          Workers,     \* job workers that may run update_user_stats
          MaxCount     \* bound: a counter that drifts upwards stops here

Nobody == "nobody"

(* Nobody follows or unfollows oneself.  GetUser does ask whether one      *)
(* follows oneself; that answer is always no and is left out.              *)
ASSUME FollowAssumption ==
    /\ Nobody \notin Users
    /\ Pairs \in SUBSET {p \in Users \X Users : p[1] # p[2]}
    /\ MaxCount \in Nat

VARIABLES
    follows,     \* the rows: [id, follower, followee]
    followers,   \* users.follower_count
    following,   \* users.following_count
    cache,       \* the cached answer for each pair
    pc,          \* where each request is
    req,         \* what it does: [op, pair]
    answer,      \* what IsFollowing told it
    job          \* what each worker has counted: [user, followers, following]

(* History: not in the program, read only by the properties.               *)
VARIABLES
    overtaken,   \* requests whose answer was cached or is out of date
    behind,      \* workers whose counts are out of date
    drifted,     \* users whose counters were set wrong
    suspect      \* pairs with an answer cached late or not removed

rows == <<follows, followers, following>>
control == <<pc, req, answer>>
vars == <<rows, cache, control, job, overtaken, behind, drifted, suspect>>

Rows == [id : FollowIds, follower : Users, followee : Users]
Answers == {"yes", "no", "unknown"}
Request == [op : {"follow", "unfollow", "look"}, pair : Pairs]
NoRequest == [op |-> "none", pair |-> <<Nobody, Nobody>>]
Counted == [user : Users, followers : Nat, following : Nat]
NoJob == [user |-> Nobody, followers |-> 0, following |-> 0]

TypeOK ==
    /\ follows \in SUBSET Rows
    /\ followers \in [Users -> Nat]
    /\ following \in [Users -> Nat]
    /\ cache \in [Pairs -> {"none", "yes", "no"}]
    /\ pc \in [Requests -> {"idle", "ask", "fill", "write", "drop"}]
    /\ req \in [Requests -> Request \cup {NoRequest}]
    /\ answer \in [Requests -> Answers]
    /\ job \in [Workers -> Counted \cup {NoJob}]
    /\ overtaken \in SUBSET Requests
    /\ behind \in SUBSET Workers
    /\ drifted \in SUBSET Users
    /\ suspect \in SUBSET Pairs
    /\ \A r \in Requests :
          /\ pc[r] # "idle" => req[r] \in Request
          /\ pc[r] \in {"write", "drop"} => req[r].op # "look"

Init ==
    /\ follows = {}
    /\ followers = [u \in Users |-> 0]
    /\ following = [u \in Users |-> 0]
    /\ cache = [p \in Pairs |-> "none"]
    /\ pc = [r \in Requests |-> "idle"]
    /\ req = [r \in Requests |-> NoRequest]
    /\ answer = [r \in Requests |-> "unknown"]
    /\ job = [w \in Workers |-> NoJob]
    /\ overtaken = {}
    /\ behind = {}
    /\ drifted = {}
    /\ suspect = {}

-----------------------------------------------------------------------------
(* Rows and counters *)

RowsOf(p) == {f \in follows : f.follower = p[1] /\ f.followee = p[2]}
Followers(u) == {f \in follows : f.followee = u}
Following(u) == {f \in follows : f.follower = u}

(* COUNT of the pair's rows > 0.                                           *)
IsFollowing(p) == IF RowsOf(p) # {} THEN "yes" ELSE "no"

(* GREATEST(count - 1, 0).                                                 *)
Decremented(n) == IF n = 0 THEN 0 ELSE n - 1

(* The transaction of request r on pair p outdates what others have read.  *)
Outdates(r, p) ==
    /\ overtaken' = (overtaken \ {r}) \cup
          {q \in Requests \ {r} : req[q].pair = p /\ pc[q] \in {"fill", "write"}}
    /\ behind' = behind \cup {w \in Workers : job[w].user \in {p[1], p[2]}}

-----------------------------------------------------------------------------
(* Requests *)

Goto(r, from, to) ==
    /\ pc[r] = from
    /\ pc' = [pc EXCEPT ![r] = to]

Respond(r, from) ==
    /\ Goto(r, from, "idle")
    /\ req' = [req EXCEPT ![r] = NoRequest]
    /\ answer' = [answer EXCEPT ![r] = "unknown"]
    /\ overtaken' = overtaken \ {r}

Begin(r) ==
    /\ Goto(r, "idle", "ask")
    /\ \E q \in Request : req' = [req EXCEPT ![r] = q]
    /\ UNCHANGED <<rows, cache, answer, job, overtaken, behind, drifted, suspect>>

(* 409 for a second follow, 404 for an unfollow of nobody.  An answer that *)
(* could not be had is logged, and the request goes on.  Mutant: the       *)
(* second follow is not refused.                                           *)
OnlyUnfollowSettled(op, a) == op = "look" \/ (op = "unfollow" /\ a = "no")
Settled(op, a) ==
    op = "look" \/ (op = "follow" /\ a = "yes") \/ (op = "unfollow" /\ a = "no")

Decide(r, from, a) ==
    \/ Settled(req[r].op, a) /\ Respond(r, from)
    \/ /\ ~Settled(req[r].op, a)
       /\ Goto(r, from, "write")
       /\ answer' = [answer EXCEPT ![r] = a]
       /\ overtaken' = IF from = "ask" /\ a # "unknown" THEN overtaken \cup {r} ELSE overtaken
       /\ UNCHANGED req

CacheHit(r) ==
    /\ pc[r] = "ask"
    /\ cache[req[r].pair] # "none"
    /\ Decide(r, "ask", cache[req[r].pair])
    /\ UNCHANGED <<rows, cache, job, behind, drifted, suspect>>

(* A miss, or an unreachable cache, changes nothing: the count follows.    *)
Count(r) ==
    /\ Goto(r, "ask", "fill")
    /\ answer' = [answer EXCEPT ![r] = IsFollowing(req[r].pair)]
    /\ UNCHANGED <<rows, cache, req, job, overtaken, behind, drifted, suspect>>

CountFails(r) ==
    /\ pc[r] = "ask"
    /\ Decide(r, "ask", "unknown")
    /\ UNCHANGED <<rows, cache, job, behind, drifted, suspect>>

(* SET follow:<a>:<b>; its error is ignored.                               *)
Fill(r) ==
    LET p == req[r].pair IN
    /\ pc[r] = "fill"
    /\ \/ /\ cache' = [cache EXCEPT ![p] = answer[r]]
          /\ suspect' = IF r \in overtaken THEN suspect \cup {p} ELSE suspect \ {p}
       \/ UNCHANGED <<cache, suspect>>
    /\ Decide(r, "fill", answer[r])
    /\ UNCHANGED <<rows, job, behind, drifted>>

(* FollowStore.Create: the row and both counters, in one transaction.      *)
Create(r) ==
    LET p == req[r].pair IN
    /\ Goto(r, "write", "drop")
    /\ req[r].op = "follow"
    /\ followers[p[2]] < MaxCount /\ following[p[1]] < MaxCount
    /\ \E i \in FollowIds \ {f.id : f \in follows} :
          follows' = follows \cup {[id |-> i, follower |-> p[1], followee |-> p[2]]}
    /\ followers' = [followers EXCEPT ![p[2]] = @ + 1]
    /\ following' = [following EXCEPT ![p[1]] = @ + 1]
    /\ Outdates(r, p)
    /\ UNCHANGED <<cache, req, answer, job, drifted, suspect>>

(* FollowStore.DeleteByUsers: every row of the pair, one off each counter. *)
(* Mutant: the statement of FollowStore.Delete, which leaves the counters. *)
DeleteRowsOnly(r) ==
    LET p == req[r].pair IN
    /\ Goto(r, "write", "drop")
    /\ req[r].op = "unfollow"
    /\ RowsOf(p) # {}
    /\ follows' = follows \ RowsOf(p)
    /\ Outdates(r, p)
    /\ UNCHANGED <<followers, following, cache, req, answer, job, drifted, suspect>>

DeleteByUsers(r) ==
    LET p == req[r].pair IN
    /\ Goto(r, "write", "drop")
    /\ req[r].op = "unfollow"
    /\ RowsOf(p) # {}
    /\ follows' = follows \ RowsOf(p)
    /\ followers' = [followers EXCEPT ![p[2]] = Decremented(@)]
    /\ following' = [following EXCEPT ![p[1]] = Decremented(@)]
    /\ drifted' = IF Cardinality(RowsOf(p)) > 1 THEN drifted \cup {p[1], p[2]} ELSE drifted
    /\ Outdates(r, p)
    /\ UNCHANGED <<cache, req, answer, job, suspect>>

(* No row affected: ErrNotFound.                                           *)
DeleteNothing(r) ==
    /\ pc[r] = "write"
    /\ req[r].op = "unfollow"
    /\ RowsOf(req[r].pair) = {}
    /\ Respond(r, "write")
    /\ UNCHANGED <<rows, cache, job, behind, drifted, suspect>>

(* invalidateFollowCaches: DEL follow:<a>:<b>.  Mutant: the ids are        *)
(* swapped, the key of this pair stays.                                    *)
DropReversed(r) ==
    /\ Respond(r, "drop")
    /\ UNCHANGED <<rows, cache, job, behind, drifted, suspect>>

Drop(r) ==
    /\ Respond(r, "drop")
    /\ cache' = [cache EXCEPT ![req[r].pair] = "none"]
    /\ suspect' = suspect \ {req[r].pair}
    /\ UNCHANGED <<rows, job, behind, drifted>>

(* A statement fails, the client goes away or the process stops.  A failed *)
(* DEL is ignored and leaves the answer in the cache.                      *)
Abandon(r) ==
    /\ pc[r] # "idle"
    /\ Respond(r, pc[r])
    /\ suspect' = IF pc[r] = "drop" THEN suspect \cup {req[r].pair} ELSE suspect
    /\ UNCHANGED <<rows, cache, job, behind, drifted>>

CacheExpires(p) ==
    /\ cache[p] # "none"
    /\ cache' = [cache EXCEPT ![p] = "none"]
    /\ suspect' = suspect \ {p}
    /\ UNCHANGED <<rows, control, job, overtaken, behind, drifted>>

RequestNext(r) ==
    \/ Begin(r) \/ CacheHit(r) \/ Count(r) \/ CountFails(r) \/ Fill(r)
    \/ Create(r) \/ DeleteByUsers(r) \/ DeleteNothing(r) \/ Drop(r) \/ Abandon(r)

-----------------------------------------------------------------------------
(* The update_user_stats job *)

(* Both counts are read by one statement.                                  *)
GetFollowStats(w) ==
    /\ job[w] = NoJob
    /\ \E u \in Users :
          job' = [job EXCEPT ![w] = [user |-> u,
                                     followers |-> Cardinality(Followers(u)),
                                     following |-> Cardinality(Following(u))]]
    /\ UNCHANGED <<rows, cache, control, overtaken, behind, drifted, suspect>>

UpdateStats(w) ==
    LET u == job[w].user IN
    /\ job[w] # NoJob
    /\ followers' = [followers EXCEPT ![u] = job[w].followers]
    /\ following' = [following EXCEPT ![u] = job[w].following]
    /\ drifted' = IF w \in behind THEN drifted \cup {u} ELSE drifted \ {u}
    /\ job' = [job EXCEPT ![w] = NoJob]
    /\ behind' = behind \ {w}
    /\ UNCHANGED <<follows, cache, control, overtaken, suspect>>

(* The handler returns an error or its process stops; a retry counts again. *)
JobFails(w) ==
    /\ job[w] # NoJob
    /\ job' = [job EXCEPT ![w] = NoJob]
    /\ behind' = behind \ {w}
    /\ UNCHANGED <<rows, cache, control, overtaken, drifted, suspect>>

WorkerNext(w) == GetFollowStats(w) \/ UpdateStats(w) \/ JobFails(w)

Next ==
    \/ \E r \in Requests : RequestNext(r)
    \/ \E w \in Workers : WorkerNext(w)
    \/ \E p \in Pairs : CacheExpires(p)

Spec == Init /\ [][Next]_vars

-----------------------------------------------------------------------------
(* Properties *)

(* The counters are kept by increments beside the rows, and rewritten by   *)
(* the job from a count it made earlier.  They are the numbers of rows     *)
(* unless an unfollow removed several rows for one decrement, or the job   *)
(* wrote a count that a follow or unfollow had overtaken; a count that     *)
(* nobody overtook makes them right again.                                 *)
CountersExactUnlessDrifted ==
    \A u \in Users \ drifted :
        /\ followers[u] = Cardinality(Followers(u))
        /\ following[u] = Cardinality(Following(u))

(* FollowUser asks IsFollowing before it inserts.  A pair gets a second    *)
(* row only by a request whose answer came from the cache, could not be    *)
(* had, or was overtaken by another follow of the same pair.               *)
DuplicateHasACause ==
    [][\A p \in Pairs : RowsOf(p) # {} /\ ~(RowsOf(p)' \subseteq RowsOf(p))
          => \E r \in Requests :
                /\ pc[r] = "write" /\ pc'[r] = "drop" /\ req[r].pair = p
                /\ r \in overtaken \/ answer[r] = "unknown"]_vars

(* A cached answer of IsFollowing disagrees with the rows only while the   *)
(* request that changed them has yet to remove it, or if that removal      *)
(* failed, or if a reader stored what it had counted before the change.    *)
CacheTruthful ==
    \A p \in Pairs : cache[p] \in {"none", IsFollowing(p)}
        \/ p \in suspect
        \/ \E r \in Requests : pc[r] = "drop" /\ req[r].pair = p
=============================================================================
