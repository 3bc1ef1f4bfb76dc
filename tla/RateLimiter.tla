----------------------------- MODULE RateLimiter -----------------------------
(***************************************************************************)
(* The sliding window of one client and path (middleware/ratelimit.go): a  *)
(* sorted set in Redis that one Lua script reads and writes atomically.    *)
(* The API server stamps a request with its clock before it sends the      *)
(* script, so that scripts may run in another order than their stamps; the *)
(* key expires by Redis' clock; the cleanup_cache job of the worker finds  *)
(* and deletes the key in two steps (worker/manager.go).                   *)
(*                                                                         *)
(* A member of the sorted set is its own score, a second: the set is       *)
(* `entries', a set of seconds.  A request is one HTTP request and never   *)
(* comes back; a client that retries is another request.                   *)
(***************************************************************************)
EXTENDS Integers, FiniteSets

CONSTANTS Requests,     \* the requests of one client to one path
          Window,       \* length of the window in seconds, 60 in the code
          Limit, Burst, \* RateLimitConfig
          MaxTime       \* bound: the last second of a behaviour

ASSUME LimiterAssumption ==
    /\ Window \in Nat \ {0} /\ MaxTime \in Nat
    /\ Limit \in Nat /\ Burst \in Nat /\ Limit + Burst > 0

VARIABLES
    clock,      \* the second it is
    entries,    \* the sorted set at the key; {} when there is no key
    deadline,   \* the second in which the key expires
    cleaning,   \* cleanup_cache has found the key
    outcome,    \* where each request is: "new", "asking", "passed", "refused", "failed"
    stamp       \* its time.Now().Unix()

(* History: not in the program, read only by the properties.               *)
VARIABLES
    latest,     \* the latest second up to which a script or an expiry looked
    recorded,   \* the requests that a script recorded
    counted,    \* those recorded in order and not deleted by a cleanup
    forgiven,   \* the requests recorded before the last cleanup deleted the key
    promise     \* X-RateLimit-Reset of the last refusal, while it is binding

key == <<entries, deadline>>
request == <<outcome, stamp>>
history == <<latest, recorded, counted, forgiven, promise>>
vars == <<clock, key, cleaning, request, history>>

Seconds == 0 .. MaxTime
Never == -1

TypeOK ==
    /\ clock \in Seconds
    /\ entries \in SUBSET (0 .. clock)
    /\ deadline \in 0 .. MaxTime + Window
    /\ cleaning \in BOOLEAN
    /\ outcome \in [Requests -> {"new", "asking", "passed", "refused", "failed"}]
    /\ stamp \in [Requests -> 0 .. clock]
    /\ latest \in 0 .. clock
    /\ recorded \in SUBSET Requests
    /\ counted \in SUBSET recorded
    /\ forgiven \in SUBSET recorded
    /\ promise \in {Never} \cup (0 .. clock + Window)

Init ==
    /\ clock = 0
    /\ entries = {} /\ deadline = 0
    /\ cleaning = FALSE
    /\ outcome = [r \in Requests |-> "new"]
    /\ stamp = [r \in Requests |-> 0]
    /\ latest = 0 /\ recorded = {} /\ counted = {} /\ forgiven = {} /\ promise = Never

-----------------------------------------------------------------------------
(* The script *)

(* zremrangebyscore key 0 now-window.  Mutant: it keeps the second at its  *)
(* upper end.                                                              *)
KeptTooLong(now) == {e \in entries : e >= now - Window}
Kept(now) == {e \in entries : e > now - Window}

(* Mutant: the limit itself is let through.                                *)
WithinLimitOrAt(now) == Cardinality(Kept(now)) <= Limit + Burst
WithinLimit(now) == Cardinality(Kept(now)) < Limit + Burst

Oldest(S) == CHOOSE e \in S : \A x \in S : e <= x

ResetTime(now) == IF Kept(now) = {} THEN now + Window ELSE Oldest(Kept(now)) + Window

(* No script or expiry looked past the stamp of r before its own script.   *)
InOrder(r) == stamp[r] >= latest

Later(a, b) == IF a > b THEN a ELSE b

Record(r) ==
    /\ WithinLimit(stamp[r])
    /\ entries' = Kept(stamp[r]) \cup {stamp[r]}
    /\ deadline' = clock + Window
    /\ recorded' = recorded \cup {r}
    /\ counted' = IF InOrder(r) THEN counted \cup {r} ELSE counted
    /\ promise' = Never

Refuse(r) ==
    /\ ~WithinLimit(stamp[r])
    /\ entries' = Kept(stamp[r])
    /\ promise' = ResetTime(stamp[r])
    /\ UNCHANGED <<deadline, recorded, counted>>

Script(r) ==
    /\ outcome[r] = "asking"
    /\ latest' = Later(latest, stamp[r])
    /\ UNCHANGED <<clock, cleaning, stamp, forgiven>>

-----------------------------------------------------------------------------
(* The middleware *)

Arrive(r) ==
    /\ outcome[r] = "new"
    /\ outcome' = [outcome EXCEPT ![r] = "asking"]
    /\ stamp' = [stamp EXCEPT ![r] = clock]
    /\ UNCHANGED <<clock, key, cleaning, history>>

Allow(r) ==
    /\ Script(r)
    /\ Record(r)
    /\ outcome' = [outcome EXCEPT ![r] = "passed"]

Deny(r) ==
    /\ Script(r)
    /\ Refuse(r)
    /\ outcome' = [outcome EXCEPT ![r] = "refused"]

(* An error lets the request pass: the script ran and its reply is lost,   *)
(* or it did not run.                                                      *)
ReplyLost(r) ==
    /\ Script(r)
    /\ Record(r) \/ Refuse(r)
    /\ outcome' = [outcome EXCEPT ![r] = "failed"]

Unreachable(r) ==
    /\ outcome[r] = "asking"
    /\ outcome' = [outcome EXCEPT ![r] = "failed"]
    /\ UNCHANGED <<clock, key, cleaning, stamp, history>>

-----------------------------------------------------------------------------
(* The job cleanup_cache, and Redis *)

FindKeys ==
    /\ ~cleaning /\ entries # {}
    /\ cleaning' = TRUE
    /\ UNCHANGED <<clock, key, request, history>>

(* DEL removes what the set holds now: what was recorded since KEYS is     *)
(* forgiven with the rest.  Mutant: DEL names another key than KEYS found. *)
DeleteAnotherKey ==
    /\ cleaning
    /\ cleaning' = FALSE
    /\ counted' = {} /\ promise' = Never
    /\ forgiven' = recorded
    /\ UNCHANGED <<clock, key, request, latest, recorded>>

DeleteKeys ==
    /\ cleaning
    /\ cleaning' = FALSE
    /\ entries' = {} /\ counted' = {} /\ promise' = Never
    /\ forgiven' = recorded
    /\ UNCHANGED <<clock, deadline, request, latest, recorded>>

DeleteFails ==
    /\ cleaning
    /\ cleaning' = FALSE
    /\ UNCHANGED <<clock, key, request, history>>

(* A key set to expire in second `deadline' is gone when that second ends. *)
Expire ==
    /\ entries # {} /\ clock >= deadline
    /\ entries' = {}
    /\ latest' = clock
    /\ UNCHANGED <<clock, deadline, cleaning, request, recorded, counted, forgiven, promise>>

Tick ==
    /\ clock < MaxTime
    /\ entries # {} => clock < deadline
    /\ clock' = clock + 1
    /\ UNCHANGED <<key, cleaning, request, history>>

Next ==
    \/ \E r \in Requests : Arrive(r) \/ Allow(r) \/ Deny(r) \/ ReplyLost(r) \/ Unreachable(r)
    \/ FindKeys \/ DeleteKeys \/ DeleteFails \/ Expire \/ Tick

Spec == Init /\ [][Next]_vars

-----------------------------------------------------------------------------
(* Properties *)

InWindow(t) == {stamp[r] : r \in {q \in counted : stamp[q] \in t - Window + 1 .. t}}

(* No window of 60 seconds holds more than limit + burst seconds in which  *)
(* requests were let through, of those the scripts took in the order of    *)
(* their stamps and the cleanup left alone: neither the trimming of the    *)
(* set nor the expiry of the key forgets a second that still counts.       *)
WindowBound == \A t \in Seconds : Cardinality(InWindow(t)) <= Limit + Burst

(* X-RateLimit-Reset of a refusal is exact: until the next request is      *)
(* recorded, one in order passes from that second on, and none before it.  *)
ResetIsExact ==
    [][\A r \in Requests : promise # Never /\ InOrder(r) =>
          /\ Allow(r) => stamp[r] >= promise
          /\ Deny(r) => stamp[r] < promise]_vars

(* A request is refused only when limit + burst seconds less than a window *)
(* before its stamp, or after it, have requests that were recorded since   *)
(* the last cleanup.  Neither an old request nor a refused one is held     *)
(* against it, nor any that was recorded before the cleanup's DEL, the     *)
(* ones between its KEYS and its DEL included (manager.go:301).            *)
HeldAgainst(r) == {stamp[q] : q \in {p \in recorded \ forgiven : stamp[p] > stamp[r] - Window}}

RefusedOnlyWhenFull ==
    [][\A r \in Requests : Deny(r) => Cardinality(HeldAgainst(r)) >= Limit + Burst]_vars
=============================================================================
