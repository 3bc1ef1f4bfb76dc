--------------------------- MODULE AudienceService ---------------------------
(***************************************************************************)
(* What the audience of the stories is promised, without ids, rows or      *)
(* statements.  A user has at most one reaction to a story.  Each request  *)
(* takes effect at one moment between its arrival and its answer, once or  *)
(* not at all: it gives, replaces or withdraws a reaction of its own user, *)
(* or records that this user saw the story.  A reaction that is not there  *)
(* cannot be replaced.  The author hears only of what took effect, from a  *)
(* request that is still to be answered, and never of his own doing.       *)
(***************************************************************************)
CONSTANTS Users, Stories, Types, Requests, Author,
          None,     \* no reaction; a field that a request leaves out
          NoAsk     \* a request that asks for nothing

VARIABLES
    reaction,   \* of each user to each story, or None
    seen,       \* <<story, user>>: who saw what
    asked,      \* what each request asks for: [op, user, story, type]
    done,       \* requests that took effect and are to be answered
    news        \* what the authors heard: [to, story, from, kind]

avars == <<reaction, seen, asked, done, news>>

Ask == [op : {"view", "add", "update", "remove"}, user : Users,
        story : Stories \cup {None}, type : Types \cup {None}]

Init ==
    /\ reaction = [p \in Stories \X Users |-> None]
    /\ seen = {}
    /\ asked = [r \in Requests |-> NoAsk]
    /\ done = {}
    /\ news = {}

Arrive(r) ==
    /\ asked[r] = NoAsk
    /\ asked'[r] \in Ask
    /\ asked' = [asked EXCEPT ![r] = asked'[r]]
    /\ UNCHANGED <<reaction, seen, done, news>>

Open(r, op) == asked[r].op = op /\ r \notin done

Takes(r) ==
    /\ done' = done \cup {r}
    /\ UNCHANGED <<asked, news>>

Ends(r) ==
    /\ asked' = [asked EXCEPT ![r] = NoAsk]
    /\ done' = done \ {r}

See(r) ==
    /\ Open(r, "view")
    /\ seen' = seen \cup {<<asked[r].story, asked[r].user>>}
    /\ Takes(r)
    /\ UNCHANGED reaction

React(r) ==
    /\ Open(r, "add")
    /\ reaction' = [reaction EXCEPT ![<<asked[r].story, asked[r].user>>] = asked[r].type]
    /\ Takes(r)
    /\ UNCHANGED seen

(* The request names a reaction; it is one of the user's own, or nothing   *)
(* happens.                                                                *)
Replace(r, op, t) ==
    /\ Open(r, op)
    /\ \E s \in Stories :
          /\ reaction[<<s, asked[r].user>>] # None
          /\ reaction' = [reaction EXCEPT ![<<s, asked[r].user>>] = t]
    /\ Ends(r)
    /\ UNCHANGED <<seen, news>>

Change(r) == Replace(r, "update", asked[r].type)
Withdraw(r) == Replace(r, "remove", None)

Announce(r) ==
    LET a == asked[r] IN
    /\ r \in done
    /\ Author[a.story] # a.user
    /\ news' = news \cup {[to |-> Author[a.story], story |-> a.story,
                           from |-> a.user, kind |-> a.op]}
    /\ Ends(r)
    /\ UNCHANGED <<reaction, seen>>

(* Answered without news, refused or given up.                             *)
Leave(r) ==
    /\ asked[r] # NoAsk
    /\ Ends(r)
    /\ UNCHANGED <<reaction, seen, news>>

Next ==
    \E r \in Requests :
       Arrive(r) \/ See(r) \/ React(r) \/ Change(r) \/ Withdraw(r) \/ Announce(r) \/ Leave(r)

Spec == Init /\ [][Next]_avars
=============================================================================
