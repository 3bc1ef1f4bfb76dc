---------------------------- MODULE UserAccounts ----------------------------
(***************************************************************************)
(* User accounts: the rows of the users table, their copies in Redis       *)
(* (key user:<id>, 300 s), and the requests that create, read and rewrite  *)
(* them: Signup, UpdateCurrentUser, ChangePassword and every request that  *)
(* looks an account up by its id (storage/user_store.go, auth/service.go,  *)
(* handlers/users.go, models/user.go).                                     *)
(*                                                                         *)
(* A statement to the database or to Redis is one step.  A password hash   *)
(* stands for its password.  The fields that a profile update may change   *)
(* behave alike and are represented by the username, which is also checked *)
(* for uniqueness.  No code path changes is_active, and no caller deletes  *)
(* an account.  RequireAuth looks the user up before the handler runs:     *)
(* UpdateCurrentUser goes on with that copy, ChangePassword reads again    *)
(* and its first lookup is a "read" here.                                  *)
(***************************************************************************)
EXTENDS FiniteSets

CONSTANTS Users,       \* accounts that may be created; ids are fresh UUIDs
          Names, Emails, Passwords,
          Requests     \* API requests that may be in flight at one time

Keep == "keep"         \* a profile update that does not mention the name
Lost == "lost"         \* an empty password hash, which no password matches
Nothing == "nothing"

ASSUME AccountAssumption ==
    /\ {Keep, Nothing} \cap Names = {}
    /\ Nothing \notin Emails
    /\ {Lost, Nothing} \cap Passwords = {}
    /\ Nothing \notin Users

VARIABLES
    row,    \* the rows: [email, name, hash], or NoRow
    cache,  \* the cached copies: [email, name], or NoCopy
    pc,     \* where each request is
    task,   \* what it does: [op, user, email, name, old, new]
    copy    \* the account it has loaded

(* History: not in the program, read only by the properties.               *)
VARIABLE
    stale   \* what the request has read is no longer, or never was, the
            \* row, or a lookup told it nothing

vars == <<row, cache, pc, task, copy, stale>>

Account == [email : Emails, name : Names, hash : Passwords \cup {Lost}]
NoRow == [email |-> Nothing, name |-> Nothing, hash |-> Nothing]
Copy == [email : Emails, name : Names]
NoCopy == [email |-> Nothing, name |-> Nothing]

Signup == [op : {"signup"}, user : Users, email : Emails, name : Names,
           old : {Nothing}, new : Passwords]
Read == [op : {"read"}, user : Users, email : {Nothing}, name : {Keep},
         old : {Nothing}, new : {Nothing}]
Profile == [op : {"profile"}, user : Users, email : {Nothing},
            name : Names \cup {Keep}, old : {Nothing}, new : {Nothing}]
Password == [op : {"password"}, user : Users, email : {Nothing}, name : {Keep},
             old : Passwords, new : Passwords]
NoTask == [op |-> "none", user |-> Nothing, email |-> Nothing, name |-> Nothing,
           old |-> Nothing, new |-> Nothing]

SignupSteps == {"email", "username", "insert"}
LoadSteps == {"lookup", "select"}
LoadedSteps == {"fill", "check", "write"}

TypeOK ==
    /\ row \in [Users -> Account \cup {NoRow}]
    /\ cache \in [Users -> Copy \cup {NoCopy}]
    /\ pc \in [Requests -> {"idle", "drop"} \cup SignupSteps \cup LoadSteps \cup LoadedSteps]
    /\ task \in [Requests -> {NoTask} \cup Signup \cup Read \cup Profile \cup Password]
    /\ copy \in [Requests -> Account \cup {NoRow}]
    /\ stale \in [Requests -> BOOLEAN]
    /\ \A r \in Requests :
          /\ pc[r] \in SignupSteps => task[r] \in Signup
          /\ pc[r] \in LoadSteps \cup {"fill"} => task[r] \in Read \cup Profile \cup Password
          /\ pc[r] = "check" => task[r] \in Profile /\ task[r].name # Keep
          /\ pc[r] \in {"write", "drop"} => task[r] \in Profile \cup Password
          /\ pc[r] \in LoadedSteps => copy[r] \in Account

Init ==
    /\ row = [u \in Users |-> NoRow]
    /\ cache = [u \in Users |-> NoCopy]
    /\ pc = [r \in Requests |-> "idle"]
    /\ task = [r \in Requests |-> NoTask]
    /\ copy = [r \in Requests |-> NoRow]
    /\ stale = [r \in Requests |-> FALSE]

-----------------------------------------------------------------------------
(* Rows and copies *)

Live(u) == row[u] # NoRow

(* PasswordHash is tagged json:"-": the cached copy is without it.         *)
Public(a) == [email |-> a.email, name |-> a.name]
FromCache(c) == [email |-> c.email, name |-> c.name, hash |-> Lost]

EmailTaken(e) == \E u \in Users : row[u].email = e
(* Mutant: the check forgets to look at the row it finds.                  *)
NameNeverTaken(n) == FALSE
NameTaken(n) == \E u \in Users : row[u].name = n

NewUser(t) == [email |-> t.email, name |-> t.name, hash |-> t.new]

(* User.Update and User.UpdatePassword on a loaded copy.                   *)
Applied(a, t) ==
    [email |-> a.email,
     name |-> IF t.op = "profile" /\ t.name # Keep THEN t.name ELSE a.name,
     hash |-> IF t.op = "password" THEN t.new ELSE a.hash]

(* The requests that hold an answer which account a in row u refutes.      *)
Refuted(q, u, a) ==
    \/ pc[q] \in LoadedSteps /\ task[q].user = u
    \/ pc[q] \in {"username", "insert"} /\ task[q].email = a.email
    \/ pc[q] \in {"insert", "write"} /\ task[q].name = a.name

Put(r, u, a) ==
    /\ row' = [row EXCEPT ![u] = a]
    /\ stale' = [q \in Requests |-> IF q = r THEN FALSE ELSE stale[q] \/ Refuted(q, u, a)]

-----------------------------------------------------------------------------
(* Requests *)

Goto(r, from, to) ==
    /\ pc[r] = from
    /\ pc' = [pc EXCEPT ![r] = to]

Answer(r, from) ==
    /\ Goto(r, from, "idle")
    /\ task' = [task EXCEPT ![r] = NoTask]
    /\ copy' = [copy EXCEPT ![r] = NoRow]

Forgets(r) == stale' = [stale EXCEPT ![r] = FALSE]

BeginSignup(r) ==
    /\ \E t \in Signup :
          /\ ~Live(t.user)
          /\ \A q \in Requests : task[q].user # t.user
          /\ task' = [task EXCEPT ![r] = t]
    /\ Goto(r, "idle", "email")
    /\ UNCHANGED <<row, cache, copy, stale>>

SignupEmail(r) ==
    /\ \/ EmailTaken(task[r].email) /\ Answer(r, "email")
       \/ ~EmailTaken(task[r].email) /\ Goto(r, "email", "username") /\ UNCHANGED <<task, copy>>
    /\ UNCHANGED <<row, cache, stale>>

SignupUsername(r) ==
    /\ \/ /\ NameTaken(task[r].name)
          /\ Answer(r, "username")
          /\ Forgets(r)
       \/ /\ ~NameTaken(task[r].name)
          /\ Goto(r, "username", "insert")
          /\ UNCHANGED <<task, copy, stale>>
    /\ UNCHANGED <<row, cache>>

Create(r) ==
    LET t == task[r] IN
    /\ Answer(r, "insert")
    /\ Put(r, t.user, NewUser(t))
    /\ UNCHANGED cache

BeginRequest(r) ==
    /\ \E t \in Read \cup Profile \cup Password :
          /\ Live(t.user)
          /\ task' = [task EXCEPT ![r] = t]
    /\ Goto(r, "idle", "lookup")
    /\ UNCHANGED <<row, cache, copy, stale>>

(* What GetByID returned is good to go on with: ChangePassword verifies    *)
(* the current password.  Mutant: it does not.                             *)
AnyVerified(t, a) == t.op # "read"
Verified(t, a) == t.op = "profile" \/ (t.op = "password" /\ a.hash = t.old)

AfterLoad(t, a) ==
    IF t.op = "profile" /\ t.name \notin {Keep, a.name} THEN "check" ELSE "write"

(* A read answers; the others go on with what they loaded.                 *)
Loaded(r, from, a) ==
    \/ /\ Verified(task[r], a)
       /\ Goto(r, from, AfterLoad(task[r], a))
       /\ copy' = [copy EXCEPT ![r] = a]
       /\ stale' = [stale EXCEPT ![r] = @ \/ from = "lookup"]
       /\ UNCHANGED task
    \/ /\ ~Verified(task[r], a)
       /\ Answer(r, from)
       /\ Forgets(r)

CacheHit(r) ==
    /\ pc[r] = "lookup"
    /\ cache[task[r].user] # NoCopy
    /\ Loaded(r, "lookup", FromCache(cache[task[r].user]))
    /\ UNCHANGED <<row, cache>>

(* An unreachable cache is treated as a miss.                              *)
CacheMiss(r) ==
    /\ Goto(r, "lookup", "select")
    /\ UNCHANGED <<row, cache, task, copy, stale>>

(* Mutant: the column list of the query lacks password_hash.               *)
SelectWithoutHash(r) ==
    /\ Goto(r, "select", "fill")
    /\ Live(task[r].user)
    /\ copy' = [copy EXCEPT ![r] = FromCache(row[task[r].user])]
    /\ UNCHANGED <<row, cache, task, stale>>

SelectRow(r) ==
    /\ Goto(r, "select", "fill")
    /\ Live(task[r].user)
    /\ copy' = [copy EXCEPT ![r] = row[task[r].user]]
    /\ UNCHANGED <<row, cache, task, stale>>

(* SET user:<id>; its error is ignored.                                    *)
Fill(r) ==
    /\ pc[r] = "fill"
    /\ cache' \in {cache, [cache EXCEPT ![task[r].user] = Public(copy[r])]}
    /\ Loaded(r, "fill", copy[r])
    /\ UNCHANGED row

CheckName(r) ==
    /\ \/ /\ NameTaken(task[r].name)
          /\ Answer(r, "check")
          /\ Forgets(r)
       \/ /\ ~NameTaken(task[r].name)
          /\ Goto(r, "check", "write")
          /\ UNCHANGED <<task, copy, stale>>
    /\ UNCHANGED <<row, cache>>

(* A lookup by address or name that fails: the error is taken for "free".  *)
LookupFails(r) ==
    /\ \/ Goto(r, "email", "username")
       \/ Goto(r, "username", "insert")
       \/ Goto(r, "check", "write")
    /\ stale' = [stale EXCEPT ![r] = TRUE]
    /\ UNCHANGED <<row, cache, task, copy>>

(* UPDATE users: every column of the copy, whatever was changed in it.     *)
Update(r) ==
    LET u == task[r].user IN
    /\ Goto(r, "write", "drop")
    /\ Put(r, u, Applied(copy[r], task[r]))
    /\ UNCHANGED <<cache, task, copy>>

(* DEL user:<id>.                                                          *)
Drop(r) ==
    /\ Answer(r, "drop")
    /\ cache' = [cache EXCEPT ![task[r].user] = NoCopy]
    /\ UNCHANGED <<row, stale>>

(* A statement fails, the client goes away or the process stops: what is   *)
(* left of the request is not done.                                        *)
Abandon(r) ==
    /\ pc[r] # "idle"
    /\ Answer(r, pc[r])
    /\ Forgets(r)
    /\ UNCHANGED <<row, cache>>

(* The entry's 300 s are over, or a follow or a statistics update drops it. *)
CacheExpires(u) ==
    /\ cache[u] # NoCopy
    /\ cache' = [cache EXCEPT ![u] = NoCopy]
    /\ UNCHANGED <<row, pc, task, copy, stale>>

RequestNext(r) ==
    \/ BeginSignup(r) \/ SignupEmail(r) \/ SignupUsername(r) \/ Create(r)
    \/ BeginRequest(r) \/ CacheHit(r) \/ CacheMiss(r) \/ SelectRow(r) \/ Fill(r)
    \/ CheckName(r) \/ LookupFails(r) \/ Update(r) \/ Drop(r) \/ Abandon(r)

Next == (\E r \in Requests : RequestNext(r)) \/ (\E u \in Users : CacheExpires(u))

Spec == Init /\ [][Next]_vars

-----------------------------------------------------------------------------
(* Properties *)

(* UPDATE writes the whole copy back.  Unless the copy came from the       *)
(* cache, somebody else wrote the row since it was selected or a lookup    *)
(* failed, the row changes by exactly what the request asked for, and      *)
(* nothing else is undone.                                                 *)
WriteIsExact(r) ==
    row'[task[r].user] = Applied(row[task[r].user], task[r])
LostUpdateHasACause ==
    [][\A r \in Requests : pc[r] = "write" /\ pc'[r] = "drop" /\ ~stale[r]
          => WriteIsExact(r)]_vars

(* Signup and UpdateCurrentUser look for the name (and Signup for the      *)
(* address) before they write it: two accounts come to share one only by a *)
(* request whose answers somebody overtook or that got none, or one that   *)
(* wrote back the name of a stale copy without a check.                    *)
Twins(u, v) == u # v /\ Live(u) /\ (row[u].name = row[v].name \/ row[u].email = row[v].email)
TwinsHaveACause ==
    [][\A u, v \in Users : Twins(u, v)' /\ ~Twins(u, v)
          => \E r \in Requests : stale[r] /\ pc[r] \in {"insert", "write"} /\ pc'[r] # pc[r]]_vars

(* ChangePassword replaces the hash only if the current password it was    *)
(* given is the one in the row, or the row was written since it was read:  *)
(* a cached copy, which has no hash, never lets it through.                *)
PasswordChangeIsVouched ==
    [][\A r \in Requests :
          pc[r] = "write" /\ pc'[r] = "drop" /\ task[r].op = "password"
          => /\ copy[r].hash = task[r].old
             /\ stale[r] \/ row[task[r].user].hash = task[r].old]_vars

(* handlers/users.go:47 says UpdateCurrentUser "updates the current user's *)
(* profile": it leaves the password alone.                                 *)
ProfileKeepsPassword ==
    [][\A r \in Requests : pc[r] = "write" /\ pc'[r] = "drop" /\ task[r].op = "profile"
          => row'[task[r].user].hash = row[task[r].user].hash]_vars
=============================================================================
