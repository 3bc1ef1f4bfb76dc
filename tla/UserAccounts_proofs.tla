------------------------ MODULE UserAccounts_proofs ------------------------
(***************************************************************************)
(* Proofs about the accounts, for every set of accounts, names, addresses  *)
(* and passwords and every number of requests in flight.                   *)
(***************************************************************************)
EXTENDS UserAccounts, TLAPS

Tasks == Signup \cup Read \cup Profile \cup Password
Places == {"idle", "drop"} \cup SignupSteps \cup LoadSteps \cup LoadedSteps
Fits(p, t, c) ==
    /\ p \in Places
    /\ p \in SignupSteps => t \in Signup
    /\ p \in LoadSteps \cup {"fill"} => t \in Read \cup Profile \cup Password
    /\ p = "check" => t \in Profile /\ t.name # Keep
    /\ p \in {"write", "drop"} => t \in Profile \cup Password
    /\ p \in LoadedSteps => c \in Account
Ready(r) == Fits(pc[r], task[r], copy[r])

(* What a request has read and nobody overtook is still so.                *)
Holds(r) ==
    /\ pc[r] \in LoadedSteps /\ ~stale[r] => copy[r] = row[task[r].user]
    /\ pc[r] \in {"username", "insert"} /\ ~stale[r] => ~EmailTaken(task[r].email)
    /\ pc[r] = "insert" /\ ~stale[r] => ~NameTaken(task[r].name)
    /\ pc[r] = "write" /\ ~stale[r] /\ task[r].op = "profile"
          => task[r].name \in {Keep, copy[r].name} \/ ~NameTaken(task[r].name)
    /\ pc[r] = "write" /\ task[r].op = "password" => copy[r].hash = task[r].old

Inv == \A r \in Requests : Holds(r)

(* A request in the same place of an unchanged table.                      *)
SameHere(q) ==
    pc'[q] = pc[q] /\ task'[q] = task[q] /\ copy'[q] = copy[q]

-----------------------------------------------------------------------------
(* Type correctness *)

LEMMA InitTypeOK == Init => TypeOK
BY DEF Init, TypeOK, SignupSteps, LoadSteps, LoadedSteps

LEMMA TypeOKReady ==
    ASSUME TypeOK, NEW r \in Requests
    PROVE  Ready(r)
BY DEF TypeOK, Ready, Fits, Places

LEMMA TaskFields ==
    /\ \A t \in Tasks : t.user \in Users
    /\ \A t \in Signup : t.email \in Emails /\ t.name \in Names /\ t.new \in Passwords
    /\ \A t \in Profile : t.name \in Names \cup {Keep} /\ t.op = "profile"
    /\ \A t \in Password : t.op = "password" /\ t.new \in Passwords /\ t.old \in Passwords
    /\ \A t \in Read : t.op = "read"
    /\ Keep \notin Names /\ Nothing \notin Names /\ Nothing \notin Emails
BY AccountAssumption DEF Tasks, Signup, Read, Profile, Password

LEMMA AppliedType ==
    ASSUME NEW a \in Account, NEW t \in Profile \cup Password
    PROVE  Applied(a, t) \in Account
BY TaskFields DEF Applied, Account

LEMMA AccountIsLive ==
    ASSUME NEW a \in Account
    PROVE  a # NoRow /\ a.email # Nothing /\ a.name # Nothing
BY TaskFields DEF Account, NoRow

LEMMA CopyTypes ==
    /\ \A a \in Account : Public(a) \in Copy
    /\ \A c \in Copy : FromCache(c) \in Account
BY DEF Public, FromCache, Copy, Account

(* The shape of a step: request r moves from one place to another.         *)
LEMMA GotoType ==
    ASSUME TypeOK, NEW r \in Requests, NEW from, NEW to, Goto(r, from, to),
           NEW t \in {NoTask} \cup Tasks, task' = [task EXCEPT ![r] = t],
           NEW c \in Account \cup {NoRow}, copy' = [copy EXCEPT ![r] = c],
           Fits(to, t, c),
           row' \in [Users -> Account \cup {NoRow}],
           cache' \in [Users -> Copy \cup {NoCopy}],
           stale' \in [Requests -> BOOLEAN]
    PROVE  TypeOK'
<1>1. /\ pc' \in [Requests -> Places]
      /\ task' \in [Requests -> {NoTask} \cup Tasks]
      /\ copy' \in [Requests -> Account \cup {NoRow}]
  BY DEF TypeOK, Goto, Tasks, Fits, Places
<1>2. \A q \in Requests : Ready(q)'
  <2> TAKE q \in Requests
  <2>1. CASE q = r
    BY <2>1 DEF TypeOK, Goto, Ready
  <2>2. CASE q # r
    BY <2>2, TypeOKReady DEF TypeOK, Goto, Ready
  <2>3. QED  BY <2>1, <2>2
<1>3. QED  BY <1>1, <1>2 DEF TypeOK, Ready, Fits, Places, Tasks

LEMMA AnswerType ==
    ASSUME TypeOK, NEW r \in Requests, NEW from, Answer(r, from),
           row' \in [Users -> Account \cup {NoRow}],
           cache' \in [Users -> Copy \cup {NoCopy}],
           stale' \in [Requests -> BOOLEAN]
    PROVE  TypeOK'
<1>1. /\ Goto(r, from, "idle")
      /\ task' = [task EXCEPT ![r] = NoTask]
      /\ copy' = [copy EXCEPT ![r] = NoRow]
  BY DEF Answer
<1>2. NoTask \in {NoTask} \cup Tasks /\ NoRow \in Account \cup {NoRow}
  OBVIOUS
<1>3. Fits("idle", NoTask, NoRow)
  BY DEF Fits, Places, SignupSteps, LoadSteps, LoadedSteps
<1>4. QED  BY <1>1, <1>2, <1>3, GotoType

LEMMA StayType ==
    ASSUME TypeOK, NEW r \in Requests, NEW from, NEW to, Goto(r, from, to),
           UNCHANGED task, UNCHANGED copy, task[r] \in Tasks,
           Fits(to, task[r], copy[r]),
           row' \in [Users -> Account \cup {NoRow}],
           cache' \in [Users -> Copy \cup {NoCopy}],
           stale' \in [Requests -> BOOLEAN]
    PROVE  TypeOK'
<1>1. task' = [task EXCEPT ![r] = task[r]] /\ copy' = [copy EXCEPT ![r] = copy[r]]
  BY DEF TypeOK
<1>2. copy[r] \in Account \cup {NoRow}
  BY DEF TypeOK
<1>3. QED  BY <1>1, <1>2, GotoType

LEMMA PutType ==
    ASSUME TypeOK, NEW r \in Requests, NEW u \in Users, NEW a \in Account, Put(r, u, a)
    PROVE  row' \in [Users -> Account \cup {NoRow}] /\ stale' \in [Requests -> BOOLEAN]
<1>1. \A q \in Requests : (IF q = r THEN FALSE ELSE stale[q] \/ Refuted(q, u, a)) \in BOOLEAN
  BY DEF TypeOK, Refuted
<1>2. QED  BY <1>1 DEF TypeOK, Put

LEMMA ForgetsType ==
    ASSUME TypeOK, NEW r \in Requests, Forgets(r) \/ UNCHANGED stale
    PROVE  stale' \in [Requests -> BOOLEAN]
BY DEF TypeOK, Forgets

LEMMA LoadedType ==
    ASSUME TypeOK, NEW r \in Requests, NEW from, NEW a \in Account, Loaded(r, from, a),
           task[r] \in Read \cup Profile \cup Password,
           row' \in [Users -> Account \cup {NoRow}],
           cache' \in [Users -> Copy \cup {NoCopy}]
    PROVE  TypeOK'
<1>1. CASE Verified(task[r], a) /\ Goto(r, from, AfterLoad(task[r], a))
           /\ copy' = [copy EXCEPT ![r] = a]
           /\ stale' = [stale EXCEPT ![r] = @ \/ from = "lookup"] /\ UNCHANGED task
  <2>1. task[r] \in Profile \cup Password
    BY <1>1, TaskFields DEF Verified
  <2>2. Fits(AfterLoad(task[r], a), task[r], a)
    BY <2>1, TaskFields DEF AfterLoad, Fits, Places, SignupSteps, LoadSteps, LoadedSteps
  <2>3. task' = [task EXCEPT ![r] = task[r]] /\ task[r] \in Tasks
    BY <1>1, <2>1 DEF TypeOK, Tasks
  <2>4. stale' \in [Requests -> BOOLEAN]
    BY <1>1 DEF TypeOK
  <2>5. QED  BY <1>1, <2>2, <2>3, <2>4, GotoType
<1>2. CASE Answer(r, from) /\ Forgets(r)
  BY <1>2, AnswerType, ForgetsType
<1>3. QED  BY <1>1, <1>2 DEF Loaded

LEMMA RequestTypeOK ==
    ASSUME TypeOK, NEW r \in Requests, RequestNext(r)
    PROVE  TypeOK'
<1> USE DEF Fits, Places, SignupSteps, LoadSteps, LoadedSteps
<1>1. /\ row \in [Users -> Account \cup {NoRow}]
      /\ cache \in [Users -> Copy \cup {NoCopy}]
      /\ stale \in [Requests -> BOOLEAN]
      /\ Ready(r)
  BY TypeOKReady DEF TypeOK
<1>2. CASE BeginSignup(r)
  <2>1. PICK t \in Signup : task' = [task EXCEPT ![r] = t]
    BY <1>2 DEF BeginSignup
  <2>2. copy' = [copy EXCEPT ![r] = copy[r]] /\ copy[r] \in Account \cup {NoRow}
    BY <1>2 DEF BeginSignup, TypeOK
  <2>3. Goto(r, "idle", "email") /\ UNCHANGED <<row, cache, stale>>
    BY <1>2 DEF BeginSignup
  <2>4. t \in {NoTask} \cup Tasks
    BY DEF Tasks
  <2>5. Fits("email", t, copy[r])
    OBVIOUS
  <2> HIDE DEF Fits
  <2>6. QED  BY <1>1, <2>1, <2>2, <2>3, <2>4, <2>5, GotoType
<1>3. CASE BeginRequest(r)
  <2>1. PICK t \in Read \cup Profile \cup Password : task' = [task EXCEPT ![r] = t]
    BY <1>3 DEF BeginRequest
  <2>2. copy' = [copy EXCEPT ![r] = copy[r]] /\ copy[r] \in Account \cup {NoRow}
    BY <1>3 DEF BeginRequest, TypeOK
  <2>3. Goto(r, "idle", "lookup") /\ UNCHANGED <<row, cache, stale>>
    BY <1>3 DEF BeginRequest
  <2>4. t \in {NoTask} \cup Tasks
    BY DEF Tasks
  <2>5. Fits("lookup", t, copy[r])
    OBVIOUS
  <2> HIDE DEF Fits
  <2>6. QED  BY <1>1, <2>1, <2>2, <2>3, <2>4, <2>5, GotoType
<1>4. CASE SignupEmail(r)
  <2>1. CASE Answer(r, "email")
    BY <1>1, <1>4, <2>1, AnswerType DEF SignupEmail
  <2>2. CASE Goto(r, "email", "username") /\ UNCHANGED <<task, copy>>
    <3>1. task[r] \in Signup /\ task[r] \in Tasks
      BY <1>1, <2>2 DEF Ready, Goto, Tasks
    <3>2. QED  BY <1>1, <1>4, <2>2, <3>1, StayType DEF SignupEmail
  <2>3. QED  BY <1>4, <2>1, <2>2 DEF SignupEmail
<1>5. CASE SignupUsername(r)
  <2>1. CASE Answer(r, "username") /\ Forgets(r)
    BY <1>1, <1>5, <2>1, AnswerType, ForgetsType DEF SignupUsername
  <2>2. CASE Goto(r, "username", "insert") /\ UNCHANGED <<task, copy, stale>>
    <3>1. task[r] \in Signup /\ task[r] \in Tasks
      BY <1>1, <2>2 DEF Ready, Goto, Tasks
    <3>2. QED  BY <1>1, <1>5, <2>2, <3>1, StayType DEF SignupUsername
  <2>3. QED  BY <1>5, <2>1, <2>2 DEF SignupUsername
<1>6. CASE Create(r)
  <2> DEFINE t == task[r]
             a == NewUser(t)
  <2>1. t \in Signup
    BY <1>1, <1>6 DEF Create, Answer, Goto, Ready
  <2>2. a \in Account /\ t.user \in Users
    BY <2>1, TaskFields DEF NewUser, Account, Tasks
  <2>3. Put(r, t.user, a) /\ Answer(r, "insert") /\ UNCHANGED cache
    BY <1>6 DEF Create
  <2> HIDE DEF a
  <2>4. QED  BY <1>1, <2>2, <2>3, PutType, AnswerType
<1>7. CASE CacheHit(r)
  <2>1. task[r] \in Read \cup Profile \cup Password /\ task[r].user \in Users
    BY <1>1, <1>7, TaskFields DEF CacheHit, Ready, Tasks, LoadSteps
  <2>2. FromCache(cache[task[r].user]) \in Account
    BY <1>1, <1>7, <2>1, CopyTypes DEF CacheHit
  <2>3. QED  BY <1>1, <1>7, <2>1, <2>2, LoadedType DEF CacheHit
<1>8. CASE CacheMiss(r)
  <2>1. task[r] \in Read \cup Profile \cup Password /\ task[r] \in Tasks
    BY <1>1, <1>8 DEF CacheMiss, Goto, Ready, Tasks
  <2>2. QED  BY <1>1, <1>8, <2>1, StayType DEF CacheMiss
<1>9. CASE SelectRow(r)
  <2>1. task[r] \in Read \cup Profile \cup Password /\ task[r] \in Tasks
    BY <1>1, <1>9 DEF SelectRow, Goto, Ready, Tasks
  <2>2. row[task[r].user] \in Account
    <3>1. task[r].user \in Users
      BY <2>1, TaskFields
    <3>2. QED  BY <1>1, <1>9, <3>1 DEF SelectRow, Live
  <2>3. task' = [task EXCEPT ![r] = task[r]]
    BY <1>9 DEF SelectRow, TypeOK
  <2>4. Fits("fill", task[r], row[task[r].user])
    BY <2>1, <2>2
  <2> HIDE DEF Fits
  <2>5. QED  BY <1>1, <1>9, <2>1, <2>2, <2>3, <2>4, GotoType DEF SelectRow
<1>10. CASE Fill(r)
  <2>1. /\ task[r] \in Read \cup Profile \cup Password /\ task[r].user \in Users
        /\ copy[r] \in Account
    BY <1>1, <1>10, TaskFields DEF Fill, Ready, Tasks
  <2>2. cache' \in [Users -> Copy \cup {NoCopy}]
    BY <1>1, <1>10, <2>1, CopyTypes DEF Fill
  <2>3. QED  BY <1>1, <1>10, <2>1, <2>2, LoadedType DEF Fill
<1>11. CASE CheckName(r)
  <2>1. CASE Answer(r, "check") /\ Forgets(r)
    BY <1>1, <1>11, <2>1, AnswerType, ForgetsType DEF CheckName
  <2>2. CASE Goto(r, "check", "write") /\ UNCHANGED <<task, copy, stale>>
    <3>1. task[r] \in Profile /\ task[r] \in Tasks /\ copy[r] \in Account
      BY <1>1, <2>2 DEF Ready, Goto, Tasks
    <3>2. QED  BY <1>1, <1>11, <2>2, <3>1, StayType DEF CheckName
  <2>3. QED  BY <1>11, <2>1, <2>2 DEF CheckName
<1>12. CASE Update(r)
  <2>1. task[r] \in Profile \cup Password /\ task[r] \in Tasks /\ copy[r] \in Account
    BY <1>1, <1>12 DEF Update, Goto, Ready, Tasks
  <2>2. Applied(copy[r], task[r]) \in Account /\ task[r].user \in Users
    BY <2>1, AppliedType, TaskFields
  <2>3. row' \in [Users -> Account \cup {NoRow}] /\ stale' \in [Requests -> BOOLEAN]
    BY <1>12, <2>2, PutType DEF Update
  <2>4. QED  BY <1>1, <1>12, <2>1, <2>3, StayType DEF Update
<1>13. CASE Drop(r)
  <2>1. cache' \in [Users -> Copy \cup {NoCopy}]
    BY <1>1, <1>13 DEF Drop
  <2>2. QED  BY <1>1, <1>13, <2>1, AnswerType DEF Drop
<1>14. CASE Abandon(r)
  BY <1>1, <1>14, AnswerType, ForgetsType DEF Abandon
<1>15. CASE LookupFails(r)
  <2>1. stale' \in [Requests -> BOOLEAN] /\ UNCHANGED <<row, cache, task, copy>>
    BY <1>1, <1>15 DEF LookupFails
  <2>2. PICK to \in {"username", "insert", "write"} : Goto(r, pc[r], to)
    BY <1>15 DEF LookupFails, Goto
  <2>3. task[r] \in Tasks /\ Fits(to, task[r], copy[r])
    BY <1>1, <1>15, <2>2 DEF LookupFails, Goto, Ready, Tasks, TypeOK
  <2> HIDE DEF Fits
  <2>4. QED  BY <1>1, <2>1, <2>2, <2>3, StayType
<1>16. QED
  BY <1>2, <1>3, <1>4, <1>5, <1>6, <1>7, <1>8, <1>9, <1>10, <1>11, <1>12, <1>13, <1>14, <1>15
     DEF RequestNext

LEMMA NextTypeOK == TypeOK /\ [Next]_vars => TypeOK'
<1> SUFFICES ASSUME TypeOK, [Next]_vars PROVE TypeOK'
  OBVIOUS
<1>1. ASSUME NEW u \in Users, CacheExpires(u) PROVE TypeOK'
  <2>1. cache' \in [Users -> Copy \cup {NoCopy}]
    BY <1>1 DEF CacheExpires, TypeOK
  <2>2. QED  BY <1>1, <2>1 DEF CacheExpires, TypeOK
<1>2. CASE UNCHANGED vars
  BY <1>2 DEF vars, TypeOK
<1>3. QED  BY <1>1, <1>2, RequestTypeOK DEF Next

(* Rows, copies and the places of the requests are always well formed:     *)
(* whatever is loaded or written back is a whole account.                  *)
THEOREM AccountsTypeCorrect == Spec => []TypeOK
<1>1. QED  BY InitTypeOK, NextTypeOK, PTL DEF Spec

-----------------------------------------------------------------------------
(* What a request relies on *)

LEMMA OthersKeep ==
    ASSUME TypeOK, Inv, NEW q \in Requests, SameHere(q), stale'[q] = stale[q], UNCHANGED row
    PROVE  Holds(q)'
BY DEF Inv, Holds, SameHere, EmailTaken, NameTaken

(* Somebody else writes the table: q notices, or still holds.              *)
LEMMA OthersNotice ==
    ASSUME TypeOK, Inv, NEW r \in Requests, NEW q \in Requests, q # r, SameHere(q),
           NEW u \in Users, NEW a \in Account, Put(r, u, a)
    PROVE  Holds(q)'
<1>1. Holds(q) /\ stale \in [Requests -> BOOLEAN] /\ row \in [Users -> Account \cup {NoRow}]
  BY DEF Inv, TypeOK
<1>2. stale'[q] = (stale[q] \/ Refuted(q, u, a))
  BY <1>1 DEF Put
<1>3. row'[u] = a /\ \A v \in Users : v # u => row'[v] = row[v]
  BY <1>1 DEF Put
<1>4. ASSUME pc[q] \in LoadedSteps, ~stale'[q] PROVE copy[q] = row'[task[q].user]
  <2>1. task[q].user # u /\ ~stale[q]
    BY <1>2, <1>4 DEF Refuted
  <2>2. task[q].user \in Users
    BY <1>4, TypeOKReady, TaskFields DEF Ready, Fits, LoadedSteps, Tasks
  <2>3. QED  BY <1>1, <1>3, <1>4, <2>1, <2>2 DEF Holds
<1>5. ASSUME pc[q] \in {"username", "insert"}, ~stale'[q] PROVE ~EmailTaken(task[q].email)'
  BY <1>1, <1>2, <1>3, <1>5 DEF Refuted, Holds, EmailTaken, SameHere
<1>6. ASSUME pc[q] \in {"insert", "write"}, ~stale'[q], ~NameTaken(task[q].name)
      PROVE ~NameTaken(task[q].name)'
  BY <1>1, <1>2, <1>3, <1>6 DEF Refuted, NameTaken, SameHere
<1>7. ~stale'[q] => ~stale[q]
  BY <1>2
<1>8. QED  BY <1>1, <1>4, <1>5, <1>6, <1>7 DEF Holds, SameHere

LEMMA MovesOnly ==
    ASSUME TypeOK, NEW r \in Requests, NEW q \in Requests, q # r, RequestNext(r)
    PROVE  SameHere(q)
BY DEF RequestNext, BeginSignup, SignupEmail, SignupUsername, Create, BeginRequest, CacheHit,
   CacheMiss, SelectRow, Fill, CheckName, LookupFails, Update, Drop, Abandon, Loaded, Answer, Goto,
   TypeOK, SameHere

LEMMA IdleHolds ==
    ASSUME NEW r \in Requests, pc'[r] \in {"idle", "drop", "email", "lookup", "select"}
    PROVE  Holds(r)'
BY DEF Holds, LoadedSteps

LEMMA LoadedHolds ==
    ASSUME TypeOK, NEW r \in Requests, NEW from \in {"lookup", "fill"}, NEW a \in Account,
           Loaded(r, from, a), UNCHANGED row, task[r] \in Read \cup Profile \cup Password,
           from = "fill" /\ ~stale[r] => a = row[task[r].user]
    PROVE  Holds(r)'
<1>1. CASE Answer(r, from)
  BY <1>1, IdleHolds DEF Answer, Goto, TypeOK
<1>2. CASE Verified(task[r], a) /\ Goto(r, from, AfterLoad(task[r], a))
           /\ copy' = [copy EXCEPT ![r] = a]
           /\ stale' = [stale EXCEPT ![r] = @ \/ from = "lookup"] /\ UNCHANGED task
  <2>1. /\ pc'[r] = AfterLoad(task[r], a) /\ copy'[r] = a /\ task'[r] = task[r]
        /\ stale'[r] = (stale[r] \/ from = "lookup")
    BY <1>2 DEF Goto, TypeOK
  <2>2. ~stale'[r] => a = row'[task[r].user]
    BY <2>1
  <2>3. pc'[r] \in {"check", "write"}
    BY <2>1 DEF AfterLoad
  <2>4. pc'[r] = "write" /\ task[r].op = "profile" => task[r].name \in {Keep, a.name}
    BY <2>1 DEF AfterLoad
  <2>5. task[r].op = "password" => a.hash = task[r].old
    BY <1>2 DEF Verified
  <2>6. QED  BY <2>1, <2>2, <2>3, <2>4, <2>5 DEF Holds
<1>3. QED  BY <1>1, <1>2 DEF Loaded

LEMMA OwnStepHolds ==
    ASSUME TypeOK, Inv, NEW r \in Requests, RequestNext(r)
    PROVE  Holds(r)'
<1>1. Holds(r) /\ Ready(r) /\ pc[r] \in Places
  BY TypeOKReady DEF Inv, Ready, Fits
<1>2. CASE BeginSignup(r) \/ BeginRequest(r) \/ CacheMiss(r) \/ Drop(r) \/ Abandon(r)
           \/ Create(r) \/ Update(r)
  <2>1. pc'[r] \in {"idle", "drop", "email", "lookup", "select"}
    BY <1>2 DEF BeginSignup, BeginRequest, CacheMiss, Drop, Abandon, Create, Update,
       Answer, Goto, TypeOK
  <2>2. QED  BY <2>1, IdleHolds
<1>3. CASE SignupEmail(r)
  <2>1. CASE Answer(r, "email")
    BY <2>1, IdleHolds DEF Answer, Goto, TypeOK
  <2>2. CASE ~EmailTaken(task[r].email) /\ Goto(r, "email", "username")
             /\ UNCHANGED <<task, copy>>
    <3>1. pc'[r] = "username" /\ row' = row /\ task' = task
      BY <1>3, <2>2 DEF SignupEmail, Goto, TypeOK
    <3>2. ~EmailTaken(task[r].email)'
      BY <2>2, <3>1 DEF EmailTaken
    <3>3. QED  BY <3>1, <3>2 DEF Holds, LoadedSteps
  <2>3. QED  BY <1>3, <2>1, <2>2 DEF SignupEmail
<1>4. CASE SignupUsername(r)
  <2>1. CASE Answer(r, "username")
    BY <2>1, IdleHolds DEF Answer, Goto, TypeOK
  <2>2. CASE ~NameTaken(task[r].name) /\ Goto(r, "username", "insert")
             /\ UNCHANGED <<task, copy, stale>>
    <3>1. pc[r] = "username" /\ pc'[r] = "insert" /\ row' = row /\ task' = task /\ stale' = stale
      BY <1>4, <2>2 DEF SignupUsername, Goto, TypeOK
    <3>2. ~NameTaken(task[r].name)'
      BY <2>2, <3>1 DEF NameTaken
    <3>3. ~stale[r] => ~EmailTaken(task[r].email)'
      BY <1>1, <3>1 DEF Holds, EmailTaken
    <3>4. QED  BY <3>1, <3>2, <3>3 DEF Holds, LoadedSteps
  <2>3. QED  BY <1>4, <2>1, <2>2 DEF SignupUsername
<1>5. CASE CacheHit(r)
  <2>1. task[r] \in Read \cup Profile \cup Password /\ task[r].user \in Users
    BY <1>1, <1>5, TaskFields DEF CacheHit, Ready, Fits, LoadSteps, Tasks
  <2>2. FromCache(cache[task[r].user]) \in Account
    BY <1>5, <2>1, CopyTypes DEF CacheHit, TypeOK
  <2>3. Loaded(r, "lookup", FromCache(cache[task[r].user])) /\ UNCHANGED row
    BY <1>5 DEF CacheHit
  <2>4. QED  BY <2>1, <2>2, <2>3, LoadedHolds
<1>6. CASE SelectRow(r)
  BY <1>6 DEF SelectRow, Goto, TypeOK, Holds, LoadedSteps
<1>7. CASE Fill(r)
  <2>1. task[r] \in Read \cup Profile \cup Password /\ copy[r] \in Account
    BY <1>1, <1>7 DEF Fill, Ready, Fits, LoadedSteps
  <2>2. ~stale[r] => copy[r] = row[task[r].user]
    BY <1>1, <1>7 DEF Fill, Holds, LoadedSteps
  <2>3. Loaded(r, "fill", copy[r]) /\ UNCHANGED row
    BY <1>7 DEF Fill
  <2>4. QED  BY <2>1, <2>2, <2>3, LoadedHolds
<1>8. CASE CheckName(r)
  <2>1. CASE Answer(r, "check")
    BY <2>1, IdleHolds DEF Answer, Goto, TypeOK
  <2>2. CASE ~NameTaken(task[r].name) /\ Goto(r, "check", "write")
             /\ UNCHANGED <<task, copy, stale>>
    <3>1. /\ pc[r] = "check" /\ pc'[r] = "write" /\ row' = row /\ task' = task
          /\ stale' = stale /\ copy' = copy
      BY <1>8, <2>2 DEF CheckName, Goto, TypeOK
    <3>2. ~NameTaken(task[r].name)'
      BY <2>2, <3>1 DEF NameTaken
    <3>3. task[r].op = "profile"
      BY <1>1, <3>1, TaskFields DEF Ready, Fits
    <3>4. ~stale[r] => copy[r] = row[task[r].user]
      BY <1>1, <3>1 DEF Holds, LoadedSteps
    <3>5. QED  BY <3>1, <3>2, <3>3, <3>4 DEF Holds
  <2>3. QED  BY <1>8, <2>1, <2>2 DEF CheckName
<1>9. CASE LookupFails(r)
  <2>1. stale'[r] = TRUE /\ pc'[r] \in {"username", "insert", "write"} /\ task' = task
    BY <1>9 DEF LookupFails, Goto, TypeOK
  <2>2. pc'[r] = "write" => task[r].op = "profile"
    BY <1>1, <1>9, TaskFields DEF LookupFails, Goto, TypeOK, Ready, Fits
  <2>3. QED  BY <2>1, <2>2 DEF Holds, LoadedSteps
<1>10. QED  BY <1>2, <1>3, <1>4, <1>5, <1>6, <1>7, <1>8, <1>9 DEF RequestNext

LEMMA Writers ==
    ASSUME TypeOK, NEW r \in Requests, RequestNext(r)
    PROVE  \/ row' = row /\ \A q \in Requests : q # r => stale'[q] = stale[q]
           \/ \E u \in Users, a \in Account : Put(r, u, a)
<1>1. CASE Create(r)
  <2> DEFINE t == task[r]
             a == NewUser(t)
  <2>1. t \in Signup
    BY <1>1, TypeOKReady DEF Create, Answer, Goto, Ready, Fits, SignupSteps
  <2>2. a \in Account /\ t.user \in Users
    BY <2>1, TaskFields DEF NewUser, Account, Tasks
  <2>3. Put(r, t.user, a)
    BY <1>1 DEF Create
  <2>4. QED  BY <2>2, <2>3
<1>2. CASE Update(r)
  <2>1. task[r] \in Profile \cup Password /\ copy[r] \in Account
    BY <1>2, TypeOKReady DEF Update, Goto, Ready, Fits, LoadedSteps
  <2>2. Applied(copy[r], task[r]) \in Account /\ task[r].user \in Users
    BY <2>1, AppliedType, TaskFields DEF Tasks
  <2>3. QED  BY <1>2, <2>2 DEF Update
<1>3. CASE ~Create(r) /\ ~Update(r)
  BY <1>3 DEF RequestNext, BeginSignup, SignupEmail, SignupUsername, BeginRequest, CacheHit,
     CacheMiss, SelectRow, Fill, CheckName, LookupFails, Drop, Abandon, Loaded, Forgets, TypeOK
<1>4. QED  BY <1>1, <1>2, <1>3

LEMMA NextInv == TypeOK /\ Inv /\ [Next]_vars => Inv'
<1> SUFFICES ASSUME TypeOK, Inv, [Next]_vars PROVE Inv'
  OBVIOUS
<1>1. ASSUME NEW r \in Requests, RequestNext(r) PROVE Inv'
  <2>1. ASSUME NEW q \in Requests, q # r PROVE Holds(q)'
    BY <1>1, <2>1, MovesOnly, Writers, OthersKeep, OthersNotice
  <2>2. Holds(r)'
    BY <1>1, OwnStepHolds
  <2>3. QED  BY <2>1, <2>2 DEF Inv
<1>2. ASSUME (\E u \in Users : CacheExpires(u)) \/ UNCHANGED vars PROVE Inv'
  <2>1. UNCHANGED <<row, pc, task, copy, stale>>
    BY <1>2 DEF CacheExpires, vars
  <2>2. QED  BY <2>1 DEF Inv, Holds, EmailTaken, NameTaken
<1>3. QED  BY <1>1, <1>2 DEF Next

LEMMA InitInv == Init => Inv
BY DEF Init, Inv, Holds, LoadedSteps

LEMMA Invariance == Spec => [](TypeOK /\ Inv)
<1>1. QED  BY InitTypeOK, NextTypeOK, InitInv, NextInv, PTL DEF Spec

-----------------------------------------------------------------------------
(* Action properties *)

(* Only Update goes from "write" to "drop".                                *)
LEMMA OnlyUpdate ==
    ASSUME TypeOK, [Next]_vars, NEW r \in Requests, pc[r] = "write", pc'[r] = "drop"
    PROVE  Update(r)
<1>1. ~UNCHANGED pc
  OBVIOUS
<1>2. PICK q \in Requests : RequestNext(q)
  BY <1>1 DEF Next, vars, CacheExpires
<1>3. q = r
  BY <1>2, MovesOnly DEF SameHere
<1>4. RequestNext(r)
  BY <1>2, <1>3
<1>5. QED
  BY <1>4 DEF RequestNext, BeginSignup, SignupEmail, SignupUsername, Create, BeginRequest,
     CacheHit, CacheMiss, SelectRow, Fill, CheckName, LookupFails, Drop, Abandon, Loaded, AfterLoad,
     Answer, Goto, TypeOK

LEMMA ExactWrite ==
    ASSUME TypeOK, Inv, NEW r \in Requests, Update(r)
    PROVE  ~stale[r] => WriteIsExact(r)
<1>1. pc[r] = "write" /\ Holds(r)
  BY DEF Update, Goto, Inv
<1>2. task[r].user \in Users
  BY <1>1, TypeOKReady, TaskFields DEF Ready, Fits, Tasks
<1>3. row'[task[r].user] = Applied(copy[r], task[r])
  BY <1>2 DEF Update, Put, TypeOK
<1>4. ~stale[r] => copy[r] = row[task[r].user]
  BY <1>1 DEF Holds, LoadedSteps
<1>5. QED  BY <1>3, <1>4 DEF WriteIsExact

(* A write is the requested change of the row as it is, unless the request *)
(* worked on a cached or overtaken copy.                                   *)
THEOREM LostUpdatesExplained == Spec => LostUpdateHasACause
<1>1. TypeOK /\ Inv /\ [Next]_vars =>
        [\A r \in Requests : pc[r] = "write" /\ pc'[r] = "drop" /\ ~stale[r]
            => WriteIsExact(r)]_vars
  BY OnlyUpdate, ExactWrite
<1>2. QED  BY <1>1, Invariance, PTL DEF Spec, LostUpdateHasACause

(* A password is replaced only by someone who gave the one in the row, or  *)
(* whose select somebody overtook.                                         *)
THEOREM PasswordChangesVouched == Spec => PasswordChangeIsVouched
<1> DEFINE Vouched(r) ==
        pc[r] = "write" /\ pc'[r] = "drop" /\ task[r].op = "password"
        => /\ copy[r].hash = task[r].old
           /\ stale[r] \/ row[task[r].user].hash = task[r].old
<1>1. ASSUME TypeOK, Inv, NEW r \in Requests PROVE Vouched(r)
  BY <1>1 DEF Inv, Holds, LoadedSteps
<1>2. TypeOK /\ Inv => [\A r \in Requests : Vouched(r)]_vars
  BY <1>1
<1>3. QED  BY <1>2, Invariance, PTL DEF Spec, PasswordChangeIsVouched

LEMMA TwinStep ==
    ASSUME TypeOK, Inv, NEW r \in Requests, Create(r) \/ Update(r), ~stale[r],
           NEW u \in Users, NEW v \in Users, Twins(u, v)'
    PROVE  Twins(u, v)
<1>1. Holds(r) /\ Ready(r) /\ row \in [Users -> Account \cup {NoRow}]
  BY TypeOKReady DEF Inv, TypeOK
<1>2. CASE Create(r)
  <2> DEFINE t == task[r]
             a == NewUser(t)
  <2>1. t.user \in Users /\ pc[r] = "insert"
    BY <1>1, <1>2, TaskFields DEF Create, Answer, Goto, Ready, Fits, SignupSteps, Tasks
  <2>2. row' = [row EXCEPT ![t.user] = a]
    BY <1>2 DEF Create, Put
  <2>3. /\ \A w \in Users : row[w].name # t.name /\ row[w].email # t.email
    BY <1>1, <2>1 DEF Holds, EmailTaken, NameTaken
  <2>4. \A w \in Users : w # t.user => row'[w] = row[w]
    BY <1>1, <2>2
  <2>5. row'[t.user].name = t.name /\ row'[t.user].email = t.email
    BY <1>1, <2>1, <2>2 DEF NewUser
  <2>6. u # t.user /\ v # t.user
    BY <2>3, <2>4, <2>5 DEF Twins
  <2>7. QED  BY <2>4, <2>6 DEF Twins, Live
<1>3. CASE Update(r)
  <2> DEFINE w == task[r].user
             t == task[r]
  <2>1. t \in Profile \cup Password /\ w \in Users /\ copy[r] \in Account /\ pc[r] = "write"
    BY <1>1, <1>3, TaskFields DEF Update, Goto, Ready, Fits, LoadedSteps, Tasks
  <2>2. copy[r] = row[w] /\ row[w] \in Account
    BY <1>1, <2>1 DEF Holds, LoadedSteps
  <2>3. row' = [row EXCEPT ![w] = Applied(row[w], t)]
    BY <1>3, <2>2 DEF Update, Put
  <2>4. /\ row'[w].email = row[w].email
        /\ \/ row'[w].name = row[w].name
           \/ row'[w].name = t.name /\ \A x \in Users : row[x].name # t.name
    BY <1>1, <2>1, <2>2, <2>3 DEF Applied, Holds, NameTaken
  <2>5. \A x \in Users : x # w => row'[x] = row[x]
    BY <1>1, <2>3
  <2>6. Live(w)
    BY <2>2, AccountIsLive DEF Live
  <2>7. QED  BY <2>4, <2>5, <2>6 DEF Twins, Live
<1>4. QED  BY <1>2, <1>3

(* Two accounts share a name or an address only by a request whose answers *)
(* had been overtaken.                                                     *)
THEOREM TwinsExplained == Spec => TwinsHaveACause
<1> DEFINE Caused(u, v) ==
        Twins(u, v)' /\ ~Twins(u, v)
        => \E r \in Requests : stale[r] /\ pc[r] \in {"insert", "write"} /\ pc'[r] # pc[r]
<1>1. ASSUME TypeOK, Inv, [Next]_vars, NEW u \in Users, NEW v \in Users,
             Twins(u, v)', ~Twins(u, v)
      PROVE  \E r \in Requests : stale[r] /\ pc[r] \in {"insert", "write"} /\ pc'[r] # pc[r]
  <2>1. row' # row
    BY <1>1 DEF Twins, Live
  <2>2. PICK r \in Requests : RequestNext(r)
    BY <1>1, <2>1 DEF Next, vars, CacheExpires
  <2>3. Create(r) \/ Update(r)
    BY <2>1, <2>2 DEF RequestNext, BeginSignup, SignupEmail, SignupUsername, BeginRequest,
       CacheHit, CacheMiss, SelectRow, Fill, CheckName, LookupFails, Drop, Abandon
  <2>4. stale[r]
    BY <1>1, <2>3, TwinStep DEF TypeOK
  <2>5. pc[r] \in {"insert", "write"} /\ pc'[r] # pc[r]
    BY <1>1, <2>3 DEF Create, Update, Answer, Goto, TypeOK
  <2>6. QED  BY <2>4, <2>5
<1>2. TypeOK /\ Inv /\ [Next]_vars => [\A u, v \in Users : Caused(u, v)]_vars
  BY <1>1
<1>3. QED  BY <1>2, Invariance, PTL DEF Spec, TwinsHaveACause
=============================================================================
