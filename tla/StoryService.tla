---------------------------- MODULE StoryService ----------------------------
(***************************************************************************)
(* What the stories promise an author, without cache, statements or        *)
(* passes.  A story is published with the time at which it expires.  Each  *)
(* request to edit or to remove one is carried out once or given up.  An   *)
(* edit changes the fields it names; a field it leaves out comes from some *)
(* copy of the story that is still around, which may be older than the     *)
(* row.  Nothing else changes a story, except that it may be removed       *)
(* unasked once it has expired; and a removed story stays as it is.        *)
(***************************************************************************)
EXTENDS Integers

CONSTANTS Stories, Requests, Texts, Visibilities,
          Lifetimes,   \* how long an author may let a story live
          Keep,        \* a field that an edit does not name
          NoRow,       \* a story that is not published
          NoTask       \* a request that asks for nothing

VARIABLES
    row,       \* the stories
    copies,    \* the contents of each that anyone holds, the row's among them
    asked,     \* what each request still asks for: [op, story, change]
    now

svars == <<row, copies, asked, now>>

Content == [text : Texts, vis : Visibilities]
Change == [text : Texts \cup {Keep}, vis : Visibilities \cup {Keep}]
Task == [op : {"update", "delete"}, story : Stories, change : Change]

Story(status, c, expiresAt) ==
    [status |-> status, text |-> c.text, vis |-> c.vis, expiresAt |-> expiresAt]
Live(s) == row[s].status = "live"

Merged(c, change) ==
    [text |-> IF change.text = Keep THEN c.text ELSE change.text,
     vis |-> IF change.vis = Keep THEN c.vis ELSE change.vis]

Init ==
    /\ row = [s \in Stories |-> NoRow]
    /\ copies = [s \in Stories |-> {}]
    /\ asked = [r \in Requests |-> NoTask]
    /\ now = 0

Publish(s) ==
    /\ row[s] = NoRow
    /\ \E c \in Content, life \in Lifetimes :
          /\ row' = [row EXCEPT ![s] = Story("live", c, now + life)]
          /\ copies' = [copies EXCEPT ![s] = {c}]
    /\ UNCHANGED <<asked, now>>

Ask(r) ==
    /\ asked[r] = NoTask
    /\ asked'[r] \in Task
    /\ row[asked'[r].story] # NoRow
    /\ asked' = [asked EXCEPT ![r] = asked'[r]]
    /\ UNCHANGED <<row, copies, now>>

(* Any copy but the row's may be forgotten at any time.                    *)
CopiesFade == \A s \in Stories : copies'[s] \subseteq copies[s]

GiveUp ==
    /\ asked' = [r \in Requests |-> IF asked'[r] = NoTask THEN NoTask ELSE asked[r]]
    /\ CopiesFade
    /\ UNCHANGED <<row, now>>

CarryOut(r, op) ==
    /\ asked[r].op = op
    /\ Live(asked[r].story)
    /\ asked' = [asked EXCEPT ![r] = NoTask]
    /\ UNCHANGED now

Edit(r) ==
    LET s == asked[r].story IN
    /\ CarryOut(r, "update")
    /\ \E c \in copies[s] :
          LET new == Merged(c, asked[r].change) IN
          /\ row' = [row EXCEPT ![s] = Story("live", new, row[s].expiresAt)]
          /\ new \in copies'[s]
          /\ copies'[s] \subseteq copies[s] \cup {new}
    /\ \A t \in Stories \ {s} : copies'[t] = copies[t]

Remove(s) == row' = [row EXCEPT ![s].status = "deleted"]

RemoveAsked(r) ==
    /\ CarryOut(r, "delete")
    /\ Remove(asked[r].story)
    /\ CopiesFade

RemoveExpired(s) ==
    /\ Live(s)
    /\ row[s].expiresAt <= now
    /\ Remove(s)
    /\ UNCHANGED <<copies, asked, now>>

Tick ==
    /\ now' = now + 1
    /\ UNCHANGED <<row, copies, asked>>

Next ==
    \/ GiveUp
    \/ \E s \in Stories : Publish(s) \/ RemoveExpired(s)
    \/ \E r \in Requests : Ask(r) \/ Edit(r) \/ RemoveAsked(r)
    \/ Tick

Spec == Init /\ [][Next]_svars
=============================================================================
