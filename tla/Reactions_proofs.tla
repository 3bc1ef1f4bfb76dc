-------------------------- MODULE Reactions_proofs --------------------------
(***************************************************************************)
(* Proofs about the reactions and views, for every set of users, stories,  *)
(* reaction types and ids and every number of requests in flight.          *)
(***************************************************************************)
EXTENDS Reactions, TLAPS

Known == Stored \cup removed \cup swallowed
Gone == removed \cup swallowed
Adding(r) == pc[r] = "record" /\ req[r] \in Add

Unique(rs) ==
    \A x, y \in rs : x.id = y.id \/ (x.story = y.story /\ x.user = y.user) => x = y

Places == {"idle", "record", "load", "write", "notify"}
Valid == View \cup Add \cup Change \cup Remove
Fits(p, q, c) ==
    /\ p \in Places
    /\ p \in {"record", "notify"} => q \in View \cup Add
    /\ p \in {"load", "write"} => q \in Change \cup Remove
    /\ p = "write" => c \in Rows
Ready(r) == Fits(pc[r], req[r], copy[r])

(* What a request may rely on at each place.  Ids are drawn once: the row  *)
(* that a change is about keeps its owner for as long as it exists.        *)
Safe(r) ==
    /\ Adding(r) => req[r].id \notin Known
    /\ pc[r] = "notify" /\ req[r] \in Add => req[r].id \in Known
    /\ pc[r] = "notify" /\ req[r] \in View => <<req[r].story, req[r].user>> \in views
    /\ pc[r] = "write" =>
          /\ copy[r].user = req[r].user
          /\ copy[r].id = req[r].id
          /\ req[r].id \in Stored \cup removed
          /\ \A x \in reactions : x.id = req[r].id => x.user = req[r].user

Distinct == \A q, r \in Requests : q # r /\ Adding(q) /\ Adding(r) => req[q].id # req[r].id
GoneIsGone == Gone \cap Stored = {}

Inv == (\A r \in Requests : Safe(r)) /\ Distinct /\ GoneIsGone /\ IdsAndEventsHaveRecords

-----------------------------------------------------------------------------
(* Type correctness *)

LEMMA InitTypeOK == Init => TypeOK
BY DEF Init, TypeOK

LEMMA TypeOKReady ==
    ASSUME TypeOK, NEW r \in Requests
    PROVE  Ready(r)
BY DEF TypeOK, Ready, Fits, Places

LEMMA RequestFields ==
    /\ \A q \in View : /\ q.op = "view" /\ q.user \in Users /\ q.story \in Stories
                       /\ q.id = Nothing /\ q.type = Nothing
    /\ \A q \in Add : /\ q.op = "add" /\ q.user \in Users /\ q.story \in Stories
                      /\ q.id \in Ids /\ q.type \in Types
    /\ \A q \in Change : /\ q.op = "update" /\ q.user \in Users /\ q.story = Nothing
                         /\ q.id \in Ids /\ q.type \in Types
    /\ \A q \in Remove : /\ q.op = "remove" /\ q.user \in Users /\ q.story = Nothing
                         /\ q.id \in Ids /\ q.type = Nothing
    /\ \A s \in Stories : Author[s] \in Users
    /\ Nothing \notin Ids
BY ReactionAssumption DEF View, Add, Change, Remove

LEMMA StoredType ==
    ASSUME TypeOK
    PROVE  Stored \subseteq Ids
BY DEF TypeOK, Stored, Rows

LEMMA UpsertedType ==
    ASSUME TypeOK, NEW q \in Add, q.id \notin Stored
    PROVE  Upserted(q) \in SUBSET Rows /\ Unique(Upserted(q))
<1>1. /\ reactions \in SUBSET Rows /\ Unique(reactions)
      /\ \A x \in reactions : x.id # q.id
  BY DEF TypeOK, Unique, Stored
<1>2. NewReaction(q) \in Rows /\ NewReaction(q).id = q.id
      /\ NewReaction(q).story = q.story /\ NewReaction(q).user = q.user
  BY RequestFields DEF NewReaction, Rows
<1>3. CASE RowOf(q) = {}
  <2>1. Upserted(q) = reactions \cup {NewReaction(q)}
    BY <1>3 DEF Upserted
  <2>2. \A x \in reactions : ~(x.story = q.story /\ x.user = q.user)
    BY <1>3 DEF RowOf
  <2>3. QED  BY <1>1, <1>2, <2>1, <2>2 DEF Unique
<1>4. CASE RowOf(q) # {}
  <2>1. PICK z \in reactions : z.story = q.story /\ z.user = q.user
    BY <1>4 DEF RowOf
  <2>2. RowOf(q) = {z}
    BY <1>1, <2>1 DEF RowOf, Unique
  <2> DEFINE w == [z EXCEPT !.type = q.type]
  <2>3. Upserted(q) = (reactions \ {z}) \cup {w}
    BY <1>4, <2>2 DEF Upserted
  <2>4. w \in Rows /\ w.id = z.id /\ w.story = z.story /\ w.user = z.user
    BY <1>1, RequestFields DEF Rows
  <2> HIDE DEF w
  <2>5. QED  BY <1>1, <2>1, <2>3, <2>4 DEF Unique
<1>5. QED  BY <1>3, <1>4

LEMMA UpdatedType ==
    ASSUME TypeOK, NEW i, NEW t \in Types
    PROVE  LET rs == (reactions \ WithId(i)) \cup {[x EXCEPT !.type = t] : x \in WithId(i)}
           IN  rs \in SUBSET Rows /\ Unique(rs)
<1>1. reactions \in SUBSET Rows /\ Unique(reactions)
  BY DEF TypeOK, Unique
<1>2. CASE WithId(i) = {}
  BY <1>1, <1>2
<1>3. CASE WithId(i) # {}
  <2>1. PICK z \in reactions : z.id = i
    BY <1>3 DEF WithId
  <2>2. WithId(i) = {z}
    BY <1>1, <2>1 DEF WithId, Unique
  <2> DEFINE w == [z EXCEPT !.type = t]
             rs == (reactions \ WithId(i)) \cup {[x EXCEPT !.type = t] : x \in WithId(i)}
  <2>3. rs = (reactions \ {z}) \cup {w}
    BY <2>2
  <2>4. w \in Rows /\ w.id = z.id /\ w.story = z.story /\ w.user = z.user
    BY <1>1 DEF Rows
  <2> HIDE DEF w, rs
  <2>5. rs \in SUBSET Rows /\ Unique(rs)
    BY <1>1, <2>1, <2>3, <2>4 DEF Unique
  <2>6. QED  BY <2>5 DEF rs
<1>4. QED  BY <1>2, <1>3

TableTyped ==
    /\ reactions \in SUBSET Rows
    /\ Unique(reactions)
    /\ views \in SUBSET (Stories \X Users)
    /\ answered \in SUBSET Ids
    /\ events \in SUBSET [to : Users, story : Stories, from : Users, id : Ids \cup {Nothing}]
    /\ removed \in SUBSET Ids
    /\ swallowed \in SUBSET Ids

LEMMA TypeOKTable == TypeOK => TableTyped
BY DEF TypeOK, TableTyped, Unique

LEMMA SameTable == TableTyped /\ UNCHANGED <<table, history>> => TableTyped'
BY DEF TableTyped, table, history, Unique

(* The shape of a step: request r moves from one place to another.         *)
LEMMA MoveType ==
    ASSUME TypeOK, TableTyped', NEW r \in Requests, NEW from, NEW to, Goto(r, from, to),
           NEW q \in Valid \cup {NoRequest}, req' = [req EXCEPT ![r] = q],
           NEW c \in Rows \cup {NoRow}, copy' = [copy EXCEPT ![r] = c],
           Fits(to, q, c)
    PROVE  TypeOK'
<1>1. /\ pc' \in [Requests -> Places]
      /\ req' \in [Requests -> Valid \cup {NoRequest}]
      /\ copy' \in [Requests -> Rows \cup {NoRow}]
  BY DEF TypeOK, Goto, Valid, Fits, Places
<1>2. \A p \in Requests : Ready(p)'
  <2> TAKE p \in Requests
  <2>1. CASE p = r
    BY <2>1 DEF TypeOK, Goto, Ready
  <2>2. CASE p # r
    BY <2>2, TypeOKReady DEF TypeOK, Goto, Ready
  <2>3. QED  BY <2>1, <2>2
<1>3. QED  BY <1>1, <1>2 DEF TypeOK, TableTyped, Unique, Ready, Fits, Places, Valid

LEMMA AnswerType ==
    ASSUME TypeOK, TableTyped', NEW r \in Requests, NEW from, Answer(r, from)
    PROVE  TypeOK'
<1>1. /\ Goto(r, from, "idle")
      /\ req' = [req EXCEPT ![r] = NoRequest]
      /\ copy' = [copy EXCEPT ![r] = NoRow]
  BY DEF Answer
<1>2. Fits("idle", NoRequest, NoRow)
  BY DEF Fits, Places
<1>3. QED  BY <1>1, <1>2, MoveType

LEMMA StayType ==
    ASSUME TypeOK, TableTyped', NEW r \in Requests, NEW from, NEW to, Goto(r, from, to),
           UNCHANGED req, NEW c \in Rows \cup {NoRow}, copy' = [copy EXCEPT ![r] = c],
           Fits(to, req[r], c)
    PROVE  TypeOK'
<1>1. req' = [req EXCEPT ![r] = req[r]] /\ req[r] \in Valid \cup {NoRequest}
  BY DEF TypeOK, Valid
<1>2. QED  BY <1>1, MoveType

LEMMA KeepCopy ==
    ASSUME TypeOK, NEW r \in Requests, UNCHANGED copy
    PROVE  copy' = [copy EXCEPT ![r] = copy[r]] /\ copy[r] \in Rows \cup {NoRow}
BY DEF TypeOK

LEMMA LoadStep ==
    ASSUME NEW r, Load(r)
    PROVE  /\ UNCHANGED <<table, history>>
           /\ \/ \E x \in WithId(req[r].id) :
                    /\ x # NoRow /\ x.user = req[r].user
                    /\ Goto(r, "load", "write")
                    /\ copy' = [copy EXCEPT ![r] = x]
                    /\ UNCHANGED req
              \/ Answer(r, "load")
<1>1. PICK x : /\ IF WithId(req[r].id) = {} THEN x = NoRow ELSE x \in WithId(req[r].id)
               /\ \/ /\ Own(req[r], x)
                     /\ Goto(r, "load", "write")
                     /\ copy' = [copy EXCEPT ![r] = x]
                     /\ UNCHANGED req
                  \/ ~Own(req[r], x) /\ Answer(r, "load")
  BY DEF Load
<1>2. QED  BY <1>1 DEF Own, Load

LEMMA RequestTypeOK ==
    ASSUME TypeOK, Inv, NEW r \in Requests, RequestNext(r)
    PROVE  TypeOK'
<1>1. TableTyped /\ Ready(r)
  BY TypeOKTable, TypeOKReady
<1>2. CASE BeginViewOrAdd(r)
  <2>1. PICK q \in View \cup Add : req' = [req EXCEPT ![r] = q]
    BY <1>2 DEF BeginViewOrAdd
  <2>2. q \in Valid /\ Fits("record", q, copy[r])
    BY DEF Valid, Fits, Places
  <2>3. Goto(r, "idle", "record") /\ UNCHANGED <<table, history>> /\ UNCHANGED copy
    BY <1>2 DEF BeginViewOrAdd
  <2>4. QED  BY <1>1, <2>1, <2>2, <2>3, SameTable, KeepCopy, MoveType
<1>3. CASE BeginChange(r)
  <2>1. PICK q \in Change \cup Remove : req' = [req EXCEPT ![r] = q]
    BY <1>3 DEF BeginChange
  <2>2. q \in Valid /\ Fits("load", q, copy[r])
    BY DEF Valid, Fits, Places
  <2>3. Goto(r, "idle", "load") /\ UNCHANGED <<table, history>> /\ UNCHANGED copy
    BY <1>3 DEF BeginChange
  <2>4. QED  BY <1>1, <2>1, <2>2, <2>3, SameTable, KeepCopy, MoveType
<1>4. CASE CreateView(r)
  <2>1. TableTyped'
    BY <1>1, <1>4, RequestFields DEF CreateView, TableTyped, history, Unique
  <2>2. Fits("notify", req[r], copy[r])
    BY <1>4 DEF CreateView, Fits, Places
  <2>3. QED  BY <1>4, <2>1, <2>2, KeepCopy, StayType DEF CreateView
<1>5. CASE CreateReaction(r)
  <2>1. req[r] \in Add /\ req[r].id \notin Stored
    BY <1>5 DEF CreateReaction, Goto, Inv, Safe, Adding, Known
  <2>2. reactions' = Upserted(req[r])
    BY <1>5 DEF CreateReaction
  <2>3. reactions' \in SUBSET Rows /\ Unique(reactions')
    BY <2>1, <2>2, UpsertedType
  <2>4. swallowed' \in SUBSET Ids
    BY <1>1, <1>5, <2>1, RequestFields DEF CreateReaction, TableTyped
  <2>5. TableTyped'
    BY <1>1, <1>5, <2>3, <2>4 DEF CreateReaction, TableTyped, Unique
  <2>6. Fits("notify", req[r], copy[r])
    BY <2>1 DEF Fits, Places
  <2>7. QED  BY <1>5, <2>5, <2>6, KeepCopy, StayType DEF CreateReaction
<1>6. CASE Notify(r)
  <2>1. req[r] \in View \cup Add /\ Answer(r, "notify")
    BY <1>1, <1>6 DEF Notify, Answer, Goto, Ready, Fits
  <2>2. Told(req[r]) \in [to : Users, story : Stories, from : Users, id : Ids \cup {Nothing}]
    BY <2>1, RequestFields DEF Told
  <2>3. TableTyped'
    BY <1>1, <1>6, <2>1, <2>2, RequestFields DEF Notify, TableTyped, table, Unique
  <2>4. QED  BY <2>1, <2>3, AnswerType
<1>7. CASE Load(r)
  <2>1. TableTyped'
    BY <1>1, <1>7, LoadStep, SameTable
  <2>2. CASE Answer(r, "load")
    BY <2>1, <2>2, AnswerType
  <2>3. ASSUME NEW x \in WithId(req[r].id), Goto(r, "load", "write"),
               copy' = [copy EXCEPT ![r] = x], UNCHANGED req
        PROVE  TypeOK'
    <3>1. x \in Rows /\ req[r] \in Change \cup Remove
      BY <1>1, <2>3 DEF WithId, TableTyped, Goto, Ready, Fits
    <3>2. Fits("write", req[r], x)
      BY <3>1 DEF Fits, Places
    <3>3. QED  BY <2>1, <2>3, <3>1, <3>2, StayType
  <2>4. QED  BY <1>7, <2>2, <2>3, LoadStep
<1>8. CASE Update(r)
  <2>1. req[r] \in Change
    BY <1>1, <1>8, RequestFields DEF Update, Answer, Goto, Ready, Fits
  <2>2. reactions' \in SUBSET Rows /\ Unique(reactions')
    <3>1. req[r].type \in Types
      BY <2>1, RequestFields
    <3>2. QED  BY <1>8, <3>1, UpdatedType DEF Update
  <2>3. TableTyped'
    BY <1>1, <1>8, <2>2 DEF Update, TableTyped, history, Unique
  <2>4. QED  BY <1>8, <2>3, AnswerType DEF Update
<1>9. CASE Delete(r)
  <2>1. TableTyped'
    BY <1>1, <1>9, StoredType DEF Delete, TableTyped, Unique
  <2>2. QED  BY <1>9, <2>1, AnswerType DEF Delete
<1>10. CASE Abandon(r)
  BY <1>1, <1>10, SameTable, AnswerType DEF Abandon
<1>11. QED
  BY <1>2, <1>3, <1>4, <1>5, <1>6, <1>7, <1>8, <1>9, <1>10 DEF RequestNext

-----------------------------------------------------------------------------
(* What a step does to the table *)

(* Ids are never forgotten, and the only new one is the one just drawn.    *)
TableStep(r) ==
    /\ Known \subseteq Known'
    /\ Known' \subseteq Known \cup {i \in {req[r].id} : Adding(r)}
    /\ removed \subseteq removed'
    /\ Stored \subseteq Stored' \cup removed'
    /\ (Gone \cup Gone') \cap Stored' = {}
    /\ views \subseteq views'
    /\ \A x \in reactions' :
          \/ \E y \in reactions : y.id = x.id /\ y.user = x.user
          \/ Adding(r) /\ x.id = req[r].id

LEMMA SameStep ==
    ASSUME TypeOK, Inv, NEW r \in Requests, UNCHANGED <<table, removed, swallowed>>
    PROVE  TableStep(r)
BY DEF TableStep, table, Known, Gone, Stored, Inv, GoneIsGone

LEMMA UpsertStep ==
    ASSUME TypeOK, Inv, NEW r \in Requests, CreateReaction(r)
    PROVE  /\ TableStep(r)
           /\ req[r].id \in Known'
           /\ \A x \in reactions \ reactions' : x.user = req[r].user
<1> DEFINE q == req[r]
<1>1. q \in Add /\ Adding(r) /\ q.id \notin Known
  BY DEF CreateReaction, Goto, Inv, Safe, Adding
<1>2. /\ reactions \in SUBSET Rows /\ Unique(reactions)
      /\ reactions' = Upserted(q) /\ UNCHANGED <<views, removed>>
      /\ Gone \cap Stored = {}
  BY TypeOKTable DEF CreateReaction, TableTyped, Inv, GoneIsGone
<1>3. CASE RowOf(q) = {}
  <2>1. reactions' = reactions \cup {NewReaction(q)} /\ swallowed' = swallowed
    BY <1>2, <1>3 DEF CreateReaction, Upserted
  <2>2. NewReaction(q).id = q.id
    BY DEF NewReaction
  <2>3. Stored' = Stored \cup {q.id} /\ Gone' = Gone
    BY <1>2, <2>1, <2>2 DEF Stored, Gone
  <2>4. \A x \in reactions' : x \in reactions \/ x.id = q.id
    BY <2>1, <2>2
  <2>5. TableStep(r)
    BY <1>1, <1>2, <2>1, <2>3, <2>4 DEF TableStep, Known, Gone
  <2>6. QED  BY <2>1, <2>3, <2>5 DEF Known
<1>4. CASE RowOf(q) # {}
  <2>1. PICK z \in reactions : z.story = q.story /\ z.user = q.user
    BY <1>4 DEF RowOf
  <2>2. RowOf(q) = {z}
    BY <1>2, <2>1 DEF RowOf, Unique
  <2> DEFINE w == [z EXCEPT !.type = q.type]
  <2>3. reactions' = (reactions \ {z}) \cup {w}
    BY <1>2, <1>4, <2>2 DEF Upserted
  <2>4. w.id = z.id /\ w.user = z.user
    BY <1>2, <2>1 DEF Rows
  <2> HIDE DEF w
  <2>5. swallowed' = swallowed \cup {q.id}
    BY <1>4 DEF CreateReaction
  <2>6. Stored' = Stored /\ Gone' = Gone \cup {q.id}
    BY <1>2, <2>1, <2>3, <2>4, <2>5 DEF Stored, Gone
  <2>7. \A x \in reactions' : \E y \in reactions : y.id = x.id /\ y.user = x.user
    BY <2>1, <2>3, <2>4
  <2>8. TableStep(r)
    BY <1>1, <1>2, <2>5, <2>6, <2>7 DEF TableStep, Known, Gone
  <2>9. QED  BY <2>1, <2>3, <2>5, <2>8 DEF Known
<1>5. QED  BY <1>3, <1>4

LEMMA UpdateStep ==
    ASSUME TypeOK, Inv, NEW r \in Requests, Update(r)
    PROVE  /\ TableStep(r)
           /\ \A x \in reactions \ reactions' : x.user = req[r].user
<1>1. pc[r] = "write" /\ copy[r].id = req[r].id /\ UNCHANGED <<views, removed, swallowed>>
  BY DEF Update, Answer, Goto, Inv, Safe, history
<1>2. \A x \in reactions : x.id = req[r].id => x.user = req[r].user
  BY <1>1 DEF Inv, Safe
<1>3. reactions \in SUBSET Rows /\ Unique(reactions)
  BY TypeOKTable DEF TableTyped
<1> DEFINE i == req[r].id
           upd(x) == [x EXCEPT !.type = req[r].type]
<1>4. reactions' = (reactions \ WithId(i)) \cup {upd(x) : x \in WithId(i)}
  BY <1>1 DEF Update
<1>5. \A x \in reactions : upd(x).id = x.id /\ upd(x).user = x.user
  BY <1>3 DEF Rows
<1> HIDE DEF upd
<1>6. /\ \A x \in reactions' : \E y \in reactions : y.id = x.id /\ y.user = x.user
      /\ \A y \in reactions : \E x \in reactions' : y.id = x.id
      /\ \A x \in reactions \ reactions' : x.id = i
  BY <1>4, <1>5 DEF WithId
<1>7. Stored' = Stored
  BY <1>6 DEF Stored
<1>8. TableStep(r)
  BY <1>1, <1>6, <1>7 DEF TableStep, Known, Gone, Inv, GoneIsGone
<1>9. QED  BY <1>2, <1>6, <1>8

LEMMA DeleteStep ==
    ASSUME TypeOK, Inv, NEW r \in Requests, Delete(r)
    PROVE  /\ TableStep(r)
           /\ \A x \in reactions \ reactions' : x.user = req[r].user
<1>1. pc[r] = "write" /\ UNCHANGED <<views, swallowed>>
  BY DEF Delete, Answer, Goto
<1>2. \A x \in reactions : x.id = req[r].id => x.user = req[r].user
  BY <1>1 DEF Inv, Safe
<1>3. /\ reactions' = reactions \ WithId(req[r].id)
      /\ removed' = removed \cup (Stored \cap {req[r].id})
  BY DEF Delete
<1>4. Stored' = Stored \ {req[r].id} /\ reactions' \subseteq reactions
  BY <1>3 DEF Stored, WithId
<1>5. TableStep(r)
  BY <1>1, <1>3, <1>4 DEF TableStep, Known, Gone, Inv, GoneIsGone
<1>6. QED  BY <1>2, <1>3, <1>5 DEF WithId

LEMMA RequestStep ==
    ASSUME TypeOK, Inv, NEW r \in Requests, RequestNext(r)
    PROVE  /\ TableStep(r)
           /\ \A x \in reactions \ reactions' : x.user = req[r].user
<1>1. CASE CreateView(r)
  BY <1>1 DEF CreateView, TableStep, history, Known, Gone, Stored, Inv, GoneIsGone
<1>2. CASE BeginViewOrAdd(r) \/ BeginChange(r) \/ Notify(r) \/ Load(r) \/ Abandon(r)
  <2>1. UNCHANGED <<table, removed, swallowed>>
    BY <1>2 DEF BeginViewOrAdd, BeginChange, Notify, Load, Abandon, history
  <2>2. reactions' = reactions
    BY <2>1 DEF table
  <2>3. QED  BY <2>1, <2>2, SameStep
<1>3. QED  BY <1>1, <1>2, UpsertStep, UpdateStep, DeleteStep DEF RequestNext

LEMMA MovesOnly ==
    ASSUME TypeOK, NEW r \in Requests, NEW q \in Requests, q # r, RequestNext(r)
    PROVE  pc'[q] = pc[q] /\ req'[q] = req[q] /\ copy'[q] = copy[q]
<1>1. CASE Load(r)
  BY <1>1, LoadStep DEF Answer, Goto, TypeOK
<1>2. QED
  BY <1>1 DEF RequestNext, BeginViewOrAdd, BeginChange, CreateView, CreateReaction,
     Notify, Update, Delete, Abandon, Answer, Goto, TypeOK

-----------------------------------------------------------------------------
(* What a request relies on *)

LEMMA OthersSafe ==
    ASSUME TypeOK, Inv, NEW r \in Requests, NEW q \in Requests, q # r, TableStep(r),
           pc'[q] = pc[q], req'[q] = req[q], copy'[q] = copy[q]
    PROVE  Safe(q)'
<1>1. Safe(q) /\ (Adding(q) /\ Adding(r) => req[q].id # req[r].id)
  BY DEF Inv, Distinct
<1>2. Adding(q)' => Adding(q) /\ req[q].id \notin Known'
  BY <1>1 DEF Adding, TableStep, Safe
<1>3. pc[q] = "write" => \A x \in reactions' : x.id = req[q].id => x.user = req[q].user
  <2> SUFFICES ASSUME pc[q] = "write", NEW x \in reactions', x.id = req[q].id
               PROVE  x.user = req[q].user
    OBVIOUS
  <2>1. CASE \E y \in reactions : y.id = x.id /\ y.user = x.user
    BY <1>1, <2>1 DEF Safe
  <2>2. CASE Adding(r) /\ x.id = req[r].id
    <3>1. req[r].id \notin Known /\ req[q].id \in Known
      BY <1>1, <2>2 DEF Inv, Safe, Known
    <3>2. QED  BY <2>2, <3>1
  <2>3. QED  BY <2>1, <2>2 DEF TableStep
<1>4. pc[q] = "write" => req[q].id \in Stored' \cup removed'
  BY <1>1 DEF Safe, TableStep
<1>5. QED  BY <1>1, <1>2, <1>3, <1>4 DEF Safe, TableStep

LEMMA OwnSafe ==
    ASSUME TypeOK, Inv, NEW r \in Requests, RequestNext(r)
    PROVE  Safe(r)'
<1>1. CASE pc'[r] \in {"idle", "load"}
  BY <1>1 DEF Safe, Adding
<1>2. CASE BeginViewOrAdd(r)
  <2>1. PICK q \in View \cup Add : (q.op = "add" => q.id \notin Drawn)
                                   /\ req' = [req EXCEPT ![r] = q]
    BY <1>2 DEF BeginViewOrAdd
  <2>2. pc'[r] = "record" /\ req'[r] = q /\ Known' = Known
    BY <1>2, <2>1 DEF BeginViewOrAdd, Goto, TypeOK, Known, Stored, table, history
  <2>3. q \in Add => q.id \notin Known
    BY <2>1, RequestFields DEF Drawn, Known
  <2>4. QED  BY <2>2, <2>3 DEF Safe, Adding
<1>3. CASE CreateView(r)
  <2>1. /\ pc'[r] = "notify" /\ req'[r] = req[r] /\ req[r] \in View
        /\ <<req[r].story, req[r].user>> \in views'
    BY <1>3 DEF CreateView, Goto, TypeOK
  <2>2. req[r] \notin Add
    BY <2>1, RequestFields
  <2>3. QED  BY <2>1, <2>2 DEF Safe, Adding
<1>4. CASE CreateReaction(r)
  <2>1. /\ pc'[r] = "notify" /\ req'[r] = req[r] /\ req[r] \in Add
        /\ req[r].id \in Known'
    BY <1>4, UpsertStep DEF CreateReaction, Goto, TypeOK
  <2>2. req[r] \notin View
    BY <2>1, RequestFields
  <2>3. QED  BY <2>1, <2>2 DEF Safe, Adding
<1>5. CASE Load(r)
  <2>1. ASSUME NEW x \in WithId(req[r].id), x.user = req[r].user,
               Goto(r, "load", "write"), copy' = [copy EXCEPT ![r] = x], UNCHANGED req
        PROVE  Safe(r)'
    <3>1. pc'[r] = "write" /\ copy'[r] = x /\ req'[r] = req[r] /\ UNCHANGED <<table, history>>
      BY <1>5, <2>1, LoadStep DEF Goto, TypeOK
    <3>2. x.id = req[r].id /\ x.id \in Stored' /\ x \in reactions
      BY <2>1, <3>1 DEF WithId, Stored, table
    <3>3. \A y \in reactions' : y.id = req[r].id => y.user = req[r].user
      BY <2>1, <3>1, <3>2, TypeOKTable DEF TableTyped, Unique, table
    <3>4. QED  BY <2>1, <3>1, <3>2, <3>3 DEF Safe, Adding
  <2>2. Answer(r, "load") => pc'[r] = "idle"
    BY DEF Answer, Goto, TypeOK
  <2>3. QED  BY <1>1, <1>5, <2>1, <2>2, LoadStep
<1>6. CASE BeginChange(r) \/ Notify(r) \/ Update(r) \/ Delete(r) \/ Abandon(r)
  <2>1. pc'[r] \in {"idle", "load"}
    BY <1>6 DEF BeginChange, Notify, Update, Delete, Abandon, Answer, Goto, TypeOK
  <2>2. QED  BY <1>1, <2>1
<1>7. QED  BY <1>2, <1>3, <1>4, <1>5, <1>6 DEF RequestNext

LEMMA DistinctStep ==
    ASSUME TypeOK, Inv, NEW r \in Requests, RequestNext(r)
    PROVE  Distinct'
<1>1. ASSUME NEW q \in Requests, q # r, Adding(r)', Adding(q)' PROVE req'[q].id # req'[r].id
  <2>1. Adding(q) /\ req'[q] = req[q]
    BY <1>1, MovesOnly DEF Adding
  <2>2. BeginViewOrAdd(r)
    <3>1. CASE Load(r)
      BY <1>1, <3>1, LoadStep DEF Adding, Answer, Goto, TypeOK
    <3>2. QED
      BY <1>1, <3>1 DEF RequestNext, BeginChange, CreateView, CreateReaction, Notify,
         Update, Delete, Abandon, Answer, Goto, Adding, TypeOK
  <2>3. PICK p \in View \cup Add : (p.op = "add" => p.id \notin Drawn)
                                   /\ req' = [req EXCEPT ![r] = p]
    BY <2>2 DEF BeginViewOrAdd
  <2>4. req'[r] = p /\ p \in Add
    BY <1>1, <2>3 DEF Adding, TypeOK
  <2>5. p.id # req[q].id
    BY <2>3, <2>4, RequestFields DEF Drawn
  <2>6. QED  BY <2>1, <2>4, <2>5
<1>2. ASSUME NEW p \in Requests, NEW q \in Requests, p # r, q # r, p # q,
             Adding(p)', Adding(q)'
      PROVE  req'[q].id # req'[p].id
  BY <1>2, MovesOnly DEF Adding, Inv, Distinct
<1>3. QED  BY <1>1, <1>2 DEF Distinct

LEMMA RecordsStep ==
    ASSUME TypeOK, Inv, NEW r \in Requests, RequestNext(r)
    PROVE  IdsAndEventsHaveRecords'
<1>1. TableStep(r) /\ IdsAndEventsHaveRecords
  BY RequestStep DEF Inv
<1>2. Known \subseteq Known' /\ views \subseteq views'
  BY <1>1 DEF TableStep
<1> DEFINE Backed(e) ==
        /\ e.to = Author[e.story] /\ e.to # e.from
        /\ IF e.id = Nothing THEN <<e.story, e.from>> \in views' ELSE e.id \in Known'
<1>3. answered \subseteq Known' /\ \A e \in events : Backed(e)
  BY <1>1, <1>2 DEF IdsAndEventsHaveRecords, Known
<1>4. CASE Notify(r)
  <2> DEFINE q == req[r]
  <2>1. q \in View \cup Add /\ pc[r] = "notify" /\ Safe(r)
    BY <1>4, TypeOKReady DEF Notify, Answer, Goto, Ready, Fits, Inv
  <2>2. q \in View => q.id = Nothing /\ <<q.story, q.user>> \in views'
    BY <1>2, <2>1, RequestFields DEF Safe
  <2>3. q \in Add => q.id \in Known' /\ q.id # Nothing
    BY <1>2, <2>1, RequestFields DEF Safe
  <2>4. /\ Told(q).to = Author[Told(q).story] /\ Told(q).story = q.story
        /\ Told(q).from = q.user /\ Told(q).id = q.id
    BY DEF Told
  <2>5. \A e \in events' : Backed(e)
    BY <1>3, <1>4, <2>1, <2>2, <2>3, <2>4 DEF Notify
  <2>6. answered' \subseteq Known'
    BY <1>3, <1>4, <2>1, <2>2, <2>3 DEF Notify
  <2>7. QED  BY <2>5, <2>6 DEF IdsAndEventsHaveRecords, Known
<1>5. CASE ~Notify(r)
  <2>1. UNCHANGED <<answered, events>>
    BY <1>5 DEF RequestNext, BeginViewOrAdd, BeginChange, CreateView, CreateReaction,
       Load, Update, Delete, Abandon, history
  <2>2. QED  BY <1>3, <2>1 DEF IdsAndEventsHaveRecords, Known
<1>6. QED  BY <1>4, <1>5

LEMMA NextInv == TypeOK /\ Inv /\ [Next]_vars => TypeOK' /\ Inv'
<1> SUFFICES ASSUME TypeOK, Inv, [Next]_vars PROVE TypeOK' /\ Inv'
  OBVIOUS
<1>1. ASSUME NEW r \in Requests, RequestNext(r) PROVE TypeOK' /\ Inv'
  <2>1. \A q \in Requests : Safe(q)'
    BY <1>1, RequestStep, MovesOnly, OthersSafe, OwnSafe
  <2>2. GoneIsGone'
    BY <1>1, RequestStep DEF TableStep, GoneIsGone
  <2>3. QED  BY <1>1, <2>1, <2>2, RequestTypeOK, DistinctStep, RecordsStep DEF Inv
<1>2. CASE UNCHANGED vars
  <2>1. TypeOK'
    BY <1>2 DEF vars, table, history, TypeOK
  <2>2. Inv'
    BY <1>2 DEF vars, table, history, Inv, Safe, Distinct, GoneIsGone, Gone, Known, Stored,
       Adding, IdsAndEventsHaveRecords
  <2>3. QED  BY <2>1, <2>2
<1>3. QED  BY <1>1, <1>2 DEF Next

LEMMA InitInv == Init => Inv
BY DEF Init, Inv, Safe, Distinct, GoneIsGone, Gone, Stored, Adding, IdsAndEventsHaveRecords

LEMMA Invariance == Spec => [](TypeOK /\ Inv)
<1>1. QED  BY InitTypeOK, InitInv, NextInv, PTL DEF Spec

-----------------------------------------------------------------------------
(* Results *)

(* Rows, views and requests are well formed, and no two rows share an id   *)
(* or a (story, user) pair.                                                *)
THEOREM ReactionsTypeCorrect == Spec => []TypeOK
<1>1. QED  BY Invariance, PTL

(* A client is told of no reaction and an author of no view that was never *)
(* recorded.                                                               *)
THEOREM IdsAndEventsRecorded == Spec => []IdsAndEventsHaveRecords
<1>1. Inv => IdsAndEventsHaveRecords
  BY DEF Inv
<1>2. QED  BY <1>1, Invariance, PTL

LEMMA RequestMoves ==
    ASSUME TypeOK, NEW r \in Requests, RequestNext(r)
    PROVE  pc[r] # pc'[r]
<1>1. CASE Load(r)
  BY <1>1, LoadStep DEF Answer, Goto, TypeOK
<1>2. QED
  BY <1>1 DEF RequestNext, BeginViewOrAdd, BeginChange, CreateView, CreateReaction,
     Notify, Update, Delete, Abandon, Answer, Goto, TypeOK

(* A row is changed or removed by nobody but its owner.                    *)
THEOREM OwnReactionsOnly == Spec => OwnReactionOnly
<1> DEFINE ByOwner == \A x \in reactions \ reactions' :
                         \E r \in Requests : pc[r] # pc'[r] /\ req[r].user = x.user
<1>1. ASSUME TypeOK, Inv, [Next]_vars, NEW x \in reactions \ reactions'
      PROVE  \E r \in Requests : pc[r] # pc'[r] /\ req[r].user = x.user
  <2>1. PICK r \in Requests : RequestNext(r)
    BY <1>1 DEF Next, vars, table
  <2>2. QED  BY <1>1, <2>1, RequestStep, RequestMoves
<1>2. TypeOK /\ Inv /\ [Next]_vars => [ByOwner]_vars
  BY <1>1
<1>3. QED  BY <1>2, Invariance, PTL DEF Spec, OwnReactionOnly

(* An id that was removed or never stored does not appear again.           *)
THEOREM NothingResurrected == Spec => NoResurrection
<1> DEFINE StaysGone == \A i \in removed \cup swallowed : i \notin Stored'
<1>1. ASSUME TypeOK, Inv, [Next]_vars PROVE [StaysGone]_vars
  <2>1. ASSUME NEW r \in Requests, RequestNext(r) PROVE StaysGone
    BY <1>1, <2>1, RequestStep DEF TableStep, Gone
  <2>2. QED  BY <1>1, <2>1 DEF Next
<1>2. TypeOK /\ Inv /\ [Next]_vars => [StaysGone]_vars
  BY <1>1
<1>3. QED  BY <1>2, Invariance, PTL DEF Spec, NoResurrection

-----------------------------------------------------------------------------
(* The requests implement AudienceService                                  *)

At(x, s, u) == x.story = s /\ x.user = u

(* Reaction shows the one row of each pair.                                *)
Shown ==
    /\ Reaction = [p \in Stories \X Users |-> Reaction[p]]
    /\ \A x \in reactions : Reaction[<<x.story, x.user>>] = x.type
    /\ \A s \in Stories, u \in Users :
          (\A x \in reactions : ~At(x, s, u)) => Reaction[<<s, u>>] = Nothing

LEMMA RowsAreShown == TypeOK => Shown
<1> SUFFICES ASSUME TypeOK PROVE Shown
  OBVIOUS
<1>1. /\ reactions \in SUBSET Rows
      /\ \A x, y \in reactions : x.story = y.story /\ x.user = y.user => x = y
  BY DEF TypeOK
<1>2. Reaction = [p \in Stories \X Users |-> Reaction[p]]
  BY DEF Reaction
<1>3. ASSUME NEW s \in Stories, NEW u \in Users
      PROVE  /\ Reacted(s, u) = {x \in reactions : At(x, s, u)}
             /\ Reaction[<<s, u>>] = IF Reacted(s, u) = {} THEN Nothing
                                    ELSE (CHOOSE x \in Reacted(s, u) : TRUE).type
  BY DEF Reacted, RowOf, At, Reaction
<1>4. ASSUME NEW x \in reactions PROVE Reaction[<<x.story, x.user>>] = x.type
  <2>1. x.story \in Stories /\ x.user \in Users
    BY <1>1 DEF Rows
  <2>2. \A y \in reactions : At(y, x.story, x.user) <=> y = x
    BY <1>1 DEF At
  <2>3. Reacted(x.story, x.user) = {y \in reactions : At(y, x.story, x.user)}
    BY <1>3, <2>1
  <2>4. Reacted(x.story, x.user) = {x}
    BY <2>2, <2>3
  <2>5. QED  BY <1>3, <2>1, <2>4
<1>5. QED  BY <1>2, <1>3, <1>4 DEF Shown

(* The rows of one pair change, and it shows there and nowhere else.       *)
LEMMA OnePairChanges ==
    ASSUME TypeOK, TypeOK', NEW s \in Stories, NEW u \in Users, NEW t,
           IF t = Nothing THEN \A x \in reactions' : ~At(x, s, u)
                          ELSE \E x \in reactions' : At(x, s, u) /\ x.type = t,
           \A x \in Rows : ~At(x, s, u) => (x \in reactions <=> x \in reactions')
    PROVE  Reaction' = [Reaction EXCEPT ![<<s, u>>] = t]
<1>1. Shown /\ Shown'
  <2>1. (TypeOK => Shown)'
    BY RowsAreShown, PTL
  <2>2. QED  BY <2>1, RowsAreShown
<1>2. reactions \in SUBSET Rows /\ reactions' \in SUBSET Rows
  BY DEF TypeOK
<1>3. Reaction'[<<s, u>>] = t
  BY <1>1 DEF Shown, At
<1>4. ASSUME NEW a \in Stories, NEW b \in Users, <<a, b>> # <<s, u>>
      PROVE  Reaction'[<<a, b>>] = Reaction[<<a, b>>]
  <2>1. \A x \in Rows : At(x, a, b) => (x \in reactions <=> x \in reactions')
    BY <1>4 DEF At
  <2>2. CASE \A x \in reactions : ~At(x, a, b)
    BY <1>1, <1>2, <2>1, <2>2 DEF Shown
  <2>3. CASE \E x \in reactions : At(x, a, b)
    <3>1. PICK x \in reactions : At(x, a, b)
      BY <2>3
    <3>2. x \in reactions'
      BY <1>2, <2>1, <3>1
    <3>3. QED  BY <1>1, <3>1, <3>2 DEF Shown, At
  <2>4. QED  BY <2>2, <2>3
<1> DEFINE changed == [Reaction EXCEPT ![<<s, u>>] = t]
<1>5. \A p \in Stories \X Users : Reaction'[p] = changed[p]
  <2> TAKE p \in Stories \X Users
  <2>1. PICK a \in Stories, b \in Users : p = <<a, b>>
    OBVIOUS
  <2>2. CASE p = <<s, u>>
    BY <1>1, <1>3, <2>2 DEF Shown
  <2>3. CASE p # <<s, u>>
    BY <1>1, <1>4, <2>1, <2>3 DEF Shown
  <2>4. QED  BY <2>2, <2>3
<1>6. changed = [p \in Stories \X Users |-> changed[p]]
  BY <1>1 DEF Shown
<1> HIDE DEF changed
<1>7. Reaction' = [p \in Stories \X Users |-> Reaction'[p]]
  BY <1>1 DEF Shown
<1>8. Reaction' = changed
  BY <1>5, <1>6, <1>7
<1>9. QED  BY <1>8 DEF changed

LEMMA SameReaction == UNCHANGED reactions => UNCHANGED Reaction
BY DEF Reaction, Reacted, RowOf

LEMMA SameNews == UNCHANGED events => UNCHANGED News
BY DEF News

(* How a request looks from outside.                                       *)
LEMMA GoesOn ==
    ASSUME TypeOK, NEW r \in Requests, RequestNext(r),
           pc[r] # "idle", pc'[r] # "idle", req'[r] = req[r]
    PROVE  Asked' = Asked
<1>1. \A q \in Requests : (pc'[q] = "idle" <=> pc[q] = "idle") /\ req'[q] = req[q]
  BY MovesOnly
<1>2. QED  BY <1>1 DEF Asked

LEMMA GoesAway ==
    ASSUME TypeOK, NEW r \in Requests, RequestNext(r), NEW from, Answer(r, from)
    PROVE  Asked' = [Asked EXCEPT ![r] = NoAsk] /\ Done' = Done \ {r}
<1>1. pc'[r] = "idle"
  BY DEF Answer, Goto, TypeOK
<1>2. \A q \in Requests \ {r} : pc'[q] = pc[q] /\ req'[q] = req[q]
  BY MovesOnly
<1>3. QED  BY <1>1, <1>2 DEF Asked, Done

LEMMA AskedOf ==
    ASSUME TypeOK, NEW r \in Requests, pc[r] # "idle"
    PROVE  /\ Asked[r] = Gist(req[r])
           /\ Asked[r].op = req[r].op /\ Asked[r].user = req[r].user
           /\ Asked[r].story = req[r].story /\ Asked[r].type = req[r].type
           /\ req[r] \in Valid => Asked[r] # NoAsk
BY RequestFields DEF Asked, Gist, NoAsk, Valid

LEMMA Leaves ==
    ASSUME TypeOK, NEW r \in Requests, RequestNext(r), NEW from, Answer(r, from),
           from # "idle", UNCHANGED <<Reaction, views, News>>
    PROVE  Service!Next
<1>1. pc[r] # "idle" /\ req[r] \in Valid
  BY TypeOKReady DEF Answer, Goto, Ready, Fits, Places, Valid
<1>2. Asked[r] # NoAsk
  BY <1>1, AskedOf
<1>3. Service!Leave(r)
  BY <1>2, GoesAway DEF Service!Leave, Service!Ends
<1>4. QED  BY <1>3 DEF Service!Next

LEMMA ArriveImplements ==
    ASSUME TypeOK, NEW r \in Requests, BeginViewOrAdd(r) \/ BeginChange(r)
    PROVE  Service!Next
<1>1. PICK q \in Valid : req' = [req EXCEPT ![r] = q]
  BY DEF BeginViewOrAdd, BeginChange, Valid
<1>2. pc[r] = "idle" /\ pc'[r] \in {"record", "load"} /\ req'[r] = q
  BY <1>1 DEF BeginViewOrAdd, BeginChange, Goto, TypeOK
<1>3. \A p \in Requests \ {r} : pc'[p] = pc[p] /\ req'[p] = req[p]
  BY MovesOnly DEF RequestNext
<1>4. Asked' = [Asked EXCEPT ![r] = Gist(q)] /\ Asked[r] = NoAsk /\ Done' = Done
  BY <1>2, <1>3 DEF Asked, Done
<1>5. Gist(q) \in Service!Ask
  BY DEF Gist, Service!Ask, Valid, View, Add, Change, Remove
<1>6. UNCHANGED <<Reaction, views, News>>
  BY SameReaction, SameNews DEF BeginViewOrAdd, BeginChange, table, history
<1>7. Asked'[r] = Gist(q)
  BY <1>4 DEF Asked
<1>8. Service!Arrive(r)
  BY <1>4, <1>5, <1>6, <1>7 DEF Service!Arrive
<1>9. QED  BY <1>8 DEF Service!Next

LEMMA SeeImplements ==
    ASSUME TypeOK, NEW r \in Requests, CreateView(r)
    PROVE  Service!Next
<1>1. /\ pc[r] = "record" /\ pc'[r] = "notify" /\ req' = req /\ req[r] \in View
      /\ views' = views \cup {<<req[r].story, req[r].user>>}
      /\ UNCHANGED <<reactions, events>>
  BY DEF CreateView, Goto, TypeOK, history
<1>2. Asked' = Asked /\ Done' = Done \cup {r} /\ r \notin Done
  BY <1>1, GoesOn, MovesOnly DEF RequestNext, Done
<1>3. Asked[r].op = "view" /\ Asked[r].user = req[r].user /\ Asked[r].story = req[r].story
  BY <1>1, AskedOf, RequestFields
<1>4. Service!See(r)
  BY <1>1, <1>2, <1>3, SameReaction, SameNews DEF Service!See, Service!Open, Service!Takes
<1>5. QED  BY <1>4 DEF Service!Next

(* The row of the pair, new or kept, now has the type that was asked for.  *)
LEMMA UpsertShows ==
    ASSUME TypeOK, TypeOK', NEW q \in Add, reactions' = Upserted(q)
    PROVE  Reaction' = [Reaction EXCEPT ![<<q.story, q.user>>] = q.type]
<1>1. /\ reactions \in SUBSET Rows
      /\ q.story \in Stories /\ q.user \in Users /\ q.type \in Types /\ q.type # Nothing
  BY RequestFields, ReactionAssumption DEF TypeOK
<1>2. \A x \in RowOf(q) : At(x, q.story, q.user)
  BY DEF RowOf, At
<1> DEFINE upd(x) == [x EXCEPT !.type = q.type]
<1>3. \A x \in RowOf(q) : At(upd(x), q.story, q.user) /\ upd(x).type = q.type
  BY <1>1, <1>2 DEF At, Rows, RowOf
<1>4. At(NewReaction(q), q.story, q.user) /\ NewReaction(q).type = q.type
  BY DEF NewReaction, At
<1>5. reactions' = IF RowOf(q) = {} THEN reactions \cup {NewReaction(q)}
                   ELSE (reactions \ RowOf(q)) \cup {upd(x) : x \in RowOf(q)}
  BY DEF Upserted
<1> HIDE DEF upd
<1>6. \E x \in reactions' : At(x, q.story, q.user) /\ x.type = q.type
  BY <1>3, <1>4, <1>5
<1>7. \A x \in Rows : ~At(x, q.story, q.user) => (x \in reactions <=> x \in reactions')
  BY <1>2, <1>3, <1>4, <1>5
<1>8. QED  BY <1>1, <1>6, <1>7, OnePairChanges

LEMMA ReactImplements ==
    ASSUME TypeOK, TypeOK', NEW r \in Requests, CreateReaction(r)
    PROVE  Service!Next
<1>1. /\ pc[r] = "record" /\ pc'[r] = "notify" /\ req' = req /\ req[r] \in Add
      /\ reactions' = Upserted(req[r])
      /\ UNCHANGED <<views, events>>
  BY DEF CreateReaction, Goto, TypeOK
<1>2. Asked' = Asked /\ Done' = Done \cup {r} /\ r \notin Done
  BY <1>1, GoesOn, MovesOnly DEF RequestNext, Done
<1>3. /\ Asked[r].op = "add" /\ Asked[r].user = req[r].user
      /\ Asked[r].story = req[r].story /\ Asked[r].type = req[r].type
  BY <1>1, AskedOf, RequestFields
<1>4. Reaction' = [Reaction EXCEPT ![<<Asked[r].story, Asked[r].user>>] = Asked[r].type]
  BY <1>1, <1>3, UpsertShows
<1>5. Service!React(r)
  BY <1>1, <1>2, <1>3, <1>4, SameNews DEF Service!React, Service!Open, Service!Takes
<1>6. QED  BY <1>5 DEF Service!Next

LEMMA NotifyImplements ==
    ASSUME TypeOK, NEW r \in Requests, Notify(r)
    PROVE  Service!Next
<1> DEFINE q == req[r]
           item == [to |-> Author[q.story], story |-> q.story, from |-> q.user, kind |-> q.op]
<1>1. /\ Answer(r, "notify") /\ pc[r] = "notify" /\ q \in View \cup Add
      /\ UNCHANGED <<reactions, views>>
  BY TypeOKReady DEF Notify, Answer, Goto, Ready, Fits, table
<1>2. CASE events' = events
  BY <1>1, <1>2, Leaves, SameReaction, SameNews DEF RequestNext
<1>3. CASE events' # events
  <2>1. events' = events \cup {Told(q)} /\ Told(q).to # Told(q).from
    BY <1>3 DEF Notify
  <2>2. /\ Told(q).to = Author[q.story] /\ Told(q).story = q.story
        /\ Told(q).from = q.user /\ Kind(Told(q)) = q.op
    BY <1>1, RequestFields DEF Told, Kind
  <2>3. News' = News \cup {item}
    BY <2>1, <2>2 DEF News
  <2>4. /\ Asked[r].op = q.op /\ Asked[r].user = q.user /\ Asked[r].story = q.story
        /\ r \in Done
    BY <1>1, AskedOf DEF Done
  <2>5. Asked' = [Asked EXCEPT ![r] = NoAsk] /\ Done' = Done \ {r}
    BY <1>1, GoesAway DEF RequestNext
  <2>6. Service!Announce(r)
    BY <1>1, <2>1, <2>2, <2>3, <2>4, <2>5, SameReaction DEF Service!Announce, Service!Ends
  <2>7. QED  BY <2>6 DEF Service!Next
<1>4. QED  BY <1>2, <1>3

(* The row that a change is about belongs to its user, if it still exists. *)
LEMMA OwnRow ==
    ASSUME TypeOK, Inv, NEW r \in Requests, pc[r] = "write",
           NEW z \in WithId(req[r].id)
    PROVE  /\ z \in Rows /\ WithId(req[r].id) = {z}
           /\ copy[r].id = req[r].id /\ z.user = req[r].user
           /\ z.story \in Stories /\ z.user \in Users /\ z.type # Nothing
           /\ \A x \in reactions : At(x, z.story, z.user) <=> x = z
           /\ Reaction[<<z.story, req[r].user>>] # Nothing
<1>1. TableTyped /\ z \in reactions /\ z.id = req[r].id
  BY TypeOKTable DEF WithId
<1>2. /\ z \in Rows /\ WithId(req[r].id) = {z}
      /\ \A x \in reactions : At(x, z.story, z.user) <=> x = z
  BY <1>1 DEF TableTyped, Unique, WithId, At
<1>3. copy[r].id = req[r].id /\ z.user = req[r].user
  BY <1>1 DEF Inv, Safe
<1>4. z.story \in Stories /\ z.user \in Users /\ z.type # Nothing
  BY <1>2, ReactionAssumption DEF Rows
<1>5. Reaction[<<z.story, z.user>>] = z.type
  BY <1>1, RowsAreShown DEF Shown
<1>6. QED  BY <1>2, <1>3, <1>4, <1>5

LEMMA ChangeImplements ==
    ASSUME TypeOK, TypeOK', Inv, NEW r \in Requests, Update(r)
    PROVE  Service!Next
<1> DEFINE q == req[r]
           upd(x) == [x EXCEPT !.type = q.type]
<1>1. /\ Answer(r, "write") /\ pc[r] = "write" /\ q.op = "update" /\ copy[r].id = q.id
      /\ UNCHANGED <<views, events>>
  BY DEF Update, Answer, Goto, Inv, Safe, history
<1>2. q \in Change /\ q.type \in Types /\ q.type # Nothing
  BY <1>1, TypeOKReady, RequestFields, ReactionAssumption DEF Ready, Fits
<1>3. reactions' = (reactions \ WithId(q.id)) \cup {upd(x) : x \in WithId(q.id)}
  BY <1>1 DEF Update
<1>4. CASE WithId(q.id) = {}
  <2>1. UNCHANGED reactions
    BY <1>3, <1>4
  <2>2. QED  BY <1>1, <2>1, Leaves, SameReaction, SameNews DEF RequestNext
<1>5. CASE WithId(q.id) # {}
  <2>1. PICK z \in WithId(q.id) : TRUE
    BY <1>5
  <2>2. /\ z \in Rows /\ WithId(q.id) = {z} /\ z.user = q.user
        /\ z.story \in Stories /\ z.user \in Users
        /\ \A x \in reactions : At(x, z.story, z.user) <=> x = z
        /\ Reaction[<<z.story, q.user>>] # Nothing
    BY <1>1, <2>1, OwnRow
  <2>3. At(upd(z), z.story, z.user) /\ upd(z).type = q.type
    BY <2>2 DEF At, Rows
  <2>4. reactions' = (reactions \ {z}) \cup {upd(z)}
    BY <1>3, <2>2
  <2> HIDE DEF upd
  <2>5. \A x \in Rows : ~At(x, z.story, z.user) => (x \in reactions <=> x \in reactions')
    BY <2>3, <2>4 DEF At
  <2>6. Reaction' = [Reaction EXCEPT ![<<z.story, z.user>>] = q.type]
    BY <1>2, <2>2, <2>3, <2>4, <2>5, OnePairChanges
  <2>7. Asked[r].op = "update" /\ Asked[r].user = q.user /\ Asked[r].type = q.type
    BY <1>1, AskedOf
  <2>8. /\ Asked' = [Asked EXCEPT ![r] = NoAsk] /\ Done' = Done \ {r} /\ r \notin Done
    BY <1>1, GoesAway DEF RequestNext, Done
  <2>9. Service!Change(r)
    BY <1>1, <2>2, <2>6, <2>7, <2>8, SameNews
    DEF Service!Change, Service!Replace, Service!Open, Service!Ends
  <2>10. QED  BY <2>9 DEF Service!Next
<1>6. QED  BY <1>4, <1>5

LEMMA WithdrawImplements ==
    ASSUME TypeOK, TypeOK', Inv, NEW r \in Requests, Delete(r)
    PROVE  Service!Next
<1> DEFINE q == req[r]
<1>1. /\ Answer(r, "write") /\ pc[r] = "write" /\ q.op = "remove"
      /\ reactions' = reactions \ WithId(q.id)
      /\ UNCHANGED <<views, events>>
  BY DEF Delete, Answer, Goto
<1>2. CASE WithId(q.id) = {}
  <2>1. UNCHANGED reactions
    BY <1>1, <1>2
  <2>2. QED  BY <1>1, <2>1, Leaves, SameReaction, SameNews DEF RequestNext
<1>3. CASE WithId(q.id) # {}
  <2>1. PICK z \in WithId(q.id) : TRUE
    BY <1>3
  <2>2. /\ z \in Rows /\ WithId(q.id) = {z} /\ z.user = q.user
        /\ z.story \in Stories /\ z.user \in Users
        /\ \A x \in reactions : At(x, z.story, z.user) <=> x = z
        /\ Reaction[<<z.story, q.user>>] # Nothing
    BY <1>1, <2>1, OwnRow
  <2>3. reactions' = reactions \ {z}
    BY <1>1, <2>2
  <2>4. \A x \in reactions' : ~At(x, z.story, z.user)
    BY <2>2, <2>3
  <2>5. \A x \in Rows : ~At(x, z.story, z.user) => (x \in reactions <=> x \in reactions')
    BY <2>2, <2>3 DEF At
  <2>6. Reaction' = [Reaction EXCEPT ![<<z.story, z.user>>] = Nothing]
    BY <2>2, <2>4, <2>5, OnePairChanges
  <2>7. Asked[r].op = "remove" /\ Asked[r].user = q.user
    BY <1>1, AskedOf
  <2>8. /\ Asked' = [Asked EXCEPT ![r] = NoAsk] /\ Done' = Done \ {r} /\ r \notin Done
    BY <1>1, GoesAway DEF RequestNext, Done
  <2>9. Service!Withdraw(r)
    BY <1>1, <2>2, <2>6, <2>7, <2>8, SameNews
    DEF Service!Withdraw, Service!Replace, Service!Open, Service!Ends
  <2>10. QED  BY <2>9 DEF Service!Next
<1>4. QED  BY <1>2, <1>3

LEMMA LoadImplements ==
    ASSUME TypeOK, NEW r \in Requests, Load(r)
    PROVE  Service!Next \/ UNCHANGED <<Reaction, views, Asked, Done, News>>
<1>1. UNCHANGED <<Reaction, views, News>>
  BY SameReaction, SameNews DEF Load, table, history
<1>2. CASE Answer(r, "load")
  BY <1>1, <1>2, Leaves DEF RequestNext
<1>3. CASE Goto(r, "load", "write") /\ UNCHANGED req
  <2>1. pc[r] = "load" /\ pc'[r] = "write"
    BY <1>3 DEF Goto, TypeOK
  <2>2. Asked' = Asked /\ Done' = Done
    BY <1>3, <2>1, GoesOn, MovesOnly DEF RequestNext, Done
  <2>3. QED  BY <1>1, <2>2
<1>4. QED  BY <1>2, <1>3, LoadStep

(* Every reaction and view takes effect once or not at all, at one moment  *)
(* of its request, on its own user's behalf and before anybody is told.    *)
THEOREM AudienceKeepsItsPromise == Spec => ServiceSpec
<1>1. Init => Service!Init
  BY DEF Init, Service!Init, Reaction, Reacted, RowOf, Asked, Done, News
<1>2. ASSUME TypeOK, TypeOK', Inv, NEW r \in Requests, RequestNext(r)
      PROVE  Service!Next \/ UNCHANGED Service!avars
  <2>1. CASE Abandon(r)
    BY <1>2, <2>1, Leaves, SameReaction, SameNews DEF Abandon, table, history
  <2>2. QED
    BY <1>2, <2>1, ArriveImplements, SeeImplements, ReactImplements, NotifyImplements,
       LoadImplements, ChangeImplements, WithdrawImplements DEF RequestNext, Service!avars
<1>3. UNCHANGED vars => UNCHANGED Service!avars
  BY SameReaction, SameNews DEF vars, table, history, Service!avars, Asked, Done
<1>4. TypeOK /\ TypeOK' /\ Inv /\ [Next]_vars => [Service!Next]_(Service!avars)
  BY <1>2, <1>3 DEF Next
<1>5. QED
  BY <1>1, <1>4, Invariance, PTL DEF Spec, ServiceSpec, Service!Spec
=============================================================================
