-------------------------- MODULE FollowGraph_proofs --------------------------
(***************************************************************************)
(* Proofs about the follow graph, for every set of users and pairs, every  *)
(* supply of row ids and every number of requests and workers.             *)
(***************************************************************************)
EXTENDS FollowGraph, FiniteSetTheorems, TLAPS

Places == {"idle", "ask", "fill", "write", "drop"}
Fits(p, q) ==
    /\ p # "idle" => q \in Request
    /\ p \in {"write", "drop"} => q.op # "look"

ControlTyped ==
    /\ pc \in [Requests -> Places]
    /\ req \in [Requests -> Request \cup {NoRequest}]
    /\ answer \in [Requests -> Answers]
    /\ \A r \in Requests : Fits(pc[r], req[r])
CountsTyped ==
    /\ followers \in [Users -> Nat]
    /\ following \in [Users -> Nat]
    /\ job \in [Workers -> Counted \cup {NoJob}]
    /\ behind \in SUBSET Workers
    /\ drifted \in SUBSET Users
CacheTyped ==
    /\ cache \in [Pairs -> {"none", "yes", "no"}]
    /\ suspect \in SUBSET Pairs

Finite == IsFiniteSet(follows)

(* A count that no follow or unfollow overtook is the one of the rows.     *)
JobExact ==
    \A w \in Workers \ behind : job[w] # NoJob =>
        /\ job[w].followers = Cardinality(Followers(job[w].user))
        /\ job[w].following = Cardinality(Following(job[w].user))

(* So is an answer.                                                        *)
Honest(r) ==
    /\ pc[r] = "fill" => answer[r] \in {"yes", "no"}
    /\ pc[r] = "fill" /\ r \notin overtaken => answer[r] = IsFollowing(req[r].pair)
    /\ pc[r] = "write" /\ req[r].op = "follow" /\ r \notin overtaken /\ answer[r] # "unknown"
          => RowsOf(req[r].pair) = {}

Agrees(p) ==
    \/ cache[p] \in {"none", IsFollowing(p)}
    \/ p \in suspect
    \/ \E r \in Requests : pc[r] = "drop" /\ req[r].pair = p

CountsInv == Finite /\ JobExact /\ CountersExactUnlessDrifted
AnswersInv == (\A r \in Requests : Honest(r)) /\ CacheTruthful

LEMMA TypeParts ==
    TypeOK <=> /\ ControlTyped /\ CountsTyped /\ CacheTyped
               /\ follows \in SUBSET Rows /\ overtaken \in SUBSET Requests
BY DEF TypeOK, ControlTyped, CountsTyped, CacheTyped, Places, Fits

LEMMA Assembled ==
    ASSUME ControlTyped', CountsTyped', CacheTyped',
           follows' \in SUBSET Rows, overtaken' \in SUBSET Requests
    PROVE  TypeOK'
BY DEF TypeOK, ControlTyped, CountsTyped, CacheTyped, Places, Fits

LEMMA PairFacts ==
    /\ \A p \in Pairs : p[1] \in Users /\ p[2] \in Users /\ p[1] # p[2]
    /\ \A p, q \in Pairs : p # q => p[1] # q[1] \/ p[2] # q[2]
    /\ \A q \in Request : q.pair \in Pairs /\ q.op \in {"follow", "unfollow", "look"}
    /\ Nobody \notin Users
BY FollowAssumption DEF Request

LEMMA InitHolds == Init => TypeOK /\ CountsInv /\ AnswersInv
<1> SUFFICES ASSUME Init PROVE TypeOK /\ CountsInv /\ AnswersInv
  OBVIOUS
<1>1. TypeOK
  BY DEF Init, TypeOK, Answers
<1>2. \A u : Followers(u) = {} /\ Following(u) = {}
  BY DEF Init, Followers, Following
<1>3. CountsInv
  BY <1>2, FS_EmptySet DEF Init, CountsInv, Finite, JobExact, CountersExactUnlessDrifted
<1>4. AnswersInv
  BY DEF Init, AnswersInv, Honest, CacheTruthful
<1>5. QED  BY <1>1, <1>3, <1>4

LEMMA FiniteParts ==
    ASSUME Finite
    PROVE  /\ \A u : IsFiniteSet(Followers(u)) /\ IsFiniteSet(Following(u))
           /\ \A p : IsFiniteSet(RowsOf(p))
           /\ \A u : Cardinality(Followers(u)) \in Nat /\ Cardinality(Following(u)) \in Nat
<1>1. \A u : Followers(u) \in SUBSET follows /\ Following(u) \in SUBSET follows
  BY DEF Followers, Following
<1>2. \A p : RowsOf(p) \in SUBSET follows
  BY DEF RowsOf
<1>3. \A u : IsFiniteSet(Followers(u)) /\ IsFiniteSet(Following(u))
  BY <1>1, FS_Subset DEF Finite
<1>4. \A p : IsFiniteSet(RowsOf(p))
  BY <1>2, FS_Subset DEF Finite
<1>5. QED  BY <1>3, <1>4, FS_CardinalityType

LEMMA OneMore ==
    ASSUME NEW S, IsFiniteSet(S), NEW x, NEW T
    PROVE  /\ x \notin S /\ T = S \cup {x} => Cardinality(T) = Cardinality(S) + 1
           /\ x \in S /\ T = S \ {x} => Cardinality(T) = Cardinality(S) - 1
<1>1. /\ Cardinality(S \cup {x}) = IF x \in S THEN Cardinality(S) ELSE Cardinality(S) + 1
      /\ Cardinality(S \ {x}) = IF x \in S THEN Cardinality(S) - 1 ELSE Cardinality(S)
  BY FS_AddElement, FS_RemoveElement
<1>2. QED  BY <1>1

-----------------------------------------------------------------------------
(* The control of a request *)

LEMMA ControlMove ==
    ASSUME ControlTyped, NEW r \in Requests, NEW from, NEW to \in Places, Goto(r, from, to),
           NEW q \in Request \cup {NoRequest}, req' = [req EXCEPT ![r] = q],
           NEW a \in Answers, answer' = [answer EXCEPT ![r] = a],
           Fits(to, q)
    PROVE  ControlTyped'
<1>1. /\ pc' \in [Requests -> Places]
      /\ req' \in [Requests -> Request \cup {NoRequest}]
      /\ answer' \in [Requests -> Answers]
  BY DEF ControlTyped, Goto
<1>2. \A x \in Requests : Fits(pc'[x], req'[x])
  <2> TAKE x \in Requests
  <2>1. CASE x = r
    BY <2>1 DEF ControlTyped, Goto
  <2>2. CASE x # r
    BY <2>2 DEF ControlTyped, Goto
  <2>3. QED  BY <2>1, <2>2
<1>3. QED  BY <1>1, <1>2 DEF ControlTyped, Fits

LEMMA KeepRequest ==
    ASSUME ControlTyped, NEW r \in Requests
    PROVE  /\ req' = req => req' = [req EXCEPT ![r] = req[r]]
           /\ answer' = answer => answer' = [answer EXCEPT ![r] = answer[r]]
           /\ req[r] \in Request \cup {NoRequest}
           /\ answer[r] \in Answers
BY DEF ControlTyped

LEMMA RespondStep ==
    ASSUME ControlTyped, NEW r \in Requests, NEW from, Respond(r, from),
           overtaken \in SUBSET Requests
    PROVE  ControlTyped' /\ overtaken' \in SUBSET Requests /\ pc'[r] = "idle"
<1>1. Fits("idle", NoRequest) /\ "idle" \in Places /\ "unknown" \in Answers
  BY DEF Fits, Places, Answers
<1>2. ControlTyped'
  BY <1>1, ControlMove DEF Respond
<1>3. QED  BY <1>2 DEF Respond, Goto, ControlTyped

LEMMA DecideStep ==
    ASSUME ControlTyped, NEW r \in Requests, NEW from \in {"ask", "fill"},
           NEW a \in Answers, Decide(r, from, a), overtaken \in SUBSET Requests
    PROVE  /\ ControlTyped' /\ overtaken' \in SUBSET Requests
           /\ \/ pc'[r] = "idle"
              \/ /\ pc'[r] = "write" /\ req'[r] = req[r] /\ answer'[r] = a
                 /\ req[r].op = "follow" => a # "yes"
                 /\ r \in overtaken \/ (from = "ask" /\ a # "unknown") => r \in overtaken'
<1>1. CASE Respond(r, from)
  BY <1>1, RespondStep
<1>2. CASE ~Settled(req[r].op, a) /\ Goto(r, from, "write")
           /\ answer' = [answer EXCEPT ![r] = a]
           /\ overtaken' = (IF from = "ask" /\ a # "unknown" THEN overtaken \cup {r}
                            ELSE overtaken)
           /\ UNCHANGED req
  <2>1. Fits("write", req[r]) /\ "write" \in Places
    BY <1>2 DEF ControlTyped, Goto, Fits, Places, Settled
  <2>2. ControlTyped'
    BY <1>2, <2>1, KeepRequest, ControlMove
  <2>3. QED  BY <1>2, <2>2 DEF ControlTyped, Goto, Settled
<1>3. QED  BY <1>1, <1>2 DEF Decide

LEMMA MovesOnly ==
    ASSUME ControlTyped, NEW r \in Requests, NEW q \in Requests, q # r, RequestNext(r)
    PROVE  pc'[q] = pc[q] /\ req'[q] = req[q] /\ answer'[q] = answer[q]
BY DEF RequestNext, Begin, CacheHit, Count, CountFails, Fill, Create, DeleteByUsers,
   DeleteNothing, Drop, Abandon, Decide, Respond, Goto, ControlTyped

LEMMA InFlight ==
    ASSUME ControlTyped, NEW r \in Requests, pc[r] # "idle"
    PROVE  /\ req[r] \in Request /\ req[r].pair \in Pairs
           /\ pc[r] \in {"write", "drop"} => req[r].op # "look"
BY PairFacts DEF ControlTyped, Fits

-----------------------------------------------------------------------------
(* Steps that leave the rows alone *)

LEMMA SameCounts ==
    ASSUME CountsTyped, CountsInv, UNCHANGED <<rows, job, behind, drifted>>
    PROVE  CountsTyped' /\ CountsInv'
BY DEF CountsTyped, CountsInv, Finite, JobExact, CountersExactUnlessDrifted, Followers,
   Following, rows

LEMMA OthersHonest ==
    ASSUME TypeOK, AnswersInv, NEW r \in Requests, NEW q \in Requests, q # r, RequestNext(r),
           UNCHANGED follows
    PROVE  Honest(q)'
<1>1. pc'[q] = pc[q] /\ req'[q] = req[q] /\ answer'[q] = answer[q]
  BY TypeParts, MovesOnly
<1>2. pc[q] \in {"fill", "write"} /\ q \in overtaken => q \in overtaken'
  BY DEF RequestNext, Begin, CacheHit, Count, CountFails, Fill, Create, DeleteByUsers,
     DeleteNothing, Drop, Abandon, Decide, Respond, Outdates
<1>3. \A p : RowsOf(p)' = RowsOf(p)
  BY DEF RowsOf
<1>4. QED  BY <1>1, <1>2, <1>3 DEF AnswersInv, Honest, IsFollowing

(* A pair whose cached answer is left alone stays as truthful as it was.   *)
LEMMA KeptTruth ==
    ASSUME TypeOK, CacheTruthful, NEW r \in Requests, RequestNext(r), NEW p \in Pairs,
           RowsOf(p)' = RowsOf(p), cache'[p] = cache[p], p \in suspect => p \in suspect',
           pc[r] = "drop" /\ req[r].pair = p => p \in suspect'
    PROVE  Agrees(p)'
<1>1. IsFollowing(p)' = IsFollowing(p)
  BY DEF IsFollowing
<1>2. ASSUME NEW q \in Requests, pc[q] = "drop", req[q].pair = p, p \notin suspect'
      PROVE  pc'[q] = "drop" /\ req'[q].pair = p
  BY <1>2, TypeParts, MovesOnly
<1>3. QED  BY <1>1, <1>2 DEF CacheTruthful, Agrees

LEMMA AskSteps ==
    ASSUME TypeOK, CountsInv, AnswersInv, NEW r \in Requests,
           Begin(r) \/ CacheHit(r) \/ Count(r) \/ CountFails(r) \/ Fill(r)
    PROVE  TypeOK' /\ CountsInv' /\ AnswersInv'
<1>1. /\ ControlTyped /\ CountsTyped /\ CacheTyped
      /\ follows \in SUBSET Rows /\ overtaken \in SUBSET Requests
  BY TypeParts
<1>2. UNCHANGED <<rows, job, behind, drifted>> /\ RequestNext(r)
  BY DEF Begin, CacheHit, Count, CountFails, Fill, RequestNext
<1>3. CountsTyped' /\ CountsInv' /\ UNCHANGED follows
  BY <1>1, <1>2, SameCounts DEF rows
<1>4. /\ \A p : RowsOf(p)' = RowsOf(p)
      /\ \A p : IsFollowing(p)' = IsFollowing(p)
  BY <1>3 DEF RowsOf, IsFollowing
<1>5. pc[r] \notin {"write", "drop"}
  BY DEF Begin, CacheHit, Count, CountFails, Fill, Goto
<1>6. ASSUME NEW q \in Requests, q # r PROVE Honest(q)'
  BY <1>2, <1>3, <1>6, OthersHonest
<1>7. CASE Begin(r)
  <2>1. PICK q \in Request : req' = [req EXCEPT ![r] = q]
    BY <1>7 DEF Begin
  <2>2. Fits("ask", q) /\ "ask" \in Places
    BY DEF Fits, Places
  <2>3. ControlTyped'
    BY <1>1, <1>7, <2>1, <2>2, KeepRequest, ControlMove DEF Begin
  <2>4. CacheTyped' /\ overtaken' = overtaken
    BY <1>1, <1>7 DEF Begin, CacheTyped
  <2>5. Honest(r)'
    BY <1>1, <1>7 DEF Begin, Goto, ControlTyped, Honest
  <2>6. CacheTruthful'
    BY <1>2, <1>4, <1>5, <1>7, KeptTruth DEF Begin, AnswersInv, CacheTruthful, Agrees
  <2>7. QED  BY <1>1, <1>3, <1>6, <2>3, <2>4, <2>5, <2>6, Assembled DEF AnswersInv
<1>8. CASE CacheHit(r) \/ CountFails(r)
  <2>1. PICK a \in Answers : pc[r] = "ask" /\ Decide(r, "ask", a)
    <3>1. CacheHit(r) => req[r].pair \in Pairs
      BY <1>1, InFlight DEF CacheHit
    <3>2. QED  BY <1>1, <1>8, <3>1 DEF CacheHit, CountFails, CacheTyped, Answers
  <2>2. /\ ControlTyped' /\ overtaken' \in SUBSET Requests
        /\ \/ pc'[r] = "idle"
           \/ /\ pc'[r] = "write" /\ req'[r] = req[r] /\ answer'[r] = a
              /\ a # "unknown" => r \in overtaken'
    BY <1>1, <2>1, DecideStep
  <2>3. CacheTyped'
    BY <1>1, <1>8 DEF CacheHit, CountFails, CacheTyped
  <2>4. Honest(r)'
    BY <2>2 DEF Honest
  <2>5. CacheTruthful'
    BY <1>2, <1>4, <1>5, <1>8, KeptTruth DEF CacheHit, CountFails, AnswersInv, CacheTruthful,
       Agrees
  <2>6. QED  BY <1>1, <1>3, <1>6, <2>2, <2>3, <2>4, <2>5, Assembled DEF AnswersInv
<1>9. CASE Count(r)
  <2> DEFINE a == IsFollowing(req[r].pair)
  <2>1. pc[r] = "ask" /\ a \in {"yes", "no"} /\ answer' = [answer EXCEPT ![r] = a]
    BY <1>9 DEF Count, Goto, IsFollowing
  <2>2. Fits("fill", req[r]) /\ "fill" \in Places /\ a \in Answers
    BY <1>1, <2>1, InFlight DEF Fits, Places, Answers
  <2>3. ControlTyped'
    BY <1>1, <1>9, <2>1, <2>2, KeepRequest, ControlMove DEF Count
  <2>4. CacheTyped' /\ overtaken' = overtaken
    BY <1>1, <1>9 DEF Count, CacheTyped
  <2>5. pc'[r] = "fill" /\ answer'[r] = a /\ req'[r] = req[r]
    BY <1>1, <1>9 DEF Count, Goto, ControlTyped
  <2>6. Honest(r)'
    BY <1>4, <2>1, <2>5 DEF Honest
  <2>7. CacheTruthful'
    BY <1>2, <1>4, <1>5, <1>9, KeptTruth DEF Count, AnswersInv, CacheTruthful, Agrees
  <2>8. QED  BY <1>1, <1>3, <1>6, <2>3, <2>4, <2>6, <2>7, Assembled DEF AnswersInv
<1>10. CASE Fill(r)
  <2> DEFINE p == req[r].pair
  <2>1. /\ pc[r] = "fill" /\ p \in Pairs /\ answer[r] \in {"yes", "no"}
        /\ r \notin overtaken => answer[r] = IsFollowing(p)
    BY <1>1, <1>10, InFlight DEF Fill, AnswersInv, Honest
  <2>2. Decide(r, "fill", answer[r]) /\ answer[r] \in Answers
    BY <1>10, <2>1 DEF Fill, Answers
  <2>3. /\ ControlTyped' /\ overtaken' \in SUBSET Requests
        /\ \/ pc'[r] = "idle"
           \/ /\ pc'[r] = "write" /\ req'[r] = req[r] /\ answer'[r] = answer[r]
              /\ req[r].op = "follow" => answer[r] # "yes"
              /\ r \in overtaken => r \in overtaken'
    BY <1>1, <2>2, DecideStep
  <2>4. CacheTyped'
    BY <1>1, <1>10, <2>1 DEF Fill, CacheTyped
  <2>5. Honest(r)'
    BY <1>4, <2>1, <2>3 DEF Honest, IsFollowing
  <2>6. ASSUME NEW x \in Pairs PROVE Agrees(x)'
    <3>1. CASE cache'[x] = cache[x] /\ (x \in suspect => x \in suspect')
      BY <1>2, <1>4, <1>5, <3>1, KeptTruth DEF AnswersInv
    <3>2. CASE x = p /\ cache' = [cache EXCEPT ![p] = answer[r]]
               /\ suspect' = IF r \in overtaken THEN suspect \cup {p} ELSE suspect \ {p}
      BY <1>1, <1>4, <2>1, <3>2 DEF Agrees, CacheTyped
    <3>3. QED  BY <1>1, <1>10, <2>1, <3>1, <3>2 DEF Fill, CacheTyped
  <2>7. CacheTruthful'
    BY <2>6 DEF CacheTruthful, Agrees
  <2>8. QED  BY <1>1, <1>3, <1>6, <2>3, <2>4, <2>5, <2>7, Assembled DEF AnswersInv
<1>11. QED  BY <1>7, <1>8, <1>9, <1>10

LEMMA EndSteps ==
    ASSUME TypeOK, CountsInv, AnswersInv, NEW r \in Requests,
           DeleteNothing(r) \/ Drop(r) \/ Abandon(r)
    PROVE  TypeOK' /\ CountsInv' /\ AnswersInv'
<1>1. /\ ControlTyped /\ CountsTyped /\ CacheTyped
      /\ follows \in SUBSET Rows /\ overtaken \in SUBSET Requests
  BY TypeParts
<1>2. UNCHANGED <<rows, job, behind, drifted>> /\ RequestNext(r)
  BY DEF DeleteNothing, Drop, Abandon, RequestNext
<1>3. CountsTyped' /\ CountsInv' /\ UNCHANGED follows
  BY <1>1, <1>2, SameCounts DEF rows
<1>4. \A p : RowsOf(p)' = RowsOf(p)
  BY <1>3 DEF RowsOf
<1>5. ControlTyped' /\ overtaken' \in SUBSET Requests /\ pc'[r] = "idle"
  BY <1>1, RespondStep DEF DeleteNothing, Drop, Abandon
<1>6. pc[r] # "idle" /\ req[r].pair \in Pairs
  BY <1>1, InFlight DEF DeleteNothing, Drop, Abandon, Respond, Goto
<1>7. CacheTyped'
  BY <1>1, <1>6 DEF DeleteNothing, Drop, Abandon, CacheTyped
<1>8. ASSUME NEW q \in Requests PROVE Honest(q)'
  BY <1>2, <1>3, <1>5, OthersHonest DEF Honest
<1>9. ASSUME NEW x \in Pairs PROVE Agrees(x)'
  <2>1. CASE Drop(r) /\ x = req[r].pair
    BY <1>1, <2>1 DEF Drop, Agrees, CacheTyped
  <2>2. CASE ~(Drop(r) /\ x = req[r].pair)
    <3>1. cache'[x] = cache[x] /\ (x \in suspect => x \in suspect')
      BY <1>1, <1>6, <2>2 DEF DeleteNothing, Drop, Abandon, CacheTyped
    <3>2. pc[r] = "drop" /\ req[r].pair = x => x \in suspect'
      BY <2>2 DEF DeleteNothing, Drop, Abandon
    <3>3. QED  BY <1>2, <1>4, <3>1, <3>2, KeptTruth DEF AnswersInv
  <2>3. QED  BY <2>1, <2>2
<1>10. CacheTruthful'
  BY <1>9 DEF CacheTruthful, Agrees
<1>11. QED  BY <1>3, <1>1, <1>5, <1>7, <1>8, <1>10, Assembled DEF AnswersInv

-----------------------------------------------------------------------------
(* Steps that change the rows of a pair *)

LEMMA WriterTypes ==
    ASSUME TypeOK, NEW r \in Requests, Create(r) \/ DeleteByUsers(r)
    PROVE  /\ ControlTyped' /\ CacheTyped' /\ overtaken' \in SUBSET Requests
           /\ behind' \in SUBSET Workers
           /\ pc[r] = "write" /\ req[r].pair \in Pairs /\ pc'[r] = "drop" /\ req'[r] = req[r]
<1>1. ControlTyped /\ CacheTyped /\ overtaken \in SUBSET Requests /\ behind \in SUBSET Workers
  BY TypeParts DEF CountsTyped
<1>2. /\ Goto(r, "write", "drop") /\ UNCHANGED <<cache, req, answer, suspect>>
      /\ Outdates(r, req[r].pair)
  BY DEF Create, DeleteByUsers
<1>3. req[r] \in Request /\ req[r].pair \in Pairs /\ req[r].op # "look"
  BY <1>1, <1>2, InFlight DEF Goto
<1>4. Fits("drop", req[r]) /\ "drop" \in Places
  BY <1>3 DEF Fits, Places
<1>5. ControlTyped'
  BY <1>1, <1>2, <1>4, KeepRequest, ControlMove
<1>6. QED  BY <1>1, <1>2, <1>3, <1>5 DEF CacheTyped, Outdates, Goto, ControlTyped

(* The row that Create inserts.                                            *)
LEMMA CreateRows ==
    ASSUME TypeOK, NEW r \in Requests, Create(r)
    PROVE  LET p == req[r].pair IN
           \E f \in Rows :
              /\ f \notin follows /\ follows' = follows \cup {f}
              /\ f.follower = p[1] /\ f.followee = p[2]
<1> DEFINE p == req[r].pair
<1>1. p \in Pairs
  BY WriterTypes
<1>2. PICK i \in FollowIds \ {f.id : f \in follows} :
         follows' = follows \cup {[id |-> i, follower |-> p[1], followee |-> p[2]]}
  BY DEF Create
<1> DEFINE g == [id |-> i, follower |-> p[1], followee |-> p[2]]
<1>3. g \in Rows
  BY <1>1, PairFacts DEF Rows
<1>4. g \notin follows
  BY <1>2
<1>5. QED  BY <1>2, <1>3, <1>4

LEMMA OtherPairs ==
    ASSUME TypeOK, NEW r \in Requests, Create(r) \/ DeleteByUsers(r),
           NEW x \in Pairs, x # req[r].pair
    PROVE  RowsOf(x)' = RowsOf(x)
<1> DEFINE p == req[r].pair
<1>1. p \in Pairs /\ (p[1] # x[1] \/ p[2] # x[2])
  BY WriterTypes, PairFacts
<1>2. CASE Create(r)
  BY <1>1, <1>2, CreateRows DEF RowsOf
<1>3. CASE DeleteByUsers(r)
  BY <1>1, <1>3 DEF DeleteByUsers, RowsOf
<1>4. QED  BY <1>2, <1>3

LEMMA WriterAnswers ==
    ASSUME TypeOK, AnswersInv, NEW r \in Requests, Create(r) \/ DeleteByUsers(r)
    PROVE  AnswersInv'
<1> DEFINE p == req[r].pair
<1>1. ControlTyped /\ RequestNext(r) /\ p \in Pairs /\ pc'[r] = "drop" /\ req'[r] = req[r]
      /\ pc[r] = "write"
  BY TypeParts, WriterTypes DEF RequestNext
<1>2. /\ UNCHANGED <<cache, suspect>>
      /\ overtaken' = (overtaken \ {r}) \cup
            {q \in Requests \ {r} : req[q].pair = p /\ pc[q] \in {"fill", "write"}}
  BY DEF Create, DeleteByUsers, Outdates
<1>3. ASSUME NEW q \in Requests, q # r PROVE Honest(q)'
  <2>1. pc'[q] = pc[q] /\ req'[q] = req[q] /\ answer'[q] = answer[q]
    BY <1>1, <1>3, MovesOnly
  <2>2. CASE pc[q] \in {"fill", "write"} /\ req[q].pair # p
    <3>1. req[q].pair \in Pairs
      BY <1>1, <2>2, InFlight
    <3>2. RowsOf(req[q].pair)' = RowsOf(req[q].pair)'
      OBVIOUS
    <3>3. PICK x \in Pairs : x = req[q].pair
      BY <3>1
    <3>4. RowsOf(x)' = RowsOf(x)
      BY <2>2, <3>3, OtherPairs
    <3>5. q \in overtaken => q \in overtaken'
      BY <1>2, <1>3
    <3>6. Honest(q)
      BY DEF AnswersInv
    <3>7. req'[q].pair = x
      BY <2>1, <3>3
    <3>8. RowsOf(req[q].pair)' = RowsOf(x)'
      BY <3>7
    <3>9. QED  BY <2>1, <3>3, <3>4, <3>5, <3>6, <3>8 DEF Honest, IsFollowing
  <2>3. CASE pc[q] \in {"fill", "write"} /\ req[q].pair = p
    <3>1. q \in overtaken'
      BY <1>2, <1>3, <2>3
    <3>2. QED  BY <2>1, <3>1 DEF AnswersInv, Honest
  <2>4. CASE pc[q] \notin {"fill", "write"}
    BY <2>1, <2>4 DEF Honest
  <2>5. QED  BY <2>2, <2>3, <2>4
<1>4. Honest(r)'
  BY <1>1 DEF Honest
<1>5. ASSUME NEW x \in Pairs PROVE Agrees(x)'
  <2>1. CASE x = p
    BY <1>1, <2>1 DEF Agrees
  <2>2. CASE x # p
    BY <1>1, <1>2, <2>2, OtherPairs, KeptTruth DEF AnswersInv
  <2>3. QED  BY <2>1, <2>2
<1>6. CacheTruthful'
  BY <1>5 DEF CacheTruthful, Agrees
<1>7. QED  BY <1>3, <1>4, <1>6 DEF AnswersInv

(* Counts of users the pair does not name are not disturbed.               *)
LEMMA OtherJobs ==
    ASSUME TypeOK, CountsInv, NEW p \in Pairs, NEW r \in Requests, Outdates(r, p),
           UNCHANGED job,
           \A u \in Users \ {p[2]} : Followers(u)' = Followers(u),
           \A u \in Users \ {p[1]} : Following(u)' = Following(u)
    PROVE  JobExact'
<1> SUFFICES ASSUME NEW w \in Workers, w \notin behind', job[w] # NoJob
             PROVE  /\ job'[w].followers = Cardinality(Followers(job[w].user))'
                    /\ job'[w].following = Cardinality(Following(job[w].user))'
  BY DEF JobExact
<1>1. w \notin behind /\ job[w].user \notin {p[1], p[2]}
  BY DEF Outdates
<1>2. job[w].user \in Users
  BY TypeParts DEF CountsTyped, Counted
<1>3. PICK u \in Users : u = job[w].user
  BY <1>2
<1>4. Followers(u)' = Followers(u) /\ Following(u)' = Following(u)
  BY <1>1, <1>3
<1>5. job'[w].user = u
  BY <1>3
<1>6. QED  BY <1>1, <1>3, <1>4, <1>5 DEF CountsInv, JobExact

LEMMA CreateStep ==
    ASSUME TypeOK, CountsInv, AnswersInv, NEW r \in Requests, Create(r)
    PROVE  TypeOK' /\ CountsInv' /\ AnswersInv'
<1>1. CountsTyped /\ follows \in SUBSET Rows /\ Finite
  BY TypeParts DEF CountsInv
<1>2. PICK p \in Pairs : p = req[r].pair
  BY WriterTypes
<1>3. p[1] \in Users /\ p[2] \in Users /\ p[1] # p[2]
  BY PairFacts
<1>4. PICK f \in Rows : /\ f \notin follows /\ follows' = follows \cup {f}
                        /\ f.follower = p[1] /\ f.followee = p[2]
  BY <1>2, CreateRows
<1>5. /\ followers' = [followers EXCEPT ![p[2]] = @ + 1]
      /\ following' = [following EXCEPT ![p[1]] = @ + 1]
      /\ Outdates(r, p) /\ UNCHANGED <<job, drifted>>
  BY <1>2 DEF Create
<1>6. CountsTyped'
  <2>1. behind' \in SUBSET Workers
    BY WriterTypes
  <2>2. QED  BY <1>1, <1>3, <1>5, <2>1 DEF CountsTyped
<1>7. /\ Followers(p[2])' = Followers(p[2]) \cup {f} /\ f \notin Followers(p[2])
      /\ Following(p[1])' = Following(p[1]) \cup {f} /\ f \notin Following(p[1])
      /\ \A u \in Users \ {p[2]} : Followers(u)' = Followers(u)
      /\ \A u \in Users \ {p[1]} : Following(u)' = Following(u)
  BY <1>4 DEF Followers, Following
<1>8. Finite'
  BY <1>1, <1>4, FS_AddElement DEF Finite
<1>9. /\ Cardinality(Followers(p[2])') = Cardinality(Followers(p[2])) + 1
      /\ Cardinality(Following(p[1])') = Cardinality(Following(p[1])) + 1
  <2>1. IsFiniteSet(Followers(p[2])) /\ IsFiniteSet(Following(p[1]))
    BY <1>1, FiniteParts
  <2>2. Cardinality(Followers(p[2])') = Cardinality(Followers(p[2])) + 1
    BY <1>7, <2>1, OneMore
  <2>3. Cardinality(Following(p[1])') = Cardinality(Following(p[1])) + 1
    BY <1>7, <2>1, OneMore
  <2>4. QED  BY <2>2, <2>3
<1>10. CountersExactUnlessDrifted'
  <2> SUFFICES ASSUME NEW u \in Users, u \notin drifted
               PROVE  /\ followers'[u] = Cardinality(Followers(u))'
                      /\ following'[u] = Cardinality(Following(u))'
    BY <1>5 DEF CountersExactUnlessDrifted
  <2>1. followers[u] = Cardinality(Followers(u)) /\ following[u] = Cardinality(Following(u))
    BY DEF CountsInv, CountersExactUnlessDrifted
  <2>2. followers'[u] = Cardinality(Followers(u))'
    BY <1>1, <1>5, <1>7, <1>9, <2>1 DEF CountsTyped
  <2>3. following'[u] = Cardinality(Following(u))'
    BY <1>1, <1>5, <1>7, <1>9, <2>1 DEF CountsTyped
  <2>4. QED  BY <2>2, <2>3
<1>11. JobExact'
  BY <1>5, <1>7, OtherJobs
<1>12. TypeOK'
  BY <1>1, <1>4, <1>6, WriterTypes, Assembled
<1>13. QED  BY <1>8, <1>10, <1>11, <1>12, WriterAnswers DEF CountsInv

LEMMA DeleteStep ==
    ASSUME TypeOK, CountsInv, AnswersInv, NEW r \in Requests, DeleteByUsers(r)
    PROVE  TypeOK' /\ CountsInv' /\ AnswersInv'
<1>1. CountsTyped /\ follows \in SUBSET Rows /\ Finite
  BY TypeParts DEF CountsInv
<1>2. PICK p \in Pairs : p = req[r].pair
  BY WriterTypes
<1>3. p[1] \in Users /\ p[2] \in Users /\ p[1] # p[2]
  BY PairFacts
<1>4. /\ RowsOf(p) # {} /\ follows' = follows \ RowsOf(p)
      /\ followers' = [followers EXCEPT ![p[2]] = Decremented(@)]
      /\ following' = [following EXCEPT ![p[1]] = Decremented(@)]
      /\ drifted' = (IF Cardinality(RowsOf(p)) > 1 THEN drifted \cup {p[1], p[2]} ELSE drifted)
      /\ Outdates(r, p) /\ UNCHANGED job
  BY <1>2 DEF DeleteByUsers
<1>5. \A n \in Nat : Decremented(n) \in Nat /\ (n # 0 => Decremented(n) = n - 1)
  BY DEF Decremented
<1>6. CountsTyped'
  <2>1. behind' \in SUBSET Workers
    BY WriterTypes
  <2>2. QED  BY <1>1, <1>3, <1>4, <1>5, <2>1 DEF CountsTyped
<1>7. /\ RowsOf(p) \subseteq Followers(p[2]) /\ RowsOf(p) \subseteq Following(p[1])
      /\ Followers(p[2])' = Followers(p[2]) \ RowsOf(p)
      /\ Following(p[1])' = Following(p[1]) \ RowsOf(p)
      /\ \A u \in Users \ {p[2]} : Followers(u)' = Followers(u)
      /\ \A u \in Users \ {p[1]} : Following(u)' = Following(u)
  BY <1>4 DEF Followers, Following, RowsOf
<1>8. Finite'
  <2>1. follows' \in SUBSET follows
    BY <1>4
  <2>2. QED  BY <1>1, <2>1, FS_Subset DEF Finite
<1>9. CountersExactUnlessDrifted'
  <2>1. CASE Cardinality(RowsOf(p)) > 1
    <3> SUFFICES ASSUME NEW u \in Users, u \notin drifted'
                 PROVE  /\ followers'[u] = Cardinality(Followers(u))'
                        /\ following'[u] = Cardinality(Following(u))'
      BY DEF CountersExactUnlessDrifted
    <3>1. u \notin drifted /\ u # p[1] /\ u # p[2]
      BY <1>4, <2>1
    <3>2. QED
      BY <1>1, <1>4, <1>7, <3>1 DEF CountsInv, CountersExactUnlessDrifted, CountsTyped
  <2>2. CASE ~(Cardinality(RowsOf(p)) > 1)
    <3>1. drifted' = drifted
      BY <1>4, <2>2
    <3>2. Cardinality(RowsOf(p)) = 1
      <4>1. IsFiniteSet(RowsOf(p))
        BY <1>1, FiniteParts
      <4>2. Cardinality(RowsOf(p)) \in Nat /\ Cardinality(RowsOf(p)) # 0
        BY <1>4, <4>1, FS_CardinalityType, FS_EmptySet
      <4>3. QED  BY <2>2, <4>2
    <3>3. PICK f : RowsOf(p) = {f}
      BY <1>1, <3>2, FiniteParts, FS_Singleton
    <3>4. /\ Cardinality(Followers(p[2])') = Cardinality(Followers(p[2])) - 1
          /\ Cardinality(Following(p[1])') = Cardinality(Following(p[1])) - 1
      <4>1. IsFiniteSet(Followers(p[2])) /\ IsFiniteSet(Following(p[1]))
        BY <1>1, FiniteParts
      <4>2. f \in Followers(p[2]) /\ f \in Following(p[1])
        BY <1>7, <3>3
      <4>3. Cardinality(Followers(p[2])') = Cardinality(Followers(p[2])) - 1
        BY <1>7, <3>3, <4>1, <4>2, OneMore
      <4>4. Cardinality(Following(p[1])') = Cardinality(Following(p[1])) - 1
        BY <1>7, <3>3, <4>1, <4>2, OneMore
      <4>5. QED  BY <4>3, <4>4
    <3>5. /\ Cardinality(Followers(p[2])) # 0 /\ Cardinality(Following(p[1])) # 0
          /\ Cardinality(Followers(p[2])) \in Nat /\ Cardinality(Following(p[1])) \in Nat
      <4>1. Followers(p[2]) # {} /\ Following(p[1]) # {}
        BY <1>7, <3>3
      <4>2. QED  BY <1>1, <4>1, FiniteParts, FS_EmptySet
    <3> SUFFICES ASSUME NEW u \in Users, u \notin drifted
                 PROVE  /\ followers'[u] = Cardinality(Followers(u))'
                        /\ following'[u] = Cardinality(Following(u))'
      BY <3>1 DEF CountersExactUnlessDrifted
    <3>6. followers[u] = Cardinality(Followers(u)) /\ following[u] = Cardinality(Following(u))
      BY DEF CountsInv, CountersExactUnlessDrifted
    <3>7. followers'[u] = Cardinality(Followers(u))'
      BY <1>1, <1>4, <1>5, <1>7, <3>4, <3>5, <3>6 DEF CountsTyped
    <3>8. following'[u] = Cardinality(Following(u))'
      BY <1>1, <1>4, <1>5, <1>7, <3>4, <3>5, <3>6 DEF CountsTyped
    <3>9. QED  BY <3>7, <3>8
  <2>3. QED  BY <2>1, <2>2
<1>10. JobExact'
  BY <1>4, <1>7, OtherJobs
<1>11. TypeOK'
  BY <1>1, <1>4, <1>6, WriterTypes, Assembled
<1>12. QED  BY <1>8, <1>9, <1>10, <1>11, WriterAnswers DEF CountsInv

-----------------------------------------------------------------------------
(* The job and the cache *)

LEMMA SameControl ==
    ASSUME TypeOK, AnswersInv, UNCHANGED <<follows, cache, control, overtaken, suspect>>
    PROVE  /\ ControlTyped' /\ CacheTyped' /\ AnswersInv'
           /\ follows' \in SUBSET Rows /\ overtaken' \in SUBSET Requests
<1>1. ControlTyped' /\ CacheTyped' /\ follows' \in SUBSET Rows /\ overtaken' \in SUBSET Requests
  BY TypeParts DEF ControlTyped, CacheTyped, control
<1>2. AnswersInv'
  BY DEF AnswersInv, Honest, CacheTruthful, IsFollowing, RowsOf, control
<1>3. QED  BY <1>1, <1>2

LEMMA WorkerStep ==
    ASSUME TypeOK, CountsInv, AnswersInv, NEW w \in Workers, WorkerNext(w)
    PROVE  TypeOK' /\ CountsInv' /\ AnswersInv'
<1>1. CountsTyped /\ Finite /\ UNCHANGED <<follows, cache, control, overtaken, suspect>>
  BY TypeParts DEF CountsInv, WorkerNext, GetFollowStats, UpdateStats, JobFails, rows
<1>2. \A u : Followers(u)' = Followers(u) /\ Following(u)' = Following(u)
  BY <1>1 DEF Followers, Following
<1>3. Finite'
  BY <1>1 DEF Finite
<1>4. NoJob.user = Nobody
  BY DEF NoJob
<1>5. CASE GetFollowStats(w)
  <2>1. PICK u \in Users :
           job' = [job EXCEPT ![w] = [user |-> u,
                                      followers |-> Cardinality(Followers(u)),
                                      following |-> Cardinality(Following(u))]]
    BY <1>5 DEF GetFollowStats
  <2> DEFINE c == [user |-> u, followers |-> Cardinality(Followers(u)),
                   following |-> Cardinality(Following(u))]
  <2>2. c \in Counted
    BY <1>1, FiniteParts DEF Counted
  <2>3. c.user = u /\ c.followers = Cardinality(Followers(u))
        /\ c.following = Cardinality(Following(u))
    OBVIOUS
  <2>4. UNCHANGED <<followers, following, behind, drifted>>
    BY <1>5 DEF GetFollowStats, rows
  <2> HIDE DEF c
  <2>5. job'[w] = c /\ \A v \in Workers : v # w => job'[v] = job[v]
    BY <1>1, <2>1 DEF CountsTyped, c
  <2>6. CountsTyped'
    BY <1>1, <2>1, <2>2, <2>4 DEF CountsTyped, c
  <2>7. JobExact'
    BY <1>2, <2>3, <2>4, <2>5 DEF CountsInv, JobExact
  <2>8. CountersExactUnlessDrifted'
    BY <1>2, <2>4 DEF CountsInv, CountersExactUnlessDrifted
  <2>9. QED  BY <1>1, <1>3, <2>6, <2>7, <2>8, SameControl, Assembled DEF CountsInv
<1>6. CASE UpdateStats(w)
  <2>1. PICK u \in Users : u = job[w].user /\ job[w] \in Counted
    BY <1>1, <1>6 DEF UpdateStats, CountsTyped, Counted
  <2>2. /\ followers' = [followers EXCEPT ![u] = job[w].followers]
        /\ following' = [following EXCEPT ![u] = job[w].following]
        /\ drifted' = (IF w \in behind THEN drifted \cup {u} ELSE drifted \ {u})
        /\ job' = [job EXCEPT ![w] = NoJob]
        /\ behind' = behind \ {w} /\ job[w] # NoJob
    BY <1>6, <2>1 DEF UpdateStats
  <2>3. job[w].followers \in Nat /\ job[w].following \in Nat
    BY <2>1 DEF Counted
  <2>4. CountsTyped'
    BY <1>1, <2>1, <2>2, <2>3 DEF CountsTyped
  <2>5. job'[w] = NoJob /\ \A v \in Workers : v # w => job'[v] = job[v]
    BY <1>1, <2>2 DEF CountsTyped
  <2>6. JobExact'
    BY <1>2, <2>2, <2>5 DEF CountsInv, JobExact
  <2>7. CountersExactUnlessDrifted'
    <3> SUFFICES ASSUME NEW v \in Users, v \notin drifted'
                 PROVE  /\ followers'[v] = Cardinality(Followers(v))
                        /\ following'[v] = Cardinality(Following(v))
      BY <1>2 DEF CountersExactUnlessDrifted
    <3>1. CASE v = u
      <4>1. w \notin behind
        BY <2>2, <3>1
      <4>2. /\ job[w].followers = Cardinality(Followers(u))
            /\ job[w].following = Cardinality(Following(u))
        BY <2>1, <2>2, <4>1 DEF CountsInv, JobExact
      <4>3. QED  BY <1>1, <2>2, <3>1, <4>2 DEF CountsTyped
    <3>2. CASE v # u
      BY <1>1, <2>2, <3>2 DEF CountsTyped, CountsInv, CountersExactUnlessDrifted
    <3>3. QED  BY <3>1, <3>2
  <2>8. QED  BY <1>1, <1>3, <2>4, <2>6, <2>7, SameControl, Assembled DEF CountsInv
<1>7. CASE JobFails(w)
  <2>1. /\ job' = [job EXCEPT ![w] = NoJob] /\ behind' = behind \ {w}
        /\ UNCHANGED <<followers, following, drifted>>
    BY <1>7 DEF JobFails, rows
  <2>2. CountsTyped'
    BY <1>1, <2>1 DEF CountsTyped
  <2>3. job'[w] = NoJob /\ \A v \in Workers : v # w => job'[v] = job[v]
    BY <1>1, <2>1 DEF CountsTyped
  <2>4. JobExact'
    BY <1>2, <2>1, <2>3 DEF CountsInv, JobExact
  <2>5. CountersExactUnlessDrifted'
    BY <1>2, <2>1 DEF CountsInv, CountersExactUnlessDrifted
  <2>6. QED  BY <1>1, <1>3, <2>2, <2>4, <2>5, SameControl, Assembled DEF CountsInv
<1>8. QED  BY <1>5, <1>6, <1>7 DEF WorkerNext

LEMMA ExpiryStep ==
    ASSUME TypeOK, CountsInv, AnswersInv, NEW p \in Pairs, CacheExpires(p)
    PROVE  TypeOK' /\ CountsInv' /\ AnswersInv'
<1>1. /\ cache' = [cache EXCEPT ![p] = "none"] /\ suspect' = suspect \ {p}
      /\ UNCHANGED <<rows, control, job, overtaken, behind, drifted>>
  BY DEF CacheExpires
<1>2. ControlTyped' /\ CacheTyped' /\ follows' \in SUBSET Rows /\ overtaken' \in SUBSET Requests
  BY <1>1, TypeParts DEF ControlTyped, CacheTyped, control, rows
<1>3. CountsTyped' /\ CountsInv'
  BY <1>1, TypeParts, SameCounts
<1>4. AnswersInv'
  BY <1>1, TypeParts DEF AnswersInv, Honest, CacheTruthful, IsFollowing, RowsOf, control, rows,
     CacheTyped
<1>5. QED  BY <1>2, <1>3, <1>4, Assembled

LEMMA NextHolds ==
    TypeOK /\ CountsInv /\ AnswersInv /\ [Next]_vars => TypeOK' /\ CountsInv' /\ AnswersInv'
<1> SUFFICES ASSUME TypeOK, CountsInv, AnswersInv, [Next]_vars
             PROVE  TypeOK' /\ CountsInv' /\ AnswersInv'
  OBVIOUS
<1>1. ASSUME NEW r \in Requests, RequestNext(r) PROVE TypeOK' /\ CountsInv' /\ AnswersInv'
  BY <1>1, AskSteps, EndSteps, CreateStep, DeleteStep DEF RequestNext
<1>2. CASE UNCHANGED vars
  <2>1. /\ UNCHANGED <<rows, job, behind, drifted>>
        /\ UNCHANGED <<follows, cache, control, overtaken, suspect>>
    BY <1>2 DEF vars, rows
  <2>2. CountsTyped' /\ CountsInv'
    BY <2>1, TypeParts, SameCounts
  <2>3. QED  BY <2>1, <2>2, SameControl, Assembled
<1>3. QED  BY <1>1, <1>2, WorkerStep, ExpiryStep DEF Next

LEMMA Invariance == Spec => [](TypeOK /\ CountsInv /\ AnswersInv)
<1>1. QED  BY InitHolds, NextHolds, PTL DEF Spec

-----------------------------------------------------------------------------
(* Results *)

(* Counters never go below zero, a write belongs to a follow or unfollow.  *)
THEOREM FollowTypeCorrect == Spec => []TypeOK
<1>1. QED  BY Invariance, PTL

(* Both counters are the numbers of rows, for every user whom neither a    *)
(* late job nor an unfollow of several rows has led astray.                *)
THEOREM CountersExact == Spec => []CountersExactUnlessDrifted
<1>1. CountsInv => CountersExactUnlessDrifted
  BY DEF CountsInv
<1>2. QED  BY <1>1, Invariance, PTL

(* A wrong cached answer is explained by a removal that is due or failed,  *)
(* or by a late fill.                                                      *)
THEOREM CachedAnswersTruthful == Spec => []CacheTruthful
<1>1. AnswersInv => CacheTruthful
  BY DEF AnswersInv
<1>2. QED  BY <1>1, Invariance, PTL

LEMMA OnlyCreateAdds ==
    ASSUME TypeOK, [Next]_vars, NEW p \in Pairs, ~(RowsOf(p)' \subseteq RowsOf(p))
    PROVE  \E r \in Requests : Create(r) /\ req[r].pair = p
<1>1. ~(follows' \subseteq follows)
  BY DEF RowsOf
<1>2. PICK r \in Requests : RequestNext(r)
  BY <1>1 DEF Next, vars, rows, WorkerNext, GetFollowStats, UpdateStats, JobFails, CacheExpires
<1>3. Create(r)
  BY <1>1, <1>2 DEF RequestNext, Begin, CacheHit, Count, CountFails, Fill, DeleteByUsers,
     DeleteNothing, Drop, Abandon, rows
<1>4. QED  BY <1>3, OtherPairs

(* A second row of a pair is inserted only by a request whose answer was   *)
(* cached, missing or overtaken.                                           *)
THEOREM DuplicatesExplained == Spec => DuplicateHasACause
<1> DEFINE Caused(p) ==
        RowsOf(p) # {} /\ ~(RowsOf(p)' \subseteq RowsOf(p))
        => \E r \in Requests : /\ pc[r] = "write" /\ pc'[r] = "drop" /\ req[r].pair = p
                               /\ r \in overtaken \/ answer[r] = "unknown"
<1>1. ASSUME TypeOK, AnswersInv, [Next]_vars, NEW p \in Pairs,
             RowsOf(p) # {}, ~(RowsOf(p)' \subseteq RowsOf(p))
      PROVE  \E r \in Requests : /\ pc[r] = "write" /\ pc'[r] = "drop" /\ req[r].pair = p
                                 /\ r \in overtaken \/ answer[r] = "unknown"
  <2>1. PICK r \in Requests : Create(r) /\ req[r].pair = p
    BY <1>1, OnlyCreateAdds
  <2>2. pc[r] = "write" /\ pc'[r] = "drop" /\ req[r].op = "follow"
    BY <1>1, <2>1, WriterTypes DEF Create
  <2>3. QED  BY <1>1, <2>1, <2>2 DEF AnswersInv, Honest
<1>2. TypeOK /\ AnswersInv /\ [Next]_vars => [\A p \in Pairs : Caused(p)]_vars
  BY <1>1
<1>3. QED  BY <1>2, Invariance, PTL DEF Spec, DuplicateHasACause
=============================================================================
