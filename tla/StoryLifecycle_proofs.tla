----------------------- MODULE StoryLifecycle_proofs -----------------------
(***************************************************************************)
(* Proofs about the story lifecycle, for every number of stories, requests *)
(* in flight and expiration passes, every batch size and every number of   *)
(* faults.                                                                 *)
(***************************************************************************)
EXTENDS StoryLifecycle, FiniteSetTheorems, TLAPS

Outside == (\E s \in Stories : CreateStory(s) \/ CacheExpires(s)) \/ Tick
Crashes == ApiCrash \/ WorkerCrash
AnyRequest(r) == BeginRequest(r) \/ Request(r) \/ RequestFault(r)
AnyPass(p) == Pass(p) \/ PassFault(p)

LEMMA StepCases ==
    ASSUME Next
    PROVE  \/ Outside \/ Crashes
           \/ \E r \in Requests : AnyRequest(r)
           \/ \E p \in Passes : AnyPass(p)
BY DEF Next, Outside, Crashes, AnyRequest, AnyPass

-----------------------------------------------------------------------------
(* Type correctness *)

LEMMA InitTypeOK == Init => TypeOK
<1> SUFFICES ASSUME Init PROVE TypeOK
  OBVIOUS
<1>1. DataTypes
  <2>1. NoRow \in Row
    BY DEF NoRow, Row
  <2>2. QED  BY <2>1 DEF Init, DataTypes
<1>2. RequestTypes
  BY DEF Init, RequestTypes
<1>3. PassTypes
  BY DEF Init, PassTypes
<1>4. QED  BY <1>1, <1>2, <1>3 DEF Init, TypeOK, NoRow

LEMMA OutsideTypeOK ==
    ASSUME TypeOK, Outside
    PROVE  TypeOK'
<1> USE StoryAssumption
    DEF TypeOK, DataTypes, RequestTypes, PassTypes, requestVars, passVars
<1>1. ASSUME NEW s \in Stories, CreateStory(s) PROVE TypeOK'
  <2>1. PICK c \in Content, life \in Lifetimes :
          db' = [db EXCEPT ![s] = [status |-> "live", text |-> c.text,
                                   vis |-> c.vis, expiresAt |-> now + life]]
    BY <1>1 DEF CreateStory, Create, NewStory
  <2>2. [status |-> "live", text |-> c.text, vis |-> c.vis, expiresAt |-> now + life] \in Row
    BY DEF Row, Content
  <2>3. DataTypes'
    BY <1>1, <2>1, <2>2 DEF CreateStory
  <2>4. RequestTypes' /\ PassTypes'
    BY <1>1 DEF CreateStory
  <2>5. \A t \in Stories : db'[t].status # "none" => ContentOf(db'[t]) \in Content
    BY <2>1 DEF ContentOf, Content
  <2>6. QED  BY <2>3, <2>4, <2>5
<1>2. ASSUME NEW s \in Stories, CacheExpires(s) PROVE TypeOK'
  BY <1>2 DEF CacheExpires, Forget
<1>3. CASE Tick
  BY <1>3 DEF Tick
<1>4. QED  BY <1>1, <1>2, <1>3 DEF Outside

LEMMA Writes ==
    ASSUME TypeOK, NEW s \in Stories, Live(s)
    PROVE  /\ Removed(db[s]) \in Row
           /\ \A c \in Content : Rewritten(db[s], c) \in Row
BY DEF TypeOK, DataTypes, Row, Removed, Rewritten, Content, Live

LEMMA SoftDeleteTypeOK ==
    ASSUME TypeOK, NEW s \in Stories, Live(s), SoftDelete(s)
    PROVE  /\ db' \in [Stories -> Row]
           /\ \A t \in Stories : db'[t].status # "none" => ContentOf(db'[t]) \in Content
<1>1. Removed(db[s]) \in Row
  BY Writes
<1>2. ContentOf(Removed(db[s])) = ContentOf(db[s])
  BY DEF Removed, ContentOf
<1>3. QED  BY <1>1, <1>2 DEF SoftDelete, TypeOK, DataTypes, Live

LEMMA WriteTypeOK ==
    ASSUME TypeOK, NEW r \in Requests, rpc[r] = "write", WriteStory(r)
    PROVE  /\ db' \in [Stories -> Row]
           /\ \A t \in Stories : db'[t].status # "none" => ContentOf(db'[t]) \in Content
<1> DEFINE s == task[r].story
           c == Edited(seen[r], task[r].change)
<1>1. s \in Stories /\ c \in Content /\ Live(s)
  BY DEF TypeOK, RequestTypes, Task, Change, Edited, Content, WriteStory
<1>2. CASE SoftDelete(s)
  BY <1>1, <1>2, SoftDeleteTypeOK
<1>3. CASE SetContent(s, c)
  <2>1. Rewritten(db[s], c) \in Row
    BY <1>1, Writes
  <2>2. ContentOf(Rewritten(db[s], c)) = c
    BY <1>1 DEF Rewritten, ContentOf, Content
  <2>3. QED  BY <1>1, <1>3, <2>1, <2>2 DEF SetContent, TypeOK, DataTypes
<1>4. QED  BY <1>2, <1>3 DEF WriteStory

(* What the two ways of touching a cached copy leave behind.               *)
LEMMA CopiesTyped ==
    ASSUME TypeOK, NEW s \in Stories, NEW S,
           Forget(s) \/ KeepsCopy(S) \/ UNCHANGED <<cache, overtaken>>
    PROVE  /\ cache' \in [Stories -> Content \cup {NoContent}]
           /\ overtaken' \in [Stories -> BOOLEAN]
<1> USE DEF TypeOK, DataTypes
<1>1. CASE Forget(s)
  BY <1>1 DEF Forget
<1>2. CASE KeepsCopy(S)
  BY <1>2 DEF KeepsCopy
<1>3. CASE UNCHANGED <<cache, overtaken>>
  BY <1>3
<1>4. QED  BY <1>1, <1>2, <1>3

(* The ways in which a request goes on.                                    *)
LEMMA RequestMoves ==
    ASSUME TypeOK, NEW r \in Requests,
           \/ Return(r)
           \/ /\ rpc[r] # "idle"
              /\ \E to \in {"lookup", "select", "invalidate"} : Goto(r, to)
              /\ UNCHANGED <<task, seen>>
           \/ /\ rpc[r] # "idle"
              /\ \E to \in {"fill", "write"} : Goto(r, to)
              /\ \E c \in Content : seen' = [seen EXCEPT ![r] = c]
              /\ UNCHANGED task
           \/ /\ Goto(r, "lookup")
              /\ \E t \in Task : task' = [task EXCEPT ![r] = t]
              /\ UNCHANGED seen
    PROVE  RequestTypes'
<1> USE DEF TypeOK, RequestTypes, Goto
<1>1. CASE Return(r)
  BY <1>1 DEF Return
<1>2. ASSUME NEW to \in {"lookup", "select", "invalidate"}, Goto(r, to),
             rpc[r] # "idle", UNCHANGED <<task, seen>>
      PROVE  RequestTypes'
  BY <1>2
<1>3. ASSUME NEW c \in Content, NEW to \in {"fill", "write"}, Goto(r, to),
             rpc[r] # "idle", seen' = [seen EXCEPT ![r] = c], UNCHANGED task
      PROVE  RequestTypes'
  <2>1. seen' \in [Requests -> Content \cup {NoContent}]
    BY <1>3
  <2>2. \A q \in Requests : rpc'[q] \in {"fill", "write"} => seen'[q] \in Content
    BY <1>3
  <2>3. QED  BY <1>3, <2>1, <2>2
<1>4. ASSUME NEW t \in Task, Goto(r, "lookup"), task' = [task EXCEPT ![r] = t],
             UNCHANGED seen
      PROVE  RequestTypes'
  <2>1. task' \in [Requests -> Task \cup {NoTask}]
    BY <1>4
  <2>2. QED  BY <1>4, <2>1
<1>5. QED  BY <1>1, <1>2, <1>3, <1>4

LEMMA LoadedTypes ==
    ASSUME TypeOK, NEW r \in Requests, NEW c \in Content, NEW stale,
           rpc[r] # "idle", Loaded(r, c, stale)
    PROVE  RequestTypes'
BY RequestMoves DEF Loaded, Answer

LEMMA LoadedLag ==
    ASSUME TypeOK, NEW r \in Requests, NEW c, NEW stale \in BOOLEAN, Loaded(r, c, stale)
    PROVE  behind' \in SUBSET Requests
BY DEF Loaded, Answer, TypeOK, DataTypes

(* What a request does to the requests that are behind.                    *)
LEMMA RequestLag ==
    ASSUME TypeOK, NEW r \in Requests, AnyRequest(r)
    PROVE  behind' \in SUBSET Requests
<1> DEFINE s == task[r].story
<1> USE DEF TypeOK, DataTypes
<1>1. CASE UNCHANGED behind
  BY <1>1
<1>2. CASE Answer(r)
  BY <1>2 DEF Answer
<1>3. CASE WriteStory(r)
  BY <1>3 DEF WriteStory, Overtake, Holders
<1>4. CASE SelectRow(r)
  BY <1>4 DEF SelectRow
<1>5. CASE CacheHit(r)
  <2>1. Doubtful(s) \in BOOLEAN
    BY <1>5 DEF CacheHit, RequestStep, Doubtful, BeingForgotten, RequestTypes, Task
  <2>2. QED  BY <1>5, <2>1, LoadedLag DEF CacheHit
<1>6. CASE Fill(r) \/ FillFails(r)
  <2>1. Loaded(r, seen[r], r \in behind)
    BY <1>6 DEF Fill, FillFails
  <2>2. (r \in behind) \in BOOLEAN
    OBVIOUS
  <2>3. QED  BY <2>1, <2>2, LoadedLag
<1>7. CASE BeginRequest(r) \/ CacheMiss(r) \/ SelectNothing(r) \/ WriteRefused(r)
  BY <1>7, <1>1, <1>2 DEF BeginRequest, CacheMiss, SelectNothing, WriteRefused
<1>8. CASE UpdateStory(r) \/ DeleteStory(r) \/ WriteReplyLost(r)
  BY <1>8, <1>3 DEF UpdateStory, DeleteStory, WriteReplyLost
<1>9. CASE InvalidateCache(r) \/ InvalidateFails(r) \/ DatabaseFails(r)
  BY <1>9, <1>2 DEF InvalidateCache, InvalidateFails, DatabaseFails
<1>10. QED
  BY <1>4, <1>5, <1>6, <1>7, <1>8, <1>9, Zenon DEF AnyRequest, Request, RequestFault

(* What a request does to its own variables.                               *)
LEMMA RequestKeepsTypes ==
    ASSUME TypeOK, NEW r \in Requests, AnyRequest(r)
    PROVE  RequestTypes'
<1> DEFINE s == task[r].story
<1>1. CASE BeginRequest(r)
  BY <1>1, RequestMoves DEF BeginRequest
<1>2. CASE CacheHit(r)
  <2>1. s \in Stories
    BY <1>2 DEF CacheHit, RequestStep, TypeOK, RequestTypes, Task
  <2>2. cache[s] \in Content
    BY <1>2, <2>1 DEF CacheHit, TypeOK, DataTypes
  <2>3. rpc[r] # "idle"
    BY <1>2 DEF CacheHit, RequestStep
  <2>4. QED  BY <1>2, <2>2, <2>3, LoadedTypes DEF CacheHit
<1>3. CASE CacheMiss(r)
  BY <1>3, RequestMoves DEF CacheMiss, RequestStep
<1>4. CASE SelectRow(r)
  <2>1. s \in Stories
    BY <1>4 DEF SelectRow, RequestStep, TypeOK, RequestTypes, Task
  <2>2. ContentOf(db[s]) \in Content
    BY <1>4, <2>1 DEF SelectRow, Live, TypeOK
  <2>3. QED  BY <1>4, <2>2, RequestMoves DEF SelectRow, RequestStep
<1>5. CASE Fill(r) \/ FillFails(r)
  <2>1. rpc[r] = "fill" /\ Loaded(r, seen[r], r \in behind)
    BY <1>5 DEF Fill, FillFails, RequestStep
  <2>2. seen[r] \in Content
    BY <2>1 DEF TypeOK, RequestTypes
  <2>3. QED  BY <2>1, <2>2, LoadedTypes
<1>6. CASE UpdateStory(r) \/ DeleteStory(r)
  BY <1>6, RequestMoves DEF UpdateStory, DeleteStory, RequestStep
<1>7. CASE SelectNothing(r) \/ WriteRefused(r) \/ InvalidateCache(r)
           \/ InvalidateFails(r) \/ DatabaseFails(r) \/ WriteReplyLost(r)
  BY <1>7, RequestMoves DEF SelectNothing, WriteRefused, InvalidateCache,
     InvalidateFails, DatabaseFails, WriteReplyLost, Answer
<1>8. QED
  BY <1>1, <1>2, <1>3, <1>4, <1>5, <1>6, <1>7 DEF AnyRequest, Request, RequestFault

LEMMA RequestTypeOK ==
    ASSUME TypeOK, NEW r \in Requests, AnyRequest(r)
    PROVE  TypeOK'
<1> DEFINE s == task[r].story
           AllHaveContent == \A t \in Stories :
                          db[t].status # "none" => ContentOf(db[t]) \in Content
<1>1. RequestTypes'
  BY RequestKeepsTypes
<1>2. UNCHANGED <<now, passVars>>
  BY DEF AnyRequest, Request, RequestFault, BeginRequest, CacheHit, CacheMiss, SelectRow,
     SelectNothing, Fill, UpdateStory, DeleteStory, WriteRefused, InvalidateCache,
     FillFails, InvalidateFails, DatabaseFails, WriteReplyLost, RequestStep
<1>3. PassTypes'
  BY <1>2 DEF TypeOK, PassTypes, passVars
<1>4. faults' \in Nat
  BY DEF AnyRequest, Request, RequestFault, BeginRequest, CacheHit, CacheMiss, SelectRow,
     SelectNothing, Fill, UpdateStory, DeleteStory, WriteRefused, InvalidateCache,
     FillFails, InvalidateFails, DatabaseFails, WriteReplyLost, Fault, TypeOK, DataTypes
<1>5. ASSUME rpc[r] # "idle" PROVE s \in Stories
  BY <1>5 DEF TypeOK, RequestTypes, Task
<1>6. db' \in [Stories -> Row] /\ AllHaveContent'
  <2>1. CASE UNCHANGED db
    BY <2>1 DEF TypeOK, DataTypes
  <2>2. CASE rpc[r] = "write" /\ WriteStory(r)
    BY <2>2, WriteTypeOK
  <2>3. QED
    BY <2>1, <2>2 DEF AnyRequest, Request, RequestFault, BeginRequest, CacheHit,
       CacheMiss, SelectRow, SelectNothing, Fill, UpdateStory, DeleteStory, WriteRefused,
       InvalidateCache, FillFails, InvalidateFails, DatabaseFails, WriteReplyLost,
       RequestStep
<1>7. removals' \in [Stories -> Nat]
  <2>1. CASE UNCHANGED removals
    BY <2>1 DEF TypeOK, DataTypes
  <2>2. CASE rpc[r] = "write" /\ CountRemoval(s)
    BY <2>2, <1>5 DEF CountRemoval, TypeOK, DataTypes
  <2>3. QED
    BY <2>1, <2>2 DEF AnyRequest, Request, RequestFault, BeginRequest, CacheHit,
       CacheMiss, SelectRow, SelectNothing, Fill, UpdateStory, DeleteStory, WriteRefused,
       InvalidateCache, FillFails, InvalidateFails, DatabaseFails, WriteReplyLost,
       RequestStep
<1>8. cache' \in [Stories -> Content \cup {NoContent}] /\ overtaken' \in [Stories -> BOOLEAN]
  <2>1. CASE UNCHANGED <<cache, overtaken>>
    BY <2>1 DEF TypeOK, DataTypes
  <2>2. CASE Fill(r)
    <3>1. seen[r] \in Content
      BY <2>2 DEF Fill, RequestStep, TypeOK, RequestTypes
    <3>2. cache' = [cache EXCEPT ![s] = seen[r]]
      BY <2>2 DEF Fill
    <3>3. overtaken' = [overtaken EXCEPT ![s] = r \in behind]
      BY <2>2 DEF Fill
    <3>4. (r \in behind) \in BOOLEAN
      OBVIOUS
    <3>5. QED  BY <3>1, <3>2, <3>3, <3>4 DEF TypeOK, DataTypes
  <2>3. CASE InvalidateCache(r)
    <3>1. s \in Stories
      BY <2>3, <1>5 DEF InvalidateCache, RequestStep
    <3>2. QED  BY <2>3, <3>1, CopiesTyped DEF InvalidateCache
  <2>4. CASE InvalidateFails(r) \/ WriteReplyLost(r)
    <3>1. s \in Stories
      BY <2>4, <1>5 DEF InvalidateFails, WriteReplyLost, RequestStep
    <3>2. QED  BY <2>4, <3>1, CopiesTyped DEF InvalidateFails, WriteReplyLost
  <2>5. QED
    BY <2>1, <2>2, <2>3, <2>4 DEF AnyRequest, Request, RequestFault, BeginRequest,
       CacheHit, CacheMiss, SelectRow, SelectNothing, UpdateStory, DeleteStory,
       WriteRefused, FillFails, DatabaseFails
<1>9. behind' \in SUBSET Requests
  BY RequestLag
<1>10. QED
  BY <1>1, <1>2, <1>3, <1>4, <1>6, <1>7, <1>8, <1>9 DEF TypeOK, DataTypes

LEMMA PassEndsTypes ==
    ASSUME TypeOK, NEW p \in Passes, PassEnds(p), UNCHANGED due
    PROVE  PassTypes'
BY DEF TypeOK, PassTypes, PassEnds, PassGoto

LEMMA NextOfBatchTypes ==
    ASSUME TypeOK, NEW p \in Passes, NEW s \in Stories, ppc[p] = "sweep", NextOfBatch(p, s),
           \/ UNCHANGED <<ppc, current>>
           \/ PassGoto(p, "forget") /\ current' = [current EXCEPT ![p] = s]
    PROVE  PassTypes'
<1> USE DEF TypeOK, PassTypes, NextOfBatch
<1>1. batch' \in [Passes -> SUBSET Stories]
  OBVIOUS
<1>2. CASE UNCHANGED <<ppc, current>>
  BY <1>1, <1>2
<1>3. CASE PassGoto(p, "forget") /\ current' = [current EXCEPT ![p] = s]
  BY <1>1, <1>3 DEF PassGoto
<1>4. QED  BY <1>2, <1>3

(* What a pass does to its own variables.                                  *)
LEMMA PassKeepsTypes ==
    ASSUME TypeOK, NEW p \in Passes, AnyPass(p)
    PROVE  PassTypes'
<1>1. CASE BeginPass(p)
  <2>1. Expired \in SUBSET Stories
    BY DEF Expired
  <2>2. due' = [due EXCEPT ![p] = Expired] /\ PassGoto(p, "query")
        /\ UNCHANGED <<offset, batch, full, current>>
    BY <1>1 DEF BeginPass
  <2>3. QED  BY <2>1, <2>2 DEF PassGoto, TypeOK, PassTypes
<1>2. CASE QueryPage(p)
  <2>1. PICK page \in SUBSET Expired :
          \/ page = {} /\ PassEnds(p)
          \/ /\ batch' = [batch EXCEPT ![p] = page]
             /\ full' = [full EXCEPT ![p] = Cardinality(page) = BatchSize]
             /\ PassGoto(p, "sweep")
             /\ UNCHANGED <<offset, current>>
    BY <1>2 DEF QueryPage
  <2>2. UNCHANGED due
    BY <1>2 DEF QueryPage
  <2>3. CASE PassEnds(p)
    BY <2>2, <2>3, PassEndsTypes
  <2>4. ASSUME batch' = [batch EXCEPT ![p] = page],
               full' = [full EXCEPT ![p] = Cardinality(page) = BatchSize],
               PassGoto(p, "sweep"), UNCHANGED <<offset, current>>
        PROVE  PassTypes'
    <3>1. page \in SUBSET Stories
      BY DEF Expired
    <3>2. batch' \in [Passes -> SUBSET Stories]
      BY <2>4, <3>1 DEF TypeOK, PassTypes
    <3>3. (Cardinality(page) = BatchSize) \in BOOLEAN
      OBVIOUS
    <3>4. full' \in [Passes -> BOOLEAN]
      BY <2>4, <3>3 DEF TypeOK, PassTypes
    <3>5. QED  BY <2>2, <2>4, <3>2, <3>4 DEF TypeOK, PassTypes, PassGoto
  <2>5. QED  BY <2>1, <2>3, <2>4
<1>3. CASE QueryFails(p) \/ PassCancelled(p)
  BY <1>3, PassEndsTypes DEF QueryFails, PassCancelled
<1>4. ASSUME NEW s \in Stories,
             SweepStory(p, s) \/ SweepTooLate(p, s) \/ SweepFails(p, s) \/ SweepReplyLost(p, s)
      PROVE  PassTypes'
  BY <1>4, NextOfBatchTypes
  DEF SweepStory, SweepTooLate, SweepFails, SweepReplyLost, PassStep
<1>5. CASE PassForgets(p)
  <2>1. ppc[p] = "forget" /\ PassGoto(p, "purge")
        /\ UNCHANGED <<offset, batch, full, current, due>>
    BY <1>5 DEF PassForgets, PassStep
  <2>2. QED  BY <2>1 DEF PassGoto, TypeOK, PassTypes
<1>6. CASE PassPurges(p)
  <2>1. PassGoto(p, "sweep") /\ current' = [current EXCEPT ![p] = Nothing]
        /\ UNCHANGED <<offset, batch, full, due>>
    BY <1>6 DEF PassPurges
  <2>2. QED  BY <2>1 DEF PassGoto, TypeOK, PassTypes
<1>7. CASE EndBatch(p)
  <2>1. UNCHANGED due
    BY <1>7 DEF EndBatch
  <2>2. CASE PassEnds(p)
    BY <2>1, <2>2, PassEndsTypes
  <2>3. CASE /\ offset' = [offset EXCEPT ![p] = NextOffset(p)]
             /\ PassGoto(p, "pause")
             /\ UNCHANGED <<batch, full, current>>
    <3>1. NextOffset(p) \in Nat
      BY StoryAssumption DEF NextOffset, TypeOK, PassTypes
    <3>2. QED  BY <2>1, <2>3, <3>1 DEF PassGoto, TypeOK, PassTypes
  <2>4. QED  BY <1>7, <2>2, <2>3 DEF EndBatch
<1>8. CASE Resume(p)
  BY <1>8 DEF Resume, PassGoto, TypeOK, PassTypes
<1>9. QED
  BY <1>1, <1>2, <1>3, <1>4, <1>5, <1>6, <1>7, <1>8 DEF AnyPass, Pass, PassFault

LEMMA PassTypeOK ==
    ASSUME TypeOK, NEW p \in Passes, AnyPass(p)
    PROVE  TypeOK'
<1> USE DEF PassStep, BeginPass, QueryPage, QueryFails, SweepTooLate, SweepFails,
            PassForgets, PassPurges, EndBatch, Resume, PassCancelled
<1> DEFINE AllHaveContent == \A t \in Stories :
                          db[t].status # "none" => ContentOf(db[t]) \in Content
<1>1. PassTypes'
  BY PassKeepsTypes
<1>2. UNCHANGED <<now, requestVars>>
  BY DEF AnyPass, Pass, PassFault, SweepStory, SweepReplyLost
<1>3. RequestTypes'
  BY <1>2 DEF TypeOK, RequestTypes, requestVars
<1>4. faults' \in Nat
  <2>1. CASE UNCHANGED faults
    BY <2>1 DEF TypeOK, DataTypes
  <2>2. CASE Fault
    BY <2>2 DEF Fault, TypeOK, DataTypes
  <2>3. CASE BeginPass(p) \/ QueryPage(p) \/ EndBatch(p) \/ Resume(p)
    BY <2>3, <2>1
  <2>4. CASE QueryFails(p) \/ PassCancelled(p) \/ PassForgets(p) \/ PassPurges(p)
    BY <2>4, <2>1, <2>2
  <2>5. ASSUME NEW s \in Stories,
               \/ SweepStory(p, s) \/ SweepTooLate(p, s)
               \/ SweepFails(p, s) \/ SweepReplyLost(p, s)
        PROVE  faults' \in Nat
    BY <2>5, <2>1, <2>2 DEF SweepStory, SweepReplyLost
  <2>6. QED
    BY <2>3, <2>4, <2>5, Zenon DEF AnyPass, Pass, PassFault
<1>5. /\ db' \in [Stories -> Row] /\ AllHaveContent'
      /\ removals' \in [Stories -> Nat]
  <2>1. CASE UNCHANGED <<db, removals>>
    BY <2>1 DEF TypeOK, DataTypes
  <2>2. ASSUME NEW s \in Stories, Live(s), SoftDelete(s),
               CountRemoval(s) \/ UNCHANGED removals
        PROVE  /\ db' \in [Stories -> Row] /\ AllHaveContent'
               /\ removals' \in [Stories -> Nat]
    <3>1. db' \in [Stories -> Row] /\ AllHaveContent'
      BY <2>2, SoftDeleteTypeOK
    <3>2. removals' \in [Stories -> Nat]
      BY <2>2 DEF CountRemoval, TypeOK, DataTypes
    <3>3. QED  BY <3>1, <3>2
  <2>3. QED
    BY <2>1, <2>2 DEF AnyPass, Pass, PassFault, SweepStory, SweepReplyLost
<1>6. cache' \in [Stories -> Content \cup {NoContent}] /\ overtaken' \in [Stories -> BOOLEAN]
  <2>1. CASE UNCHANGED <<cache, overtaken>>
    BY <2>1 DEF TypeOK, DataTypes
  <2>2. CASE PassForgets(p) \/ PassPurges(p)
    <3>1. current[p] \in Stories
      BY <2>2 DEF TypeOK, PassTypes
    <3>2. QED  BY <2>2, <3>1, CopiesTyped
  <2>3. ASSUME NEW s \in Stories, SweepReplyLost(p, s)
        PROVE  /\ cache' \in [Stories -> Content \cup {NoContent}]
               /\ overtaken' \in [Stories -> BOOLEAN]
    BY <2>3, CopiesTyped DEF SweepReplyLost
  <2>4. QED  BY <2>1, <2>2, <2>3 DEF AnyPass, Pass, PassFault, SweepStory
<1>7. behind' \in SUBSET Requests
  <2>1. CASE UNCHANGED behind
    BY <2>1 DEF TypeOK, DataTypes
  <2>2. ASSUME NEW s \in Stories, Overtake(s, {})
        PROVE  behind' \in SUBSET Requests
    BY <2>2 DEF Overtake, Holders, TypeOK, DataTypes
  <2>3. QED
    BY <2>1, <2>2 DEF AnyPass, Pass, PassFault, SweepStory, SweepReplyLost
<1>8. QED
  BY <1>1, <1>2, <1>3, <1>4, <1>5, <1>6, <1>7 DEF TypeOK, DataTypes

LEMMA CrashTypeOK ==
    ASSUME TypeOK, Crashes
    PROVE  TypeOK'
<1> USE DEF TypeOK, DataTypes, RequestTypes, PassTypes, requestVars, passVars, Fault
<1>1. CASE ApiCrash
  <2>1. UNCHANGED <<db, now, passVars, removals, cache>> /\ faults' \in Nat
    BY <1>1 DEF ApiCrash, KeepsCopy
  <2>2. overtaken' \in [Stories -> BOOLEAN]
    BY <1>1 DEF ApiCrash, KeepsCopy
  <2>3. RequestTypes' /\ behind' = {}
    BY <1>1 DEF ApiCrash
  <2>4. QED  BY <2>1, <2>2, <2>3
<1>2. CASE WorkerCrash
  <2>1. UNCHANGED <<db, now, requestVars, removals, cache, due, behind>> /\ faults' \in Nat
    BY <1>2 DEF WorkerCrash, KeepsCopy
  <2>2. overtaken' \in [Stories -> BOOLEAN]
    BY <1>2 DEF WorkerCrash, KeepsCopy
  <2>3. PassTypes'
    BY <1>2 DEF WorkerCrash
  <2>4. QED  BY <2>1, <2>2, <2>3
<1>3. QED  BY <1>1, <1>2 DEF Crashes

(* Every variable keeps its type, and a published row always has content.  *)
THEOREM TypeCorrect == Spec => []TypeOK
<1>1. TypeOK /\ [Next]_vars => TypeOK'
  <2> SUFFICES ASSUME TypeOK, [Next]_vars PROVE TypeOK'
    OBVIOUS
  <2>1. CASE Next
    BY <2>1, StepCases, OutsideTypeOK, RequestTypeOK, PassTypeOK, CrashTypeOK
  <2>2. CASE UNCHANGED vars
    BY <2>2 DEF TypeOK, DataTypes, RequestTypes, PassTypes, vars, requestVars, passVars
  <2>3. QED  BY <2>1, <2>2
<1>2. QED  BY InitTypeOK, <1>1, PTL DEF Spec
-----------------------------------------------------------------------------
(* Rows: what one step of the system can do to the row of a story          *)

RowStep(s) ==
    \/ db'[s] = db[s] /\ removals'[s] = removals[s]
    \/ /\ db[s].status = "none" /\ db'[s].status = "live"
       /\ db'[s].expiresAt > now
       /\ removals'[s] = removals[s]
    \/ /\ Live(s)
       /\ db'[s].expiresAt = db[s].expiresAt
       /\ \/ db'[s].status = "live" /\ removals'[s] = removals[s]
          \/ db'[s].status = "deleted" /\ removals'[s] = removals[s] + 1
          \/ db'[s].status = "deleted" /\ removals'[s] = removals[s] /\ Fault

LEMMA OneRow ==
    ASSUME TypeOK, NEW t \in Stories,
           \/ UNCHANGED <<db, removals>>
           \/ /\ Live(t) /\ SoftDelete(t)
              /\ CountRemoval(t) \/ (UNCHANGED removals /\ Fault)
           \/ /\ Live(t) /\ UNCHANGED removals
              /\ \E c \in Content : SetContent(t, c)
    PROVE  \A s \in Stories : RowStep(s)
<1> SUFFICES ASSUME NEW s \in Stories PROVE RowStep(s)
  OBVIOUS
<1> USE DEF TypeOK, DataTypes
<1>1. CASE UNCHANGED <<db, removals>>
  BY <1>1 DEF RowStep
<1>2. CASE Live(t) /\ SoftDelete(t) /\ (CountRemoval(t) \/ (UNCHANGED removals /\ Fault))
  <2>1. CASE s = t
    <3>1. db'[s] = Removed(db[s])
      BY <1>2, <2>1 DEF SoftDelete
    <3>2. db'[s].status = "deleted" /\ db'[s].expiresAt = db[s].expiresAt
      BY <3>1 DEF Removed
    <3>3. CASE CountRemoval(t)
      BY <1>2, <2>1, <3>2, <3>3 DEF RowStep, CountRemoval
    <3>4. CASE UNCHANGED removals /\ Fault
      BY <1>2, <2>1, <3>2, <3>4 DEF RowStep
    <3>5. QED  BY <1>2, <3>3, <3>4
  <2>2. CASE s # t
    BY <1>2, <2>2 DEF SoftDelete, CountRemoval, RowStep
  <2>3. QED  BY <2>1, <2>2
<1>3. ASSUME Live(t), UNCHANGED removals, NEW c \in Content, SetContent(t, c)
      PROVE  RowStep(s)
  <2>1. CASE s = t
    <3>1. db'[s] = Rewritten(db[s], c)
      BY <1>3, <2>1 DEF SetContent
    <3>2. db'[s].status = db[s].status /\ db'[s].expiresAt = db[s].expiresAt
      BY <3>1 DEF Rewritten
    <3>3. QED  BY <1>3, <2>1, <3>2 DEF RowStep, Live
  <2>2. CASE s # t
    BY <1>3, <2>2 DEF SetContent, RowStep
  <2>3. QED  BY <2>1, <2>2
<1>4. QED  BY <1>1, <1>2, <1>3

LEMMA WriteRow ==
    ASSUME TypeOK, NEW r \in Requests, rpc[r] = "write", WriteStory(r),
           \/ task[r].op = "update" /\ UNCHANGED removals
           \/ task[r].op = "delete" /\ CountRemoval(task[r].story)
           \/ UNCHANGED removals /\ Fault
    PROVE  \A s \in Stories : RowStep(s)
<1> DEFINE t == task[r].story
           c == Edited(seen[r], task[r].change)
<1>1. t \in Stories /\ c \in Content /\ Live(t)
  BY DEF TypeOK, RequestTypes, Task, Change, Edited, Content, WriteStory
<1>2. CASE task[r].op = "update" /\ SetContent(t, c)
  <2>1. UNCHANGED removals
    BY <1>2
  <2>2. QED  BY <1>1, <1>2, <2>1, OneRow
<1>3. CASE task[r].op = "delete" /\ SoftDelete(t)
  <2>1. CountRemoval(t) \/ (UNCHANGED removals /\ Fault)
    BY <1>3
  <2>2. QED  BY <1>1, <1>3, <2>1, OneRow
<1>4. QED  BY <1>2, <1>3 DEF WriteStory

LEMMA RowSteps ==
    ASSUME TypeOK, Next
    PROVE  /\ \A s \in Stories : RowStep(s)
           /\ faults' = faults \/ faults' = faults + 1
           /\ now' \in Nat /\ now' >= now
<1> USE DEF Fault
<1> DEFINE Goal == /\ \A s \in Stories : RowStep(s)
                   /\ faults' = faults \/ faults' = faults + 1
                   /\ now' \in Nat /\ now' >= now
<1>0. now \in Nat
  BY DEF TypeOK, DataTypes
<1>a. ASSUME UNCHANGED <<db, removals, now>>, faults' = faults \/ faults' = faults + 1
      PROVE  Goal
  BY <1>0, <1>a DEF RowStep
<1>1. ASSUME NEW t \in Stories, CreateStory(t) PROVE Goal
  <2>1. \A s \in Stories : RowStep(s)
    <3>1. UNCHANGED removals /\ db[t].status = "none"
      BY <1>1 DEF CreateStory
    <3>2. PICK c \in Content, life \in Lifetimes :
            db' = [db EXCEPT ![t] = [status |-> "live", text |-> c.text,
                                     vis |-> c.vis, expiresAt |-> now + life]]
      BY <1>1 DEF CreateStory, Create, NewStory
    <3>3. now + life > now
      BY <1>0, StoryAssumption
    <3>4. QED  BY <3>1, <3>2, <3>3 DEF RowStep, TypeOK, DataTypes
  <2>2. QED  BY <1>0, <1>1, <2>1 DEF CreateStory
<1>2. ASSUME NEW t \in Stories, CacheExpires(t) PROVE Goal
  BY <1>2, <1>a DEF CacheExpires
<1>3. CASE Tick
  BY <1>0, <1>3 DEF Tick, RowStep
<1>4. CASE Crashes
  BY <1>4, <1>a DEF Crashes, ApiCrash, WorkerCrash
<1>5. ASSUME NEW r \in Requests, AnyRequest(r) PROVE Goal
  <2>1. UNCHANGED now
    BY <1>5 DEF AnyRequest, Request, RequestFault, BeginRequest, CacheHit, CacheMiss,
       SelectRow, SelectNothing, Fill, UpdateStory, DeleteStory, WriteRefused,
       InvalidateCache, FillFails, InvalidateFails, DatabaseFails, WriteReplyLost,
       RequestStep
  <2>2. CASE BeginRequest(r) \/ CacheHit(r) \/ CacheMiss(r) \/ SelectRow(r)
             \/ SelectNothing(r) \/ Fill(r) \/ WriteRefused(r) \/ InvalidateCache(r)
    BY <2>1, <2>2, <1>a DEF BeginRequest, CacheHit, CacheMiss, SelectRow, SelectNothing,
       Fill, WriteRefused, InvalidateCache
  <2>3. CASE FillFails(r) \/ InvalidateFails(r) \/ DatabaseFails(r)
    BY <2>1, <2>3, <1>a DEF FillFails, InvalidateFails, DatabaseFails
  <2>4. CASE UpdateStory(r) \/ DeleteStory(r) \/ WriteReplyLost(r)
    <3>1. \A s \in Stories : RowStep(s)
      <4>1. CASE UpdateStory(r)
        BY <4>1, WriteRow DEF UpdateStory, RequestStep
      <4>2. CASE DeleteStory(r)
        BY <4>2, WriteRow DEF DeleteStory, RequestStep
      <4>3. CASE WriteReplyLost(r)
        BY <4>3, WriteRow DEF WriteReplyLost, RequestStep
      <4>4. QED  BY <2>4, <4>1, <4>2, <4>3
    <3>2. QED
      BY <1>0, <2>1, <2>4, <3>1 DEF UpdateStory, DeleteStory, WriteReplyLost
  <2>5. QED
    BY <1>5, <2>2, <2>3, <2>4, Zenon DEF AnyRequest, Request, RequestFault
<1>6. ASSUME NEW p \in Passes, AnyPass(p) PROVE Goal
  <2> USE DEF PassStep
  <2>1. CASE BeginPass(p) \/ QueryPage(p) \/ EndBatch(p) \/ Resume(p)
    BY <2>1, <1>a DEF BeginPass, QueryPage, EndBatch, Resume
  <2>2. CASE QueryFails(p) \/ PassCancelled(p) \/ PassForgets(p) \/ PassPurges(p)
    <3>1. UNCHANGED <<db, removals, now>>
      BY <2>2 DEF QueryFails, PassCancelled, PassForgets, PassPurges
    <3>2. UNCHANGED faults \/ Fault
      BY <2>2, Zenon DEF QueryFails, PassCancelled, PassForgets, PassPurges
    <3>3. QED  BY <1>a, <3>1, <3>2
  <2>3. ASSUME NEW t \in Stories, SweepTooLate(p, t) \/ SweepFails(p, t) PROVE Goal
    BY <2>3, <1>a DEF SweepTooLate, SweepFails
  <2>4. ASSUME NEW t \in Stories, SweepStory(p, t) PROVE Goal
    BY <1>0, <2>4, OneRow DEF SweepStory
  <2>5. ASSUME NEW t \in Stories, SweepReplyLost(p, t) PROVE Goal
    BY <1>0, <2>5, OneRow DEF SweepReplyLost
  <2>6. QED
    BY <1>6, <2>1, <2>2, <2>3, <2>4, <2>5, Zenon DEF AnyPass, Pass, PassFault
<1>7. QED
  BY <1>1, <1>2, <1>3, <1>4, <1>5, <1>6, StepCases DEF Outside

-----------------------------------------------------------------------------
(* One removal is reported per story, by the one writer whose UPDATE hit   *)
(* the row; no removal goes unreported unless a reply was lost.            *)
THEOREM RemovalsAreCounted == Spec => []RemovedOnce
<1>1. Init => RemovedOnce
  BY DEF Init, RemovedOnce, NoRow
<1>2. TypeOK /\ RemovedOnce /\ [Next]_vars => RemovedOnce'
  <2> SUFFICES ASSUME TypeOK, RemovedOnce, [Next]_vars PROVE RemovedOnce'
    OBVIOUS
  <2>1. CASE Next
    <3> SUFFICES ASSUME NEW s \in Stories
                 PROVE  /\ removals'[s] <= 1
                        /\ removals'[s] = 1 => db'[s].status = "deleted"
                        /\ db'[s].status = "deleted" /\ faults' = 0 => removals'[s] = 1
      BY DEF RemovedOnce
    <3>1. RowStep(s) /\ (faults' = faults \/ faults' = faults + 1)
      BY <2>1, RowSteps
    <3>2. removals[s] \in Nat /\ faults \in Nat
      BY DEF TypeOK, DataTypes
    <3>3. /\ removals[s] <= 1
          /\ removals[s] = 1 => db[s].status = "deleted"
          /\ db[s].status = "deleted" /\ faults = 0 => removals[s] = 1
      BY DEF RemovedOnce
    <3>4. QED  BY <3>1, <3>2, <3>3 DEF RowStep, Live, Fault
  <2>2. CASE UNCHANGED vars
    BY <2>2 DEF RemovedOnce, vars
  <2>3. QED  BY <2>1, <2>2
<1>3. QED  BY <1>1, <1>2, TypeCorrect, PTL DEF Spec

(* No request and no pass ever touches a row after its removal.            *)
THEOREM DeletedStaysFrozen == Spec => FrozenOnceDeleted
<1>1. TypeOK /\ [Next]_vars
        => [\A s \in Stories : db[s].status = "deleted" => db'[s] = db[s]]_vars
  <2> SUFFICES ASSUME TypeOK, Next, NEW s \in Stories, db[s].status = "deleted"
               PROVE  db'[s] = db[s]
    OBVIOUS
  <2>1. RowStep(s)
    BY RowSteps
  <2>2. QED  BY <2>1 DEF RowStep, Live
<1>2. QED  BY <1>1, TypeCorrect, PTL DEF Spec, FrozenOnceDeleted

-----------------------------------------------------------------------------
(* What a pass holds stays expired: its rows are published, a published    *)
(* row keeps its expiry, and the clock does not go back.                   *)

HadExpired(s) == db[s].status # "none" /\ db[s].expiresAt <= now

PagesExpired ==
    \A p \in Passes :
        /\ \A s \in batch[p] : HadExpired(s)
        /\ ppc[p] \in {"forget", "purge"} => HadExpired(current[p])

LEMMA ExpiryIsFinal ==
    ASSUME TypeOK, [Next]_vars, NEW s \in Stories, HadExpired(s)
    PROVE  HadExpired(s)'
<1> USE DEF HadExpired
<1>1. CASE Next
  <2>1. RowStep(s) /\ now' \in Nat /\ now' >= now
    BY <1>1, RowSteps
  <2>2. now \in Nat /\ db[s].expiresAt \in Nat
    BY DEF TypeOK, DataTypes, Row
  <2>3. db'[s].status # "none" /\ db'[s].expiresAt = db[s].expiresAt
    BY <2>1 DEF RowStep, Live
  <2>4. QED  BY <2>1, <2>2, <2>3
<1>2. CASE UNCHANGED vars
  BY <1>2 DEF vars
<1>3. QED  BY <1>1, <1>2

(* Only QueryPage takes stories into a page, and only SweepStory takes one *)
(* from the page into processing.                                          *)
PassHolds(q) ==
    /\ \A s \in batch'[q] : s \in batch[q] \/ HadExpired(s)
    /\ ppc'[q] \in {"forget", "purge"} =>
          \/ ppc[q] \in {"forget", "purge"} /\ current'[q] = current[q]
          \/ current'[q] \in batch[q]

LEMMA PagesMove ==
    ASSUME TypeOK, [Next]_vars
    PROVE  \A q \in Passes : PassHolds(q)
<1>1. ASSUME UNCHANGED <<ppc, batch, current>>
      PROVE  \A q \in Passes : PassHolds(q)
  BY <1>1 DEF PassHolds
<1>2. ASSUME NEW p \in Passes, AnyPass(p)
      PROVE  \A q \in Passes : PassHolds(q)
  <2> SUFFICES ASSUME NEW q \in Passes PROVE PassHolds(q)
    OBVIOUS
  <2> USE DEF TypeOK, PassTypes, PassGoto, PassStep, PassHolds
  <2>1. ASSUME PassEnds(p) PROVE PassHolds(q)
    BY <2>1 DEF PassEnds
  <2>2. CASE BeginPass(p)
    BY <2>2 DEF BeginPass
  <2>3. CASE QueryPage(p)
    <3>1. PICK page \in SUBSET Expired :
            \/ page = {} /\ PassEnds(p)
            \/ /\ batch' = [batch EXCEPT ![p] = page]
               /\ PassGoto(p, "sweep")
               /\ UNCHANGED current
      BY <2>3 DEF QueryPage
    <3>2. \A s \in page : HadExpired(s)
      BY DEF Expired, Live, HadExpired
    <3>3. ASSUME batch' = [batch EXCEPT ![p] = page], PassGoto(p, "sweep"),
                 UNCHANGED current
          PROVE  PassHolds(q)
      BY <3>2, <3>3
    <3>4. QED  BY <3>1, <3>3, <2>1
  <2>4. CASE QueryFails(p) \/ PassCancelled(p)
    BY <2>1, <2>4 DEF QueryFails, PassCancelled
  <2>5. ASSUME NEW t \in Stories, SweepStory(p, t) PROVE PassHolds(q)
    BY <2>5 DEF SweepStory, NextOfBatch
  <2>6. ASSUME NEW t \in Stories,
               SweepTooLate(p, t) \/ SweepFails(p, t) \/ SweepReplyLost(p, t)
        PROVE  PassHolds(q)
    BY <2>6 DEF SweepTooLate, SweepFails, SweepReplyLost, NextOfBatch
  <2>7. CASE PassForgets(p)
    <3>1. ppc[p] = "forget" /\ PassGoto(p, "purge") /\ UNCHANGED <<batch, current>>
      BY <2>7 DEF PassForgets
    <3>2. QED  BY <3>1
  <2>8. CASE PassPurges(p)
    <3>1. PassGoto(p, "sweep") /\ current' = [current EXCEPT ![p] = Nothing]
          /\ UNCHANGED batch
      BY <2>8 DEF PassPurges
    <3>2. QED  BY <3>1
  <2>9. CASE EndBatch(p)
    <3>1. PassEnds(p) \/ (PassGoto(p, "pause") /\ UNCHANGED <<batch, current>>)
      BY <2>9 DEF EndBatch
    <3>2. QED  BY <3>1, <2>1
  <2>10. CASE Resume(p)
    BY <2>10 DEF Resume
  <2>11. QED
    BY <1>2, <2>2, <2>3, <2>4, <2>5, <2>6, <2>7, <2>8, <2>9, <2>10, Zenon
    DEF AnyPass, Pass, PassFault
<1>3. ASSUME NEW r \in Requests, AnyRequest(r)
      PROVE  UNCHANGED <<ppc, batch, current>>
  BY <1>3 DEF AnyRequest, Request, RequestFault, BeginRequest, CacheHit, CacheMiss,
     SelectRow, SelectNothing, Fill, UpdateStory, DeleteStory, WriteRefused,
     InvalidateCache, FillFails, InvalidateFails, DatabaseFails, WriteReplyLost,
     RequestStep, passVars
<1>4. ASSUME Outside \/ ApiCrash \/ UNCHANGED vars
      PROVE  UNCHANGED <<ppc, batch, current>>
  BY <1>4 DEF Outside, CreateStory, CacheExpires, Tick, ApiCrash, vars, passVars
<1>5. ASSUME WorkerCrash PROVE \A q \in Passes : PassHolds(q)
  <2>1. ppc' = [p \in Passes |-> "idle"] /\ batch' = [p \in Passes |-> {}]
    BY <1>5 DEF WorkerCrash
  <2>2. QED  BY <2>1 DEF PassHolds
<1>6. QED
  BY <1>1, <1>2, <1>3, <1>4, <1>5, StepCases DEF Crashes

LEMMA PagesStayExpired == Spec => []PagesExpired
<1>1. Init => PagesExpired
  BY DEF Init, PagesExpired
<1>2. TypeOK /\ TypeOK' /\ PagesExpired /\ [Next]_vars => PagesExpired'
  <2> SUFFICES ASSUME TypeOK, TypeOK', PagesExpired, [Next]_vars, NEW q \in Passes
               PROVE  /\ \A s \in batch'[q] : HadExpired(s)'
                      /\ ppc'[q] \in {"forget", "purge"} => HadExpired(current[q])'
    BY DEF PagesExpired
  <2>1. PassHolds(q)
    BY PagesMove
  <2>2. \A s \in batch'[q] : HadExpired(s)'
    <3> SUFFICES ASSUME NEW s \in batch'[q] PROVE HadExpired(s)'
      OBVIOUS
    <3>1. s \in Stories
      BY DEF TypeOK, PassTypes
    <3>2. HadExpired(s)
      BY <2>1 DEF PassHolds, PagesExpired
    <3>3. QED  BY <3>1, <3>2, ExpiryIsFinal
  <2>3. ASSUME ppc'[q] \in {"forget", "purge"} PROVE HadExpired(current[q])'
    <3>1. PICK s \in Stories : s = current'[q]
      BY <2>3 DEF TypeOK, PassTypes
    <3>2. HadExpired(s)
      BY <2>1, <2>3, <3>1 DEF PassHolds, PagesExpired
    <3>3. HadExpired(s)'
      BY <3>2, ExpiryIsFinal
    <3>4. QED  BY <3>1, <3>3 DEF HadExpired
  <2>4. QED  BY <2>2, <2>3
<1>3. QED  BY <1>1, <1>2, TypeCorrect, PTL DEF Spec

(* Nothing that has not expired is ever on a page or being removed.        *)
THEOREM OnlyExpiredAreSwept == Spec => []SweepsOnlyExpired
<1>1. PagesExpired => SweepsOnlyExpired
  BY DEF PagesExpired, SweepsOnlyExpired, HadExpired
<1>2. QED  BY PagesStayExpired, <1>1, PTL

-----------------------------------------------------------------------------
(* A pass whose stories fit on one page                                    *)

Known == {s \in Stories : db[s].status # "none"}
Gone(s) == db[s].status = "deleted"

(* What was expired when the pass began comes first in the order of expiry: *)
(* whatever is published or edited meanwhile expires later.                *)
DueFirst(p) ==
    \A s \in due[p] :
        HadExpired(s) /\ \A t \in Stories \ due[p] : Live(t) => ~NoLater(t, s)

Swept(p) == \A s \in due[p] : Gone(s)

(* So the first page holds all of it, if it holds that many.               *)
PageCovers(p) ==
    /\ ppc[p] = "idle" => offset[p] = 0
    /\ faults = 0 /\ Cardinality(due[p]) <= BatchSize =>
          /\ ppc[p] \in {"idle", "pause"} => Swept(p)
          /\ ppc[p] = "query" => offset[p] = 0 \/ Swept(p)
          /\ ppc[p] \in {"sweep", "forget", "purge"} =>
                \A s \in due[p] : Gone(s) \/ s \in batch[p]

LEMMA PageHoldsDue ==
    ASSUME TypeOK, IsFiniteSet(Known), NEW p \in Passes, DueFirst(p),
           Cardinality(due[p]) <= BatchSize,
           NEW page \in SUBSET Expired, IsPage(page, 0)
    PROVE  \A s \in due[p] : Live(s) => s \in page
<1> SUFFICES ASSUME NEW s \in due[p], Live(s), s \notin page
             PROVE  FALSE
  OBVIOUS
<1> USE DEF Least
<1>1. s \in Expired /\ due[p] \subseteq Known /\ Expired \subseteq Known
  <2>1. s \in Stories /\ due[p] \subseteq Stories
    BY DEF TypeOK, PassTypes
  <2>2. QED  BY <2>1 DEF DueFirst, HadExpired, Expired, Known, Live
<1>2. IsFiniteSet(Expired) /\ IsFiniteSet(due[p]) /\ IsFiniteSet(page)
  <2>1. IsFiniteSet(Expired) /\ IsFiniteSet(due[p])
    BY <1>1, FS_Subset
  <2>2. QED  BY <2>1, FS_Subset
<1>3. /\ Cardinality(Expired) \in Nat /\ Cardinality(due[p]) \in Nat
      /\ Cardinality(page) \in Nat
  BY <1>2, FS_CardinalityType
<1>4. PICK skipped \in SUBSET (Expired \ page) :
        /\ Cardinality(skipped) = Least(0, Cardinality(Expired))
        /\ Cardinality(page) = Least(BatchSize, Cardinality(Expired \ skipped))
        /\ \A u \in page, v \in (Expired \ skipped) \ page : NoLater(u, v)
  BY DEF IsPage
<1>5. skipped = {}
  <2>1. IsFiniteSet(skipped)
    BY <1>2, FS_Subset
  <2>2. Cardinality(skipped) = 0
    BY <1>3, <1>4
  <2>3. QED  BY <2>1, <2>2, FS_EmptySet
<1>6. page \subseteq due[p] \ {s}
  <2> SUFFICES ASSUME NEW u \in page, u \notin due[p]
               PROVE  FALSE
    OBVIOUS
  <2>1. NoLater(u, s)
    BY <1>1, <1>4, <1>5
  <2>2. u \in Stories /\ Live(u)
    BY DEF Expired
  <2>3. QED  BY <2>1, <2>2 DEF DueFirst
<1>7. Cardinality(page) < BatchSize
  <2>1. /\ IsFiniteSet(due[p] \ {s})
        /\ Cardinality(due[p] \ {s}) = Cardinality(due[p]) - 1
    BY <1>2, FS_RemoveElement
  <2>2. Cardinality(page) <= Cardinality(due[p] \ {s})
    BY <1>6, <2>1, FS_Subset
  <2>3. QED  BY <1>3, <2>1, <2>2, StoryAssumption
<1>8. Cardinality(page) = Cardinality(Expired)
  BY <1>3, <1>4, <1>5, <1>7, StoryAssumption
<1>9. page = Expired
  BY <1>2, <1>8, FS_Subset
<1>10. QED  BY <1>1, <1>9

LEMMA NobodyElsePublishes ==
    ASSUME TypeOK, [Next]_vars, \A t \in Stories : ~CreateStory(t),
           NEW s \in Stories, db[s].status = "none"
    PROVE  db'[s].status = "none"
<1>1. ASSUME UNCHANGED db PROVE db'[s].status = "none"
  BY <1>1
<1>2. ASSUME NEW t \in Stories, Live(t), \A u \in Stories : u # t => db'[u] = db[u]
      PROVE  db'[s].status = "none"
  BY <1>2 DEF Live
<1>3. CASE Outside \/ Crashes \/ UNCHANGED vars
  BY <1>3, <1>1 DEF Outside, CacheExpires, Tick, Crashes, ApiCrash, WorkerCrash, vars
<1>4. ASSUME NEW r \in Requests, AnyRequest(r) PROVE db'[s].status = "none"
  <2>1. UNCHANGED db \/ (rpc[r] = "write" /\ WriteStory(r))
    BY <1>4 DEF AnyRequest, Request, RequestFault, BeginRequest, CacheHit, CacheMiss,
       SelectRow, SelectNothing, Fill, UpdateStory, DeleteStory, WriteRefused,
       InvalidateCache, FillFails, InvalidateFails, DatabaseFails, WriteReplyLost,
       RequestStep
  <2>2. CASE rpc[r] = "write" /\ WriteStory(r)
    <3> DEFINE t == task[r].story
    <3>1. t \in Stories /\ Live(t)
      BY <2>2 DEF WriteStory, TypeOK, RequestTypes, Task
    <3>2. \A u \in Stories : u # t => db'[u] = db[u]
      BY <2>2 DEF WriteStory, SetContent, SoftDelete, TypeOK, DataTypes
    <3>3. QED  BY <1>2, <3>1, <3>2
  <2>3. QED  BY <1>1, <2>1, <2>2
<1>5. ASSUME NEW p \in Passes, AnyPass(p) PROVE db'[s].status = "none"
  <2>1. \/ UNCHANGED db
        \/ \E t \in Stories : Live(t) /\ SoftDelete(t)
    BY <1>5 DEF AnyPass, Pass, PassFault, BeginPass, QueryPage, QueryFails, SweepStory,
       SweepTooLate, SweepFails, SweepReplyLost, PassForgets, PassPurges, EndBatch,
       Resume, PassCancelled
  <2>2. ASSUME NEW t \in Stories, Live(t), SoftDelete(t)
        PROVE  db'[s].status = "none"
    <3>1. \A u \in Stories : u # t => db'[u] = db[u]
      BY <2>2 DEF SoftDelete, TypeOK, DataTypes
    <3>2. QED  BY <1>2, <2>2, <3>1
  <2>3. QED  BY <1>1, <2>1, <2>2
<1>6. QED  BY <1>3, <1>4, <1>5, StepCases

LEMMA GoneForGood ==
    ASSUME TypeOK, [Next]_vars, NEW s \in Stories, Gone(s)
    PROVE  Gone(s)'
<1>1. CASE Next
  <2>1. RowStep(s)
    BY <1>1, RowSteps
  <2>2. QED  BY <2>1 DEF RowStep, Gone, Live
<1>2. CASE UNCHANGED vars
  BY <1>2 DEF vars, Gone
<1>3. QED  BY <1>1, <1>2

(* At most one story is published at a time.                               *)
LEMMA KnownStaysFinite == Spec => []IsFiniteSet(Known)
<1>1. Init => IsFiniteSet(Known)
  <2> SUFFICES ASSUME Init PROVE IsFiniteSet(Known)
    OBVIOUS
  <2>1. Known = {}
    BY DEF Init, Known, NoRow
  <2>2. QED  BY <2>1, FS_EmptySet
<1>2. TypeOK /\ IsFiniteSet(Known) /\ [Next]_vars => IsFiniteSet(Known)'
  <2> SUFFICES ASSUME TypeOK, IsFiniteSet(Known), [Next]_vars PROVE IsFiniteSet(Known)'
    OBVIOUS
  <2>1. ASSUME NEW t \in Stories, CreateStory(t) PROVE IsFiniteSet(Known)'
    <3>1. \A s \in Stories : s # t => db'[s] = db[s]
      BY <2>1 DEF CreateStory, Create, TypeOK, DataTypes
    <3>2. Known' \subseteq Known \cup {t}
      BY <3>1 DEF Known
    <3>3. QED  BY <3>2, FS_AddElement, FS_Subset
  <2>2. ASSUME \A t \in Stories : ~CreateStory(t) PROVE IsFiniteSet(Known)'
    <3>1. Known' \subseteq Known
      BY <2>2, NobodyElsePublishes DEF Known
    <3>2. QED  BY <3>1, FS_Subset
  <2>3. QED  BY <2>1, <2>2
<1>3. QED  BY <1>1, <1>2, TypeCorrect, PTL DEF Spec


(* Nobody else moves a pass.                                               *)
PassKept(p) ==
    /\ ppc'[p] = ppc[p] /\ offset'[p] = offset[p]
    /\ batch'[p] = batch[p] /\ due'[p] = due[p]

LEMMA PassesApart ==
    ASSUME TypeOK, [Next]_vars, NEW p \in Passes
    PROVE  AnyPass(p) \/ WorkerCrash \/ PassKept(p)
<1> USE DEF PassKept
<1>1. ASSUME UNCHANGED passVars PROVE PassKept(p)
  BY <1>1 DEF passVars
<1>2. CASE Outside \/ ApiCrash \/ UNCHANGED vars
  BY <1>1, <1>2 DEF Outside, CreateStory, CacheExpires, Tick, ApiCrash, vars
<1>3. ASSUME NEW r \in Requests, AnyRequest(r) PROVE PassKept(p)
  BY <1>1, <1>3 DEF AnyRequest, Request, RequestFault, BeginRequest, CacheHit, CacheMiss,
     SelectRow, SelectNothing, Fill, UpdateStory, DeleteStory, WriteRefused,
     InvalidateCache, FillFails, InvalidateFails, DatabaseFails, WriteReplyLost,
     RequestStep
<1>4. ASSUME NEW q \in Passes, q # p, AnyPass(q) PROVE PassKept(p)
  <2> USE DEF TypeOK, PassTypes, PassGoto, PassEnds
  <2>1. CASE BeginPass(q) \/ EndBatch(q) \/ Resume(q)
    BY <1>4, <2>1 DEF BeginPass, EndBatch, Resume
  <2>2. CASE QueryPage(q)
    <3>1. PICK page \in SUBSET Expired :
            \/ PassEnds(q)
            \/ /\ batch' = [batch EXCEPT ![q] = page]
               /\ PassGoto(q, "sweep")
               /\ UNCHANGED offset
      BY <2>2 DEF QueryPage
    <3>2. UNCHANGED due
      BY <2>2 DEF QueryPage
    <3>3. QED  BY <1>4, <3>1, <3>2
  <2>3. CASE QueryFails(q) \/ PassCancelled(q)
    BY <1>4, <2>3 DEF QueryFails, PassCancelled
  <2>4. ASSUME NEW s \in Stories,
               \/ SweepStory(q, s) \/ SweepTooLate(q, s)
               \/ SweepFails(q, s) \/ SweepReplyLost(q, s)
        PROVE  PassKept(p)
    <3>1. NextOfBatch(q, s) /\ (UNCHANGED ppc \/ PassGoto(q, "forget"))
      BY <2>4 DEF SweepStory, SweepTooLate, SweepFails, SweepReplyLost
    <3>2. QED  BY <1>4, <3>1 DEF NextOfBatch
  <2>5. CASE PassForgets(q) \/ PassPurges(q)
    <3>1. /\ PassGoto(q, "purge") \/ PassGoto(q, "sweep")
          /\ UNCHANGED <<offset, batch, due>>
      BY <2>5 DEF PassForgets, PassPurges
    <3>2. QED  BY <1>4, <3>1
  <2>6. QED
    BY <1>4, <2>1, <2>2, <2>3, <2>4, <2>5, Zenon DEF AnyPass, Pass, PassFault
<1>5. QED  BY <1>2, <1>3, <1>4, StepCases DEF Crashes

LEMMA DueMoves ==
    ASSUME TypeOK, [Next]_vars, NEW p \in Passes
    PROVE  \/ due'[p] = due[p]
           \/ due'[p] = Expired /\ UNCHANGED <<db, now>>
<1>1. CASE BeginPass(p)
  BY <1>1 DEF BeginPass, PassStep, TypeOK, PassTypes
<1>2. CASE AnyPass(p) /\ ~BeginPass(p)
  <2>1. UNCHANGED due
    BY <1>2 DEF AnyPass, Pass, PassFault, QueryPage, QueryFails, SweepStory,
       SweepTooLate, SweepFails, SweepReplyLost, NextOfBatch, PassForgets, PassPurges,
       EndBatch, Resume, PassCancelled
  <2>2. QED  BY <2>1
<1>3. CASE WorkerCrash \/ PassKept(p)
  BY <1>3 DEF WorkerCrash, PassKept
<1>4. QED  BY <1>1, <1>2, <1>3, PassesApart

LEMMA DueStaysFirst ==
    ASSUME TypeOK, TypeOK', [Next]_vars, NEW p \in Passes, DueFirst(p)
    PROVE  DueFirst(p)'
<1> USE DEF TypeOK, DataTypes, Row
<1>1. CASE due'[p] = Expired /\ UNCHANGED <<db, now>>
  <2> SUFFICES ASSUME NEW s \in Expired
               PROVE  /\ HadExpired(s)'
                      /\ \A t \in Stories \ Expired : Live(t)' => ~NoLater(t, s)'
    BY <1>1 DEF DueFirst
  <2>1. HadExpired(s)'
    BY <1>1 DEF Expired, HadExpired, Live
  <2>2. ASSUME NEW t \in Stories \ Expired, Live(t)' PROVE ~NoLater(t, s)'
    BY <1>1, <2>2 DEF Expired, NoLater, Live
  <2>3. QED  BY <2>1, <2>2
<1>2. CASE due'[p] = due[p]
  <2> SUFFICES ASSUME NEW s \in due[p]
               PROVE  /\ HadExpired(s)'
                      /\ \A t \in Stories \ due[p] : Live(t)' => ~NoLater(t, s)'
    BY <1>2 DEF DueFirst
  <2>1. s \in Stories /\ HadExpired(s)
    BY DEF DueFirst, PassTypes
  <2>2. HadExpired(s)'
    BY <2>1, ExpiryIsFinal
  <2>3. ASSUME NEW t \in Stories \ due[p], Live(t)' PROVE ~NoLater(t, s)'
    <3>1. CASE Next
      <4>1. RowStep(s) /\ RowStep(t)
        BY <2>1, <3>1, RowSteps
      <4>2. db'[s].expiresAt = db[s].expiresAt
        BY <2>1, <4>1 DEF RowStep, HadExpired, Live
      <4>3. CASE Live(t) /\ db'[t].expiresAt = db[t].expiresAt
        BY <2>1, <4>2, <4>3 DEF DueFirst, NoLater
      <4>4. CASE db'[t].expiresAt > now
        BY <2>1, <4>2, <4>4 DEF HadExpired, NoLater
      <4>5. QED  BY <2>3, <4>1, <4>3, <4>4 DEF RowStep, Live
    <3>2. CASE UNCHANGED vars
      BY <2>1, <2>3, <3>2 DEF vars, DueFirst, NoLater, Live
    <3>3. QED  BY <3>1, <3>2
  <2>4. QED  BY <2>2, <2>3
<1>3. QED  BY <1>1, <1>2, DueMoves

(* A step of somebody else, or one that goes on within the page.           *)
LEMMA PageStillCovers ==
    ASSUME TypeOK, [Next]_vars, NEW p \in Passes, PageCovers(p),
           due'[p] = due[p], offset'[p] = offset[p], batch'[p] = batch[p],
           \/ ppc'[p] = ppc[p]
           \/ {ppc[p], ppc'[p]} \subseteq {"sweep", "forget", "purge"}
           \/ ppc[p] = "pause" /\ ppc'[p] = "query"
    PROVE  PageCovers(p)'
<1>1. \A s \in due[p] : Gone(s) => Gone(s)'
  BY GoneForGood DEF TypeOK, PassTypes
<1>2. faults' = 0 => faults = 0
  <2>1. CASE Next
    BY <2>1, RowSteps DEF TypeOK, DataTypes
  <2>2. CASE UNCHANGED vars
    BY <2>2 DEF vars
  <2>3. QED  BY <2>1, <2>2
<1>3. QED  BY <1>1, <1>2 DEF PageCovers, Swept

(* The pass ends, or begins another page, with everything due removed.     *)
LEMMA PageIsDone ==
    ASSUME TypeOK, NEW p \in Passes, UNCHANGED due, UNCHANGED db,
           faults' = 0 /\ Cardinality(due[p]) <= BatchSize => Swept(p),
           \/ PassEnds(p)
           \/ PassGoto(p, "pause")
    PROVE  PageCovers(p)'
<1> USE DEF TypeOK, PassTypes
<1>1. Swept(p) => Swept(p)'
  BY DEF Swept, Gone
<1>2. CASE PassEnds(p)
  <2>1. ppc'[p] = "idle" /\ offset'[p] = 0
    BY <1>2 DEF PassEnds, PassGoto
  <2>2. QED  BY <1>1, <2>1 DEF PageCovers
<1>3. CASE PassGoto(p, "pause")
  <2>1. ppc'[p] = "pause"
    BY <1>3 DEF PassGoto
  <2>2. QED  BY <1>1, <2>1 DEF PageCovers
<1>4. QED  BY <1>2, <1>3

LEMMA OwnPageCovers ==
    ASSUME TypeOK, IsFiniteSet(Known), PagesExpired, NEW p \in Passes, AnyPass(p),
           DueFirst(p), PageCovers(p)
    PROVE  PageCovers(p)'
<1> USE DEF TypeOK, PassTypes, PassStep
<1>1. [Next]_vars
  BY DEF AnyPass, Next
<1>2. ASSUME faults' = 0 PROVE faults = 0 /\ ~Fault
  BY <1>1, <1>2, RowSteps DEF AnyPass, Next, Fault, DataTypes
<1>3. ASSUME Fault, faults' = 0 PROVE FALSE
  BY <1>2, <1>3
<1>4. CASE BeginPass(p)
  <2>1. ppc[p] = "idle" /\ ppc'[p] = "query" /\ offset'[p] = offset[p]
    BY <1>4 DEF BeginPass, PassGoto
  <2>2. QED  BY <2>1 DEF PageCovers
<1>5. CASE QueryPage(p)
  <2>1. PICK page \in SUBSET Expired :
          /\ IsPage(page, offset[p])
          /\ \/ page = {} /\ PassEnds(p)
             \/ /\ page # {}
                /\ batch' = [batch EXCEPT ![p] = page]
                /\ PassGoto(p, "sweep")
    BY <1>5 DEF QueryPage
  <2>2. ppc[p] = "query" /\ UNCHANGED <<db, due, faults>>
    BY <1>5 DEF QueryPage
  <2>3. ASSUME faults = 0, Cardinality(due[p]) <= BatchSize
        PROVE  \A s \in due[p] : Gone(s) \/ s \in page
    <3>1. CASE Swept(p)
      BY <3>1 DEF Swept
    <3>2. CASE offset[p] = 0
      <4>1. \A s \in due[p] : Live(s) => s \in page
        BY <2>1, <2>3, <3>2, PageHoldsDue
      <4>2. \A s \in due[p] : Live(s) \/ Gone(s)
        BY DEF DueFirst, HadExpired, Live, Gone, DataTypes, Row
      <4>3. QED  BY <4>1, <4>2
    <3>3. QED  BY <2>2, <2>3, <3>1, <3>2 DEF PageCovers
  <2>4. CASE page = {} /\ PassEnds(p)
    BY <2>2, <2>3, <2>4, PageIsDone DEF Swept
  <2>5. CASE batch' = [batch EXCEPT ![p] = page] /\ PassGoto(p, "sweep")
    <3>1. ppc'[p] = "sweep" /\ batch'[p] = page
      BY <2>5 DEF PassGoto
    <3>2. QED  BY <2>2, <2>3, <3>1 DEF PageCovers, Gone
  <2>6. QED  BY <2>1, <2>4, <2>5
<1>6. CASE QueryFails(p) \/ PassCancelled(p)
  BY <1>3, <1>6, PageIsDone DEF QueryFails, PassCancelled
<1>7. ASSUME NEW s \in Stories, SweepStory(p, s) \/ SweepTooLate(p, s)
      PROVE  PageCovers(p)'
  <2>1. /\ ppc[p] = "sweep" /\ ppc'[p] \in {"sweep", "forget"}
        /\ s \in batch[p] /\ batch' = [batch EXCEPT ![p] = @ \ {s}]
        /\ UNCHANGED <<due, faults>>
    BY <1>7 DEF SweepStory, SweepTooLate, NextOfBatch, PassGoto
  <2>2. Gone(s)'
    <3>1. CASE SweepStory(p, s)
      BY <3>1 DEF SweepStory, SoftDelete, Removed, Gone, DataTypes
    <3>2. CASE SweepTooLate(p, s)
      <4>1. db[s].status # "none" /\ ~Live(s) /\ UNCHANGED db
        BY <2>1, <3>2 DEF SweepTooLate, PagesExpired, HadExpired
      <4>2. QED  BY <4>1 DEF Gone, Live, DataTypes, Row
    <3>3. QED  BY <1>7, <3>1, <3>2
  <2>3. \A t \in due[p] : Gone(t) => Gone(t)'
    BY <1>1, GoneForGood
  <2>4. \A t \in batch[p] : t = s \/ t \in batch'[p]
    BY <2>1
  <2>5. QED  BY <2>1, <2>2, <2>3, <2>4 DEF PageCovers
<1>8. ASSUME NEW s \in Stories, SweepFails(p, s) \/ SweepReplyLost(p, s)
      PROVE  PageCovers(p)'
  <2>1. Fault /\ ppc[p] = "sweep" /\ UNCHANGED ppc
    BY <1>8 DEF SweepFails, SweepReplyLost
  <2>2. QED  BY <1>3, <2>1 DEF PageCovers
<1>9. CASE PassForgets(p) \/ PassPurges(p)
  <2>1. /\ ppc[p] \in {"forget", "purge"}
        /\ PassGoto(p, "purge") \/ PassGoto(p, "sweep")
        /\ UNCHANGED <<due, offset, batch>>
    BY <1>9 DEF PassForgets, PassPurges
  <2>2. ppc[p] \in {"forget", "purge"}
    BY <1>9 DEF PassForgets, PassPurges
  <2>3. ppc'[p] \in {"sweep", "purge"}
    BY <2>1 DEF PassGoto
  <2>4. QED  BY <1>1, <2>1, <2>2, <2>3, PageStillCovers
<1>10. CASE EndBatch(p)
  <2>1. /\ ppc[p] = "sweep" /\ batch[p] = {}
        /\ UNCHANGED <<db, due, faults>>
        /\ PassEnds(p) \/ PassGoto(p, "pause")
    BY <1>10 DEF EndBatch
  <2>2. faults = 0 /\ Cardinality(due[p]) <= BatchSize => Swept(p)
    BY <2>1 DEF PageCovers, Swept
  <2>3. QED  BY <2>1, <2>2, PageIsDone
<1>11. CASE Resume(p)
  <2>1. ppc[p] = "pause" /\ ppc'[p] = "query" /\ UNCHANGED <<due, offset, batch>>
    BY <1>11 DEF Resume, PassGoto
  <2>2. QED  BY <1>1, <2>1, PageStillCovers
<1>12. QED
  BY <1>4, <1>5, <1>6, <1>7, <1>8, <1>9, <1>10, <1>11, Zenon DEF AnyPass, Pass, PassFault

PassesCover == \A p \in Passes : DueFirst(p) /\ PageCovers(p)

LEMMA PassesStillCover == Spec => []PassesCover
<1>1. Init => PassesCover
  BY DEF Init, PassesCover, DueFirst, PageCovers, Swept
<1>2. /\ TypeOK /\ TypeOK' /\ IsFiniteSet(Known) /\ PagesExpired
      /\ PassesCover /\ [Next]_vars
      => PassesCover'
  <2> SUFFICES ASSUME TypeOK, TypeOK', IsFiniteSet(Known), PagesExpired,
                      PassesCover, [Next]_vars, NEW p \in Passes
               PROVE  DueFirst(p)' /\ PageCovers(p)'
    BY DEF PassesCover
  <2>1. DueFirst(p) /\ PageCovers(p)
    BY DEF PassesCover
  <2>2. DueFirst(p)'
    BY <2>1, DueStaysFirst
  <2>3. CASE AnyPass(p)
    BY <2>1, <2>2, <2>3, OwnPageCovers
  <2>4. CASE WorkerCrash
    <3>1. ppc'[p] = "idle" /\ offset'[p] = 0 /\ faults' # 0
      BY <2>4 DEF WorkerCrash, Fault, TypeOK, DataTypes
    <3>2. QED  BY <2>2, <3>1 DEF PageCovers
  <2>5. CASE PassKept(p)
    BY <2>1, <2>2, <2>5, PageStillCovers DEF PassKept
  <2>6. QED  BY <2>3, <2>4, <2>5, PassesApart
<1>3. QED
  BY <1>1, <1>2, TypeCorrect, KnownStaysFinite, PagesStayExpired, PTL DEF Spec

(* What was expired when a pass began is removed when it ends, if it was   *)
(* no more than a page and nothing failed: however many stories are        *)
(* published, edited and removed meanwhile, none displaces another.        *)
THEOREM OnePageSuffices == Spec => []OnePageIsSwept
<1>1. PassesCover => OnePageIsSwept
  BY DEF PassesCover, PageCovers, Swept, Gone, OnePageIsSwept
<1>2. QED  BY PassesStillCover, <1>1, PTL

-----------------------------------------------------------------------------
(* Copies.  CopyOK(s) says of the cached copy of one story what            *)
(* StaleHasACause says of all; CopyFresh(r) says that the copy a request   *)
(* goes on with is the row, unless the request is behind.  Each needs the  *)
(* other: a request fills the cache, and reads from it.                    *)

CopyOK(s) == cache[s] # NoContent /\ ~Current(s) => overtaken[s] \/ BeingForgotten(s)

CopyFresh(r) ==
    LET s == task[r].story IN
    rpc[r] \in {"fill", "write"} /\ r \notin behind
    => Live(s) /\ seen[r] = ContentOf(db[s])

LEMMA RequestsAlone ==
    ASSUME TypeOK, NEW r \in Requests, AnyRequest(r)
    PROVE  /\ \A q \in Requests : q # r =>
                 rpc'[q] = rpc[q] /\ task'[q] = task[q] /\ seen'[q] = seen[q]
           /\ UNCHANGED <<ppc, current>>
<1> USE DEF TypeOK, RequestTypes, RequestStep, Goto, Answer, Return, Loaded, passVars
<1>1. CASE BeginRequest(r)
  BY <1>1 DEF BeginRequest
<1>2. CASE CacheHit(r) \/ CacheMiss(r) \/ SelectRow(r) \/ SelectNothing(r) \/ Fill(r)
  BY <1>2 DEF CacheHit, CacheMiss, SelectRow, SelectNothing, Fill
<1>3. CASE UpdateStory(r) \/ DeleteStory(r) \/ WriteRefused(r) \/ InvalidateCache(r)
  BY <1>3 DEF UpdateStory, DeleteStory, WriteRefused, InvalidateCache
<1>4. CASE FillFails(r) \/ InvalidateFails(r) \/ DatabaseFails(r) \/ WriteReplyLost(r)
  BY <1>4 DEF FillFails, InvalidateFails, DatabaseFails, WriteReplyLost
<1>5. QED
  BY <1>1, <1>2, <1>3, <1>4, Zenon DEF AnyRequest, Request, RequestFault

LEMMA PassesAlone ==
    ASSUME TypeOK, NEW p \in Passes, AnyPass(p)
    PROVE  /\ \A q \in Passes : q # p => ppc'[q] = ppc[q] /\ current'[q] = current[q]
           /\ UNCHANGED <<rpc, task>>
<1> USE DEF TypeOK, PassTypes, PassStep, PassGoto, PassEnds, requestVars
<1>1. CASE BeginPass(p) \/ EndBatch(p) \/ Resume(p)
  BY <1>1 DEF BeginPass, EndBatch, Resume
<1>2. CASE QueryPage(p)
  <2>1. \/ PassEnds(p)
        \/ PassGoto(p, "sweep") /\ UNCHANGED current
    BY <1>2 DEF QueryPage
  <2>2. UNCHANGED requestVars
    BY <1>2 DEF QueryPage
  <2>3. QED  BY <2>1, <2>2
<1>3. CASE PassForgets(p) \/ PassPurges(p)
  <2>1. \/ PassGoto(p, "purge") /\ UNCHANGED current
        \/ PassGoto(p, "sweep") /\ current' = [current EXCEPT ![p] = Nothing]
    BY <1>3 DEF PassForgets, PassPurges
  <2>2. UNCHANGED requestVars
    BY <1>3 DEF PassForgets, PassPurges
  <2>3. QED  BY <2>1, <2>2
<1>4. CASE QueryFails(p) \/ PassCancelled(p)
  BY <1>4 DEF QueryFails, PassCancelled
<1>5. ASSUME NEW s \in Stories,
             \/ SweepStory(p, s) \/ SweepTooLate(p, s)
             \/ SweepFails(p, s) \/ SweepReplyLost(p, s)
      PROVE  /\ \A q \in Passes : q # p => ppc'[q] = ppc[q] /\ current'[q] = current[q]
             /\ UNCHANGED <<rpc, task>>
  BY <1>5 DEF SweepStory, SweepTooLate, SweepFails, SweepReplyLost
<1>6. QED
  BY <1>1, <1>2, <1>3, <1>4, <1>5, Zenon DEF AnyPass, Pass, PassFault

(* The argument that covers most steps: neither the row nor the copy nor   *)
(* its excuse is touched.                                                  *)
LEMMA CopyKept ==
    ASSUME NEW s \in Stories, CopyOK(s),
           cache'[s] = cache[s], overtaken[s] => overtaken'[s],
           db'[s] = db[s] \/ ~Live(s),
           BeingForgotten(s) => BeingForgotten(s)' \/ overtaken'[s]
    PROVE  CopyOK(s)'
BY DEF CopyOK, Current, Live

LEMMA CopyGone ==
    ASSUME NEW s \in Stories, cache'[s] = NoContent
    PROVE  CopyOK(s)'
BY DEF CopyOK

LEMMA CopyExcused ==
    ASSUME NEW s \in Stories, overtaken'[s] \/ BeingForgotten(s)' \/ Current(s)'
    PROVE  CopyOK(s)'
BY DEF CopyOK

(* Whoever does not invalidate leaves every pending invalidation pending.  *)
LEMMA RequestStillForgets ==
    ASSUME TypeOK, NEW r \in Requests, AnyRequest(r), NEW s \in Stories,
           BeingForgotten(s), rpc[r] = "invalidate" => task[r].story # s
    PROVE  BeingForgotten(s)'
<1>1. CASE \E q \in Requests : rpc[q] = "invalidate" /\ task[q].story = s
  BY <1>1, RequestsAlone DEF BeingForgotten
<1>2. CASE \E q \in Passes : ppc[q] \in {"forget", "purge"} /\ current[q] = s
  BY <1>2, RequestsAlone DEF BeingForgotten
<1>3. QED  BY <1>1, <1>2 DEF BeingForgotten

LEMMA PassStillForgets ==
    ASSUME TypeOK, NEW p \in Passes, AnyPass(p), NEW s \in Stories,
           BeingForgotten(s), ppc[p] \in {"forget", "purge"} => current[p] # s
    PROVE  BeingForgotten(s)'
<1>1. CASE \E q \in Requests : rpc[q] = "invalidate" /\ task[q].story = s
  BY <1>1, PassesAlone DEF BeingForgotten
<1>2. CASE \E q \in Passes : ppc[q] \in {"forget", "purge"} /\ current[q] = s
  BY <1>2, PassesAlone DEF BeingForgotten
<1>3. QED  BY <1>1, <1>2 DEF BeingForgotten

LEMMA CopySurvives ==
    ASSUME TypeOK, NEW s \in Stories, NEW S, s \in S, KeepsCopy(S)
    PROVE  CopyOK(s)'
<1>1. cache'[s] = cache[s] /\ (overtaken'[s] <=> overtaken[s] \/ cache[s] # NoContent)
  BY DEF KeepsCopy, TypeOK, DataTypes
<1>2. CASE cache[s] = NoContent
  BY <1>1, <1>2, CopyGone
<1>3. CASE cache[s] # NoContent
  BY <1>1, <1>3, CopyExcused
<1>4. QED  BY <1>2, <1>3

LEMMA RequestCopyOK ==
    ASSUME TypeOK, TypeOK', NEW r \in Requests, AnyRequest(r), CopyFresh(r),
           NEW s \in Stories, CopyOK(s)
    PROVE  CopyOK(s)'
<1> DEFINE t == task[r].story
<1>a. ASSUME cache'[s] = cache[s], overtaken[s] => overtaken'[s], db'[s] = db[s],
             rpc[r] = "invalidate" => t # s
      PROVE  CopyOK(s)'
  BY <1>a, CopyKept, RequestStillForgets
<1>b. rpc[r] # "idle" => t \in Stories
  BY DEF TypeOK, RequestTypes, Task
<1> USE DEF RequestStep
<1>1. CASE BeginRequest(r) \/ CacheHit(r) \/ CacheMiss(r) \/ SelectRow(r)
           \/ SelectNothing(r) \/ WriteRefused(r)
  BY <1>1, <1>a DEF BeginRequest, CacheHit, CacheMiss, SelectRow, SelectNothing,
     WriteRefused
<1>2. CASE FillFails(r) \/ DatabaseFails(r)
  BY <1>2, <1>a DEF FillFails, DatabaseFails
<1>3. CASE Fill(r)
  <2>1. /\ cache' = [cache EXCEPT ![t] = seen[r]]
        /\ UNCHANGED db
        /\ rpc[r] = "fill"
    BY <1>3 DEF Fill
  <2>2. overtaken' = [overtaken EXCEPT ![t] = r \in behind]
    BY <1>3 DEF Fill
  <2>3. CASE s = t
    <3>1. cache'[s] = seen[r]
      BY <2>1, <2>3 DEF TypeOK, DataTypes
    <3>2. overtaken'[s] = (r \in behind)
      BY <2>2, <2>3 DEF TypeOK, DataTypes
    <3>3. CASE r \notin behind
      <4>1. Live(s) /\ seen[r] = ContentOf(db[s])
        BY <2>1, <2>3, <3>3 DEF CopyFresh
      <4>2. Current(s)'
        BY <2>1, <3>1, <4>1 DEF Current, Live
      <4>3. QED  BY <4>2, CopyExcused
    <3>4. CASE r \in behind
      <4>1. overtaken'[s]
        BY <3>2, <3>4
      <4>2. QED  BY <4>1, CopyExcused
    <3>5. QED  BY <3>3, <3>4
  <2>4. CASE s # t
    <3>1. cache'[s] = cache[s]
      BY <2>1, <2>4 DEF TypeOK, DataTypes
    <3>2. overtaken'[s] = overtaken[s]
      BY <2>2, <2>4 DEF TypeOK, DataTypes
    <3>3. QED  BY <1>a, <2>1, <3>1, <3>2
  <2>5. QED  BY <2>3, <2>4
<1>4. CASE UpdateStory(r) \/ DeleteStory(r)
  <2>1. /\ rpc[r] = "write" /\ rpc' = [rpc EXCEPT ![r] = "invalidate"]
        /\ UNCHANGED <<cache, task, overtaken>>
        /\ WriteStory(r)
    BY <1>4 DEF UpdateStory, DeleteStory, Goto
  <2>2. CASE s = t
    <3>1. rpc'[r] = "invalidate" /\ task'[r].story = s
      BY <2>1, <2>2 DEF TypeOK, RequestTypes
    <3>2. BeingForgotten(s)'
      BY <3>1 DEF BeingForgotten
    <3>3. QED  BY <3>2, CopyExcused
  <2>3. CASE s # t
    <3>1. db'[s] = db[s]
      BY <2>1, <2>3 DEF WriteStory, SetContent, SoftDelete, TypeOK, DataTypes
    <3>2. QED  BY <1>a, <2>1, <3>1
  <2>4. QED  BY <2>2, <2>3
<1>5. CASE InvalidateCache(r)
  <2>1. rpc[r] = "invalidate" /\ UNCHANGED db
        /\ cache' = [cache EXCEPT ![t] = NoContent]
        /\ overtaken' = [overtaken EXCEPT ![t] = FALSE]
    BY <1>5 DEF InvalidateCache, Forget
  <2>2. CASE s = t
    <3>1. cache'[s] = NoContent
      BY <2>1, <2>2 DEF TypeOK, DataTypes
    <3>2. QED  BY <3>1, CopyGone
  <2>3. CASE s # t
    <3>1. cache'[s] = cache[s]
      BY <2>1, <2>3 DEF TypeOK, DataTypes
    <3>2. overtaken'[s] = overtaken[s]
      BY <2>1, <2>3 DEF TypeOK, DataTypes
    <3>3. QED  BY <1>a, <2>1, <2>3, <3>1, <3>2
  <2>4. QED  BY <2>2, <2>3
<1>6. CASE InvalidateFails(r) \/ WriteReplyLost(r)
  <2>1. KeepsCopy({t}) /\ (UNCHANGED db \/ WriteStory(r))
    BY <1>6 DEF InvalidateFails, WriteReplyLost
  <2>2. CASE s = t
    BY <2>1, <2>2, CopySurvives
  <2>3. CASE s # t
    <3>1. db'[s] = db[s]
      BY <2>1, <2>3 DEF WriteStory, SetContent, SoftDelete, TypeOK, DataTypes
    <3>2. cache'[s] = cache[s] /\ (overtaken[s] => overtaken'[s])
      BY <2>1 DEF KeepsCopy
    <3>3. QED  BY <1>a, <2>3, <3>1, <3>2
  <2>4. QED  BY <2>2, <2>3
<1>7. QED
  BY <1>1, <1>2, <1>3, <1>4, <1>5, <1>6, Zenon DEF AnyRequest, Request, RequestFault

LEMMA PassCopyOK ==
    ASSUME TypeOK, TypeOK', NEW p \in Passes, AnyPass(p), NEW s \in Stories, CopyOK(s)
    PROVE  CopyOK(s)'
<1> DEFINE c == current[p]
<1>a. ASSUME cache'[s] = cache[s], overtaken[s] => overtaken'[s], db'[s] = db[s],
             ppc[p] \in {"forget", "purge"} => c # s
      PROVE  CopyOK(s)'
  BY <1>a, CopyKept, PassStillForgets
<1> USE DEF PassStep
<1>1. CASE BeginPass(p) \/ QueryPage(p) \/ EndBatch(p) \/ Resume(p)
           \/ QueryFails(p) \/ PassCancelled(p)
  BY <1>1, <1>a DEF BeginPass, QueryPage, EndBatch, Resume, QueryFails, PassCancelled
<1>2. ASSUME NEW t \in Stories, SweepTooLate(p, t) \/ SweepFails(p, t)
      PROVE  CopyOK(s)'
  BY <1>2, <1>a DEF SweepTooLate, SweepFails
<1>3. ASSUME NEW t \in Stories, SweepStory(p, t) PROVE CopyOK(s)'
  <2>1. /\ ppc[p] = "sweep" /\ SoftDelete(t) /\ UNCHANGED <<cache, overtaken>>
        /\ current' = [current EXCEPT ![p] = t]
        /\ ppc' = [ppc EXCEPT ![p] = "forget"]
    BY <1>3 DEF SweepStory, PassGoto
  <2>2. CASE s = t
    <3>1. ppc'[p] = "forget" /\ current'[p] = s
      BY <2>1, <2>2 DEF TypeOK, PassTypes
    <3>2. BeingForgotten(s)'
      BY <3>1 DEF BeingForgotten
    <3>3. QED  BY <3>2, CopyExcused
  <2>3. CASE s # t
    <3>1. db'[s] = db[s]
      BY <2>1, <2>3 DEF SoftDelete, TypeOK, DataTypes
    <3>2. QED  BY <1>a, <2>1, <3>1
  <2>4. QED  BY <2>2, <2>3
<1>4. ASSUME NEW t \in Stories, SweepReplyLost(p, t) PROVE CopyOK(s)'
  <2>1. ppc[p] = "sweep" /\ SoftDelete(t) /\ KeepsCopy({t})
    BY <1>4 DEF SweepReplyLost
  <2>2. CASE s = t
    BY <2>1, <2>2, CopySurvives
  <2>3. CASE s # t
    <3>1. db'[s] = db[s]
      BY <2>1, <2>3 DEF SoftDelete, TypeOK, DataTypes
    <3>2. cache'[s] = cache[s] /\ (overtaken[s] => overtaken'[s])
      BY <2>1 DEF KeepsCopy
    <3>3. QED  BY <1>a, <2>1, <3>1, <3>2
  <2>4. QED  BY <2>2, <2>3
<1>5. ASSUME Forget(c), UNCHANGED db, ppc[p] \in {"forget", "purge"}
      PROVE  CopyOK(s)'
  <2>1. CASE s = c
    <3>1. cache'[s] = NoContent
      BY <1>5, <2>1 DEF Forget, TypeOK, DataTypes
    <3>2. QED  BY <3>1, CopyGone
  <2>2. CASE s # c
    <3>1. cache'[s] = cache[s]
      BY <1>5, <2>2 DEF Forget, TypeOK, DataTypes
    <3>2. overtaken'[s] = overtaken[s]
      BY <1>5, <2>2 DEF Forget, TypeOK, DataTypes
    <3>3. QED  BY <1>a, <1>5, <2>2, <3>1, <3>2
  <2>3. QED  BY <2>1, <2>2
<1>6. CASE PassForgets(p)
  <2>1. CASE Forget(c)
    BY <1>5, <1>6, <2>1 DEF PassForgets
  <2>2. CASE UNCHANGED <<cache, overtaken>>
    <3>1. /\ ppc[p] = "forget" /\ ppc' = [ppc EXCEPT ![p] = "purge"]
          /\ UNCHANGED <<db, current>>
      BY <1>6 DEF PassForgets, PassGoto
    <3>2. CASE s = c
      <4>1. ppc'[p] = "purge" /\ current'[p] = s
        BY <3>1, <3>2 DEF TypeOK, PassTypes
      <4>2. BeingForgotten(s)'
        BY <4>1 DEF BeingForgotten
      <4>3. QED  BY <4>2, CopyExcused
    <3>3. CASE s # c
      BY <1>a, <2>2, <3>1, <3>3
    <3>4. QED  BY <3>2, <3>3
  <2>3. QED  BY <1>6, <2>1, <2>2 DEF PassForgets
<1>7. CASE PassPurges(p)
  <2>1. CASE Forget(c)
    BY <1>5, <1>7, <2>1 DEF PassPurges
  <2>2. CASE KeepsCopy({c})
    <3>1. ppc[p] = "purge" /\ UNCHANGED db
      BY <1>7 DEF PassPurges
    <3>2. CASE s = c
      BY <2>2, <3>2, CopySurvives
    <3>3. CASE s # c
      <4>1. cache'[s] = cache[s] /\ (overtaken[s] => overtaken'[s])
        BY <2>2 DEF KeepsCopy
      <4>2. QED  BY <1>a, <3>1, <3>3, <4>1
    <3>4. QED  BY <3>2, <3>3
  <2>3. QED  BY <1>7, <2>1, <2>2 DEF PassPurges
<1>8. QED
  BY <1>1, <1>2, <1>3, <1>4, <1>6, <1>7, Zenon DEF AnyPass, Pass, PassFault

LEMMA OtherCopyOK ==
    ASSUME TypeOK, Outside \/ Crashes \/ UNCHANGED vars, NEW s \in Stories, CopyOK(s)
    PROVE  CopyOK(s)'
<1>1. ASSUME NEW t \in Stories, CreateStory(t) PROVE CopyOK(s)'
  <2>1. /\ UNCHANGED <<cache, rpc, task, ppc, current, overtaken>>
        /\ db[t].status = "none"
        /\ \A u \in Stories : u # t => db'[u] = db[u]
    BY <1>1 DEF CreateStory, Create, requestVars, passVars, TypeOK, DataTypes
  <2>2. db'[s] = db[s] \/ ~Live(s)
    BY <2>1 DEF Live
  <2>3. BeingForgotten(s) => BeingForgotten(s)'
    BY <2>1 DEF BeingForgotten
  <2>4. QED  BY <2>1, <2>2, <2>3, CopyKept
<1>2. ASSUME NEW t \in Stories, CacheExpires(t) PROVE CopyOK(s)'
  <2>1. /\ UNCHANGED <<db, rpc, task, ppc, current>>
        /\ Forget(t)
    BY <1>2 DEF CacheExpires, requestVars, passVars
  <2>2. CASE s = t
    <3>1. cache'[s] = NoContent
      BY <2>1, <2>2 DEF Forget, TypeOK, DataTypes
    <3>2. QED  BY <3>1, CopyGone
  <2>3. CASE s # t
    <3>1. cache'[s] = cache[s]
      BY <2>1, <2>3 DEF Forget, TypeOK, DataTypes
    <3>2. overtaken'[s] = overtaken[s]
      BY <2>1, <2>3 DEF Forget, TypeOK, DataTypes
    <3>3. BeingForgotten(s) => BeingForgotten(s)'
      BY <2>1 DEF BeingForgotten
    <3>4. QED  BY <2>1, <3>1, <3>2, <3>3, CopyKept
  <2>4. QED  BY <2>2, <2>3
<1>3. CASE Tick \/ UNCHANGED vars
  <2>1. UNCHANGED <<db, cache, rpc, task, ppc, current, overtaken>>
    BY <1>3 DEF Tick, vars, requestVars, passVars
  <2>2. BeingForgotten(s) => BeingForgotten(s)'
    BY <2>1 DEF BeingForgotten
  <2>3. QED  BY <2>1, <2>2, CopyKept
<1>4. CASE ApiCrash
  <2> DEFINE S == {task[r].story : r \in {q \in Requests : rpc[q] = "invalidate"}}
  <2>1. KeepsCopy(S) /\ UNCHANGED <<db, ppc, current>>
    BY <1>4 DEF ApiCrash, passVars
  <2>2. CASE s \in S
    <3> HIDE DEF S
    <3> QED  BY <2>1, <2>2, CopySurvives
  <2>3. CASE s \notin S
    <3>1. BeingForgotten(s) => BeingForgotten(s)'
      BY <2>1, <2>3 DEF BeingForgotten
    <3>2. cache'[s] = cache[s] /\ (overtaken[s] => overtaken'[s])
      BY <2>1 DEF KeepsCopy
    <3>3. QED  BY <2>1, <3>1, <3>2, CopyKept
  <2>4. QED  BY <2>2, <2>3
<1>5. CASE WorkerCrash
  <2> DEFINE S == {current[p] : p \in {q \in Passes : ppc[q] \in {"forget", "purge"}}}
  <2>1. KeepsCopy(S) /\ UNCHANGED <<db, rpc, task>>
    BY <1>5 DEF WorkerCrash, requestVars
  <2>2. CASE s \in S
    <3> HIDE DEF S
    <3> QED  BY <2>1, <2>2, CopySurvives
  <2>3. CASE s \notin S
    <3>1. BeingForgotten(s) => BeingForgotten(s)'
      BY <2>1, <2>3 DEF BeingForgotten
    <3>2. cache'[s] = cache[s] /\ (overtaken[s] => overtaken'[s])
      BY <2>1 DEF KeepsCopy
    <3>3. QED  BY <2>1, <3>1, <3>2, CopyKept
  <2>4. QED  BY <2>2, <2>3
<1>6. QED  BY <1>1, <1>2, <1>3, <1>4, <1>5 DEF Outside, Crashes

-----------------------------------------------------------------------------
(* The copies that requests go on with                                     *)

(* A step of somebody else: it overtakes q if it touches the row.          *)
StoodBy(q) ==
    LET s == task[q].story IN
    /\ rpc'[q] = rpc[q] /\ task'[q] = task[q] /\ seen'[q] = seen[q]
    /\ q \in behind => q \in behind'
    /\ rpc[q] \in {"fill", "write"} /\ Live(s) /\ db'[s] # db[s] => q \in behind'

LEMMA StandingBy ==
    ASSUME NEW q \in Requests, CopyFresh(q), StoodBy(q)
    PROVE  CopyFresh(q)'
BY DEF CopyFresh, StoodBy, Live

LEMMA OthersStandBy ==
    ASSUME TypeOK, NEW q \in Requests,
           \/ Outside \/ WorkerCrash \/ UNCHANGED vars
           \/ \E p \in Passes : AnyPass(p)
           \/ \E r \in Requests \ {q} : AnyRequest(r)
    PROVE  StoodBy(q)
<1> DEFINE s == task[q].story
<1> USE DEF StoodBy
<1>1. ASSUME UNCHANGED <<rpc, task, seen, behind>>, db'[s] = db[s] \/ ~Live(s)
      PROVE  StoodBy(q)
  BY <1>1
<1>2. ASSUME NEW t \in Stories, NEW w, Overtake(t, w), q \notin w,
             rpc'[q] = rpc[q], task'[q] = task[q], seen'[q] = seen[q],
             \A u \in Stories : u # t => db'[u] = db[u]
      PROVE  StoodBy(q)
  <2>1. rpc[q] \in {"fill", "write"} => s \in Stories
    BY DEF TypeOK, RequestTypes, Task
  <2>2. QED  BY <1>2, <2>1 DEF Overtake, Holders
<1>3. CASE Outside \/ WorkerCrash \/ UNCHANGED vars
  <2>1. ASSUME NEW t \in Stories, CreateStory(t) PROVE StoodBy(q)
    <3>1. UNCHANGED <<rpc, task, seen, behind>> /\ ~Live(t)
      BY <2>1 DEF CreateStory, requestVars, Live
    <3>2. \A u : u # t => db'[u] = db[u]
      BY <2>1 DEF CreateStory, Create, TypeOK, DataTypes
    <3>3. QED  BY <1>1, <3>1, <3>2
  <2>2. ASSUME NEW t \in Stories, CacheExpires(t) PROVE StoodBy(q)
    BY <2>2, <1>1 DEF CacheExpires, requestVars
  <2>3. CASE Tick \/ WorkerCrash \/ UNCHANGED vars
    BY <2>3, <1>1 DEF Tick, WorkerCrash, vars, requestVars
  <2>4. QED  BY <1>3, <2>1, <2>2, <2>3 DEF Outside
<1>4. ASSUME NEW p \in Passes, AnyPass(p) PROVE StoodBy(q)
  <2> USE DEF PassStep, requestVars
  <2>1. ASSUME NEW t \in Stories, SweepStory(p, t) \/ SweepReplyLost(p, t)
        PROVE  StoodBy(q)
    <3>1. SoftDelete(t) /\ Overtake(t, {}) /\ UNCHANGED <<rpc, task, seen>>
      BY <2>1 DEF SweepStory, SweepReplyLost
    <3>2. \A u \in Stories : u # t => db'[u] = db[u]
      BY <3>1 DEF SoftDelete, TypeOK, DataTypes
    <3>3. QED  BY <1>2, <3>1, <3>2
  <2>2. ASSUME NEW t \in Stories, SweepTooLate(p, t) \/ SweepFails(p, t)
        PROVE  StoodBy(q)
    BY <2>2, <1>1 DEF SweepTooLate, SweepFails
  <2>3. CASE BeginPass(p) \/ QueryPage(p) \/ EndBatch(p) \/ Resume(p)
    BY <2>3, <1>1 DEF BeginPass, QueryPage, EndBatch, Resume
  <2>4. CASE PassForgets(p) \/ PassPurges(p) \/ QueryFails(p) \/ PassCancelled(p)
    BY <2>4, <1>1 DEF PassForgets, PassPurges, QueryFails, PassCancelled
  <2>5. QED
    BY <1>4, <2>1, <2>2, <2>3, <2>4, Zenon DEF AnyPass, Pass, PassFault
<1>5. ASSUME NEW r \in Requests, r # q, AnyRequest(r) PROVE StoodBy(q)
  <2>1. rpc'[q] = rpc[q] /\ task'[q] = task[q] /\ seen'[q] = seen[q]
    BY <1>5, RequestsAlone
  <2>2. ASSUME rpc[r] = "write", WriteStory(r) PROVE StoodBy(q)
    <3> DEFINE t == task[r].story
    <3>1. t \in Stories /\ Overtake(t, {r})
      BY <2>2 DEF WriteStory, TypeOK, RequestTypes, Task
    <3>2. \A u \in Stories : u # t => db'[u] = db[u]
      BY <2>2 DEF WriteStory, SetContent, SoftDelete, TypeOK, DataTypes
    <3>3. QED  BY <1>2, <1>5, <2>1, <3>1, <3>2
  <2>3. ASSUME UNCHANGED db, q \in behind => q \in behind' PROVE StoodBy(q)
    BY <2>1, <2>3
  <2> USE DEF RequestStep, Answer, Loaded
  <2>4. CASE BeginRequest(r) \/ CacheMiss(r) \/ SelectRow(r) \/ SelectNothing(r)
             \/ WriteRefused(r) \/ InvalidateCache(r)
    BY <1>5, <2>3, <2>4 DEF BeginRequest, CacheMiss, SelectRow, SelectNothing,
       WriteRefused, InvalidateCache
  <2>5. CASE CacheHit(r) \/ Fill(r) \/ FillFails(r)
    BY <1>5, <2>3, <2>5 DEF CacheHit, Fill, FillFails
  <2>6. CASE InvalidateFails(r) \/ DatabaseFails(r)
    BY <1>5, <2>3, <2>6 DEF InvalidateFails, DatabaseFails
  <2>7. CASE UpdateStory(r) \/ DeleteStory(r) \/ WriteReplyLost(r)
    BY <2>2, <2>7 DEF UpdateStory, DeleteStory, WriteReplyLost
  <2>8. QED
    BY <1>5, <2>4, <2>5, <2>6, <2>7, Zenon DEF AnyRequest, Request, RequestFault
<1>6. QED  BY <1>3, <1>4, <1>5

(* A request that takes a copy from the row takes the row; one that takes  *)
(* it from the cache takes the row, too, or has reason to doubt it.        *)
LEMMA OwnCopyFresh ==
    ASSUME TypeOK, NEW r \in Requests, AnyRequest(r), CopyFresh(r),
           \A s \in Stories : CopyOK(s)
    PROVE  CopyFresh(r)'
<1> DEFINE s == task[r].story
<1>1. rpc[r] # "idle" => s \in Stories
  BY DEF TypeOK, RequestTypes, Task
<1>2. ASSUME rpc'[r] \notin {"fill", "write"} PROVE CopyFresh(r)'
  BY <1>2 DEF CopyFresh
<1> USE DEF RequestStep, Goto
<1>3. CASE CacheHit(r)
  <2>1. cache[s] # NoContent /\ UNCHANGED db /\ Loaded(r, cache[s], Doubtful(s))
        /\ rpc[r] = "lookup"
    BY <1>3 DEF CacheHit
  <2>2. CASE Answer(r)
    BY <1>2, <2>2 DEF Answer, Return, TypeOK, RequestTypes
  <2>3. CASE /\ Goto(r, "write") /\ seen' = [seen EXCEPT ![r] = cache[s]]
             /\ behind' = IF Doubtful(s) THEN behind \cup {r} ELSE behind \ {r}
             /\ UNCHANGED task
    <3>1. CASE Doubtful(s)
      BY <2>3, <3>1 DEF CopyFresh
    <3>2. CASE ~Doubtful(s)
      <4>1. Live(s) /\ cache[s] = ContentOf(db[s])
        BY <1>1, <2>1, <3>2 DEF CopyOK, Current, Doubtful
      <4>2. seen'[r] = cache[s] /\ task'[r].story = s
        BY <2>3 DEF TypeOK, RequestTypes
      <4>3. QED  BY <2>1, <4>1, <4>2 DEF CopyFresh, Live
    <3>3. QED  BY <3>1, <3>2
  <2>4. QED  BY <2>1, <2>2, <2>3 DEF Loaded
<1>4. CASE SelectRow(r)
  BY <1>4 DEF SelectRow, CopyFresh, Live, TypeOK, RequestTypes
<1>5. CASE Fill(r) \/ FillFails(r)
  <2>1. rpc[r] = "fill" /\ UNCHANGED db /\ Loaded(r, seen[r], r \in behind)
    BY <1>5 DEF Fill, FillFails
  <2>2. CASE Answer(r)
    BY <1>2, <2>2 DEF Answer, Return, TypeOK, RequestTypes
  <2>3. CASE /\ Goto(r, "write") /\ seen' = [seen EXCEPT ![r] = seen[r]]
             /\ behind' = IF r \in behind THEN behind \cup {r} ELSE behind \ {r}
             /\ UNCHANGED task
    <3>1. seen'[r] = seen[r] /\ (r \in behind => r \in behind')
      BY <2>3 DEF TypeOK, RequestTypes
    <3>2. QED  BY <2>1, <2>3, <3>1 DEF CopyFresh, Live
  <2>4. QED  BY <2>1, <2>2, <2>3 DEF Loaded
<1>6. CASE BeginRequest(r) \/ CacheMiss(r) \/ UpdateStory(r) \/ DeleteStory(r)
  BY <1>2, <1>6 DEF BeginRequest, CacheMiss, UpdateStory, DeleteStory, TypeOK,
     RequestTypes
<1>7. CASE SelectNothing(r) \/ WriteRefused(r) \/ InvalidateCache(r)
           \/ InvalidateFails(r) \/ DatabaseFails(r) \/ WriteReplyLost(r)
  <2>1. Return(r)
    BY <1>7 DEF SelectNothing, WriteRefused, InvalidateCache, InvalidateFails,
       DatabaseFails, WriteReplyLost, Answer
  <2>2. QED  BY <1>2, <2>1 DEF Return, TypeOK, RequestTypes
<1>8. QED
  BY <1>3, <1>4, <1>5, <1>6, <1>7, Zenon DEF AnyRequest, Request, RequestFault

CopiesExplained ==
    /\ \A s \in Stories : CopyOK(s)
    /\ \A r \in Requests : CopyFresh(r)

LEMMA CopiesStayExplained == Spec => []CopiesExplained
<1>1. Init => CopiesExplained
  BY DEF Init, CopiesExplained, CopyOK, CopyFresh
<1>2. TypeOK /\ TypeOK' /\ CopiesExplained /\ [Next]_vars => CopiesExplained'
  <2> SUFFICES ASSUME TypeOK, TypeOK', CopiesExplained, [Next]_vars
               PROVE  /\ \A s \in Stories : CopyOK(s)'
                      /\ \A r \in Requests : CopyFresh(r)'
    BY DEF CopiesExplained
  <2>1. ASSUME NEW s \in Stories PROVE CopyOK(s)'
    <3>1. CopyOK(s)
      BY DEF CopiesExplained
    <3>2. CASE Outside \/ Crashes \/ UNCHANGED vars
      BY <3>1, <3>2, OtherCopyOK
    <3>3. ASSUME NEW r \in Requests, AnyRequest(r) PROVE CopyOK(s)'
      BY <3>1, <3>3, RequestCopyOK DEF CopiesExplained
    <3>4. ASSUME NEW p \in Passes, AnyPass(p) PROVE CopyOK(s)'
      BY <3>1, <3>4, PassCopyOK
    <3>5. QED  BY <3>2, <3>3, <3>4, StepCases
  <2>2. ASSUME NEW r \in Requests PROVE CopyFresh(r)'
    <3>1. CopyFresh(r)
      BY DEF CopiesExplained
    <3>2. CASE AnyRequest(r)
      BY <3>1, <3>2, OwnCopyFresh DEF CopiesExplained
    <3>3. CASE ApiCrash
      BY <3>3 DEF ApiCrash, CopyFresh
    <3>4. ASSUME StoodBy(r) PROVE CopyFresh(r)'
      BY <3>1, <3>4, StandingBy
    <3>5. CASE Outside \/ WorkerCrash \/ UNCHANGED vars
      BY <3>4, <3>5, OthersStandBy
    <3>6. CASE \E p \in Passes : AnyPass(p)
      BY <3>4, <3>6, OthersStandBy
    <3>7. CASE \E q \in Requests \ {r} : AnyRequest(q)
      BY <3>4, <3>7, OthersStandBy
    <3>8. QED  BY <3>2, <3>3, <3>5, <3>6, <3>7, StepCases DEF Crashes
  <2>3. QED  BY <2>1, <2>2
<1>3. QED  BY <1>1, <1>2, TypeCorrect, PTL DEF Spec

(* A cached copy that differs from its row is about to be deleted, or was  *)
(* set by a reader that had been overtaken, or survived a failed DEL.      *)
THEOREM StaleCopiesExplained == Spec => []StaleHasACause
<1>1. CopiesExplained => StaleHasACause
  BY DEF CopiesExplained, CopyOK, StaleHasACause, Doubtful
<1>2. QED  BY CopiesStayExplained, <1>1, PTL

(* An update changes more than the fields it names only if it was overtaken *)
(* or went on with a doubtful copy.                                        *)
THEOREM LostEditsExplained == Spec => LostEditHasACause
<1> DEFINE Exact(r, s) ==
             db'[s] = Rewritten(db[s], Edited(ContentOf(db[s]), task[r].change))
<1>1. TypeOK /\ CopiesExplained /\ [Next]_vars
        => [\A r \in Requests, s \in Stories :
               /\ rpc[r] = "write" /\ rpc'[r] # "write"
               /\ task[r].op = "update" /\ task[r].story = s
               /\ db'[s] # db[s]
               /\ r \notin behind
               => Exact(r, s)]_vars
  <2> SUFFICES ASSUME TypeOK, CopiesExplained, Next, NEW r \in Requests, NEW s \in Stories,
                      rpc[r] = "write", rpc'[r] # "write",
                      task[r].op = "update", task[r].story = s,
                      db'[s] # db[s], r \notin behind
               PROVE  Exact(r, s)
    BY Zenon
  <2>1. ~StoodBy(r)
    BY DEF StoodBy
  <2>2. AnyRequest(r)
    <3>1. ~Crashes
      BY DEF Crashes, ApiCrash, WorkerCrash
    <3>2. QED  BY <2>1, <3>1, OthersStandBy, StepCases
  <2>3. WriteStory(r)
    BY <2>2 DEF AnyRequest, Request, RequestFault, BeginRequest, CacheHit, CacheMiss,
       SelectRow, SelectNothing, Fill, UpdateStory, DeleteStory, WriteRefused,
       InvalidateCache, FillFails, InvalidateFails, DatabaseFails, WriteReplyLost,
       RequestStep
  <2>4. db'[s] = Rewritten(db[s], Edited(seen[r], task[r].change))
    BY <2>3 DEF WriteStory, SetContent, TypeOK, DataTypes
  <2>5. seen[r] = ContentOf(db[s])
    BY DEF CopiesExplained, CopyFresh
  <2>6. QED  BY <2>4, <2>5
<1>2. QED  BY <1>1, TypeCorrect, CopiesStayExplained, PTL DEF Spec, LostEditHasACause

-----------------------------------------------------------------------------
(* The stories implement StoryService                                      *)

(* An unpublished story has left no trace.                                 *)
Blank ==
    /\ \A s \in Stories \ Known : db[s] = NoRow /\ cache[s] = NoContent
    /\ \A r \in Requests : rpc[r] # "idle" => task[r].story \in Known

LEMMA CacheFromCopies ==
    ASSUME TypeOK, NEW r \in Requests, AnyRequest(r), NEW s \in Stories
    PROVE  cache'[s] \in {cache[s], NoContent} \cup Copies[s]
<1> DEFINE t == task[r].story
<1> USE DEF TypeOK, DataTypes, RequestStep
<1>1. CASE UNCHANGED cache
  BY <1>1
<1>2. CASE Fill(r)
  <2>1. /\ rpc[r] = "fill" /\ seen[r] \in Content
        /\ cache' = [cache EXCEPT ![t] = seen[r]]
    BY <1>2 DEF Fill, RequestTypes
  <2>2. CASE s = t
    BY <2>1, <2>2 DEF Copies, Holders
  <2>3. CASE s # t
    BY <2>1, <2>3
  <2>4. QED  BY <2>2, <2>3
<1>3. CASE InvalidateCache(r)
  BY <1>3 DEF InvalidateCache, Forget
<1>4. QED
  BY <1>1, <1>2, <1>3 DEF AnyRequest, Request, RequestFault, BeginRequest, CacheHit,
     CacheMiss, SelectRow, SelectNothing, UpdateStory, DeleteStory, WriteRefused,
     FillFails, InvalidateFails, DatabaseFails, WriteReplyLost, KeepsCopy

(* What a request goes on with is a copy that was around.                  *)
LEMMA OwnCopyIsACopy ==
    ASSUME TypeOK, NEW r \in Requests, AnyRequest(r), rpc'[r] \in {"fill", "write"}
    PROVE  /\ UNCHANGED db /\ task'[r] = task[r]
           /\ rpc[r] \in {"lookup", "select", "fill"}
           /\ seen'[r] \in Copies[task[r].story]
<1> DEFINE s == task[r].story
<1> USE DEF TypeOK, DataTypes, RequestTypes, RequestStep, Goto
<1>1. rpc[r] # "idle" => s \in Stories
  BY DEF Task
<1>2. ~Answer(r) /\ ~Return(r)
  BY DEF Answer, Return
<1>3. CASE CacheHit(r)
  <2>1. /\ rpc[r] = "lookup" /\ cache[s] # NoContent /\ UNCHANGED <<db, task>>
        /\ seen' = [seen EXCEPT ![r] = cache[s]]
    BY <1>2, <1>3 DEF CacheHit, Loaded
  <2>2. QED  BY <1>1, <2>1 DEF Copies
<1>4. CASE SelectRow(r)
  <2>1. /\ rpc[r] = "select" /\ Live(s) /\ UNCHANGED <<db, task>>
        /\ seen' = [seen EXCEPT ![r] = ContentOf(db[s])]
    BY <1>4 DEF SelectRow
  <2>2. ContentOf(db[s]) \in Content
    BY <1>1, <2>1 DEF Live
  <2>3. QED  BY <1>1, <2>1, <2>2 DEF Copies, Live
<1>5. CASE Fill(r) \/ FillFails(r)
  <2>1. /\ rpc[r] = "fill" /\ UNCHANGED <<db, task>>
        /\ seen' = [seen EXCEPT ![r] = seen[r]]
    BY <1>2, <1>5 DEF Fill, FillFails, Loaded
  <2>2. QED  BY <1>1, <2>1 DEF Copies, Holders
<1>6. CASE BeginRequest(r) \/ CacheMiss(r) \/ UpdateStory(r) \/ DeleteStory(r)
  BY <1>6 DEF BeginRequest, CacheMiss, UpdateStory, DeleteStory
<1>7. QED
  BY <1>2, <1>3, <1>4, <1>5, <1>6, Zenon
  DEF AnyRequest, Request, RequestFault, SelectNothing, WriteRefused, InvalidateCache,
      InvalidateFails, DatabaseFails, WriteReplyLost

(* Copies come from copies, as long as the row says what it said.          *)
LEMMA CopiesComeFromCopies ==
    ASSUME TypeOK, NEW s \in Stories,
           db'[s].status # "none" => db[s].status # "none" /\ ContentOf(db'[s]) = ContentOf(db[s]),
           cache'[s] \in {cache[s], NoContent} \cup Copies[s],
           \A q \in Requests : q \in Holders(s)' =>
               \/ q \in Holders(s) /\ seen'[q] = seen[q]
               \/ seen'[q] \in Copies[s]
    PROVE  Copies'[s] \subseteq Copies[s]
BY DEF Copies, Holders

LEMMA RequestFades ==
    ASSUME TypeOK, NEW r \in Requests, AnyRequest(r), NEW s \in Stories,
           db'[s].status # "none" => db[s].status # "none" /\ ContentOf(db'[s]) = ContentOf(db[s])
    PROVE  Copies'[s] \subseteq Copies[s]
<1>1. cache'[s] \in {cache[s], NoContent} \cup Copies[s]
  BY CacheFromCopies
<1>2. ASSUME NEW q \in Requests, q \in Holders(s)'
      PROVE  \/ q \in Holders(s) /\ seen'[q] = seen[q]
             \/ seen'[q] \in Copies[s]
  <2>1. CASE q = r
    BY <1>2, <2>1, OwnCopyIsACopy DEF Holders
  <2>2. CASE q # r
    BY <1>2, <2>2, RequestsAlone DEF Holders
  <2>3. QED  BY <2>1, <2>2
<1>3. QED  BY <1>1, <1>2, CopiesComeFromCopies

LEMMA KnownForGood ==
    ASSUME TypeOK, [Next]_vars
    PROVE  Known \subseteq Known'
<1>1. CASE Next
  <2>1. \A s \in Stories : RowStep(s)
    BY <1>1, RowSteps
  <2>2. QED  BY <2>1 DEF RowStep, Live, Known
<1>2. CASE UNCHANGED vars
  BY <1>2 DEF vars, Known
<1>3. QED  BY <1>1, <1>2

LEMMA NoCopiesOfTheUnknown ==
    ASSUME Blank, NEW s \in Stories \ Known
    PROVE  Copies[s] = {}
BY DEF Blank, Known, Copies, Holders

(* Only a request that fills the cache puts a copy there.                  *)
LEMMA OthersOnlyForget ==
    ASSUME TypeOK, NEW s \in Stories,
           \/ Outside \/ Crashes \/ UNCHANGED vars
           \/ \E p \in Passes : AnyPass(p)
    PROVE  cache'[s] \in {cache[s], NoContent}
<1> USE DEF TypeOK, DataTypes, Forget, KeepsCopy
<1>1. CASE Outside \/ Crashes \/ UNCHANGED vars
  BY <1>1 DEF Outside, CreateStory, CacheExpires, Tick, Crashes, ApiCrash, WorkerCrash, vars
<1>2. ASSUME NEW p \in Passes, AnyPass(p) PROVE cache'[s] \in {cache[s], NoContent}
  <2>1. UNCHANGED cache \/ Forget(current[p])
    BY <1>2 DEF AnyPass, Pass, PassFault, BeginPass, QueryPage, QueryFails, SweepStory,
       SweepTooLate, SweepFails, SweepReplyLost, PassForgets, PassPurges, EndBatch,
       Resume, PassCancelled
  <2>2. QED  BY <2>1
<1>3. QED  BY <1>1, <1>2

LEMMA StaysBlank == Spec => []Blank
<1>1. Init => Blank
  BY DEF Init, Blank
<1>2. TypeOK /\ Blank /\ [Next]_vars => Blank'
  <2> SUFFICES ASSUME TypeOK, Blank, [Next]_vars PROVE Blank'
    OBVIOUS
  <2>1. Known \subseteq Known'
    BY KnownForGood
  <2>2. ASSUME NEW s \in Stories, s \notin Known' PROVE db'[s] = NoRow /\ cache'[s] = NoContent
    <3>1. s \notin Known /\ db[s] = NoRow /\ cache[s] = NoContent
      BY <2>1, <2>2 DEF Blank
    <3>2. db'[s] = db[s]
      <4>1. CASE Next
        <5>1. RowStep(s)
          BY <4>1, RowSteps
        <5>2. QED  BY <2>2, <3>1, <5>1 DEF RowStep, Known, Live
      <4>2. CASE UNCHANGED vars
        BY <4>2 DEF vars
      <4>3. QED  BY <4>1, <4>2
    <3>3. cache'[s] = NoContent
      <4>1. ASSUME NEW r \in Requests, AnyRequest(r) PROVE cache'[s] = NoContent
        BY <3>1, <4>1, CacheFromCopies, NoCopiesOfTheUnknown
      <4>2. QED  BY <3>1, <4>1, OthersOnlyForget, StepCases
    <3>4. QED  BY <3>1, <3>2, <3>3
  <2>3. ASSUME NEW r \in Requests, rpc'[r] # "idle" PROVE task'[r].story \in Known'
    <3>1. CASE StoodBy(r)
      BY <2>1, <2>3, <3>1 DEF StoodBy, Blank
    <3>2. CASE AnyRequest(r)
      <4>1. CASE BeginRequest(r)
        BY <4>1, <2>1 DEF BeginRequest, Task, Known, TypeOK, RequestTypes
      <4>2. ASSUME ~BeginRequest(r) PROVE rpc[r] # "idle" /\ task'[r] = task[r]
        BY <2>3, <3>2, <4>2 DEF AnyRequest, Request, RequestFault, CacheHit, CacheMiss,
           SelectRow, SelectNothing, Fill, UpdateStory, DeleteStory, WriteRefused,
           InvalidateCache, FillFails, InvalidateFails, DatabaseFails, WriteReplyLost,
           RequestStep, Loaded, Answer, Return, Goto, TypeOK, RequestTypes
      <4>3. QED  BY <2>1, <4>1, <4>2 DEF Blank
    <3>3. CASE ApiCrash
      BY <2>3, <3>3 DEF ApiCrash
    <3>4. QED  BY <3>1, <3>2, <3>3, OthersStandBy, StepCases DEF Crashes
  <2>4. QED  BY <2>2, <2>3 DEF Blank
<1>3. QED  BY <1>1, <1>2, TypeCorrect, PTL DEF Spec

(* A step that leaves rows and clock alone can only end requests and lose  *)
(* copies.                                                                 *)
LEMMA GivesUp ==
    ASSUME UNCHANGED <<db, now>>,
           \A s \in Stories : Copies'[s] \subseteq Copies[s],
           \A q \in Requests : Asked'[q] \in {Asked[q], NoTask}
    PROVE  Service!Next
<1>1. Asked' = [q \in Requests |-> IF Asked'[q] = NoTask THEN NoTask ELSE Asked[q]]
  BY DEF Asked
<1>2. Service!GiveUp
  BY <1>1 DEF Service!GiveUp, Service!CopiesFade
<1>3. QED  BY <1>2 DEF Service!Next

LEMMA RemovedInPlace ==
    ASSUME NEW row \in Row
    PROVE  Removed(row) = [row EXCEPT !.status = "deleted"]
BY DEF Removed, Row

(* Nobody else's request asks for anything new.                            *)
LEMMA RequestAsks ==
    ASSUME TypeOK, NEW r \in Requests, AnyRequest(r)
    PROVE  /\ \A q \in Requests \ {r} : Asked'[q] = Asked[q]
           /\ ~BeginRequest(r) => Asked'[r] \in {Asked[r], NoTask}
<1>1. \A q \in Requests \ {r} : Asked'[q] = Asked[q]
  BY RequestsAlone DEF Asked, Open
<1>2. ASSUME ~BeginRequest(r) PROVE Asked'[r] \in {Asked[r], NoTask}
  <2>1. Open(r)' => Open(r) /\ task'[r] = task[r]
    BY <1>2 DEF AnyRequest, Request, RequestFault, CacheHit, CacheMiss, SelectRow,
       SelectNothing, Fill, UpdateStory, DeleteStory, WriteRefused, InvalidateCache,
       FillFails, InvalidateFails, DatabaseFails, WriteReplyLost, RequestStep, Loaded,
       Answer, Return, Goto, TypeOK, RequestTypes, Open
  <2>2. QED  BY <2>1 DEF Asked
<1>3. QED  BY <1>1, <1>2

LEMMA BeginImplements ==
    ASSUME TypeOK, NEW r \in Requests, BeginRequest(r)
    PROVE  Service!Next
<1>1. PICK t \in Task : db[t.story].status # "none" /\ task' = [task EXCEPT ![r] = t]
  BY DEF BeginRequest
<1>2. /\ rpc[r] = "idle" /\ rpc' = [rpc EXCEPT ![r] = "lookup"]
      /\ UNCHANGED <<db, cache, seen, now>>
  BY DEF BeginRequest, RequestStep, Goto
<1>3. AnyRequest(r)
  BY DEF AnyRequest
<1>4. Asked[r] = NoTask
  BY <1>2 DEF Asked, Open
<1>5. Asked'[r] = IF t.op # "read" THEN t ELSE NoTask
  BY <1>1, <1>2 DEF Asked, Open, TypeOK, RequestTypes
<1>6. \A s \in Stories : Holders(s)' = Holders(s)
  <2> SUFFICES ASSUME NEW s \in Stories, NEW q \in Requests
               PROVE  (q \in Holders(s))' <=> q \in Holders(s)
    BY DEF Holders
  <2>1. CASE q = r
    BY <1>2, <2>1 DEF Holders, TypeOK, RequestTypes
  <2>2. CASE q # r
    BY <1>3, <2>2, RequestsAlone DEF Holders
  <2>3. QED  BY <2>1, <2>2
<1>7. Copies' = Copies
  BY <1>2, <1>6 DEF Copies
<1>8. CASE t.op = "read"
  BY <1>2, <1>3, <1>4, <1>5, <1>7, <1>8, GivesUp, RequestAsks
<1>9. CASE t.op # "read"
  <2>1. Asked'[r] = t /\ t \in Service!Task
    BY <1>5, <1>9 DEF Task, Change, Service!Task, Service!Change
  <2>2. Asked' = [Asked EXCEPT ![r] = Asked'[r]]
    BY <1>3, RequestAsks DEF Asked
  <2>3. db[t.story] # NoRow
    BY <1>1 DEF NoRow
  <2>4. Service!Ask(r)
    BY <1>2, <1>4, <1>7, <2>1, <2>2, <2>3 DEF Service!Ask
  <2>5. QED  BY <2>4 DEF Service!Next
<1>10. QED  BY <1>8, <1>9

(* A write is carried out on the copy that the request holds.              *)
LEMMA WriteImplements ==
    ASSUME TypeOK, NEW r \in Requests, AnyRequest(r), rpc[r] = "write", WriteStory(r),
           rpc'[r] \in {"idle", "invalidate"}, UNCHANGED <<cache, now>>
    PROVE  Service!Next
<1>0. PICK t, new : t = task[r].story /\ new = Edited(seen[r], task[r].change)
  OBVIOUS
<1>1. /\ t \in Stories /\ Live(t)
      /\ seen[r] \in Content /\ new \in Content
  BY <1>0 DEF WriteStory, TypeOK, RequestTypes, Task, Change, Edited, Content
<1>2. task[r].op # "read"
  BY DEF WriteStory
<1>3. Asked[r] = task[r] /\ Asked'[r] = NoTask
  BY <1>2 DEF Asked, Open
<1>4. Asked' = [Asked EXCEPT ![r] = NoTask]
  BY <1>3, RequestAsks DEF Asked
<1>5. \A s \in Stories : Holders(s)' = Holders(s) \ {r}
  <2> SUFFICES ASSUME NEW s \in Stories, NEW q \in Requests
               PROVE  (q \in Holders(s))' <=> q \in Holders(s) /\ q # r
    BY DEF Holders
  <2>1. QED  BY RequestsAlone DEF Holders
<1>6. \A q \in Requests \ {r} : seen'[q] = seen[q]
  BY RequestsAlone
<1>7. CASE task[r].op = "update" /\ SetContent(t, new)
  <2>1. /\ db' = [db EXCEPT ![t] = Rewritten(db[t], new)]
        /\ \A s \in Stories \ {t} : db'[s] = db[s]
        /\ db'[t] = Rewritten(db[t], new)
    BY <1>1, <1>7 DEF SetContent, TypeOK, DataTypes
  <2>2. ContentOf(db'[t]) = new /\ db'[t].status = "live"
    BY <1>1, <2>1 DEF Rewritten, ContentOf, Content, Live
  <2>3. Rewritten(db[t], new) = Service!Story("live", new, db[t].expiresAt)
    BY <1>1 DEF Rewritten, Service!Story, Live
  <2>4. seen[r] \in Copies[t]
    BY <1>0, <1>1 DEF Copies, Holders
  <2>5. new \in Copies'[t] /\ Copies'[t] \subseteq Copies[t] \cup {new}
    <3>1. new \in Copies'[t]
      BY <1>1, <2>2 DEF Copies
    <3>2. ASSUME NEW c \in Copies'[t], c # new PROVE c \in Copies[t]
      <4>1. c \in Content
        BY <1>1, <3>2 DEF Copies
      <4>2. CASE cache'[t] # NoContent /\ c = cache'[t]
        BY <1>1, <4>1, <4>2 DEF Copies
      <4>3. ASSUME NEW q \in Holders(t)', c = seen'[q] PROVE c \in Copies[t]
        <5>1. q \in Holders(t) /\ seen'[q] = seen[q]
          BY <1>1, <1>5, <1>6, <4>3 DEF Holders
        <5>2. QED  BY <1>1, <4>1, <4>3, <5>1 DEF Copies
      <4>4. QED  BY <1>1, <2>2, <3>2, <4>2, <4>3 DEF Copies
    <3>3. QED  BY <3>1, <3>2
  <2>6. \A s \in Stories \ {t} : Copies'[s] = Copies[s]
    <3> SUFFICES ASSUME NEW s \in Stories \ {t} PROVE Copies'[s] = Copies[s]
      OBVIOUS
    <3>1. r \notin Holders(s) /\ Holders(s)' = Holders(s)
      BY <1>0, <1>5 DEF Holders
    <3>2. \A q \in Holders(s) : seen'[q] = seen[q]
      BY <1>6, <3>1 DEF Holders
    <3>3. db'[s] = db[s] /\ cache'[s] = cache[s]
      BY <2>1
    <3>4. QED  BY <3>1, <3>2, <3>3 DEF Copies
  <2>7. new = Service!Merged(seen[r], task[r].change)
    BY <1>0 DEF Edited, Service!Merged
  <2>8. Service!CarryOut(r, "update")
    BY <1>0, <1>1, <1>3, <1>4, <1>7 DEF Service!CarryOut, Service!Live, Live
  <2>9. Service!Edit(r)
    BY <1>0, <1>3, <2>1, <2>3, <2>4, <2>5, <2>6, <2>7, <2>8 DEF Service!Edit
  <2>10. QED  BY <2>9 DEF Service!Next
<1>8. CASE task[r].op = "delete" /\ SoftDelete(t)
  <2>1. db[t] \in Row /\ db' = [db EXCEPT ![t] = Removed(db[t])]
    BY <1>1, <1>8 DEF SoftDelete, TypeOK, DataTypes
  <2>2. Removed(db[t]) = [db[t] EXCEPT !.status = "deleted"]
    BY <2>1, RemovedInPlace, Zenon
  <2>3. Service!Remove(t)
    BY <2>1, <2>2 DEF Service!Remove
  <2>4. \A s \in Stories : db'[s].status # "none" =>
           db[s].status # "none" /\ ContentOf(db'[s]) = ContentOf(db[s])
    BY <1>1, <2>1 DEF Removed, ContentOf, Live, TypeOK, DataTypes
  <2>5. Service!CopiesFade
    BY <2>4, RequestFades DEF Service!CopiesFade
  <2>6. Service!CarryOut(r, "delete")
    BY <1>0, <1>1, <1>3, <1>4, <1>8 DEF Service!CarryOut, Service!Live, Live
  <2>7. Service!RemoveAsked(r)
    BY <1>0, <1>3, <2>3, <2>5, <2>6 DEF Service!RemoveAsked
  <2>8. QED  BY <2>7 DEF Service!Next
<1>9. QED  BY <1>0, <1>7, <1>8 DEF WriteStory

LEMMA RequestImplements ==
    ASSUME TypeOK, NEW r \in Requests, AnyRequest(r)
    PROVE  Service!Next
<1>1. CASE BeginRequest(r)
  BY <1>1, BeginImplements
<1>2. CASE rpc[r] = "write" /\ WriteStory(r)
  <2>1. rpc'[r] \in {"idle", "invalidate"} /\ UNCHANGED <<cache, now>>
    <3>1. ~CacheHit(r) /\ ~CacheMiss(r) /\ ~SelectRow(r) /\ ~SelectNothing(r) /\ ~Fill(r)
      BY <1>2 DEF CacheHit, CacheMiss, SelectRow, SelectNothing, Fill, RequestStep
    <3>2. ~FillFails(r) /\ ~InvalidateFails(r) /\ ~InvalidateCache(r) /\ ~BeginRequest(r)
      BY <1>2 DEF FillFails, InvalidateFails, InvalidateCache, BeginRequest, RequestStep
    <3>3. ~WriteRefused(r)
      BY <1>2 DEF WriteRefused, WriteStory
    <3>4. \/ UpdateStory(r) \/ DeleteStory(r)
          \/ DatabaseFails(r) \/ WriteReplyLost(r)
      BY <3>1, <3>2, <3>3 DEF AnyRequest, Request, RequestFault
    <3>5. QED
      BY <3>4 DEF UpdateStory, DeleteStory, DatabaseFails, WriteReplyLost, RequestStep,
         KeepsCopy, Answer, Return, Goto, TypeOK, RequestTypes
  <2>2. QED  BY <1>2, <2>1, WriteImplements
<1>3. CASE ~BeginRequest(r) /\ ~(rpc[r] = "write" /\ WriteStory(r))
  <2>1. UNCHANGED <<db, now>>
    BY <1>3 DEF AnyRequest, Request, RequestFault, CacheHit, CacheMiss, SelectRow,
       SelectNothing, Fill, UpdateStory, DeleteStory, WriteRefused, InvalidateCache,
       FillFails, InvalidateFails, DatabaseFails, WriteReplyLost, RequestStep
  <2>2. \A s \in Stories : Copies'[s] \subseteq Copies[s]
    BY <2>1, RequestFades
  <2>3. QED  BY <1>3, <2>1, <2>2, GivesUp, RequestAsks
<1>4. QED  BY <1>1, <1>2, <1>3

(* Requests that stand still ask for what they asked for, and hold what    *)
(* they held.                                                              *)
LEMMA SameRequests ==
    ASSUME UNCHANGED requestVars
    PROVE  /\ Asked' = Asked
           /\ \A s \in Stories : Holders(s)' = Holders(s)
BY DEF requestVars, Asked, Open, Holders

LEMMA CreateImplements ==
    ASSUME TypeOK, Blank, NEW t \in Stories, CreateStory(t)
    PROVE  Service!Next
<1>1. t \notin Known /\ db[t] = NoRow /\ cache[t] = NoContent
  BY DEF CreateStory, Known, Blank
<1>2. UNCHANGED <<cache, now, requestVars>> /\ UNCHANGED seen
  BY DEF CreateStory, requestVars
<1>3. PICK c \in Content, life \in Lifetimes : db' = [db EXCEPT ![t] = NewStory(c, life)]
  BY DEF CreateStory, Create
<1>4. /\ db'[t] = Service!Story("live", c, now + life)
      /\ db' = [db EXCEPT ![t] = Service!Story("live", c, now + life)]
      /\ \A s \in Stories \ {t} : db'[s] = db[s]
  BY <1>3 DEF NewStory, Service!Story, TypeOK, DataTypes
<1>5. db'[t].status = "live" /\ ContentOf(db'[t]) = c
  BY <1>4 DEF Service!Story, ContentOf, Content
<1>6. Holders(t) = {}
  BY <1>1 DEF Blank, Holders
<1>7. Copies'[t] = {c}
  BY <1>1, <1>2, <1>5, <1>6, SameRequests DEF Copies
<1>8. \A s \in Stories \ {t} : Copies'[s] = Copies[s]
  BY <1>2, <1>4, SameRequests DEF Copies
<1>9. Copies' = [Copies EXCEPT ![t] = {c}]
  BY <1>7, <1>8 DEF Copies
<1>10. Service!Publish(t)
  BY <1>1, <1>2, <1>4, <1>9, SameRequests DEF Service!Publish, Service!Content, Content
<1>11. QED  BY <1>10 DEF Service!Next

(* The worker removes what has expired.                                    *)
LEMMA SweepImplements ==
    ASSUME TypeOK, PagesExpired, NEW p \in Passes, NEW t \in Stories, Live(t),
           t \in batch[p], SoftDelete(t), UNCHANGED <<cache, now, requestVars>>
    PROVE  Service!Next
<1>1. db[t] \in Row /\ db' = [db EXCEPT ![t] = Removed(db[t])]
  BY DEF SoftDelete, TypeOK, DataTypes
<1>2. Removed(db[t]) = [db[t] EXCEPT !.status = "deleted"]
  BY <1>1, RemovedInPlace, Zenon
<1>3. Service!Remove(t)
  BY <1>1, <1>2 DEF Service!Remove
<1>4. \A s \in Stories : /\ db'[s].status # "none" <=> db[s].status # "none"
                         /\ ContentOf(db'[s]) = ContentOf(db[s])
  BY <1>1 DEF Removed, ContentOf, Live, TypeOK, DataTypes
<1>5. Copies' = Copies
  BY <1>4, SameRequests DEF Copies, requestVars
<1>6. db[t].expiresAt <= now
  BY DEF PagesExpired, HadExpired
<1>7. Service!RemoveExpired(t)
  BY <1>3, <1>5, <1>6, SameRequests DEF Service!RemoveExpired, Service!Live, Live
<1>8. QED  BY <1>7 DEF Service!Next

LEMMA PassImplements ==
    ASSUME TypeOK, PagesExpired, NEW p \in Passes, AnyPass(p)
    PROVE  Service!Next
<1>1. UNCHANGED requestVars /\ UNCHANGED <<now, seen>>
  BY DEF AnyPass, Pass, PassFault, BeginPass, QueryPage, QueryFails, SweepStory,
     SweepTooLate, SweepFails, SweepReplyLost, PassForgets, PassPurges, EndBatch,
     Resume, PassCancelled, PassStep, requestVars
<1>2. CASE UNCHANGED db
  <2>1. \A s \in Stories : Copies'[s] \subseteq Copies[s]
    BY <1>1, <1>2, OthersOnlyForget, SameRequests, CopiesComeFromCopies
  <2>2. QED  BY <1>1, <1>2, <2>1, SameRequests, GivesUp
<1>3. ASSUME NEW t \in Stories, SweepStory(p, t) \/ SweepReplyLost(p, t)
      PROVE  Service!Next
  <2>1. CASE SweepStory(p, t)
    BY <1>1, <2>1, SweepImplements DEF SweepStory, NextOfBatch
  <2>2. CASE SweepReplyLost(p, t)
    BY <1>1, <2>2, SweepImplements DEF SweepReplyLost, NextOfBatch, KeepsCopy
  <2>3. QED  BY <1>3, <2>1, <2>2
<1>4. \/ UNCHANGED db
      \/ \E t \in Stories : SweepStory(p, t) \/ SweepReplyLost(p, t)
  BY DEF AnyPass, Pass, PassFault, BeginPass, QueryPage, QueryFails, SweepTooLate,
     SweepFails, PassForgets, PassPurges, EndBatch, Resume, PassCancelled
<1>5. QED  BY <1>2, <1>3, <1>4

LEMMA RestImplements ==
    ASSUME TypeOK, Blank, Outside \/ Crashes \/ UNCHANGED vars
    PROVE  Service!Next
<1>1. ASSUME NEW t \in Stories, CreateStory(t) PROVE Service!Next
  BY <1>1, CreateImplements
<1>2. CASE Tick
  <2>1. now' = now + 1 /\ UNCHANGED <<db, cache, seen>> /\ UNCHANGED requestVars
    BY <1>2 DEF Tick, requestVars
  <2>2. Copies' = Copies /\ Asked' = Asked
    BY <2>1, SameRequests DEF Copies
  <2>3. Service!Tick
    BY <2>1, <2>2 DEF Service!Tick
  <2>4. QED  BY <2>3 DEF Service!Next
<1>3. ASSUME \/ \E t \in Stories : CacheExpires(t)
             \/ WorkerCrash \/ UNCHANGED vars
      PROVE  Service!Next
  <2>1. UNCHANGED <<db, now, seen>> /\ UNCHANGED requestVars
    BY <1>3 DEF CacheExpires, WorkerCrash, vars, requestVars
  <2>2. \A s \in Stories : cache'[s] \in {cache[s], NoContent}
    BY OthersOnlyForget
  <2>3. \A s \in Stories : Copies'[s] \subseteq Copies[s]
    BY <2>1, <2>2, SameRequests, CopiesComeFromCopies
  <2>4. QED  BY <2>1, <2>3, SameRequests, GivesUp
<1>4. CASE ApiCrash
  <2>1. UNCHANGED <<db, now, cache>> /\ rpc' = [r \in Requests |-> "idle"]
    BY <1>4 DEF ApiCrash, KeepsCopy
  <2>2. \A s \in Stories : Holders(s)' = {}
    BY <2>1 DEF Holders
  <2>3. \A s \in Stories : Copies'[s] \subseteq Copies[s]
    BY <2>1, <2>2, CopiesComeFromCopies
  <2>4. \A q \in Requests : Asked'[q] = NoTask
    BY <2>1 DEF Asked, Open
  <2>5. QED  BY <2>1, <2>3, <2>4, GivesUp
<1>5. QED  BY <1>1, <1>2, <1>3, <1>4 DEF Outside, Crashes

(* Whatever the cache, the requests in flight, the passes and their faults *)
(* do: a story is published once, edited only by requests that asked for   *)
(* it, each at most once and on a copy that is still around, removed       *)
(* unasked only when it has expired, and then left alone.                  *)
THEOREM StoriesKeepTheirPromise == Spec => ServiceSpec
<1>1. Init => Service!Init
  BY DEF Init, Service!Init, Copies, Asked, Open, Holders, NoRow
<1>2. TypeOK /\ Blank /\ PagesExpired /\ [Next]_vars => Service!Next
  BY RestImplements, RequestImplements, PassImplements, StepCases
<1>3. QED
  BY <1>1, <1>2, TypeCorrect, StaysBlank, PagesStayExpired, PTL
  DEF Spec, ServiceSpec, Service!Spec
=============================================================================
