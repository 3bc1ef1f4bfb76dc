------------------------- MODULE RateLimiter_proofs -------------------------
(***************************************************************************)
(* Proofs about the sliding window, for every window length, limit, burst  *)
(* and set of requests.                                                    *)
(***************************************************************************)
EXTENDS RateLimiter, FiniteSetTheorems, TLAPS

Cap == Limit + Burst

(* What the set holds: no more than the limit, nothing that no script has  *)
(* recorded since the last cleanup, nothing newer than the latest stamp, nothing that outlives    *)
(* the key.                                                                *)
Bounded == Cardinality(entries) <= Cap
FromRecords == \A e \in entries : \E q \in recorded \ forgiven : stamp[q] = e
NotAhead == \A e \in entries : e <= latest /\ e + Window <= deadline

Answered == \A r \in recorded : outcome[r] \notin {"new", "asking"}

(* A counted second that is still in the latest window is in the set.      *)
Remembered ==
    \A r \in counted :
        /\ stamp[r] <= latest
        /\ stamp[r] > latest - Window => stamp[r] \in entries

(* A binding refusal was by a full set, whose oldest second frees a place, *)
(* or the key has expired since.                                           *)
PromiseKept ==
    promise # Never =>
        \/ entries = {} /\ promise <= latest
        \/ /\ Cardinality(entries) = Cap
           /\ promise \in {e + Window : e \in entries}
           /\ \A e \in entries : promise <= e + Window

Inv == Bounded /\ FromRecords /\ NotAhead /\ Answered /\ Remembered /\ PromiseKept

(* A script, with any fate of its reply.                                   *)
Answer(r) == /\ Script(r)
             /\ \E o \in {"passed", "refused", "failed"} :
                   outcome' = [outcome EXCEPT ![r] = o]

-----------------------------------------------------------------------------
(* Lemmas on the sorted set *)

LEMMA CapType == Cap \in Nat \ {0} /\ Window \in Nat \ {0} /\ MaxTime \in Nat
BY LimiterAssumption DEF Cap

LEMMA SecondsFinite ==
    ASSUME NEW a \in Int, NEW b \in Int, NEW S \in SUBSET (a .. b)
    PROVE  IsFiniteSet(S) /\ Cardinality(S) \in Nat
BY FS_Interval, FS_Subset, FS_CardinalityType

LEMMA EntriesFinite ==
    ASSUME TypeOK
    PROVE  IsFiniteSet(entries) /\ Cardinality(entries) \in Nat
<1>1. clock \in Int /\ 0 \in Int /\ entries \in SUBSET (0 .. clock)
  BY CapType DEF TypeOK, Seconds
<1>2. QED  BY ONLY <1>1, SecondsFinite

LEMMA KeptSubset ==
    ASSUME TypeOK, NEW n \in Int
    PROVE  /\ IsFiniteSet(Kept(n)) /\ Cardinality(Kept(n)) \in Nat
           /\ Cardinality(Kept(n)) <= Cardinality(entries)
           /\ Cardinality(Kept(n)) = Cardinality(entries) => Kept(n) = entries
<1>1. Kept(n) \in SUBSET entries
  BY DEF Kept
<1>2. QED  BY <1>1, EntriesFinite, FS_Subset, FS_CardinalityType

(* A refusal removes nothing: it is by a full set.                         *)
LEMMA RefusalByFullSet ==
    ASSUME TypeOK, Bounded, NEW n \in Int, ~WithinLimit(n)
    PROVE  /\ Kept(n) = entries
           /\ Cardinality(entries) = Cap
           /\ entries # {}
<1>1. Cardinality(Kept(n)) >= Cap
  BY KeptSubset, CapType DEF WithinLimit, Cap
<1>2. Cardinality(Kept(n)) = Cardinality(entries) /\ Cardinality(entries) = Cap
  BY <1>1, KeptSubset, EntriesFinite, CapType DEF Bounded
<1>3. QED  BY <1>2, KeptSubset, FS_EmptySet, CapType

(* A finite set of seconds has an oldest one: fewest others are before it. *)
LEMMA OldestOfFinite ==
    ASSUME NEW S \in SUBSET Nat, IsFiniteSet(S), S # {}
    PROVE  Oldest(S) \in S /\ \A x \in S : Oldest(S) <= x
<1> DEFINE Before(e) == {x \in S : x < e}
           T == {Before(e) : e \in S}
<1>1. T \subseteq FiniteSubsetsOf(S) /\ T # {}
  <2>1. \A e \in S : Before(e) \in SUBSET S
    OBVIOUS
  <2>2. \A e \in S : IsFiniteSet(Before(e))
    BY <2>1, FS_Subset
  <2>3. QED  BY <2>1, <2>2 DEF FiniteSubsetsOf
<1>2. PICK b \in T : \A c \in T : <<c, b>> \notin StrictSubsetOrdering(S)
  BY <1>1, FS_StrictSubsetOrderingWellFounded, WFMin
<1>3. PICK m \in S : b = Before(m)
  BY <1>2
<1>4. ASSUME NEW y \in S, y < m PROVE FALSE
  <2>1. S \subseteq Int /\ y \in Int /\ m \in Int /\ y \in S
    BY <1>4
  <2>2. Before(y) \subseteq Before(m)
    <3>1. ASSUME NEW x \in S, x < y PROVE x < m
      <4>1. x \in Int
        BY <2>1
      <4>2. QED  BY ONLY <1>4, <2>1, <3>1, <4>1
    <3>2. QED  BY <3>1
  <2>3. y \in Before(m) /\ y \notin Before(y)
    BY ONLY <1>4, <2>1
  <2>4. <<Before(y), Before(m)>> \in StrictSubsetOrdering(S)
    <3> HIDE DEF Before
    <3>1. Before(y) # Before(m)
      BY <2>3
    <3>2. Before(y) \in SUBSET S /\ Before(m) \in SUBSET S
      BY DEF Before
    <3>3. QED  BY <2>2, <3>1, <3>2 DEF StrictSubsetOrdering
  <2>5. QED  BY <1>2, <1>3, <2>4
<1>5. \A y \in S : m <= y
  BY <1>4
<1>6. QED  BY <1>5 DEF Oldest

-----------------------------------------------------------------------------
(* Type correctness *)

LEMMA InitTypeOK == Init => TypeOK
<1> USE CapType DEF Seconds
<1>1. SUFFICES ASSUME Init PROVE TypeOK
  OBVIOUS
<1>2. clock \in Seconds /\ deadline \in 0 .. MaxTime + Window /\ latest \in 0 .. clock
  BY <1>1 DEF Init
<1>3. stamp \in [Requests -> 0 .. clock] /\ promise \in {Never} \cup (0 .. clock + Window)
  BY <1>1 DEF Init
<1>4. QED  BY <1>1, <1>2, <1>3 DEF Init, TypeOK

LEMMA ResetTimeType ==
    ASSUME TypeOK, NEW n \in 0 .. clock, Bounded, ~WithinLimit(n)
    PROVE  /\ ResetTime(n) \in {e + Window : e \in entries}
           /\ \A e \in entries : ResetTime(n) <= e + Window
<1>1. Kept(n) = entries /\ entries # {}
  BY RefusalByFullSet DEF TypeOK
<1>2. entries \in SUBSET Nat
  BY DEF TypeOK
<1>3. Oldest(entries) \in entries /\ \A x \in entries : Oldest(entries) <= x
  BY <1>1, <1>2, EntriesFinite, OldestOfFinite
<1>4. ResetTime(n) = Oldest(entries) + Window
  BY <1>1 DEF ResetTime
<1>5. entries \subseteq Int /\ Window \in Int
  BY <1>2, CapType
<1>6. ResetTime(n) \in {e + Window : e \in entries}
  BY ONLY <1>3, <1>4
<1>7. ASSUME NEW e \in entries PROVE ResetTime(n) <= e + Window
  <2>1. e \in Int /\ Oldest(entries) \in Int /\ Oldest(entries) <= e
    BY <1>3, <1>5
  <2>2. QED  BY ONLY <1>4, <1>5, <2>1
<1>8. QED  BY <1>6, <1>7

LEMMA RecordTypeOK ==
    ASSUME TypeOK, NEW r \in Requests, Answer(r), Record(r)
    PROVE  TypeOK'
<1> USE CapType DEF Seconds
<1>1. clock \in 0 .. MaxTime /\ stamp[r] \in 0 .. clock /\ latest \in 0 .. clock
  BY DEF TypeOK
<1>2. entries' \in SUBSET (0 .. clock)
  BY <1>1 DEF TypeOK, Record, Kept
<1>3. deadline' \in 0 .. MaxTime + Window
  BY <1>1 DEF Record
<1>4. latest' \in 0 .. clock
  BY <1>1 DEF Answer, Script, Later
<1>5. outcome' \in [Requests -> {"new", "asking", "passed", "refused", "failed"}]
  BY DEF TypeOK, Answer
<1>6. recorded' \in SUBSET Requests /\ counted' \in SUBSET recorded'
  BY DEF TypeOK, Record
<1>7. forgiven' \in SUBSET recorded'
  BY DEF TypeOK, Record, Answer, Script
<1>8. QED
  BY <1>1, <1>2, <1>3, <1>4, <1>5, <1>6, <1>7 DEF TypeOK, Answer, Script, Record

LEMMA RefuseTypeOK ==
    ASSUME TypeOK, Bounded, NEW r \in Requests, Answer(r), Refuse(r)
    PROVE  TypeOK'
<1>1. stamp[r] \in 0 .. clock
  BY DEF TypeOK
<1>2. promise' \in 0 .. clock + Window
  BY <1>1, ResetTimeType, CapType DEF Refuse, TypeOK, Seconds
<1>3. forgiven' \in SUBSET recorded'
  BY DEF TypeOK, Refuse, Answer, Script
<1>4. QED
  BY <1>1, <1>2, <1>3, CapType DEF TypeOK, Answer, Script, Refuse, Kept, Later, Seconds

LEMMA Answers ==
    ASSUME NEW r \in Requests, Allow(r) \/ Deny(r) \/ ReplyLost(r)
    PROVE  Answer(r) /\ (Record(r) \/ Refuse(r))
BY DEF Allow, Deny, ReplyLost, Answer

LEMMA NextTypeOK == TypeOK /\ Bounded /\ [Next]_vars => TypeOK'
<1> SUFFICES ASSUME TypeOK, Bounded, [Next]_vars PROVE TypeOK'
  OBVIOUS
<1> USE CapType DEF TypeOK, Seconds, key, request, history
<1>1. ASSUME NEW r \in Requests, Arrive(r) PROVE TypeOK'
  BY <1>1 DEF Arrive
<1>2. ASSUME NEW r \in Requests, Allow(r) \/ Deny(r) \/ ReplyLost(r) PROVE TypeOK'
  BY <1>2, Answers, RecordTypeOK, RefuseTypeOK
<1>3. ASSUME NEW r \in Requests, Unreachable(r) PROVE TypeOK'
  BY <1>3 DEF Unreachable
<1>4. CASE FindKeys
  BY <1>4 DEF FindKeys
<1>5. CASE DeleteKeys
  <2>1. counted' = {} /\ forgiven' \in SUBSET recorded'
    BY <1>5 DEF DeleteKeys
  <2>2. QED  BY <1>5, <2>1 DEF DeleteKeys
<1>6. CASE DeleteFails
  BY <1>6 DEF DeleteFails
<1>7. CASE Expire
  BY <1>7 DEF Expire
<1>8. CASE Tick
  BY <1>8 DEF Tick
<1>9. CASE UNCHANGED vars
  BY <1>9 DEF vars
<1>10. QED
  BY <1>1, <1>2, <1>3, <1>4, <1>5, <1>6, <1>7, <1>8, <1>9 DEF Next

-----------------------------------------------------------------------------
(* The invariant: a recorded and a refused request *)

(* The sets of a step, as facts about integers.                            *)
LEMMA ScriptFacts ==
    ASSUME TypeOK, NEW r \in Requests, Answer(r)
    PROVE  /\ stamp[r] \in Nat /\ clock \in Nat /\ latest \in Nat /\ latest' \in Nat
           /\ stamp[r] <= clock
           /\ latest' >= latest /\ latest' >= stamp[r]
           /\ InOrder(r) => latest' = stamp[r]
           /\ stamp' = stamp /\ outcome[r] = "asking"
           /\ outcome'[r] \notin {"new", "asking"}
           /\ \A q \in Requests : q # r => outcome'[q] = outcome[q]
           /\ \A q \in Requests : stamp[q] \in Nat
           /\ \A e \in entries : e \in Nat /\ e <= clock
<1>1. stamp[r] \in 0 .. clock /\ clock \in Nat /\ latest \in 0 .. clock
  BY CapType DEF TypeOK, Seconds
<1>2. latest' = Later(latest, stamp[r]) /\ stamp' = stamp /\ outcome[r] = "asking"
  BY DEF Answer, Script
<1>3. \A e \in entries : e \in Nat /\ e <= clock
  BY <1>1 DEF TypeOK
<1>4. \A q \in Requests : stamp[q] \in Nat
  BY <1>1 DEF TypeOK
<1>5. /\ outcome'[r] \notin {"new", "asking"}
      /\ \A q \in Requests : q # r => outcome'[q] = outcome[q]
  BY DEF Answer, TypeOK
<1>6. QED  BY <1>1, <1>2, <1>3, <1>4, <1>5 DEF Later, InOrder

LEMMA RecordBounded ==
    ASSUME TypeOK, Bounded, NEW r \in Requests, Answer(r), Record(r)
    PROVE  Bounded'
<1>1. Cardinality(Kept(stamp[r])) \in Nat /\ Cardinality(Kept(stamp[r])) < Cap
  BY ScriptFacts, KeptSubset DEF Record, WithinLimit, Cap
<1>2. /\ IsFiniteSet(Kept(stamp[r]))
      /\ entries' = Kept(stamp[r]) \cup {stamp[r]}
  BY ScriptFacts, KeptSubset DEF Record
<1>3. Cardinality(entries') = IF stamp[r] \in Kept(stamp[r])
                              THEN Cardinality(Kept(stamp[r]))
                              ELSE Cardinality(Kept(stamp[r])) + 1
  BY <1>2, FS_AddElement
<1>4. QED  BY <1>1, <1>3, CapType DEF Bounded, Cap

LEMMA RecordRemembered ==
    ASSUME TypeOK, Remembered, NEW r \in Requests, Answer(r), Record(r)
    PROVE  Remembered'
<1>1. SUFFICES ASSUME NEW q \in counted'
               PROVE  /\ stamp[q] <= latest'
                      /\ stamp[q] > latest' - Window => stamp[q] \in entries'
  BY ScriptFacts DEF Remembered
<1>2. counted \subseteq Requests
  BY DEF TypeOK
<1>3. CASE q \in counted
  <2>1. stamp[q] <= latest /\ (stamp[q] > latest - Window => stamp[q] \in entries)
    BY <1>3 DEF Remembered
  <2>2. stamp[q] \in Nat /\ Window \in Nat
    BY <1>2, <1>3, ScriptFacts, CapType
  <2>3. stamp[q] <= latest'
    BY <2>1, <2>2, ScriptFacts
  <2>4. ASSUME stamp[q] > latest' - Window PROVE stamp[q] \in entries'
    <3>1. stamp[q] > latest - Window /\ stamp[q] > stamp[r] - Window
      BY <2>2, <2>4, ScriptFacts
    <3>2. QED  BY <2>1, <3>1 DEF Record, Kept
  <2>5. QED  BY <2>3, <2>4
<1>4. CASE q = r
  BY <1>4, ScriptFacts DEF Record
<1>5. QED  BY <1>3, <1>4 DEF Record

LEMMA RecordInv ==
    ASSUME TypeOK, Inv, NEW r \in Requests, Answer(r), Record(r)
    PROVE  Inv'
<1>1. Bounded' /\ Remembered'
  BY RecordBounded, RecordRemembered DEF Inv
<1>2. FromRecords'
  <2>1. r \notin forgiven /\ forgiven' = forgiven /\ stamp' = stamp
    BY ScriptFacts DEF Inv, Answered, TypeOK, Answer, Script
  <2>2. \A q \in recorded \ forgiven : q \in recorded' \ forgiven' /\ stamp'[q] = stamp[q]
    BY <2>1 DEF Record
  <2>3. QED  BY <2>1, <2>2 DEF Inv, FromRecords, Record, Kept
<1>3. NotAhead'
  <2>1. SUFFICES ASSUME NEW e \in entries'
                 PROVE  e <= latest' /\ e + Window <= clock + Window
    BY DEF NotAhead, Record
  <2>2. CASE e \in entries
    <3>1. e <= latest /\ e \in Nat /\ e <= clock
      BY <2>2, ScriptFacts DEF Inv, NotAhead
    <3>2. QED  BY <3>1, ScriptFacts, CapType
  <2>3. CASE e = stamp[r]
    BY <2>3, ScriptFacts, CapType
  <2>4. QED  BY <2>2, <2>3 DEF Record, Kept
<1>4. Answered'
  BY ScriptFacts DEF Inv, Answered, Record, TypeOK
<1>5. PromiseKept'
  BY DEF PromiseKept, Record
<1>6. QED  BY <1>1, <1>2, <1>3, <1>4, <1>5 DEF Inv

LEMMA RefuseInv ==
    ASSUME TypeOK, Inv, NEW r \in Requests, Answer(r), Refuse(r)
    PROVE  Inv'
<1>1. Bounded /\ stamp[r] \in 0 .. clock /\ ~WithinLimit(stamp[r])
  BY DEF Inv, TypeOK, Refuse
<1>2. /\ entries' = entries
      /\ Cardinality(entries) = Cap /\ entries # {}
  BY <1>1, ScriptFacts, RefusalByFullSet DEF Refuse
<1>3. Bounded' /\ FromRecords'
  BY <1>2, ScriptFacts DEF Inv, Bounded, FromRecords, Refuse, Answer, Script
<1>4. NotAhead'
  <2>1. ASSUME NEW e \in entries PROVE e <= latest' /\ e + Window <= deadline
    BY ScriptFacts DEF Inv, NotAhead
  <2>2. QED  BY <1>2, <2>1 DEF NotAhead, Refuse
<1>5. Answered'
  BY ScriptFacts DEF Inv, Answered, Refuse, TypeOK
<1>6. Remembered'
  <2>1. ASSUME NEW q \in counted
        PROVE  /\ stamp[q] <= latest'
               /\ stamp[q] > latest' - Window => stamp[q] \in entries
    <3>1. stamp[q] \in Nat
      BY ScriptFacts DEF TypeOK
    <3>2. QED  BY <3>1, ScriptFacts, CapType DEF Inv, Remembered
  <2>2. QED  BY <1>2, <2>1, ScriptFacts DEF Remembered, Refuse
<1>7. PromiseKept'
  <2>1. /\ promise' \in {e + Window : e \in entries}
        /\ \A e \in entries : promise' <= e + Window
    BY <1>1, ResetTimeType DEF Refuse
  <2>2. QED  BY <1>2, <2>1 DEF PromiseKept
<1>8. QED  BY <1>3, <1>4, <1>5, <1>6, <1>7 DEF Inv

-----------------------------------------------------------------------------
(* The invariant: every other step *)

LEMMA InitInv == Init => Inv
BY FS_EmptySet, CapType DEF Init, Inv, Bounded, FromRecords, NotAhead, Answered, Remembered,
   PromiseKept

LEMMA ArriveInv ==
    ASSUME TypeOK, Inv, NEW r \in Requests, Arrive(r)
    PROVE  Inv'
<1>1. r \notin recorded /\ counted \subseteq recorded /\ recorded \subseteq Requests
  BY DEF Inv, Answered, Arrive, TypeOK
<1>2. \A q \in Requests : q # r => stamp'[q] = stamp[q] /\ outcome'[q] = outcome[q]
  BY DEF Arrive, TypeOK
<1>3. UNCHANGED <<entries, deadline, latest, recorded, counted, forgiven, promise>>
  BY DEF Arrive, key, history
<1>4. \A q \in recorded : stamp'[q] = stamp[q] /\ outcome'[q] = outcome[q]
  BY <1>1, <1>2
<1>5. Bounded' /\ NotAhead' /\ PromiseKept'
  BY <1>3 DEF Inv, Bounded, NotAhead, PromiseKept
<1>6. FromRecords' /\ Answered'
  BY <1>3, <1>4 DEF Inv, FromRecords, Answered
<1>7. Remembered'
  BY <1>1, <1>3, <1>4 DEF Inv, Remembered
<1>8. QED  BY <1>5, <1>6, <1>7 DEF Inv

(* When the key expires, no second in it is in the latest window any more. *)
LEMMA ExpireInv ==
    ASSUME TypeOK, Inv, Expire
    PROVE  Inv'
<1>1. /\ clock \in Nat /\ deadline \in Nat /\ latest \in Nat /\ latest <= clock
      /\ deadline <= clock /\ latest' = clock /\ entries' = {}
      /\ \A e \in entries : e \in Nat
      /\ \A q \in counted : stamp[q] \in Nat
      /\ UNCHANGED <<outcome, stamp, recorded, counted, promise>>
  BY CapType DEF TypeOK, Seconds, Expire, request
<1>2. Bounded' /\ FromRecords' /\ NotAhead' /\ Answered'
  BY <1>1, FS_EmptySet, CapType DEF Inv, Bounded, FromRecords, NotAhead, Answered
<1>3. Remembered'
  <2>1. ASSUME NEW q \in counted
        PROVE  stamp[q] <= clock /\ ~(stamp[q] > clock - Window)
    <3>1. stamp[q] <= latest /\ (stamp[q] > latest - Window => stamp[q] \in entries)
      BY DEF Inv, Remembered
    <3>2. CASE stamp[q] \in entries
      <4>1. stamp[q] + Window <= deadline
        BY <3>2 DEF Inv, NotAhead
      <4>2. QED  BY <1>1, <3>1, <4>1, CapType
    <3>3. CASE ~(stamp[q] > latest - Window)
      BY <1>1, <3>1, <3>3, CapType
    <3>4. QED  BY <3>1, <3>2, <3>3
  <2>2. QED  BY <1>1, <2>1 DEF Remembered
<1>4. PromiseKept'
  <2>1. SUFFICES ASSUME promise # Never PROVE promise <= clock
    BY <1>1 DEF PromiseKept
  <2>2. CASE promise <= latest
    BY <1>1, <2>1, <2>2 DEF TypeOK
  <2>3. CASE promise \in {e + Window : e \in entries}
    <3>1. PICK e \in entries : promise = e + Window
      BY <2>3
    <3>2. e + Window <= deadline /\ e \in Nat
      BY <1>1 DEF Inv, NotAhead
    <3>3. QED  BY <1>1, <3>1, <3>2, CapType
  <2>4. QED  BY <2>1, <2>2, <2>3 DEF Inv, PromiseKept
<1>5. QED  BY <1>2, <1>3, <1>4 DEF Inv

LEMMA NextInv == TypeOK /\ Inv /\ [Next]_vars => Inv'
<1> SUFFICES ASSUME TypeOK, Inv, [Next]_vars PROVE Inv'
  OBVIOUS
<1> USE DEF Inv, Bounded, FromRecords, NotAhead, Answered, Remembered, PromiseKept
<1>1. ASSUME NEW r \in Requests, Arrive(r) PROVE Inv'
  BY <1>1, ArriveInv
<1>2. ASSUME NEW r \in Requests, Allow(r) \/ Deny(r) \/ ReplyLost(r) PROVE Inv'
  BY <1>2, Answers, RecordInv, RefuseInv
<1>3. ASSUME NEW r \in Requests, Unreachable(r) PROVE Inv'
  <2>1. \A q \in Requests : outcome'[q] \in {outcome[q], "failed"}
    BY <1>3 DEF Unreachable, TypeOK
  <2>2. QED  BY <1>3, <2>1 DEF Unreachable, key, history, TypeOK
<1>4. CASE FindKeys \/ DeleteFails
  BY <1>4 DEF FindKeys, DeleteFails, key, request, history
<1>5. CASE DeleteKeys
  BY <1>5, FS_EmptySet, CapType DEF DeleteKeys, request
<1>6. CASE Expire
  BY <1>6, ExpireInv
<1>7. CASE Tick
  BY <1>7 DEF Tick, key, request, history
<1>8. CASE UNCHANGED vars
  BY <1>8 DEF vars, key, request, history
<1>9. QED
  BY <1>1, <1>2, <1>3, <1>4, <1>5, <1>6, <1>7, <1>8 DEF Next

LEMMA Invariance == Spec => [](TypeOK /\ Inv)
<1>1. Init => TypeOK /\ Inv
  BY InitTypeOK, InitInv
<1>2. TypeOK /\ Inv /\ [Next]_vars => (TypeOK /\ Inv)'
  BY NextTypeOK, NextInv DEF Inv
<1>3. QED  BY <1>1, <1>2, PTL DEF Spec

-----------------------------------------------------------------------------
(* The results *)

(* Every variable keeps its type: the set holds seconds that are over or   *)
(* running.                                                                *)
THEOREM LimiterTypeCorrect == Spec => []TypeOK
BY Invariance, PTL

LEMMA InWindowSubset ==
    ASSUME TypeOK, NEW t \in Nat
    PROVE  /\ IsFiniteSet(InWindow(t)) /\ Cardinality(InWindow(t)) \in Nat
<1>1. t \in Int /\ t - Window + 1 \in Int /\ InWindow(t) \in SUBSET (t - Window + 1 .. t)
  BY CapType DEF InWindow
<1>2. QED  BY ONLY <1>1, SecondsFinite

(* Recording a request: the window it falls into is wholly in the set.     *)
LEMMA RecordWindow ==
    ASSUME TypeOK, TypeOK', Inv, Inv', WindowBound,
           NEW r \in Requests, Answer(r), Record(r), NEW t \in Seconds
    PROVE  Cardinality(InWindow(t)') <= Cap
<1>1. counted \subseteq Requests /\ stamp' = stamp /\ t \in Nat
  BY ScriptFacts, CapType DEF TypeOK, Seconds
<1>2. CASE InOrder(r) /\ stamp[r] \in t - Window + 1 .. t
  <2>1. ASSUME NEW q \in counted', stamp[q] \in t - Window + 1 .. t
        PROVE  stamp[q] \in entries'
    <3>1. stamp[q] > latest' - Window
      BY <1>1, <1>2, <2>1, ScriptFacts, CapType
    <3>2. QED  BY <1>1, <3>1 DEF Inv, Remembered
  <2>2. InWindow(t)' \subseteq entries'
    BY <1>1, <2>1 DEF InWindow
  <2>3. IsFiniteSet(entries') /\ Cardinality(entries') \in Nat
    <3>1. clock' \in Int /\ 0 \in Int /\ entries' \in SUBSET (0 .. clock')
      BY CapType DEF TypeOK, Seconds
    <3>2. QED  BY ONLY <3>1, SecondsFinite
  <2>4. Cardinality(InWindow(t)') <= Cardinality(entries')
    BY <2>2, <2>3, FS_Subset
  <2>5. QED  BY <2>2, <2>3, <2>4, FS_Subset, FS_CardinalityType, CapType DEF Inv, Bounded
<1>3. CASE ~(InOrder(r) /\ stamp[r] \in t - Window + 1 .. t)
  <2>1. InWindow(t)' = InWindow(t)
    BY <1>1, <1>3 DEF InWindow, Record
  <2>2. QED  BY <2>1 DEF WindowBound, Cap
<1>4. QED  BY <1>2, <1>3

LEMMA WindowStep == TypeOK /\ TypeOK' /\ Inv /\ Inv' /\ WindowBound /\ [Next]_vars => WindowBound'
<1> SUFFICES ASSUME TypeOK, TypeOK', Inv, Inv', WindowBound, [Next]_vars, NEW t \in Seconds
             PROVE  Cardinality(InWindow(t)') <= Cap
  BY DEF WindowBound, Cap
<1>1. ASSUME NEW r \in Requests, Record(r), Answer(r) PROVE Cardinality(InWindow(t)') <= Cap
  BY <1>1, RecordWindow
<1>2. ASSUME counted' = counted, \A q \in counted : stamp'[q] = stamp[q]
      PROVE  Cardinality(InWindow(t)') <= Cap
  <2>1. InWindow(t)' = InWindow(t)
    BY <1>2 DEF InWindow
  <2>2. QED  BY <2>1 DEF WindowBound, Cap
<1>3. ASSUME NEW r \in Requests, Arrive(r) PROVE counted' = counted /\ \A q \in counted : stamp'[q] = stamp[q]
  BY <1>3 DEF Arrive, history, Inv, Answered, TypeOK
<1>4. CASE DeleteKeys
  <2>1. InWindow(t)' = {}
    BY <1>4 DEF DeleteKeys, InWindow
  <2>2. QED  BY <2>1, FS_EmptySet, CapType
<1>5. QED
  BY <1>1, <1>2, <1>3, <1>4, Answers
     DEF Next, Unreachable, FindKeys, DeleteFails, Expire, Tick, Refuse, Answer, Script,
         vars, request, history

(* No window holds more recorded seconds than limit + burst, for scripts   *)
(* in the order of their stamps.                                           *)
THEOREM WindowBounded == Spec => []WindowBound
<1>1. Init => WindowBound
  <2>1. Init => \A t \in Seconds : InWindow(t) = {}
    BY DEF Init, InWindow
  <2>2. QED  BY <2>1, FS_EmptySet, CapType DEF WindowBound, Cap
<1>2. QED  BY <1>1, WindowStep, Invariance, PTL DEF Spec

(* A script in order against a binding refusal.                            *)
LEMMA AllowAfterPromise ==
    ASSUME TypeOK, Inv, NEW r \in Requests, Allow(r), promise # Never, InOrder(r)
    PROVE  stamp[r] >= promise
<1>1. Answer(r) /\ Record(r)
  BY DEF Allow, Answer
<1>2. promise \in Nat
  BY CapType DEF TypeOK, Seconds
<1>3. CASE promise <= latest
  BY <1>1, <1>2, <1>3, ScriptFacts DEF InOrder
<1>4. CASE /\ Cardinality(entries) = Cap
           /\ \A e \in entries : promise <= e + Window
  <2>1. SUFFICES ASSUME stamp[r] < promise PROVE FALSE
    BY <1>1, <1>2, ScriptFacts
  <2>2. ASSUME NEW e \in entries PROVE e > stamp[r] - Window
    BY <1>1, <1>2, <1>4, <2>1, ScriptFacts, CapType
  <2>3. Kept(stamp[r]) = entries
    BY <2>2 DEF Kept
  <2>4. QED  BY <1>1, <1>4, <2>3, CapType DEF Record, WithinLimit, Cap
<1>5. QED  BY <1>3, <1>4 DEF Inv, PromiseKept

LEMMA DenyBeforePromise ==
    ASSUME TypeOK, Inv, NEW r \in Requests, Deny(r), promise # Never, InOrder(r)
    PROVE  stamp[r] < promise
<1>1. Answer(r) /\ ~WithinLimit(stamp[r]) /\ stamp[r] \in 0 .. clock
  BY DEF Deny, Answer, Refuse, TypeOK
<1>2. Kept(stamp[r]) = entries /\ entries # {}
  BY <1>1, ScriptFacts, RefusalByFullSet DEF Inv
<1>3. PICK e \in entries : promise = e + Window
  BY <1>2 DEF Inv, PromiseKept
<1>4. e > stamp[r] - Window
  BY <1>2 DEF Kept
<1>5. QED  BY <1>1, <1>3, <1>4, ScriptFacts, CapType

(* Who comes at X-RateLimit-Reset or later passes, and nobody passes       *)
(* before, until the next request is recorded.                             *)
THEOREM ResetExact == Spec => ResetIsExact
<1> DEFINE Exact == \A r \in Requests : promise # Never /\ InOrder(r) =>
                       /\ Allow(r) => stamp[r] >= promise
                       /\ Deny(r) => stamp[r] < promise
<1>1. TypeOK /\ Inv /\ [Next]_vars => [Exact]_vars
  BY AllowAfterPromise, DenyBeforePromise
<1>2. QED  BY <1>1, Invariance, PTL DEF Spec, ResetIsExact

(* Only seconds recorded in the window and since the last cleanup are held *)
(* against a request.                                                      *)
THEOREM RefusalJustified == Spec => RefusedOnlyWhenFull
<1> DEFINE Full == \A r \in Requests : Deny(r) => Cardinality(HeldAgainst(r)) >= Limit + Burst
<1>1. ASSUME TypeOK, Inv, NEW r \in Requests, Deny(r)
      PROVE  Cardinality(HeldAgainst(r)) >= Limit + Burst
  <2>1. Answer(r) /\ ~WithinLimit(stamp[r]) /\ stamp[r] \in 0 .. clock
    BY <1>1 DEF Deny, Answer, Refuse, TypeOK
  <2>2. Kept(stamp[r]) = entries /\ Cardinality(entries) = Cap
    BY <1>1, <2>1, ScriptFacts, RefusalByFullSet DEF Inv
  <2>3. entries \subseteq HeldAgainst(r)
    <3>1. ASSUME NEW e \in entries PROVE e \in HeldAgainst(r)
      <4>1. PICK q \in recorded \ forgiven : stamp[q] = e
        BY <1>1 DEF Inv, FromRecords
      <4>2. e > stamp[r] - Window
        BY <2>2 DEF Kept
      <4>3. QED  BY <4>1, <4>2 DEF HeldAgainst
    <3>2. QED  BY <3>1
  <2>4. clock \in Int /\ 0 \in Int /\ HeldAgainst(r) \in SUBSET (0 .. clock)
    BY <1>1, CapType DEF TypeOK, Seconds, HeldAgainst
  <2>5. IsFiniteSet(HeldAgainst(r)) /\ Cardinality(HeldAgainst(r)) \in Nat
    BY ONLY <2>4, SecondsFinite
  <2>6. Cardinality(entries) <= Cardinality(HeldAgainst(r))
    BY <2>3, <2>5, FS_Subset
  <2>7. QED  BY <2>2, <2>5, <2>6, CapType DEF Cap
<1>2. TypeOK /\ Inv /\ [Next]_vars => [Full]_vars
  BY <1>1
<1>3. QED  BY <1>2, Invariance, PTL DEF Spec, RefusedOnlyWhenFull

(* A limit and burst above the length of the window, such as the default   *)
(* of 60 and 10 for 60 seconds (config.go:203), refuse no request whose    *)
(* script is in order, however many there are.                             *)
THEOREM NeverRefuses ==
    Limit + Burst > Window => (Spec => [][\A r \in Requests : InOrder(r) => ~Deny(r)]_vars)
<1> SUFFICES ASSUME Limit + Burst > Window
             PROVE  Spec => [][\A r \in Requests : InOrder(r) => ~Deny(r)]_vars
  OBVIOUS
<1> DEFINE Passes == \A r \in Requests : InOrder(r) => ~Deny(r)
<1>1. ASSUME TypeOK, Inv, NEW r \in Requests, InOrder(r), Deny(r) PROVE FALSE
  <2>1. Answer(r) /\ ~WithinLimit(stamp[r]) /\ stamp[r] \in Nat
    BY <1>1, ScriptFacts DEF Deny, Answer, Refuse
  <2>2. ASSUME NEW e \in Kept(stamp[r])
        PROVE  e \in stamp[r] - Window + 1 .. stamp[r]
    BY <1>1, <2>1, <2>2, ScriptFacts, CapType DEF Kept, Inv, NotAhead, InOrder
  <2>3. /\ stamp[r] - Window + 1 \in Int /\ stamp[r] \in Int
        /\ Kept(stamp[r]) \in SUBSET (stamp[r] - Window + 1 .. stamp[r])
    BY <2>1, <2>2, CapType
  <2>4. /\ IsFiniteSet(stamp[r] - Window + 1 .. stamp[r])
        /\ Cardinality(stamp[r] - Window + 1 .. stamp[r]) = Window
    <3> DEFINE a == stamp[r] - Window + 1
    <3>1. a \in Int /\ stamp[r] \in Int /\ a <= stamp[r] /\ stamp[r] - a + 1 = Window
      BY <2>1, CapType
    <3> HIDE DEF a
    <3>2. /\ IsFiniteSet(a .. stamp[r])
          /\ Cardinality(a .. stamp[r]) = IF a > stamp[r] THEN 0 ELSE stamp[r] - a + 1
      BY <3>1, FS_Interval
    <3>3. Cardinality(a .. stamp[r]) = Window
      BY <3>1, <3>2, CapType
    <3>4. QED  BY <3>2, <3>3 DEF a
  <2>5. Cardinality(Kept(stamp[r])) <= Window /\ Cardinality(Kept(stamp[r])) \in Nat
    BY <2>3, <2>4, FS_Subset, FS_CardinalityType
  <2>6. QED  BY <2>1, <2>5, CapType DEF WithinLimit, Cap
<1>2. TypeOK /\ Inv /\ [Next]_vars => [Passes]_vars
  BY <1>1
<1>3. QED  BY <1>2, Invariance, PTL DEF Spec
=============================================================================
