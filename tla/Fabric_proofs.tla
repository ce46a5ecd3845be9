---------------------------- MODULE Fabric_proofs ----------------------------
(***************************************************************************)
(* Proofs about the Search Fabric, for any callers, questions, limits and  *)
(* cap. First the web ladder (WebLadder): its calls, its cache and its     *)
(* daily cap. Then whole requests (Fabric): whatever becomes of its other  *)
(* scopes, a request does with its ladder nothing that WebLadder does not  *)
(* describe, so that what is proved of the ladder holds of it; and what it *)
(* pays for it shows, and reports.                                         *)
(***************************************************************************)
EXTENDS Fabric, FiniteSetTheorems, TLAPS

-----------------------------------------------------------------------------
(* The web ladder. *)

\* A request that has found more is a request, one step further, with no call under way.
LEMMA OnwardType ==
  ASSUME LadderAssumption, TypeOK, NEW c \in Callers, req[c].pc # "idle", NEW more \in SUBSET Urls
  PROVE  /\ Onward(c, more) \in Request
         /\ Onward(c, more).q \in Questions
         /\ Onward(c, more).pc \in {"lookup", "done"}
         /\ Onward(c, more).pc = "lookup" => Onward(c, more).step \in Steps
<1>1. /\ req[c] \in Request /\ req[c].q \in Questions
      /\ req[c].found \cup more \in SUBSET Urls
      /\ {} \in Answers
  BY DEF TypeOK, Request, Answers
<1> QED
  BY <1>1 DEF Onward, Request, Steps

\* The type invariant is inductive.
THEOREM TypeCorrect == Spec => []TypeOK
<1>1. Init => TypeOK
  BY LadderAssumption DEF Init, TypeOK, Request, NoRequest, Key, Answers, LadderAssumption
<1>2. TypeOK /\ [Next]_vars => TypeOK'
  <2> SUFFICES ASSUME TypeOK, [Next]_vars PROVE TypeOK'
    OBVIOUS
  <2> USE LadderAssumption
  <2>1. ASSUME NEW c \in Callers, NEW q \in Questions, NEW person \in BOOLEAN,
               NEW depth \in Depths, NEW limit \in Limits, Ask(c, q, person, depth, limit)
        PROVE  TypeOK'
    BY <2>1 DEF Ask, TypeOK, Request, NoRequest, Answers
  <2>2. ASSUME NEW c \in Callers, OpenIndexStep(c) PROVE TypeOK'
    <3>1. PICK found \in SUBSET OpenIndex[req[c].q] :
            req' = [req EXCEPT ![c] = [@ EXCEPT !.pc = "lookup", !.step = "deepseek",
                                                !.found = found]]
      BY <2>2 DEF OpenIndexStep
    <3>2. req[c].q \in Questions /\ found \in SUBSET Urls
      BY <2>2 DEF OpenIndexStep, TypeOK, LadderAssumption
    <3> DEFINE r == [req[c] EXCEPT !.pc = "lookup", !.step = "deepseek", !.found = found]
    <3>3. req[c] \in Request
      BY DEF TypeOK
    <3>4. r \in Request /\ r.q \in Questions /\ r.pc = "lookup" /\ r.step \in Steps
      BY <3>2, <3>3 DEF Request, Steps
    <3>5. req' = [req EXCEPT ![c] = r]
      BY <3>1
    <3> HIDE DEF r
    <3> QED
      BY <2>2, <3>4, <3>5 DEF OpenIndexStep, TypeOK
  <2>3. ASSUME NEW c \in Callers, Skip(c) PROVE TypeOK'
    <3>1. req[c].pc # "idle" /\ {} \in SUBSET Urls
      BY <2>3 DEF Skip
    <3> QED
      BY <2>3, <3>1, OnwardType DEF Skip, TypeOK
  <2>4. ASSUME NEW c \in Callers, CacheHit(c) PROVE TypeOK'
    <3>1. req[c].pc # "idle" /\ Cached(c) \in SUBSET Urls
      BY <2>4 DEF CacheHit, Cached, CacheKey, TypeOK, Key, Answers
    <3> QED
      BY <2>4, <3>1, OnwardType DEF CacheHit, TypeOK
  <2>5. ASSUME NEW c \in Callers, Missed(c), UNCHANGED <<cache, calls, day, answered, again, owed>>,
               faults' \in 0 .. MaxFaults
        PROVE  TypeOK'
    <3>1. req[c].pc # "idle" /\ {} \in SUBSET Urls
      BY <2>5 DEF Missed
    <3>2. CASE ~Allowed(c)
      BY <2>5, <3>1, <3>2, OnwardType DEF Missed, TypeOK
    <3>3. CASE Allowed(c)
      BY <2>5, <3>3 DEF Missed, Allowed, TypeOK, Request, Paid
    <3> QED
      BY <3>2, <3>3
  <2>6. ASSUME NEW c \in Callers, CacheMiss(c) \/ CacheUnread(c) PROVE TypeOK'
    BY <2>5, <2>6 DEF CacheMiss, CacheUnread, Fault, TypeOK, LadderAssumption
  <2>7. ASSUME NEW c \in Callers, CheckCap(c) PROVE TypeOK'
    <3>1. req[c].pc # "idle" /\ {} \in SUBSET Urls
      BY <2>7 DEF CheckCap
    <3>2. CASE CapReached(c)
      BY <2>7, <3>1, <3>2, OnwardType DEF CheckCap, TypeOK
    <3>3. CASE ~CapReached(c)
      BY <2>7, <3>3 DEF CheckCap, TypeOK, Request, Paid
    <3> QED
      BY <3>2, <3>3
  <2>8. ASSUME NEW c \in Callers, NEW answer \in Answers, Research(c, answer) PROVE TypeOK'
    <3>1. req[c].q \in Questions /\ req[c].step \in Steps
      BY <2>8 DEF Research, TypeOK
    <3>2. answered' \in [Key -> SUBSET Urls] /\ again' \in [Questions -> Nat] /\ owed' \in Int
      <4>1. CASE answer = NoAnswer
        BY <2>8, <4>1 DEF Research, TypeOK
      <4>2. CASE answer # NoAnswer
        <5>1. answer \in SUBSET Urls /\ <<req[c].q, req[c].step>> \in Key
          BY <3>1, <4>2 DEF Answers, Key
        <5>2. answered' \in [Key -> SUBSET Urls]
          BY <2>8, <4>2, <5>1 DEF Research, TypeOK
        <5>3. again' \in [Questions -> Nat]
          BY <2>8, <3>1, <4>2 DEF Research, TypeOK
        <5> QED
          BY <2>8, <5>2, <5>3 DEF Research, TypeOK
      <4> QED
        BY <4>1, <4>2
    <3> DEFINE r == [req[c] EXCEPT !.pc = "record", !.answer = answer]
    <3>3. req[c] \in Request /\ req[c].pc = "call"
      BY <2>8 DEF Research, TypeOK
    <3>4. /\ r \in Request /\ r.pc = "record" /\ r.q = req[c].q /\ r.step = req[c].step
          /\ r.depth = req[c].depth /\ r.person = req[c].person
      BY <3>3 DEF Request
    <3>5. req' = [req EXCEPT ![c] = r]
      BY <2>8 DEF Research
    <3> HIDE DEF r
    <3> QED
      BY <2>8, <3>1, <3>2, <3>3, <3>4, <3>5 DEF Research, TypeOK
  <2>9. ASSUME NEW c \in Callers, Record(c) PROVE TypeOK'
    <3>1. req[c].pc # "idle" /\ {} \in SUBSET Urls
      BY <2>9 DEF Record
    <3>2. calls' \in Nat /\ owed' \in Int
      BY <2>9 DEF Record, TypeOK
    <3>3. CASE req[c].answer = NoAnswer
      BY <2>9, <3>1, <3>2, <3>3, OnwardType DEF Record, TypeOK
    <3>4. CASE req[c].answer # NoAnswer
      BY <2>9, <3>2, <3>4 DEF Record, TypeOK, Request
    <3> QED
      BY <3>3, <3>4
  <2>10. ASSUME NEW c \in Callers, Store(c) \/ StoreFails(c) PROVE TypeOK'
    <3>1. req[c].pc # "idle" /\ req[c].answer \in SUBSET Urls /\ CacheKey(c) \in Key
      BY <2>10 DEF Store, StoreFails, TypeOK, Request, Answers, Key, CacheKey
    <3>2. cache' \in [Key -> Answers] /\ faults' \in 0 .. MaxFaults
      BY <2>10, <3>1 DEF Store, StoreFails, Fault, TypeOK, Answers, LadderAssumption
    <3> QED
      BY <2>10, <3>1, <3>2, OnwardType DEF Store, StoreFails, TypeOK
  <2>11. ASSUME NEW c \in Callers, Fail(c) \/ Finish(c) PROVE TypeOK'
    <3>1. NoRequest \in Request /\ NoRequest.pc = "idle"
      BY DEF NoRequest, Request, Answers
    <3>2. owed' \in Int /\ faults' \in 0 .. MaxFaults
      BY <2>11 DEF Fail, Finish, Fault, TypeOK, LadderAssumption
    <3> QED
      BY <2>11, <3>1, <3>2 DEF Fail, Finish, TypeOK
  <2>12. CASE Midnight
    BY <2>12 DEF Midnight, TypeOK, LadderAssumption
  <2>13. ASSUME NEW k \in Key, Expire(k) PROVE TypeOK'
    BY <2>13 DEF Expire, TypeOK, Answers, Key
  <2>14. CASE Crash
    <3>1. Cardinality({c \in Callers : InCall(c)}) \in Nat
      BY FS_Subset, FS_CardinalityType DEF LadderAssumption
    <3> QED
      BY <2>14, <3>1 DEF Crash, Fault, TypeOK, Request, NoRequest, Answers, LadderAssumption
  <2>15. CASE UNCHANGED vars
    BY <2>15 DEF vars, TypeOK
  <2> QED
    BY <2>1, <2>2, <2>3, <2>4, <2>6, <2>7, <2>8, <2>9, <2>10, <2>11, <2>12, <2>13, <2>14, <2>15
       DEF Next, Climb
<1> QED
  BY <1>1, <1>2, PTL DEF Spec

-----------------------------------------------------------------------------
\* The requests that have passed the cap and are not counted yet.
Passed == {c \in Callers : req[c].pc \in {"call", "record"} /\ Paid(req[c].step)}
\* Counted or not, no more requests than that pass the cap: the last one passes below it.
CapInv == calls + Cardinality(Passed) <= Cap + Cardinality(Callers) - 1

\* Whoever goes on with results found is past no cap.
LEMMA OnwardNotPassed ==
  ASSUME NEW c \in Callers, NEW more, req \in [Callers -> Request]
  PROVE  Onward(c, more).pc \notin {"call", "record"}
  BY DEF Onward, Request

\* One element of a finite set moves: into, out of, or within the part of it that is counted.
LEMMA OneMoves ==
  ASSUME NEW S, IsFiniteSet(S), NEW A \in SUBSET S, NEW B \in SUBSET S, NEW c \in S,
         \A d \in S \ {c} : d \in A <=> d \in B
  PROVE  /\ Cardinality(A) \in Nat /\ Cardinality(B) \in Nat /\ Cardinality(S) \in Nat
         /\ Cardinality(A) <= Cardinality(S) /\ Cardinality(B) <= Cardinality(S)
         /\ Cardinality(B) = IF c \in B THEN IF c \in A THEN Cardinality(A) ELSE Cardinality(A) + 1
                             ELSE IF c \in A THEN Cardinality(A) - 1 ELSE Cardinality(A)
         /\ c \notin B => Cardinality(B) <= Cardinality(S) - 1
<1>1. IsFiniteSet(A) /\ IsFiniteSet(B) /\ IsFiniteSet(S \ {c})
  BY FS_Subset, FS_RemoveElement
<1>2. /\ Cardinality(A) \in Nat /\ Cardinality(B) \in Nat /\ Cardinality(S) \in Nat
      /\ Cardinality(A) <= Cardinality(S) /\ Cardinality(B) <= Cardinality(S)
  BY <1>1, FS_CardinalityType, FS_Subset
<1>3. Cardinality(A \ {c}) = IF c \in A THEN Cardinality(A) - 1 ELSE Cardinality(A)
  BY <1>1, FS_RemoveElement
<1>4. Cardinality(B \ {c}) = IF c \in B THEN Cardinality(B) - 1 ELSE Cardinality(B)
  BY <1>1, FS_RemoveElement
<1>5. A \ {c} = B \ {c}
  OBVIOUS
<1>6. ASSUME c \notin B PROVE Cardinality(B) <= Cardinality(S) - 1
  <2>1. Cardinality(S \ {c}) = Cardinality(S) - 1
    BY FS_RemoveElement
  <2> QED
    BY <1>1, <1>6, <2>1, FS_Subset
<1>7. Cardinality(B) = IF c \in B THEN IF c \in A THEN Cardinality(A) ELSE Cardinality(A) + 1
                       ELSE IF c \in A THEN Cardinality(A) - 1 ELSE Cardinality(A)
  <2>1. Cardinality(A \ {c}) = Cardinality(B \ {c})
    BY <1>5
  <2> QED
    BY <1>2, <1>3, <1>4, <2>1
<1> QED
  BY <1>2, <1>6, <1>7

\* One request moves: it joins those that have passed the cap, leaves them, or neither.
LEMMA PassedStep ==
  ASSUME LadderAssumption, TypeOK, NEW c \in Callers, \A d \in Callers \ {c} : req'[d] = req[d]
  PROVE  /\ Cardinality(Passed) \in Nat /\ Cardinality(Passed') \in Nat
         /\ Cardinality(Passed) <= Cardinality(Callers)
         /\ Cardinality(Passed') <= Cardinality(Callers)
         /\ c \notin Passed' => Cardinality(Passed') <= Cardinality(Passed)
         /\ c \notin Passed' /\ c \in Passed => Cardinality(Passed') = Cardinality(Passed) - 1
         /\ c \in Passed' /\ c \in Passed => Cardinality(Passed') = Cardinality(Passed)
<1>1. /\ Passed \in SUBSET Callers /\ Passed' \in SUBSET Callers
      /\ \A d \in Callers \ {c} : d \in Passed' <=> d \in Passed
  BY DEF Passed
<1> HIDE DEF Passed
<1> QED
  BY <1>1, OneMoves DEF LadderAssumption

\* The cap is exceeded by less than the number of requests under way at once.
THEOREM CapNearlyHolds == Spec => []CapNearlyKept
<1>1. Init => CapInv
  <2> SUFFICES ASSUME Init PROVE CapInv
    OBVIOUS
  <2>1. Passed = {}
    BY DEF Init, Passed, NoRequest
  <2>2. Cardinality(Callers) \in Nat /\ Cardinality(Callers) # 0
    BY LadderAssumption, FS_CardinalityType, FS_EmptySet DEF LadderAssumption
  <2> QED
    BY <2>1, <2>2, FS_EmptySet, LadderAssumption DEF Init, CapInv, LadderAssumption
<1>2. TypeOK /\ TypeOK' /\ CapInv /\ [Next]_vars => CapInv'
  <2> SUFFICES ASSUME TypeOK, TypeOK', CapInv, [Next]_vars PROVE CapInv'
    OBVIOUS
  <2> USE LadderAssumption
  <2>0. /\ Cap \in Nat /\ calls \in Nat /\ Cardinality(Callers) \in Nat
        /\ Cardinality(Passed) \in Nat
    <3>1. Passed \subseteq Callers
      BY DEF Passed
    <3> QED
      BY <3>1, FS_CardinalityType, FS_Subset DEF LadderAssumption, TypeOK
  <2>1. ASSUME NEW c \in Callers, NEW r, req' = [req EXCEPT ![c] = r],
               calls' = calls, r.pc \notin {"call", "record"}
        PROVE  CapInv'
    <3>1. c \notin Passed' /\ \A d \in Callers \ {c} : req'[d] = req[d]
      BY <2>1 DEF Passed, TypeOK
    <3>2. Cardinality(Passed') \in Nat /\ Cardinality(Passed') <= Cardinality(Passed)
      BY <3>1, PassedStep
    <3> QED
      BY <2>0, <2>1, <3>2 DEF CapInv
  <2>2. ASSUME NEW c \in Callers, NEW q \in Questions, NEW person \in BOOLEAN,
               NEW depth \in Depths, NEW limit \in Limits, Ask(c, q, person, depth, limit)
        PROVE  CapInv'
    BY <2>1, <2>2 DEF Ask, NoRequest
  <2>3. ASSUME NEW c \in Callers, OpenIndexStep(c) PROVE CapInv'
    <3>1. PICK found :
            req' = [req EXCEPT ![c] = [@ EXCEPT !.pc = "lookup", !.step = "deepseek",
                                                !.found = found]]
      BY <2>3 DEF OpenIndexStep
    <3> DEFINE r == [req[c] EXCEPT !.pc = "lookup", !.step = "deepseek", !.found = found]
    <3>2. r.pc = "lookup"
      BY DEF TypeOK, Request
    <3> QED
      BY <2>1, <2>3, <3>1, <3>2 DEF OpenIndexStep
  <2>4. ASSUME NEW c \in Callers,
               Skip(c) \/ CacheHit(c) \/ Store(c) \/ StoreFails(c)
        PROVE  CapInv'
    <3>1. PICK more : req' = [req EXCEPT ![c] = Onward(c, more)]
      BY <2>4 DEF Skip, CacheHit, Store, StoreFails
    <3>2. Onward(c, more).pc \notin {"call", "record"}
      BY OnwardNotPassed DEF TypeOK
    <3> QED
      BY <2>1, <2>4, <3>1, <3>2 DEF Skip, CacheHit, Store, StoreFails
  <2>5. ASSUME NEW c \in Callers, CacheMiss(c) \/ CacheUnread(c) PROVE CapInv'
    <3>1. Missed(c) /\ calls' = calls /\ Onward(c, {}).pc \notin {"call", "record"}
      BY <2>5, OnwardNotPassed DEF CacheMiss, CacheUnread, TypeOK
    <3>2. CASE ~Allowed(c)
      BY <2>1, <3>1, <3>2 DEF Missed
    <3>3. CASE Allowed(c)
      <4>1. c \notin Passed' /\ \A d \in Callers \ {c} : req'[d] = req[d]
        BY <3>1, <3>3 DEF Missed, Passed, TypeOK, Request
      <4>2. Cardinality(Passed') \in Nat /\ Cardinality(Passed') <= Cardinality(Passed)
        BY <4>1, PassedStep
      <4> QED
        BY <2>0, <3>1, <4>2 DEF CapInv
    <3> QED
      BY <3>2, <3>3
  <2>6. ASSUME NEW c \in Callers, CheckCap(c) PROVE CapInv'
    <3>1. CASE CapReached(c)
      <4>1. Onward(c, {}).pc \notin {"call", "record"}
        BY OnwardNotPassed DEF TypeOK
      <4> QED
        BY <2>1, <2>6, <3>1, <4>1 DEF CheckCap
    <3>2. CASE ~CapReached(c)
      <4>1. calls' = calls /\ calls <= Cap - 1
        BY <2>0, <2>6, <3>2 DEF CheckCap, CapReached
      <4>2. Cardinality(Passed') \in Nat /\ Cardinality(Passed') <= Cardinality(Callers)
        BY <2>6, PassedStep DEF CheckCap, TypeOK
      <4> QED
        BY <2>0, <4>1, <4>2 DEF CapInv
    <3> QED
      BY <3>1, <3>2
  <2>7. ASSUME NEW c \in Callers, NEW answer \in Answers, Research(c, answer) PROVE CapInv'
    <3>1. /\ calls' = calls
          /\ c \in Passed' => c \in Passed
          /\ \A d \in Callers \ {c} : req'[d] = req[d]
      BY <2>7 DEF Research, Passed, TypeOK, Request
    <3>2. Cardinality(Passed') \in Nat /\ Cardinality(Passed') <= Cardinality(Passed)
      BY <2>0, <3>1, PassedStep
    <3> QED
      BY <2>0, <3>1, <3>2 DEF CapInv
  <2>8. ASSUME NEW c \in Callers, Record(c) PROVE CapInv'
    <3>1. c \notin Passed'
      <4>1. Onward(c, {}).pc \notin {"call", "record"}
        BY OnwardNotPassed DEF TypeOK
      <4> QED
        BY <2>8, <4>1 DEF Record, Passed, TypeOK, Request
    <3>2. calls' = IF c \in Passed THEN calls + 1 ELSE calls
      BY <2>8 DEF Record, Recorded, Passed
    <3>3. \A d \in Callers \ {c} : req'[d] = req[d]
      BY <2>8 DEF Record, TypeOK
    <3>4. /\ Cardinality(Passed') \in Nat
          /\ Cardinality(Passed') <= Cardinality(Passed)
          /\ c \in Passed => Cardinality(Passed') = Cardinality(Passed) - 1
      BY <3>1, <3>3, PassedStep
    <3> QED
      BY <2>0, <3>2, <3>4 DEF CapInv
  <2>9. ASSUME NEW c \in Callers, Fail(c) \/ Finish(c) PROVE CapInv'
    BY <2>1, <2>9 DEF Fail, Finish, NoRequest
  <2>10. CASE Midnight \/ UNCHANGED vars \/ \E k \in Key : Expire(k)
    <3>1. Passed' = Passed /\ calls' <= calls /\ calls' \in Nat
      BY <2>0, <2>10 DEF Midnight, Expire, vars, Passed
    <3> QED
      BY <2>0, <3>1 DEF CapInv
  <2>11. CASE Crash
    <3>1. Passed' = {} /\ calls' = calls
      BY <2>11 DEF Crash, Passed, NoRequest
    <3> QED
      BY <2>0, <3>1, FS_EmptySet DEF CapInv
  <2> QED
    BY <2>2, <2>3, <2>4, <2>5, <2>6, <2>7, <2>8, <2>9, <2>10, <2>11 DEF Next, Climb
<1>3. TypeOK /\ CapInv => CapNearlyKept
  <2> SUFFICES ASSUME TypeOK, CapInv PROVE CapNearlyKept
    OBVIOUS
  <2>1. Passed \subseteq Callers
    BY DEF Passed
  <2>2. Cardinality(Passed) \in Nat /\ Cardinality(Callers) \in Nat
    BY <2>1, LadderAssumption, FS_CardinalityType, FS_Subset DEF LadderAssumption
  <2> QED
    BY <2>2, LadderAssumption DEF CapInv, CapNearlyKept, TypeOK, LadderAssumption
<1> QED
  BY <1>1, <1>2, <1>3, TypeCorrect, PTL DEF Spec

-----------------------------------------------------------------------------
\* The requests whose paid call has been made and is not counted yet.
InCalls == {c \in Callers : InCall(c)}

\* A step of one request leaves `owed` right when it owes one more for a call it makes, and
\* one less for the call it counts or gives up.
LEMMA CountedStep ==
  ASSUME LadderAssumption, TypeOK, EveryCallCounted, NEW c \in Callers,
         \A d \in Callers \ {c} : req'[d] = req[d],
         owed' = IF InCall(c)' THEN IF InCall(c) THEN owed ELSE owed + 1
                 ELSE IF InCall(c) THEN owed - 1 ELSE owed
  PROVE  EveryCallCounted'
<1>1. /\ InCalls \in SUBSET Callers /\ InCalls' \in SUBSET Callers
      /\ \A d \in Callers \ {c} : d \in InCalls <=> d \in InCalls'
      /\ c \in InCalls <=> InCall(c)
      /\ c \in InCalls' <=> InCall(c)'
  BY DEF InCalls, InCall
<1>2. owed = Cardinality(InCalls)
  BY DEF EveryCallCounted, InCalls
<1>3. owed' = Cardinality(InCalls')
  BY <1>1, <1>2, OneMoves DEF LadderAssumption
<1> QED
  BY <1>3 DEF EveryCallCounted, InCalls

\* Every paid call is counted, failed or not, cached or not, unless the process or the
\* database fails before the count: nothing is owed but for calls under way.
THEOREM CallsAreCounted == Spec => []EveryCallCounted
<1>1. Init => EveryCallCounted
  <2> SUFFICES ASSUME Init PROVE EveryCallCounted
    OBVIOUS
  <2>1. {c \in Callers : InCall(c)} = {}
    BY DEF Init, InCall, NoRequest
  <2> QED
    BY <2>1, FS_EmptySet DEF Init, EveryCallCounted
<1>2. TypeOK /\ EveryCallCounted /\ [Next]_vars => EveryCallCounted'
  <2> SUFFICES ASSUME TypeOK, EveryCallCounted, [Next]_vars PROVE EveryCallCounted'
    OBVIOUS
  <2> USE LadderAssumption
  <2>1. ASSUME NEW c \in Callers, NEW r, req' = [req EXCEPT ![c] = r], r.pc # "record",
               owed' = IF InCall(c) THEN owed - 1 ELSE owed
        PROVE  EveryCallCounted'
    <3>1. ~InCall(c)' /\ \A d \in Callers \ {c} : req'[d] = req[d]
      BY <2>1 DEF InCall, TypeOK
    <3> QED
      BY <2>1, <3>1, CountedStep
  <2>2. ASSUME NEW c \in Callers, NEW q \in Questions, NEW person \in BOOLEAN,
               NEW depth \in Depths, NEW limit \in Limits, Ask(c, q, person, depth, limit)
        PROVE  EveryCallCounted'
    <3> DEFINE r == [NoRequest EXCEPT !.pc = "open", !.q = q, !.person = person,
                                      !.depth = depth, !.limit = limit]
    <3>1. owed' = owed /\ ~InCall(c) /\ req' = [req EXCEPT ![c] = r]
      BY <2>2 DEF Ask, InCall
    <3>2. r.pc # "record"
      BY DEF NoRequest
    <3> HIDE DEF r
    <3> QED
      BY <2>1, <3>1, <3>2
  <2>3. ASSUME NEW c \in Callers, OpenIndexStep(c) PROVE EveryCallCounted'
    <3>1. PICK found :
            req' = [req EXCEPT ![c] = [@ EXCEPT !.pc = "lookup", !.step = "deepseek",
                                                !.found = found]]
      BY <2>3 DEF OpenIndexStep
    <3> DEFINE r == [req[c] EXCEPT !.pc = "lookup", !.step = "deepseek", !.found = found]
    <3>2. r.pc = "lookup"
      BY DEF TypeOK, Request
    <3> QED
      BY <2>1, <2>3, <3>1, <3>2 DEF OpenIndexStep, InCall
  <2>4. ASSUME NEW c \in Callers,
               Skip(c) \/ CacheHit(c) \/ Store(c) \/ StoreFails(c)
        PROVE  EveryCallCounted'
    <3>1. PICK more : req' = [req EXCEPT ![c] = Onward(c, more)]
      BY <2>4 DEF Skip, CacheHit, Store, StoreFails
    <3>2. Onward(c, more).pc # "record"
      BY OnwardNotPassed DEF TypeOK
    <3>3. owed' = owed /\ ~InCall(c)
      BY <2>4 DEF Skip, CacheHit, Store, StoreFails, InCall
    <3> QED
      BY <2>1, <3>1, <3>2, <3>3
  <2>5. ASSUME NEW c \in Callers, CacheMiss(c) \/ CacheUnread(c) \/ CheckCap(c)
        PROVE  EveryCallCounted'
    <3>1. /\ owed' = owed /\ ~InCall(c)
          /\ Onward(c, {}).pc # "record"
      BY <2>5, OnwardNotPassed DEF CacheMiss, CacheUnread, CheckCap, Missed, InCall, TypeOK
    <3>2. ~InCall(c)' /\ \A d \in Callers \ {c} : req'[d] = req[d]
      BY <2>5, <3>1 DEF CacheMiss, CacheUnread, CheckCap, Missed, InCall, TypeOK, Request
    <3> QED
      BY <3>1, <3>2, CountedStep
  <2>6. ASSUME NEW c \in Callers, NEW answer \in Answers, Research(c, answer)
        PROVE  EveryCallCounted'
    <3>1. /\ ~InCall(c)
          /\ InCall(c)' <=> Paid(req[c].step)
          /\ \A d \in Callers \ {c} : req'[d] = req[d]
      BY <2>6 DEF Research, InCall, Paid, TypeOK, Request
    <3>2. owed' = IF Paid(req[c].step) THEN owed + 1 ELSE owed
      BY <2>6 DEF Research
    <3> QED
      BY <3>1, <3>2, CountedStep
  <2>7. ASSUME NEW c \in Callers, Record(c) PROVE EveryCallCounted'
    <3>1. Onward(c, {}).pc # "record"
      BY OnwardNotPassed DEF TypeOK
    <3>2. ~InCall(c)' /\ \A d \in Callers \ {c} : req'[d] = req[d]
      BY <2>7, <3>1 DEF Record, InCall, TypeOK, Request
    <3>3. owed' = IF InCall(c) THEN owed - 1 ELSE owed
      BY <2>7 DEF Record, Recorded, InCall
    <3> QED
      BY <3>2, <3>3, CountedStep
  <2>8. ASSUME NEW c \in Callers, Fail(c) \/ Finish(c) PROVE EveryCallCounted'
    <3>1. owed' = IF InCall(c) THEN owed - 1 ELSE owed
      BY <2>8 DEF Fail, Finish, InCall
    <3> QED
      BY <2>1, <2>8, <3>1 DEF Fail, Finish, NoRequest
  <2>9. CASE Midnight \/ UNCHANGED vars \/ \E k \in Key : Expire(k)
    BY <2>9 DEF Midnight, Expire, vars, EveryCallCounted, InCall
  <2>10. CASE Crash
    <3>1. InCalls' = {}
      BY <2>10 DEF Crash, InCalls, InCall, NoRequest
    <3>2. owed = Cardinality(InCalls) /\ owed \in Int /\ owed' = owed - Cardinality(InCalls)
      BY <2>10 DEF Crash, TypeOK, EveryCallCounted, InCalls
    <3>3. owed' = Cardinality(InCalls')
      BY <3>1, <3>2, FS_EmptySet
    <3> QED
      BY <3>3 DEF EveryCallCounted, InCalls
  <2> QED
    BY <2>2, <2>3, <2>4, <2>5, <2>6, <2>7, <2>8, <2>9, <2>10 DEF Next, Climb
<1> QED
  BY <1>1, <1>2, TypeCorrect, PTL DEF Spec

-----------------------------------------------------------------------------
\* An answer on its way to the cache is one that its step has given to its question.
AnswerKept ==
  \A c \in Callers :
    req[c].pc \in {"record", "store"} /\ req[c].answer # NoAnswer =>
      req[c].answer \subseteq answered[CacheKey(c)]

\* What the cache serves as a step's answer that step's provider has answered to the question:
\* cacheKey never lets a paid answer pass for a free one, nor one question's for another's.
THEOREM CacheServesTheStep == Spec => []CachedIsAnswered
<1> DEFINE Inv == AnswerKept /\ CachedIsAnswered
<1>1. Init => Inv
  BY DEF Init, AnswerKept, CachedIsAnswered, NoRequest
<1>2. TypeOK /\ Inv /\ [Next]_vars => Inv'
  <2> SUFFICES ASSUME TypeOK, AnswerKept, CachedIsAnswered, [Next]_vars
               PROVE  AnswerKept' /\ CachedIsAnswered'
    BY DEF Inv
  <2> HIDE DEF Inv
  <2>1. ASSUME NEW c \in Callers, NEW r, req' = [req EXCEPT ![c] = r],
               r.pc \notin {"record", "store"}, answered' = answered
        PROVE  AnswerKept'
    <3>1. req'[c] = r /\ \A d \in Callers \ {c} : req'[d] = req[d]
      BY <2>1 DEF TypeOK
    <3> QED
      BY <2>1, <3>1 DEF AnswerKept, CacheKey
  <2>2. ASSUME cache' = cache, answered' = answered
        PROVE  CachedIsAnswered'
    BY <2>2 DEF CachedIsAnswered
  <2>3. ASSUME NEW c \in Callers, NEW more
        PROVE  Onward(c, more).pc \notin {"record", "store"}
    BY DEF Onward, TypeOK, Request
  <2>4. ASSUME NEW c \in Callers, NEW q \in Questions, NEW person \in BOOLEAN,
               NEW depth \in Depths, NEW limit \in Limits, Ask(c, q, person, depth, limit)
        PROVE  AnswerKept' /\ CachedIsAnswered'
    BY <2>1, <2>2, <2>4 DEF Ask, NoRequest
  <2>5. ASSUME NEW c \in Callers, OpenIndexStep(c)
        PROVE  AnswerKept' /\ CachedIsAnswered'
    <3>1. PICK found :
            req' = [req EXCEPT ![c] = [@ EXCEPT !.pc = "lookup", !.step = "deepseek",
                                                !.found = found]]
      BY <2>5 DEF OpenIndexStep
    <3> DEFINE r == [req[c] EXCEPT !.pc = "lookup", !.step = "deepseek", !.found = found]
    <3>2. r.pc = "lookup" /\ cache' = cache /\ answered' = answered
      BY <2>5 DEF TypeOK, Request, OpenIndexStep
    <3> QED
      BY <2>1, <2>2, <3>1, <3>2
  <2>6. ASSUME NEW c \in Callers, Skip(c) \/ CacheHit(c) \/ StoreFails(c)
        PROVE  AnswerKept' /\ CachedIsAnswered'
    BY <2>1, <2>2, <2>3, <2>6 DEF Skip, CacheHit, StoreFails
  <2>7. ASSUME NEW c \in Callers, CacheMiss(c) \/ CacheUnread(c) \/ CheckCap(c)
        PROVE  AnswerKept' /\ CachedIsAnswered'
    <3>1. cache' = cache /\ answered' = answered
      BY <2>7 DEF CacheMiss, CacheUnread, CheckCap
    <3>2. \E r : req' = [req EXCEPT ![c] = r] /\ r.pc \notin {"record", "store"}
      <4>1. CASE req' = [req EXCEPT ![c] = Onward(c, {})]
        BY <2>3, <4>1
      <4>2. ASSUME NEW p \in {"cap", "call"}, req' = [req EXCEPT ![c] = [@ EXCEPT !.pc = p]]
            PROVE  \E r : req' = [req EXCEPT ![c] = r] /\ r.pc \notin {"record", "store"}
        <5>1. [req[c] EXCEPT !.pc = p].pc = p
          BY DEF TypeOK, Request
        <5> QED
          BY <4>2, <5>1
      <4> QED
        BY <2>7, <4>1, <4>2 DEF CacheMiss, CacheUnread, Missed, CheckCap
    <3> QED
      BY <2>1, <2>2, <3>1, <3>2
  <2>8. ASSUME NEW c \in Callers, NEW answer \in Answers, Research(c, answer)
        PROVE  AnswerKept' /\ CachedIsAnswered'
    <3>1. CacheKey(c) \in Key
      BY <2>8 DEF Research, CacheKey, Key, TypeOK
    <3>2. /\ \A k \in Key : answered[k] \subseteq answered'[k]
          /\ answer # NoAnswer => answer \subseteq answered'[CacheKey(c)]
      BY <2>8, <3>1 DEF Research, CacheKey, TypeOK
    <3>3. /\ req'[c].answer = answer /\ CacheKey(c)' = CacheKey(c)
          /\ \A d \in Callers \ {c} : req'[d] = req[d]
      BY <2>8 DEF Research, CacheKey, TypeOK, Request
    <3>4. \A d \in Callers : req[d].pc \in {"record", "store"} => CacheKey(d) \in Key
      BY DEF CacheKey, Key, TypeOK
    <3>5. AnswerKept'
      <4> SUFFICES ASSUME NEW d \in Callers, req'[d].pc \in {"record", "store"},
                          req'[d].answer # NoAnswer
                   PROVE  req'[d].answer \subseteq answered'[CacheKey(d)']
        BY DEF AnswerKept
      <4>1. CASE d = c
        BY <3>2, <3>3, <4>1
      <4>2. CASE d # c
        <5>1. req'[d] = req[d] /\ CacheKey(d)' = CacheKey(d)
          BY <3>3, <4>2 DEF CacheKey
        <5>2. req[d].answer \subseteq answered[CacheKey(d)]
          BY <5>1 DEF AnswerKept
        <5> QED
          BY <3>2, <3>4, <5>1, <5>2
      <4> QED
        BY <4>1, <4>2
    <3>6. CachedIsAnswered'
      BY <2>8, <3>2 DEF Research, CachedIsAnswered
    <3> QED
      BY <3>5, <3>6
  <2>9. ASSUME NEW c \in Callers, Record(c)
        PROVE  AnswerKept' /\ CachedIsAnswered'
    <3>1. cache' = cache /\ answered' = answered
      BY <2>9 DEF Record
    <3>2. CASE req[c].answer = NoAnswer
      BY <2>1, <2>2, <2>3, <2>9, <3>1, <3>2 DEF Record
    <3>3. CASE req[c].answer # NoAnswer
      <4>1. /\ req'[c].answer = req[c].answer /\ CacheKey(c)' = CacheKey(c)
            /\ \A d \in Callers \ {c} : req'[d] = req[d]
            /\ req[c].pc = "record"
        BY <2>9, <3>3 DEF Record, CacheKey, TypeOK, Request
      <4>2. AnswerKept'
        BY <3>1, <4>1 DEF AnswerKept, CacheKey
      <4> QED
        BY <2>2, <3>1, <4>2
    <3> QED
      BY <3>2, <3>3
  <2>10. ASSUME NEW c \in Callers, Store(c)
         PROVE  AnswerKept' /\ CachedIsAnswered'
    <3>1. req[c].answer \subseteq answered[CacheKey(c)] /\ answered' = answered
      BY <2>10 DEF Store, AnswerKept, TypeOK
    <3>2. CachedIsAnswered'
      BY <2>10, <3>1 DEF Store, CachedIsAnswered, TypeOK
    <3> QED
      BY <2>1, <2>3, <2>10, <3>1, <3>2 DEF Store
  <2>11. ASSUME NEW c \in Callers, Fail(c) \/ Finish(c)
         PROVE  AnswerKept' /\ CachedIsAnswered'
    BY <2>1, <2>2, <2>11 DEF Fail, Finish, NoRequest
  <2>12. ASSUME NEW k \in Key, Expire(k)
         PROVE  AnswerKept' /\ CachedIsAnswered'
    BY <2>12 DEF Expire, AnswerKept, CachedIsAnswered, CacheKey, TypeOK
  <2>13. CASE Midnight \/ UNCHANGED vars
    BY <2>13 DEF Midnight, vars, AnswerKept, CachedIsAnswered, CacheKey
  <2>14. CASE Crash
    BY <2>14 DEF Crash, AnswerKept, CachedIsAnswered, NoRequest
  <2> QED
    BY <2>4, <2>5, <2>6, <2>7, <2>8, <2>9, <2>10, <2>11, <2>12, <2>13, <2>14 DEF Next, Climb
<1>3. Inv => CachedIsAnswered
  BY DEF Inv
<1> QED
  BY <1>1, <1>2, <1>3, TypeCorrect, PTL DEF Spec

-----------------------------------------------------------------------------
\* The requests that have missed the cache of a question and have not bought its answer yet.
Buying(q) == {c \in Callers : /\ req[c].pc \in {"cap", "call"}
                              /\ req[c].q = q /\ req[c].step = "deepseek"}
Buyers(q) == Cardinality(Buying(q))
CallerCount == Cardinality(Callers)
\* An answer enters the cache by one of those that missed it. The others may still buy; after
\* that nobody joins them but whom a fault keeps from reading the cache.
AgainInv ==
  \A q \in Questions :
    IF cache[<<q, "deepseek">>] = NoAnswer THEN again[q] = 0
    ELSE again[q] + Buyers(q) <= CallerCount - 1 + faults

\* One request moves: what becomes of the number of those that may still buy an answer.
LEMMA BuyingStep ==
  ASSUME LadderAssumption, TypeOK, NEW c \in Callers, NEW q,
         \A d \in Callers \ {c} : req'[d] = req[d]
  PROVE  /\ Buyers(q) \in Nat /\ Buyers(q)' \in Nat
         /\ CallerCount \in Nat
         /\ Buyers(q)' =
              IF c \in Buying(q)' THEN IF c \in Buying(q) THEN Buyers(q)
                                       ELSE Buyers(q) + 1
              ELSE IF c \in Buying(q) THEN Buyers(q) - 1
                   ELSE Buyers(q)
         /\ c \notin Buying(q)' => Buyers(q)' <= CallerCount - 1
<1>1. /\ Buying(q) \in SUBSET Callers /\ Buying(q)' \in SUBSET Callers
      /\ \A d \in Callers \ {c} : d \in Buying(q) <=> d \in Buying(q)'
  BY DEF Buying
<1> HIDE DEF Buying
<1> QED
  BY <1>1, OneMoves DEF LadderAssumption, Buyers, CallerCount

\* AgainInv stands when a request buys nothing and does not join those that may.
LEMMA NobodyJoins ==
  ASSUME LadderAssumption, TypeOK, TypeOK', AgainInv, NEW c \in Callers,
         \A d \in Callers \ {c} : req'[d] = req[d],
         \A q \in Questions : c \in Buying(q)' => c \in Buying(q),
         cache' = cache, again' = again, faults' >= faults
  PROVE  AgainInv'
<1> SUFFICES ASSUME NEW q \in Questions, cache[<<q, "deepseek">>] # NoAnswer
             PROVE  again[q] + Buyers(q)' <= CallerCount - 1 + faults'
  BY DEF AgainInv
<1>1. /\ Buyers(q) \in Nat /\ Buyers(q)' \in Nat
      /\ CallerCount \in Nat
      /\ Buyers(q)' <= Buyers(q)
  BY BuyingStep
<1>2. again[q] + Buyers(q) <= CallerCount - 1 + faults
  BY DEF AgainInv
<1>3. again[q] \in Nat /\ faults \in Nat /\ faults' \in Nat
  BY DEF TypeOK, LadderAssumption
<1> QED
  BY <1>1, <1>2, <1>3

\* While an answer is cached it is bought again at most once by each request that had missed
\* it before, and once for every failed read of the cache.
THEOREM BoughtOnce == Spec => []BoughtOncePerMiss
<1>1. Init => AgainInv
  BY DEF Init, AgainInv, Key, Steps
<1>2. TypeOK /\ TypeOK' /\ AgainInv /\ [Next]_vars => AgainInv'
  <2> SUFFICES ASSUME TypeOK, TypeOK', AgainInv, [Next]_vars PROVE AgainInv'
    OBVIOUS
  <2> USE LadderAssumption
  <2>0. faults \in Nat /\ faults' \in Nat /\ (Fault => faults' = faults + 1)
    BY DEF TypeOK, Fault, LadderAssumption
  <2>1. ASSUME NEW c \in Callers, NEW r, req' = [req EXCEPT ![c] = r],
               r.pc \notin {"cap", "call"}, cache' = cache, again' = again,
               faults' = faults \/ Fault
        PROVE  AgainInv'
    <3>1. /\ \A d \in Callers \ {c} : req'[d] = req[d]
          /\ \A q \in Questions : c \notin Buying(q)'
          /\ faults' >= faults
      BY <2>0, <2>1 DEF Buying, TypeOK, Fault
    <3> QED
      BY <2>1, <3>1, NobodyJoins
  <2>2. ASSUME NEW c \in Callers, NEW more
        PROVE  Onward(c, more).pc \notin {"cap", "call"}
    BY DEF Onward, TypeOK, Request
  <2>3. ASSUME NEW c \in Callers, NEW q \in Questions, NEW person \in BOOLEAN,
               NEW depth \in Depths, NEW limit \in Limits, Ask(c, q, person, depth, limit)
        PROVE  AgainInv'
    BY <2>1, <2>3 DEF Ask, NoRequest
  <2>4. ASSUME NEW c \in Callers, OpenIndexStep(c) PROVE AgainInv'
    <3>1. PICK found :
            req' = [req EXCEPT ![c] = [@ EXCEPT !.pc = "lookup", !.step = "deepseek",
                                                !.found = found]]
      BY <2>4 DEF OpenIndexStep
    <3> DEFINE r == [req[c] EXCEPT !.pc = "lookup", !.step = "deepseek", !.found = found]
    <3>2. r.pc = "lookup"
      BY DEF TypeOK, Request
    <3> QED
      BY <2>1, <2>4, <3>1, <3>2 DEF OpenIndexStep
  <2>5. ASSUME NEW c \in Callers, Skip(c) \/ CacheHit(c) \/ StoreFails(c) PROVE AgainInv'
    BY <2>1, <2>2, <2>5 DEF Skip, CacheHit, StoreFails
  <2>6. ASSUME NEW c \in Callers, CacheMiss(c) \/ CacheUnread(c) PROVE AgainInv'
    <3>1. cache' = cache /\ again' = again /\ (faults' = faults \/ Fault)
      BY <2>6 DEF CacheMiss, CacheUnread
    <3>2. CASE ~Allowed(c)
      BY <2>1, <2>2, <2>6, <3>1, <3>2 DEF CacheMiss, CacheUnread, Missed
    <3>3. CASE Allowed(c)
      <4>1. /\ \A d \in Callers \ {c} : req'[d] = req[d]
            /\ req'[c].q = req[c].q /\ req'[c].step = req[c].step /\ req[c].pc = "lookup"
        BY <2>6, <3>3 DEF CacheMiss, CacheUnread, Missed, TypeOK, Request
      <4> SUFFICES ASSUME NEW q \in Questions, cache[<<q, "deepseek">>] # NoAnswer
                   PROVE  again[q] + Buyers(q)' <= CallerCount - 1 + faults'
        BY <3>1 DEF AgainInv
      <4>2. /\ Buyers(q) \in Nat /\ Buyers(q)' \in Nat
            /\ CallerCount \in Nat /\ again[q] \in Nat
            /\ Buyers(q)' <= Buyers(q) + 1
            /\ c \notin Buying(q)' => Buyers(q)' <= Buyers(q)
        <5>1. again[q] \in Nat
          BY DEF TypeOK
        <5> QED
          BY <4>1, <5>1, BuyingStep
      <4>3. again[q] + Buyers(q) <= CallerCount - 1 + faults
        BY DEF AgainInv
      <4>4. CASE CacheMiss(c)
        <5>1. c \notin Buying(q)' /\ faults' = faults
          BY <4>1, <4>4 DEF CacheMiss, Buying, Cached, CacheKey
        <5> QED
          BY <2>0, <4>2, <4>3, <5>1
      <4>5. CASE CacheUnread(c)
        BY <2>0, <4>2, <4>3, <4>5 DEF CacheUnread
      <4> QED
        BY <2>6, <4>4, <4>5
    <3> QED
      BY <3>2, <3>3
  <2>7. ASSUME NEW c \in Callers, CheckCap(c) PROVE AgainInv'
    <3>1. CASE CapReached(c)
      BY <2>1, <2>2, <2>7, <3>1 DEF CheckCap
    <3>2. CASE ~CapReached(c)
      <4>1. /\ \A d \in Callers \ {c} : req'[d] = req[d]
            /\ \A q \in Questions : c \in Buying(q)' => c \in Buying(q)
        BY <2>7, <3>2 DEF CheckCap, Buying, TypeOK, Request
      <4> QED
        BY <2>0, <2>7, <4>1, NobodyJoins DEF CheckCap
    <3> QED
      BY <3>1, <3>2
  <2>8. ASSUME NEW c \in Callers, NEW answer \in Answers, Research(c, answer) PROVE AgainInv'
    <3>1. /\ \A d \in Callers \ {c} : req'[d] = req[d]
          /\ req'[c].pc = "record" /\ cache' = cache /\ faults' = faults
          /\ req[c].q \in Questions /\ req[c].pc = "call"
      BY <2>8 DEF Research, TypeOK, Request
    <3>2. CASE again' = again
      <4>1. \A q \in Questions : c \notin Buying(q)'
        BY <3>1 DEF Buying
      <4> QED
        BY <2>0, <3>1, <3>2, <4>1, NobodyJoins
    <3>3. CASE again' # again
      <4>1. /\ again' = [again EXCEPT ![req[c].q] = @ + 1]
            /\ req[c].step = "deepseek" /\ cache[<<req[c].q, "deepseek">>] # NoAnswer
        BY <2>8, <3>3 DEF Research, Paid
      <4> SUFFICES ASSUME NEW q \in Questions
                   PROVE  IF cache[<<q, "deepseek">>] = NoAnswer THEN again'[q] = 0
                          ELSE again'[q] + Buyers(q)'
                                 <= CallerCount - 1 + faults
        BY <3>1 DEF AgainInv
      <4>2. again \in [Questions -> Nat]
        BY DEF TypeOK
      <4>3. again'[q] = IF q = req[c].q THEN again[q] + 1 ELSE again[q]
        BY <4>1, <4>2
      <4>4. CASE q # req[c].q /\ cache[<<q, "deepseek">>] = NoAnswer
        BY <4>3, <4>4 DEF AgainInv
      <4>5. CASE cache[<<q, "deepseek">>] # NoAnswer
        <5>1. again[q] + Buyers(q) <= CallerCount - 1 + faults
          BY <4>5 DEF AgainInv
        <5>2. c \notin Buying(q)' /\ (q = req[c].q => c \in Buying(q))
          BY <3>1, <4>1 DEF Buying
        <5>3. /\ Buyers(q) \in Nat /\ Buyers(q)' \in Nat
              /\ CallerCount \in Nat /\ again[q] \in Nat
              /\ Buyers(q)' = IF c \in Buying(q) THEN Buyers(q) - 1
                                           ELSE Buyers(q)
          BY <3>1, <4>2, <5>2, BuyingStep
        <5> QED
          BY <2>0, <4>3, <4>5, <5>1, <5>2, <5>3
      <4> QED
        BY <4>1, <4>4, <4>5
    <3> QED
      BY <3>2, <3>3
  <2>9. ASSUME NEW c \in Callers, Record(c) PROVE AgainInv'
    <3>1. CASE req[c].answer = NoAnswer
      BY <2>1, <2>2, <2>9, <3>1 DEF Record
    <3>2. CASE req[c].answer # NoAnswer
      <4>1. [req[c] EXCEPT !.pc = "store"].pc = "store"
        BY DEF TypeOK, Request
      <4> QED
        BY <2>1, <2>9, <3>2, <4>1 DEF Record
    <3> QED
      BY <3>1, <3>2
  <2>10. ASSUME NEW c \in Callers, Store(c) PROVE AgainInv'
    <3>1. /\ req' = [req EXCEPT ![c] = Onward(c, req[c].answer)]
          /\ cache' = [cache EXCEPT ![CacheKey(c)] = req[c].answer]
          /\ req[c].answer # NoAnswer /\ CacheKey(c) \in Key
          /\ again' = again /\ faults' = faults
      BY <2>10 DEF Store, TypeOK, CacheKey, Key
    <3>2. /\ \A d \in Callers \ {c} : req'[d] = req[d]
          /\ \A q \in Questions : c \notin Buying(q)'
      BY <2>2, <3>1 DEF Buying, TypeOK
    <3> SUFFICES ASSUME NEW q \in Questions
                 PROVE  IF cache'[<<q, "deepseek">>] = NoAnswer THEN again[q] = 0
                        ELSE again[q] + Buyers(q)'
                               <= CallerCount - 1 + faults
      BY <3>1 DEF AgainInv
    <3>3. /\ Buyers(q) \in Nat /\ Buyers(q)' \in Nat
          /\ CallerCount \in Nat /\ again[q] \in Nat
          /\ Buyers(q)' <= Buyers(q)
          /\ Buyers(q)' <= CallerCount - 1
      BY <3>2, BuyingStep DEF TypeOK
    <3>4. CASE cache[<<q, "deepseek">>] # NoAnswer
      <4>1. again[q] + Buyers(q) <= CallerCount - 1 + faults
        BY <3>4 DEF AgainInv
      <4>2. cache'[<<q, "deepseek">>] # NoAnswer
        BY <3>1, <3>4 DEF TypeOK, Key, Steps
      <4> QED
        BY <2>0, <3>3, <4>1, <4>2
    <3>5. CASE cache[<<q, "deepseek">>] = NoAnswer
      <4>1. again[q] = 0
        BY <3>5 DEF AgainInv
      <4> QED
        BY <2>0, <3>3, <4>1
    <3> QED
      BY <3>4, <3>5
  <2>11. ASSUME NEW c \in Callers, Fail(c) \/ Finish(c) PROVE AgainInv'
    BY <2>1, <2>11 DEF Fail, Finish, NoRequest
  <2>12. CASE Midnight \/ UNCHANGED vars
    <3>1. UNCHANGED <<req, cache, again, faults>>
      BY <2>12 DEF Midnight, vars
    <3>2. \A q \in Questions : Buyers(q)' = Buyers(q)
      BY <3>1 DEF Buyers, Buying
    <3> QED
      BY <3>1, <3>2 DEF AgainInv
  <2>13. ASSUME NEW k \in Key, Expire(k) PROVE AgainInv'
    <3>1. /\ k = <<k[1], k[2]>> /\ k[1] \in Questions
          /\ cache' = [cache EXCEPT ![k] = NoAnswer]
          /\ again' = IF k[2] = "deepseek" THEN [again EXCEPT ![k[1]] = 0] ELSE again
      BY <2>13 DEF Expire, Key, Paid
    <3> SUFFICES ASSUME NEW q \in Questions
                 PROVE  IF cache'[<<q, "deepseek">>] = NoAnswer THEN again'[q] = 0
                        ELSE again'[q] + Buyers(q)' <= CallerCount - 1 + faults'
      BY DEF AgainInv
    <3>2. Buyers(q)' = Buyers(q) /\ faults' = faults
      BY <2>13 DEF Expire, Buyers, Buying
    <3>3. <<q, "deepseek">> \in Key /\ cache \in [Key -> Answers] /\ again \in [Questions -> Nat]
      BY DEF TypeOK, Key, Steps
    <3>4. CASE k = <<q, "deepseek">>
      BY <3>1, <3>3, <3>4
    <3>5. CASE k # <<q, "deepseek">>
      <4>1. cache'[<<q, "deepseek">>] = cache[<<q, "deepseek">>] /\ again'[q] = again[q]
        BY <3>1, <3>3, <3>5
      <4> QED
        BY <3>2, <4>1 DEF AgainInv
    <3> QED
      BY <3>4, <3>5
  <2>14. CASE Crash
    <3>1. /\ \A q \in Questions : Buying(q)' = {}
          /\ cache' = cache /\ again' = again /\ faults' = faults + 1
      BY <2>0, <2>14 DEF Crash, Buying, NoRequest
    <3> SUFFICES ASSUME NEW q \in Questions, cache[<<q, "deepseek">>] # NoAnswer
                 PROVE  again[q] + Buyers(q)' <= CallerCount - 1 + faults'
      BY <3>1 DEF AgainInv
    <3>2. again[q] + Buyers(q) <= CallerCount - 1 + faults
      BY DEF AgainInv
    <3>3. Buying(q) \subseteq Callers
      BY DEF Buying
    <3>4. Buyers(q) \in Nat /\ CallerCount \in Nat /\ again[q] \in Nat
      BY <3>3, FS_Subset, FS_CardinalityType DEF LadderAssumption, TypeOK, Buyers, CallerCount
    <3>5. Buyers(q)' = 0
      BY <3>1, FS_EmptySet DEF Buyers
    <3> QED
      BY <2>0, <3>1, <3>2, <3>4, <3>5
  <2> QED
    BY <2>3, <2>4, <2>5, <2>6, <2>7, <2>8, <2>9, <2>10, <2>11, <2>12, <2>13, <2>14
       DEF Next, Climb
<1>3. TypeOK /\ AgainInv => BoughtOncePerMiss
  <2> SUFFICES ASSUME TypeOK, AgainInv, NEW q \in Questions
               PROVE  again[q] <= CallerCount - 1 + faults
    BY DEF BoughtOncePerMiss, CallerCount
  <2>1. Buying(q) \subseteq Callers
    BY DEF Buying
  <2>2. /\ Buyers(q) \in Nat /\ CallerCount \in Nat
        /\ again[q] \in Nat /\ faults \in Nat /\ CallerCount # 0
    BY <2>1, LadderAssumption, FS_Subset, FS_CardinalityType, FS_EmptySet
       DEF LadderAssumption, TypeOK, Buyers, CallerCount
  <2>3. CASE cache[<<q, "deepseek">>] = NoAnswer
    BY <2>2, <2>3 DEF AgainInv, CallerCount
  <2>4. CASE cache[<<q, "deepseek">>] # NoAnswer
    <3>1. again[q] + Buyers(q) <= CallerCount - 1 + faults
      BY <2>4 DEF AgainInv
    <3> QED
      BY <2>2, <3>1 DEF CallerCount
  <2> QED
    BY <2>3, <2>4
<1> QED
  BY <1>1, <1>2, <1>3, TypeCorrect, PTL DEF Spec

-----------------------------------------------------------------------------
(* Whole requests. *)

\* Every request that may come is one that the ladder knows.
LEMMA RequestsAreBodies ==
  ASSUME NEW c \in Callers, NEW r \in Requests[c]
  PROVE  r \in Body
BY FabricAssumption

\* A refusal leaves the ladder alone, or ends it when it has come to its answer.
LEMMA RefusalIsNoOther ==
  ASSUME NEW c \in Callers, Refuse(c)
  PROVE  Finish(c) \/ UNCHANGED vars
BY DEF Refuse

\* Every step of a request is a step of its ladder or leaves the ladder as it is.
LEMMA FabricStepIsLadderStep ==
  ASSUME FabricNext
  PROVE  [Next]_vars
<1>1. ASSUME NEW c \in Callers, NEW r \in Requests[c], Query(c, r)
      PROVE  [Next]_vars
  <2>1. r \in Body
    BY <1>1, RequestsAreBodies
  <2>2. CASE Contains(r.scopes, "web")
    <3>1. Ask(c, r.q, r.person, r.depth, r.limit)
      BY <1>1, <2>2 DEF Query
    <3>2. /\ r.q \in Questions /\ r.person \in BOOLEAN
          /\ r.depth \in Depths /\ r.limit \in Limits
      BY <2>1 DEF Body, Depths
    <3> QED
      BY <3>1, <3>2 DEF Next
  <2>3. CASE ~Contains(r.scopes, "web")
    BY <1>1, <2>3 DEF Query
  <2> QED
    BY <2>2, <2>3
<1>2. ASSUME NEW c \in Callers,
             \/ RefuseCursor(c) \/ RefuseFault(c)
      PROVE  [Next]_vars
  BY <1>2, RefusalIsNoOther DEF RefuseCursor, RefuseFault, Next
<1>3. ASSUME NEW c \in Callers,
             \/ LadderFails(c) \/ ClimbOn(c) \/ ClimbUnread(c) \/ ClimbUnstored(c)
             \/ Reply(c) \/ OrphanEnds(c)
      PROVE  [Next]_vars
  BY <1>3 DEF LadderFails, ClimbOn, ClimbUnread, ClimbUnstored, Reply, OrphanEnds, Next
<1>4. ASSUME NEW c \in Callers, NEW s \in DOMAIN fab[c].read, NEW n \in 0 .. MaxRead,
             ReadIndex(c, s, n)
      PROVE  [Next]_vars
  BY <1>4 DEF ReadIndex
<1>5. ASSUME Elsewhere \/ FabricCrash
      PROVE  [Next]_vars
  BY <1>5 DEF Elsewhere, FabricCrash, Next
<1> QED
  BY <1>1, <1>2, <1>3, <1>4, <1>5 DEF FabricNext

\* The Search Fabric implements its web ladder: a request's other scopes, its refusal
\* (Promise.all) and the orphan that a refusal leaves behind add no behaviour to it.
THEOREM FabricImplementsLadder == FabricSpec => Spec
<1>1. FabricInit => Init
  BY DEF FabricInit
<1>2. [FabricNext]_fabricVars => [Next]_vars
  <2>1. CASE FabricNext
    BY <2>1, FabricStepIsLadderStep
  <2>2. CASE UNCHANGED fabricVars
    BY <2>2 DEF fabricVars
  <2> QED
    BY <2>1, <2>2
<1> QED
  BY <1>1, <1>2, PTL DEF FabricSpec, Spec

\* So for any number of requests at once, also of refused ones whose ladders go on unheard,
\* a day's counted calls exceed the cap by less than the requests under way.
THEOREM FabricKeepsCap == FabricSpec => []CapNearlyKept
BY FabricImplementsLadder, CapNearlyHolds, PTL

\* And no request, refused or not, comes near a provider it may not use.
THEOREM FabricTypeCorrect == FabricSpec => []TypeOK
BY FabricImplementsLadder, TypeCorrect, PTL

\* What else is proved of the ladder, for whole requests: every paid call is counted, also an
\* orphan's;
THEOREM FabricCountsCalls == FabricSpec => []EveryCallCounted
BY FabricImplementsLadder, CallsAreCounted, PTL

\* the cache serves each step's own answers, whichever requests stored them;
THEOREM FabricServesTheStep == FabricSpec => []CachedIsAnswered
BY FabricImplementsLadder, CacheServesTheStep, PTL

\* and a cached answer is bought again only by those that had missed it or could not read it.
THEOREM FabricBuysOnce == FabricSpec => []BoughtOncePerMiss
BY FabricImplementsLadder, BoughtOnce, PTL

-----------------------------------------------------------------------------
FabRecord ==
  [pc : {"idle", "running", "refused"}, scopes : Seq(Scope), badCursor : BOOLEAN,
   read : UNION {[some -> Int] : some \in SUBSET Scope},
   merged : Seq(Urls), open : Nat, bought : Answers, cost : Int]
FabType == fab \in [Callers -> FabRecord] /\ bill \in [Callers -> Int]

\* A paid answer that the ladder holds and its step's row does not report yet.
Unreported(c) == IF req[c].pc \in {"record", "store"} /\ Bought(c) THEN 1 ELSE 0
\* Only a request that asked for the web has a ladder, and it answers for that ladder's bill.
CostInv(c) ==
  /\ fab[c].pc = "idle" => fab[c].scopes = <<>> /\ bill[c] = 0
  /\ ~HasWeb(c) => req[c].pc = "idle"
  /\ bill[c] = fab[c].cost + Unreported(c)
CostsInv == FabType /\ \A c \in Callers : CostInv(c)

\* A step of one request leaves the other requests' bills alone.
LEMMA OneBill ==
  ASSUME CostsInv, NEW c \in Callers, FabType',
         \A d \in Callers \ {c} : fab'[d] = fab[d] /\ bill'[d] = bill[d] /\ req'[d] = req[d],
         CostInv(c)'
  PROVE  CostsInv'
<1>1. ASSUME NEW d \in Callers \ {c}
      PROVE  CostInv(d)'
  <2>1. CostInv(d) /\ fab'[d] = fab[d] /\ bill'[d] = bill[d] /\ req'[d] = req[d]
    BY <1>1 DEF CostsInv
  <2> QED
    BY <2>1 DEF CostInv, HasWeb, Unreported, Bought
<1> QED
  BY <1>1 DEF CostsInv

LEMMA NoFabType ==
  /\ NoFab \in FabRecord
  /\ NoFab.pc = "idle" /\ NoFab.scopes = <<>> /\ NoFab.cost = 0
<1>1. <<>> \in [{} -> Int] /\ <<>> \in Seq(Scope) /\ <<>> \in Seq(Urls) /\ {} \in Answers
  BY DEF Answers
<1>2. <<>> \in UNION {[some -> Int] : some \in SUBSET Scope}
  <2>1. [{} -> Int] \in {[some -> Int] : some \in SUBSET Scope}
    OBVIOUS
  <2> QED
    BY <1>1, <2>1, Zenon
<1> QED
  BY <1>1, <1>2 DEF NoFab, FabRecord

\* A request that ends, with no answer to report or none that anybody hears of, owes nothing.
LEMMA RequestOver ==
  ASSUME CostsInv, NEW c \in Callers,
         fab' = [fab EXCEPT ![c] = NoFab], bill' = [bill EXCEPT ![c] = 0],
         \A d \in Callers \ {c} : req'[d] = req[d],
         req'[c].pc = "idle"
  PROVE  CostsInv'
<1>1. /\ FabType' /\ fab'[c] = NoFab /\ bill'[c] = 0
      /\ \A d \in Callers \ {c} : fab'[d] = fab[d] /\ bill'[d] = bill[d]
  BY NoFabType DEF CostsInv, FabType
<1>2. CostInv(c)'
  BY <1>1, NoFabType DEF CostInv, HasWeb, Unreported
<1> QED
  BY <1>1, <1>2, OneBill

\* A step of the ladder buys an answer, or ends with a row that reports what it bought.
Buys(c) ==
  IF req[c].pc = "call" /\ Paid(req[c].step) /\ req'[c].answer \notin {NoAnswer, {}} THEN 1 ELSE 0
Reports(c) == IF Ends(c) THEN RowCost(c) ELSE 0

\* What a step buys is reported by a row or stays to be reported.
LEMMA ClimbCosts ==
  ASSUME LadderAssumption, TypeOK, NEW c \in Callers, Climb(c) \/ StoreFails(c)
  PROVE  /\ \A d \in Callers \ {c} : req'[d] = req[d]
         /\ req[c].pc # "idle" /\ req'[c].pc # "idle"
         /\ Buys(c) + Unreported(c) = Reports(c) + Unreported(c)'
         /\ Buys(c) \in Int /\ Reports(c) \in Int
<1>1. CASE OpenIndexStep(c) \/ Skip(c) \/ CacheHit(c) \/ CacheMiss(c) \/ CheckCap(c)
  <2>1. /\ \A d \in Callers \ {c} : req'[d] = req[d]
        /\ req[c].pc \in {"open", "lookup", "cap"}
        /\ req'[c].pc \in {"lookup", "cap", "call", "done"}
    <3>1. CASE OpenIndexStep(c)
      <4>1. PICK found :
              req' = [req EXCEPT ![c] = [@ EXCEPT !.pc = "lookup", !.step = "deepseek",
                                                  !.found = found]]
        BY <3>1 DEF OpenIndexStep
      <4> QED
        BY <3>1, <4>1 DEF OpenIndexStep, TypeOK, Request
    <3>2. CASE Skip(c) \/ CacheHit(c) \/ CacheMiss(c) \/ CheckCap(c)
      <4>1. \A found : Onward(c, found).pc \in {"lookup", "done"}
        BY DEF Onward, TypeOK, Request
      <4> QED
        BY <3>2, <4>1 DEF Skip, CacheHit, CacheMiss, Missed, CheckCap, TypeOK, Request
    <3> QED
      BY <1>1, <3>1, <3>2
  <2> QED
    BY <2>1 DEF Unreported, RowCost, Buys, Reports
<1>2. CASE \E answer \in Answers : Research(c, answer)
  <2>1. /\ \A d \in Callers \ {c} : req'[d] = req[d]
        /\ req[c].pc = "call" /\ req'[c].pc = "record" /\ req'[c].step = req[c].step
    BY <1>2 DEF Research, TypeOK, Request
  <2> QED
    BY <2>1 DEF Unreported, RowCost, Bought, Buys, Reports, Ends
<1>3. CASE Record(c)
  <2>1. CASE req[c].answer = NoAnswer
    <3>1. /\ \A d \in Callers \ {c} : req'[d] = req[d]
          /\ req[c].pc = "record" /\ req'[c].pc \in {"lookup", "done"}
      BY <1>3, <2>1 DEF Record, Onward, TypeOK, Request
    <3> QED
      BY <2>1, <3>1 DEF Unreported, RowCost, Bought, Buys, Reports
  <2>2. CASE req[c].answer # NoAnswer
    <3>1. /\ \A d \in Callers \ {c} : req'[d] = req[d]
          /\ req[c].pc = "record" /\ req'[c].pc = "store"
          /\ req'[c].step = req[c].step /\ req'[c].answer = req[c].answer
      BY <1>3, <2>2 DEF Record, TypeOK, Request
    <3> QED
      BY <2>2, <3>1 DEF Unreported, RowCost, Bought, Buys, Reports
  <2> QED
    BY <2>1, <2>2
<1>4. CASE Store(c) \/ StoreFails(c)
  <2>1. /\ req' = [req EXCEPT ![c] = Onward(c, req[c].answer)]
        /\ req[c].pc = "store"
    BY <1>4 DEF Store, StoreFails
  <2>2. /\ \A d \in Callers \ {c} : req'[d] = req[d]
        /\ req'[c].pc \in {"lookup", "done"}
        /\ req'[c].step # req[c].step \/ req'[c].pc = "done"
    BY <2>1 DEF Onward, TypeOK, Request
  <2> QED
    BY <2>1, <2>2 DEF Unreported, RowCost, Buys, Reports, Ends
<1> QED
  BY <1>1, <1>2, <1>3, <1>4 DEF Climb

\* An answer that cannot be cached is used all the same: its step is over.
LEMMA UncachedEnds ==
  ASSUME TypeOK, NEW c \in Callers, StoreFails(c)
  PROVE  Ends(c) /\ Buys(c) = 0
<1>1. /\ req[c].pc = "store"
      /\ req'[c].step # req[c].step \/ req'[c].pc = "done"
  BY DEF StoreFails, Onward, TypeOK, Request
<1> QED
  BY <1>1 DEF Ends, Buys

\* What a step that is over puts behind the pages found so far: each page it is the first to
\* find.
Adds(c, f, pages) ==
  /\ f.cost = fab[c].cost + RowCost(c)
  /\ f.merged = fab[c].merged \o pages
  /\ f.open = IF req[c].pc = "open" THEN Len(pages) ELSE fab[c].open
  /\ f.bought = IF RowCost(c) > 0 THEN req[c].answer ELSE fab[c].bought
  /\ Len(pages) = Cardinality(req'[c].found \ req[c].found)
  /\ \A i \in 1 .. Len(pages) : pages[i] \in req'[c].found \ req[c].found
  /\ \A url \in req'[c].found \ req[c].found : \E i \in 1 .. Len(pages) : pages[i] = url

LEMMA MergedPages ==
  ASSUME LadderAssumption, TypeOK, TypeOK', FabType, NEW c \in Callers, Merged(c)
  PROVE  \E f \in FabRecord, pages \in Seq(Urls) :
           /\ fab' = [fab EXCEPT ![c] = f]
           /\ f.pc = fab[c].pc /\ f.scopes = fab[c].scopes
           /\ Adds(c, f, pages)
<1> DEFINE new == req'[c].found \ req[c].found
           grown(pages) ==
             [fab[c] EXCEPT !.merged = @ \o pages,
                            !.open = IF req[c].pc = "open" THEN Cardinality(new) ELSE @,
                            !.bought = IF RowCost(c) > 0 THEN req[c].answer ELSE @,
                            !.cost = @ + RowCost(c)]
<1>1. PICK pages \in Bijection(1 .. Cardinality(new), new) :
        fab' = [fab EXCEPT ![c] = grown(pages)]
  <2>1. PICK pages \in Bijection(1 .. Cardinality(new), new) :
          fab' = [fab EXCEPT ![c].merged = @ \o pages,
                             ![c].open = IF req[c].pc = "open" THEN Cardinality(new) ELSE @,
                             ![c].bought = IF RowCost(c) > 0 THEN req[c].answer ELSE @,
                             ![c].cost = @ + RowCost(c)]
    BY DEF Merged
  <2>2. fab' = [fab EXCEPT ![c] = grown(pages)]
    BY <2>1 DEF FabType, FabRecord
  <2> QED
    BY <2>2
<1>2. new \in SUBSET Urls /\ Cardinality(new) \in Nat
  <2>1. req'[c].found \in SUBSET Urls
    BY DEF TypeOK, Request
  <2> QED
    BY <2>1, FS_Subset, FS_CardinalityType DEF LadderAssumption
<1>3. /\ pages \in [1 .. Cardinality(new) -> new]
      /\ \A url \in new : \E i \in 1 .. Cardinality(new) : pages[i] = url
  BY <1>1 DEF Bijection, Surjection
<1> HIDE DEF new
<1>4. pages \in Seq(Urls) /\ Len(pages) = Cardinality(new)
  BY <1>2, <1>3
<1>5. fab[c] \in FabRecord /\ req[c].answer \in Answers /\ RowCost(c) \in Int
  BY DEF FabType, TypeOK, Request, RowCost
<1>6. /\ fab[c].merged \o pages \in Seq(Urls)
      /\ (IF req[c].pc = "open" THEN Cardinality(new) ELSE fab[c].open) \in Nat
      /\ (IF RowCost(c) > 0 THEN req[c].answer ELSE fab[c].bought) \in Answers
      /\ fab[c].cost + RowCost(c) \in Int
  BY <1>2, <1>4, <1>5 DEF FabRecord
<1>7. /\ grown(pages) \in FabRecord
      /\ grown(pages).pc = fab[c].pc /\ grown(pages).scopes = fab[c].scopes
      /\ grown(pages).cost = fab[c].cost + RowCost(c)
      /\ grown(pages).merged = fab[c].merged \o pages
      /\ grown(pages).open = IF req[c].pc = "open" THEN Len(pages) ELSE fab[c].open
      /\ grown(pages).bought = IF RowCost(c) > 0 THEN req[c].answer ELSE fab[c].bought
  BY <1>4, <1>5, <1>6 DEF FabRecord
<1> HIDE DEF grown
<1>8. /\ \A i \in 1 .. Len(pages) : pages[i] \in new
      /\ \A url \in new : \E i \in 1 .. Len(pages) : pages[i] = url
  BY <1>3, <1>4
<1>9. grown(pages) \in FabRecord /\ pages \in Seq(Urls)
  BY <1>4, <1>7
<1> QED
  BY <1>1, <1>4, <1>7, <1>8, <1>9 DEF new, Adds

\* Every step keeps each request's bill.
LEMMA CostsStayReported == FabricSpec => []CostsInv
<1>1. FabricInit => CostsInv
  <2> SUFFICES ASSUME FabricInit PROVE CostsInv
    OBVIOUS
  <2>1. \A c \in Callers : req[c].pc = "idle" /\ fab[c] = NoFab /\ bill[c] = 0
    BY DEF FabricInit, Init, NoRequest
  <2>2. FabType
    BY NoFabType DEF FabricInit, FabType
  <2> QED
    BY <2>1, <2>2, NoFabType DEF CostsInv, CostInv, Unreported
<1>2. TypeOK /\ TypeOK' /\ CostsInv /\ [FabricNext]_fabricVars => CostsInv'
  <2> SUFFICES ASSUME TypeOK, TypeOK', CostsInv, [FabricNext]_fabricVars PROVE CostsInv'
    OBVIOUS
  <2> USE LadderAssumption
  <2>1. ASSUME NEW c \in Callers
        PROVE  fab[c] \in FabRecord /\ bill[c] \in Int /\ CostInv(c)
    BY DEF CostsInv, FabType
  <2>2. ASSUME NEW c \in Callers, NEW f \in FabRecord, NEW n \in Int,
               fab' = [fab EXCEPT ![c] = f], bill' = [bill EXCEPT ![c] = n],
               \A d \in Callers \ {c} : req'[d] = req[d],
               f.pc = "idle" => f.scopes = <<>> /\ n = 0,
               ~Contains(f.scopes, "web") => req'[c].pc = "idle",
               n = f.cost + Unreported(c)'
        PROVE  CostsInv'
    <3>1. /\ FabType' /\ fab'[c] = f /\ bill'[c] = n
          /\ \A d \in Callers \ {c} : fab'[d] = fab[d] /\ bill'[d] = bill[d]
      BY <2>2 DEF CostsInv, FabType
    <3>2. CostInv(c)'
      BY <2>2, <3>1 DEF CostInv, HasWeb
    <3> QED
      BY <2>2, <3>1, <3>2, OneBill
  <2>3. ASSUME NEW c \in Callers, UNCHANGED bill, NEW f \in FabRecord,
               fab' = [fab EXCEPT ![c] = f], UNCHANGED req,
               f.pc # "idle", fab[c].pc # "idle", f.scopes = fab[c].scopes, f.cost = fab[c].cost
        PROVE  CostsInv'
    <3>1. bill' = [bill EXCEPT ![c] = bill[c]] /\ Unreported(c)' = Unreported(c)
      BY <2>3 DEF CostsInv, FabType, Unreported, Bought
    <3>2. /\ ~Contains(f.scopes, "web") => req'[c].pc = "idle"
          /\ bill[c] = f.cost + Unreported(c)' /\ bill[c] \in Int
      BY <2>1, <2>3, <3>1 DEF CostInv, HasWeb
    <3> QED
      BY <2>2, <2>3, <3>1, <3>2
  <2>4. ASSUME NEW c \in Callers, NEW r \in Requests[c], Query(c, r)
        PROVE  CostsInv'
    <3> DEFINE read == [s \in Range(r.scopes) \ {"web"} |->
                          IF Searches(r, s) THEN Running ELSE 0]
               f == [NoFab EXCEPT !.pc = "running", !.scopes = r.scopes,
                                  !.badCursor = r.badCursor, !.read = read]
    <3>1. fab' = [fab EXCEPT ![c] = f] /\ bill' = bill
      BY <2>4 DEF Query
    <3>2. read \in UNION {[some -> Int] : some \in SUBSET Scope}
      <4>1. r.scopes \in Seq(Scope)
        BY RequestsAreBodies DEF Body
      <4>2. Range(r.scopes) \ {"web"} \in SUBSET Scope
        BY <4>1 DEF Range
      <4>3. read \in [Range(r.scopes) \ {"web"} -> Int]
        BY DEF Running
      <4> HIDE DEF read
      <4> QED
        BY <4>2, <4>3, Zenon
    <3> HIDE DEF read
    <3>3. f \in FabRecord /\ f.pc = "running" /\ f.scopes = r.scopes /\ f.cost = 0
      BY <3>2, RequestsAreBodies, NoFabType DEF FabRecord, Body
    <3> HIDE DEF f
    <3>4. /\ \A d \in Callers \ {c} : req'[d] = req[d]
          /\ req'[c].pc \in {"idle", "open"}
          /\ ~Contains(r.scopes, "web") => req'[c].pc = "idle"
      <4>1. CASE Contains(r.scopes, "web")
        <5> DEFINE g == [NoRequest EXCEPT !.pc = "open", !.q = r.q, !.person = r.person,
                                          !.depth = r.depth, !.limit = r.limit]
        <5>1. req' = [req EXCEPT ![c] = g] /\ g.pc = "open"
          BY <2>4, <4>1 DEF Query, Ask, NoRequest
        <5> HIDE DEF g
        <5> QED
          BY <4>1, <5>1 DEF TypeOK
      <4>2. CASE ~Contains(r.scopes, "web")
        BY <2>4, <4>2 DEF Query, vars
      <4> QED
        BY <4>1, <4>2
    <3>5. bill[c] = 0 /\ Unreported(c)' = 0
      BY <2>1, <2>4, <3>4 DEF Query, CostInv, Unreported
    <3>6. /\ FabType' /\ fab'[c] = f /\ bill'[c] = 0
          /\ \A d \in Callers \ {c} : fab'[d] = fab[d] /\ bill'[d] = bill[d]
      BY <3>1, <3>3, <3>5 DEF CostsInv, FabType
    <3>7. CostInv(c)'
      BY <3>3, <3>4, <3>5, <3>6 DEF CostInv, HasWeb
    <3> QED
      BY <3>4, <3>6, <3>7, OneBill
  <2>5. ASSUME NEW c \in Callers, NEW s \in DOMAIN fab[c].read, NEW n \in 0 .. MaxRead,
               ReadIndex(c, s, n)
        PROVE  CostsInv'
    <3> DEFINE read == [fab[c].read EXCEPT ![s] = n]
               f == [fab[c] EXCEPT !.read = read]
    <3>1. fab' = [fab EXCEPT ![c] = f] /\ bill' = bill /\ req' = req /\ fab[c].pc = "running"
      BY <2>1, <2>5 DEF ReadIndex, vars
    <3>2. read \in UNION {[some -> Int] : some \in SUBSET Scope}
      <4>0. fab[c].read \in UNION {[some -> Int] : some \in SUBSET Scope}
        BY <2>1 DEF FabRecord
      <4>1. PICK some \in SUBSET Scope : fab[c].read \in [some -> Int]
        BY <4>0, Zenon
      <4>2. read \in [some -> Int]
        BY <4>1
      <4> HIDE DEF read
      <4> QED
        BY <4>2, Zenon
    <3> HIDE DEF read
    <3>3. f \in FabRecord /\ f.pc = fab[c].pc /\ f.scopes = fab[c].scopes /\ f.cost = fab[c].cost
      BY <2>1, <3>2 DEF FabRecord
    <3> HIDE DEF f
    <3> QED
      BY <2>3, <3>1, <3>3
  <2>6. ASSUME NEW c \in Callers, RefuseCursor(c) \/ RefuseFault(c)
        PROVE  CostsInv'
    <3>1. Refuse(c) /\ fab[c].pc = "running"
      BY <2>6 DEF RefuseCursor, RefuseFault
    <3>2. CASE Ladder(c)
      <4> DEFINE f == [fab[c] EXCEPT !.pc = "refused"]
      <4>1. /\ f \in FabRecord /\ f.pc = "refused"
            /\ f.scopes = fab[c].scopes /\ f.cost = fab[c].cost
        BY <2>1 DEF FabRecord
      <4>2. fab' = [fab EXCEPT ![c] = f] /\ bill' = bill /\ req' = req
        BY <3>1, <3>2 DEF Refuse, Ladder, vars
      <4> HIDE DEF f
      <4> QED
        BY <2>3, <3>1, <4>1, <4>2
    <3>3. CASE ~Ladder(c)
      <4>1. /\ \A d \in Callers \ {c} : req'[d] = req[d]
            /\ req'[c].pc = "idle"
        BY <3>1, <3>3 DEF Refuse, Ladder, Finish, NoRequest, vars, TypeOK
      <4> QED
        BY <3>1, <3>3, <4>1, RequestOver DEF Refuse
    <3> QED
      BY <3>2, <3>3
  <2>7. ASSUME NEW c \in Callers, LadderFails(c) \/ OrphanEnds(c)
        PROVE  CostsInv'
    <3>1. /\ \A d \in Callers \ {c} : req'[d] = req[d]
          /\ req'[c].pc = "idle"
      BY <2>7 DEF LadderFails, OrphanEnds, Fail, Finish, NoRequest, TypeOK
    <3> QED
      BY <2>7, <3>1, RequestOver DEF LadderFails, OrphanEnds
  <2>8. ASSUME NEW c \in Callers, NEW f \in FabRecord, fab' = [fab EXCEPT ![c] = f],
               f.pc = fab[c].pc, f.scopes = fab[c].scopes, f.cost = fab[c].cost + Reports(c),
               bill' = [bill EXCEPT ![c] = bill[c] + Buys(c)],
               \A d \in Callers \ {c} : req'[d] = req[d],
               req[c].pc # "idle", Buys(c) \in Int, Reports(c) \in Int,
               Buys(c) + Unreported(c) = Reports(c) + Unreported(c)'
        PROVE  CostsInv'
    <3>1. Unreported(c) \in Int /\ Unreported(c)' \in Int
      BY DEF Unreported
    <3>2. HasWeb(c) /\ fab[c].pc # "idle"
      BY <2>1, <2>8 DEF CostInv, HasWeb, Contains
    <3>3. fab[c].cost \in Int
      BY <2>1 DEF FabRecord
    <3>4. bill[c] + Buys(c) \in Int /\ bill[c] + Buys(c) = f.cost + Unreported(c)'
      <4>1. bill[c] = fab[c].cost + Unreported(c) /\ bill[c] \in Int
        BY <2>1 DEF CostInv
      <4> QED
        BY <2>8, <3>1, <3>3, <4>1
    <3> QED
      BY <2>2, <2>8, <3>2, <3>4 DEF HasWeb
  <2>9. ASSUME NEW c \in Callers, ClimbOn(c) \/ ClimbUnstored(c)
        PROVE  CostsInv'
    <3>1. /\ \A d \in Callers \ {c} : req'[d] = req[d]
          /\ req[c].pc # "idle" /\ Buys(c) \in Int /\ Reports(c) \in Int
          /\ Buys(c) + Unreported(c) = Reports(c) + Unreported(c)'
          /\ ClimbUnstored(c) => Ends(c) /\ Buys(c) = 0
      BY <2>9, ClimbCosts, UncachedEnds DEF ClimbOn, ClimbUnstored
    <3>2. IF Ends(c) THEN Merged(c) ELSE fab' = fab
      BY <2>9, <3>1 DEF ClimbOn, ClimbUnstored
    <3>3. bill' = [bill EXCEPT ![c] = bill[c] + Buys(c)]
      <4>1. CASE ClimbOn(c)
        <5>1. bill' = IF Buys(c) = 1 THEN [bill EXCEPT ![c] = @ + 1] ELSE bill
          BY <4>1 DEF ClimbOn, Buys
        <5>2. Buys(c) \in {0, 1}
          BY DEF Buys
        <5>3. bill = [bill EXCEPT ![c] = bill[c]] /\ bill[c] + 0 = bill[c]
          BY <2>1 DEF CostsInv, FabType
        <5>4. CASE Buys(c) = 0
          BY <5>1, <5>3, <5>4
        <5>5. CASE Buys(c) = 1
          BY <5>1, <5>5
        <5> QED
          BY <5>2, <5>4, <5>5
      <4>2. CASE ClimbUnstored(c)
        BY <2>1, <3>1, <4>2 DEF ClimbUnstored, CostsInv, FabType
      <4> QED
        BY <2>9, <4>1, <4>2
    <3>5. CASE Ends(c)
      <4>1. PICK f \in FabRecord :
              /\ fab' = [fab EXCEPT ![c] = f]
              /\ f.pc = fab[c].pc /\ f.scopes = fab[c].scopes
              /\ f.cost = fab[c].cost + RowCost(c)
        BY <3>2, <3>5, MergedPages DEF CostsInv, Adds
      <4> QED
        BY <2>8, <3>1, <3>3, <3>5, <4>1 DEF Reports
    <3>6. CASE ~Ends(c)
      <4>1. fab' = [fab EXCEPT ![c] = fab[c]] /\ fab[c].cost = fab[c].cost + Reports(c)
        BY <2>1, <3>2, <3>6 DEF Reports, FabRecord, CostsInv, FabType
      <4> QED
        BY <2>1, <2>8, <3>1, <3>3, <4>1
    <3> QED
      BY <3>5, <3>6
  <2>10. ASSUME NEW c \in Callers, ClimbUnread(c)
         PROVE  CostsInv'
    <3>1. /\ \A d \in Callers \ {c} : req'[d] = req[d]
          /\ req[c].pc = "lookup" /\ req'[c].pc \in {"lookup", "done", "cap", "call"}
      BY <2>10 DEF ClimbUnread, CacheUnread, Missed, Onward, TypeOK, Request
    <3>2. Unreported(c) = 0 /\ Unreported(c)' = 0
      BY <3>1 DEF Unreported
    <3>3. fab' = fab /\ bill' = bill
      BY <2>10 DEF ClimbUnread
    <3>4. CostInv(c)'
      BY <2>1, <3>1, <3>2, <3>3 DEF CostInv, HasWeb
    <3> QED
      BY <3>1, <3>3, <3>4, OneBill DEF CostsInv, FabType
  <2>11. ASSUME NEW c \in Callers, Reply(c)
         PROVE  CostsInv'
    <3>1. req[c].pc \in {"idle", "done"}
      BY <2>1, <2>11 DEF Reply, Ready, CostInv
    <3>2. /\ \A d \in Callers \ {c} : req'[d] = req[d]
          /\ req'[c].pc = "idle"
      <4>1. CASE HasWeb(c)
        BY <2>11, <4>1 DEF Reply, Finish, NoRequest, TypeOK
      <4>2. CASE ~HasWeb(c)
        BY <2>1, <2>11, <4>2 DEF Reply, CostInv, vars
      <4> QED
        BY <4>1, <4>2
    <3>3. bill[c] - fab[c].cost = 0
      <4>1. bill[c] = fab[c].cost + 0 /\ fab[c].cost \in Int
        BY <2>1, <3>1 DEF CostInv, Unreported, FabRecord
      <4> QED
        BY <4>1
    <3>4. bill' = [bill EXCEPT ![c] = bill[c] - fab[c].cost] /\ fab' = [fab EXCEPT ![c] = NoFab]
      BY <2>11 DEF Reply
    <3>5. bill' = [bill EXCEPT ![c] = 0]
      BY <3>3, <3>4
    <3> QED
      BY <3>2, <3>4, <3>5, RequestOver
  <2>12. CASE Elsewhere \/ UNCHANGED fabricVars
    <3>1. UNCHANGED <<req, fab, bill>>
      BY <2>12 DEF Elsewhere, Midnight, Expire, fabricVars, vars
    <3> QED
      BY <3>1 DEF CostsInv, FabType, CostInv, HasWeb, Unreported, Bought
  <2>13. CASE FabricCrash
    <3>1. \A c \in Callers : fab'[c] = NoFab /\ bill'[c] = 0 /\ req'[c].pc = "idle"
      BY <2>13 DEF FabricCrash, Crash, NoRequest
    <3>2. FabType'
      BY <2>13, NoFabType DEF FabricCrash, FabType
    <3> QED
      BY <3>1, <3>2, NoFabType DEF CostsInv, CostInv, HasWeb, Unreported
  <2> QED
    BY <2>4, <2>5, <2>6, <2>7, <2>9, <2>10, <2>11, <2>12, <2>13 DEF FabricNext
<1> QED
  BY <1>1, <1>2, FabricTypeCorrect, PTL DEF FabricSpec

\* The cost of an answer is what its own ladder bought, each answer reported once.
THEOREM CostsAreReported == FabricSpec => []CostReported
<1>1. CostsInv => CostReported
  BY DEF CostsInv, CostInv, CostReported, Unreported
<1> QED
  BY <1>1, CostsStayReported, PTL

-----------------------------------------------------------------------------
(* What was paid for, and the room the answer has for it. *)

AtPaidStep(c) == req[c].pc \notin {"idle", "open"} /\ req[c].step = "deepseek"
AfterPaidStep(c) == req[c].pc \notin {"idle", "open"} /\ req[c].step = "wikipedia"
Full(c) == fab[c].open >= req[c].limit
\* A page that was paid for is among those the limit keeps.
PaidKept(c) == \E i \in 1 .. Len(fab[c].merged) : i <= req[c].limit /\ fab[c].merged[i] \in fab[c].bought

\* A request has bought nothing before its paid step is over, and has merged what the open index
\* found. It comes to a paid call only if it has room, or is deep; what it buys there is then
\* among the pages that its limit keeps: the first page that is new, or one found before.
ShownInv(c) ==
  /\ req[c].pc # "idle" => req[c].limit \in Limits
  /\ req[c].pc \in {"cap", "call", "record", "store", "lookup", "done"} => AtPaidStep(c) \/ AfterPaidStep(c)
  /\ req[c].pc = "done" => AfterPaidStep(c)
  /\ req[c].pc = "open" => req[c].found = {} /\ fab[c].merged = <<>> /\ fab[c].cost = 0
  /\ AtPaidStep(c) =>
       /\ fab[c].cost = 0
       /\ fab[c].open = Cardinality(req[c].found) /\ fab[c].open = Len(fab[c].merged)
       /\ \A url \in req[c].found : \E i \in 1 .. Len(fab[c].merged) : fab[c].merged[i] = url
       /\ req[c].pc # "lookup" /\ Full(c) => req[c].depth = "deep"
  /\ AfterPaidStep(c) /\ fab[c].cost > 0 =>
       /\ Full(c) => req[c].depth = "deep"
       /\ ~Full(c) => PaidKept(c)
AllShown == \A c \in Callers : ShownInv(c)

\* A step of one request leaves alone what is kept of the others.
LEMMA OneShown ==
  ASSUME AllShown, NEW c \in Callers,
         \A d \in Callers \ {c} : fab'[d] = fab[d] /\ req'[d] = req[d],
         ShownInv(c)'
  PROVE  AllShown'
<1>1. ASSUME NEW d \in Callers \ {c} PROVE ShownInv(d)'
  <2>1. ShownInv(d) /\ fab'[d] = fab[d] /\ req'[d] = req[d]
    BY <1>1 DEF AllShown
  <2> QED
    BY <2>1 DEF ShownInv, AtPaidStep, AfterPaidStep, Full, PaidKept
<1> QED
  BY <1>1 DEF AllShown

\* A step of the ladder that is over has put what it found behind the pages found before.
LEMMA OnwardShown ==
  ASSUME LadderAssumption, TypeOK, NEW c \in Callers, ShownInv(c), fab[c] \in FabRecord,
         NEW more \in SUBSET Urls, NEW pages \in Seq(Urls), NEW price \in {0, 1},
         req[c].pc \in {"lookup", "cap", "record", "store"}, req'[c] = Onward(c, more),
         \A i \in 1 .. Len(pages) : pages[i] \in more \ req[c].found,
         \A url \in more \ req[c].found : \E i \in 1 .. Len(pages) : pages[i] = url,
         fab'[c].merged = fab[c].merged \o pages,
         fab'[c].open = fab[c].open,
         fab'[c].bought = IF price = 1 THEN more ELSE fab[c].bought,
         fab'[c].cost = fab[c].cost + price,
         price = 1 => req[c].step = "deepseek" /\ more # {} /\ req[c].pc # "lookup"
  PROVE  ShownInv(c)'
<1>1. /\ req[c] \in Request /\ req[c].limit \in Limits /\ req[c].limit \in Nat
      /\ fab[c].merged \in Seq(Urls) /\ fab[c].open \in Nat /\ fab[c].cost \in Int
  BY DEF TypeOK, Request, ShownInv, LadderAssumption, FabRecord
<1> DEFINE had == fab[c].merged
           has == had \o pages
<1>2. /\ Len(has) = Len(had) + Len(pages) /\ Len(had) \in Nat /\ Len(pages) \in Nat
      /\ \A i \in 1 .. Len(had) : has[i] = had[i]
      /\ \A i \in 1 .. Len(pages) : has[Len(had) + i] = pages[i]
  BY <1>1
<1>3. fab'[c].merged = has
  OBVIOUS
<1> HIDE DEF had, has
<1>4. CASE req[c].step = "deepseek"
  <2>1. /\ req'[c].pc = "lookup" /\ req'[c].step = "wikipedia"
        /\ req'[c].limit = req[c].limit /\ req'[c].depth = req[c].depth
    BY <1>1, <1>4 DEF Onward, Request
  <2>2. AtPaidStep(c)
    BY <1>4 DEF AtPaidStep
  <2>3. /\ fab[c].cost = 0 /\ fab[c].open = Len(had)
        /\ \A url \in req[c].found : \E i \in 1 .. Len(had) : had[i] = url
        /\ (req[c].pc # "lookup" /\ Full(c) => req[c].depth = "deep")
    BY <2>2 DEF ShownInv, had
  <2>4. ASSUME price = 1, ~Full(c)
        PROVE  \E i \in 1 .. Len(has) : i <= req[c].limit /\ has[i] \in more
    <3>1. PICK url : url \in more
      BY <2>4
    <3>2. Len(had) < req[c].limit
      BY <1>1, <1>2, <2>3, <2>4 DEF Full
    <3>3. CASE url \in req[c].found
      <4>1. PICK i \in 1 .. Len(had) : had[i] = url
        BY <2>3, <3>3
      <4>2. i \in 1 .. Len(has) /\ i <= req[c].limit /\ has[i] = url
        BY <1>1, <1>2, <3>2, <4>1
      <4> QED
        BY <3>1, <4>2
    <3>4. CASE url \notin req[c].found
      <4>1. PICK j \in 1 .. Len(pages) : pages[j] = url
        BY <3>1, <3>4
      <4>2. 1 \in 1 .. Len(pages)
        BY <1>2, <4>1
      <4>3. has[Len(had) + 1] = pages[1] /\ pages[1] \in more
        BY <1>2, <4>2
      <4>4. Len(had) + 1 \in 1 .. Len(has) /\ Len(had) + 1 <= req[c].limit
        BY <1>1, <1>2, <3>2, <4>2
      <4> QED
        BY <4>3, <4>4
    <3> QED
      BY <3>3, <3>4
  <2>5. /\ fab'[c].cost = price /\ (price = 1 => fab'[c].bought = more)
        /\ (Full(c)' <=> Full(c))
    BY <2>1, <2>3 DEF Full
  <2>6. fab'[c].cost > 0 => price = 1
    BY <2>5
  <2>7. fab'[c].cost > 0 => /\ Full(c)' => req'[c].depth = "deep"
                            /\ ~Full(c)' => PaidKept(c)'
    BY <1>3, <2>1, <2>3, <2>4, <2>5, <2>6 DEF PaidKept
  <2> QED
    BY <1>1, <2>1, <2>7 DEF ShownInv, AtPaidStep, AfterPaidStep
<1>5. CASE req[c].step # "deepseek"
  <2>1. req[c].step = "wikipedia"
    BY <1>5 DEF TypeOK, Steps
  <2>2. /\ req'[c].pc = "done" /\ req'[c].step = "wikipedia"
        /\ req'[c].limit = req[c].limit /\ req'[c].depth = req[c].depth
    BY <1>1, <2>1 DEF Onward, Request
  <2>3. AfterPaidStep(c)
    BY <2>1 DEF AfterPaidStep
  <2>4. fab'[c].cost = fab[c].cost /\ fab'[c].bought = fab[c].bought /\ (Full(c)' <=> Full(c))
    BY <1>1, <2>1, <2>2 DEF Full
  <2>5. PaidKept(c) => PaidKept(c)'
    <3> SUFFICES ASSUME PaidKept(c) PROVE PaidKept(c)'
      OBVIOUS
    <3>1. PICK i \in 1 .. Len(had) : i <= req[c].limit /\ had[i] \in fab[c].bought
      BY DEF PaidKept, had
    <3>2. i \in 1 .. Len(has) /\ has[i] = had[i]
      BY <1>2, <3>1
    <3> QED
      BY <1>3, <2>2, <2>4, <3>1, <3>2 DEF PaidKept
  <2> QED
    BY <1>1, <2>2, <2>3, <2>4, <2>5 DEF ShownInv, AtPaidStep, AfterPaidStep
<1> QED
  BY <1>4, <1>5

\* What a request does before its step is over: it goes to a paid call only if it lacks pages.
LEMMA WaitShown ==
  ASSUME LadderAssumption, TypeOK, NEW c \in Callers, ShownInv(c),
         req[c].pc \in {"lookup", "cap", "call", "record"},
         req'[c].pc \in {"cap", "call", "record", "store"},
         req[c].pc = "lookup" => ~Enough(c),
         req'[c].step = req[c].step, req'[c].limit = req[c].limit,
         req'[c].depth = req[c].depth, req'[c].found = req[c].found,
         fab'[c] = fab[c]
  PROVE  ShownInv(c)'
<1>1. req[c].limit \in Nat /\ req[c].found \in SUBSET Urls
  BY DEF TypeOK, Request, ShownInv, LadderAssumption
<1>2. Cardinality(req[c].found) \in Nat
  BY <1>1, FS_Subset, FS_CardinalityType DEF LadderAssumption
<1>3. AtPaidStep(c) /\ Full(c) => req[c].depth = "deep"
  <2>1. CASE req[c].pc = "lookup"
    BY <1>1, <1>2, <2>1 DEF ShownInv, Full, Enough
  <2>2. CASE req[c].pc # "lookup"
    BY <2>2 DEF ShownInv
  <2> QED
    BY <2>1, <2>2
<1> QED
  BY <1>3 DEF ShownInv, AtPaidStep, AfterPaidStep, Full, PaidKept

\* A step of the ladder keeps what is known of its pages and its cost.
LEMMA ClimbShown ==
  ASSUME LadderAssumption, TypeOK, TypeOK', FabType, NEW c \in Callers, ShownInv(c),
         ClimbOn(c) \/ ClimbUnstored(c)
  PROVE  ShownInv(c)'
<1>0. req \in [Callers -> Request]
  BY DEF TypeOK
<1>1. fab[c] \in FabRecord /\ req[c] \in Request /\ fab[c].cost \in Int
  BY <1>0 DEF FabType, FabRecord
<1>2. IF Ends(c) THEN Merged(c) ELSE fab'[c] = fab[c]
  BY UncachedEnds DEF ClimbOn, ClimbUnstored
<1>3. ASSUME Ends(c)
      PROVE  \E pages \in Seq(Urls) : Adds(c, fab'[c], pages)
  <2>1. PICK f \in FabRecord, pages \in Seq(Urls) :
          fab' = [fab EXCEPT ![c] = f] /\ Adds(c, f, pages)
    BY <1>2, <1>3, MergedPages
  <2>2. fab'[c] = f
    BY <2>1 DEF FabType
  <2> QED
    BY <2>1, <2>2
<1>4. ASSUME NEW more \in SUBSET Urls, req[c].pc \in {"lookup", "cap", "record", "store"},
             req' = [req EXCEPT ![c] = Onward(c, more)],
             req[c].pc = "store" => more = req[c].answer
      PROVE  ShownInv(c)'
  <2>1. req'[c] = Onward(c, more) /\ req[c].step \in Steps
    BY <1>1, <1>4 DEF TypeOK
  <2>2. /\ req'[c].found \ req[c].found = more \ req[c].found
        /\ Ends(c)
    BY <1>1, <2>1 DEF Onward, Ends, Steps, Request
  <2>3. /\ RowCost(c) \in {0, 1} /\ (RowCost(c) > 0 <=> RowCost(c) = 1)
        /\ RowCost(c) = 1 => req[c].step = "deepseek" /\ more # {} /\ req[c].pc # "lookup"
                             /\ more = req[c].answer
    BY <1>4 DEF RowCost, Bought, Paid
  <2>4. PICK pages \in Seq(Urls) :
           /\ fab'[c].cost = fab[c].cost + RowCost(c)
           /\ fab'[c].merged = fab[c].merged \o pages
           /\ fab'[c].open = fab[c].open
           /\ fab'[c].bought = IF RowCost(c) = 1 THEN more ELSE fab[c].bought
           /\ \A i \in 1 .. Len(pages) : pages[i] \in more \ req[c].found
           /\ \A url \in more \ req[c].found : \E i \in 1 .. Len(pages) : pages[i] = url
    BY <1>3, <1>4, <2>2, <2>3 DEF Adds
  <2> QED
    BY <1>1, <1>4, <2>1, <2>3, <2>4, OnwardShown
<1>5. CASE OpenIndexStep(c)
  <2>1. PICK found \in SUBSET OpenIndex[req[c].q] :
          req' = [req EXCEPT ![c] = [@ EXCEPT !.pc = "lookup", !.step = "deepseek", !.found = found]]
    BY <1>5 DEF OpenIndexStep
  <2>2. /\ req'[c].pc = "lookup" /\ req'[c].step = "deepseek" /\ req'[c].found = found
        /\ req'[c].limit = req[c].limit /\ req[c].pc = "open"
    BY <1>0, <1>1, <1>5, <2>1 DEF Request, OpenIndexStep
  <2>3. req[c].found = {} /\ fab[c].merged = <<>> /\ fab[c].cost = 0 /\ req[c].limit \in Limits
    BY <2>2 DEF ShownInv
  <2>4. Ends(c) /\ RowCost(c) = 0
    BY <2>2 DEF Ends, RowCost
  <2>5. PICK pages \in Seq(Urls) :
           /\ fab'[c].cost = fab[c].cost + RowCost(c)
           /\ fab'[c].merged = fab[c].merged \o pages
           /\ fab'[c].open = Len(pages)
           /\ Len(pages) = Cardinality(found)
           /\ \A url \in found : \E i \in 1 .. Len(pages) : pages[i] = url
    <3>1. req'[c].found \ req[c].found = found
      BY <2>2, <2>3
    <3>2. PICK pages \in Seq(Urls) : Adds(c, fab'[c], pages)
      BY <1>3, <2>4
    <3> QED
      BY <2>2, <3>1, <3>2 DEF Adds
  <2>6. fab'[c].cost = 0 /\ fab'[c].merged = pages
    BY <2>3, <2>4, <2>5
  <2> QED
    BY <2>2, <2>3, <2>5, <2>6 DEF ShownInv, AtPaidStep, AfterPaidStep
<1>6. {} \in SUBSET Urls
  OBVIOUS
<1>7. CASE Skip(c)
  BY <1>4, <1>6, <1>7 DEF Skip
<1>8. CASE CacheHit(c)
  <2>1. Cached(c) \in SUBSET Urls
    BY <1>8 DEF CacheHit, Cached, CacheKey, Key, TypeOK, Answers
  <2> QED
    BY <1>4, <1>8, <2>1 DEF CacheHit
<1>9. ASSUME req[c].pc \in {"lookup", "cap", "call", "record"},
             req'[c].pc \in {"cap", "call", "record", "store"},
             req[c].pc = "lookup" => ~Enough(c),
             req'[c].step = req[c].step, req'[c].limit = req[c].limit,
             req'[c].depth = req[c].depth, req'[c].found = req[c].found
      PROVE  ShownInv(c)'
  <2>1. ~Ends(c)
    BY <1>9 DEF Ends
  <2> QED
    BY <1>2, <1>9, <2>1, WaitShown
<1>10. CASE CacheMiss(c)
  <2>1. CASE ~Allowed(c)
    BY <1>4, <1>6, <1>10, <2>1 DEF CacheMiss, Missed
  <2>2. CASE Allowed(c)
    BY <1>1, <1>9, <1>10, <2>2 DEF CacheMiss, Missed, TypeOK, Request
  <2> QED
    BY <2>1, <2>2
<1>11. CASE CheckCap(c)
  <2>1. CASE CapReached(c)
    BY <1>4, <1>6, <1>11, <2>1 DEF CheckCap
  <2>2. CASE ~CapReached(c)
    BY <1>1, <1>9, <1>11, <2>2 DEF CheckCap, TypeOK, Request
  <2> QED
    BY <2>1, <2>2
<1>12. CASE \E answer \in Answers : Research(c, answer)
  BY <1>1, <1>9, <1>12 DEF Research, TypeOK, Request
<1>13. CASE Record(c)
  <2>1. CASE req[c].answer = NoAnswer
    BY <1>1, <1>4, <1>6, <1>13, <2>1 DEF Record
  <2>2. CASE req[c].answer # NoAnswer
    BY <1>1, <1>9, <1>13, <2>2 DEF Record, TypeOK, Request
  <2> QED
    BY <2>1, <2>2
<1>14. CASE Store(c) \/ StoreFails(c)
  <2>1. req[c].answer \in SUBSET Urls
    BY <1>1, <1>14 DEF Store, StoreFails, TypeOK, Request, Answers
  <2> QED
    BY <1>4, <1>14, <2>1 DEF Store, StoreFails
<1> QED
  BY <1>5, <1>7, <1>8, <1>10, <1>11, <1>12, <1>13, <1>14 DEF ClimbOn, ClimbUnstored, Climb

LEMMA ShownInvariant == FabricSpec => []AllShown
<1>1. FabricInit => AllShown
  BY DEF FabricInit, Init, NoRequest, AllShown, ShownInv, AtPaidStep, AfterPaidStep
<1>2. TypeOK /\ TypeOK' /\ CostsInv /\ AllShown /\ [FabricNext]_fabricVars => AllShown'
  <2> SUFFICES ASSUME TypeOK, TypeOK', CostsInv, AllShown, [FabricNext]_fabricVars PROVE AllShown'
    OBVIOUS
  <2> USE LadderAssumption
  <2>1. FabType /\ \A c \in Callers : ShownInv(c) /\ fab[c] \in FabRecord
    BY DEF CostsInv, FabType, AllShown
  <2>2. ASSUME NEW c \in Callers, \A d \in Callers \ {c} : fab'[d] = fab[d] /\ req'[d] = req[d],
               req'[c].pc = "idle"
        PROVE  AllShown'
    <3>1. ShownInv(c)'
      BY <2>2 DEF ShownInv, AtPaidStep, AfterPaidStep
    <3> QED
      BY <2>2, <3>1, OneShown
  <2>3. ASSUME NEW c \in Callers, \A d \in Callers \ {c} : fab'[d] = fab[d],
               fab'[c].merged = fab[c].merged, fab'[c].open = fab[c].open,
               fab'[c].bought = fab[c].bought, fab'[c].cost = fab[c].cost, req' = req
        PROVE  AllShown'
    <3>1. ShownInv(c)'
      BY <2>1, <2>3 DEF ShownInv, AtPaidStep, AfterPaidStep, Full, PaidKept
    <3> QED
      BY <2>3, <3>1, OneShown
  <2>4. ASSUME NEW c \in Callers, NEW r \in Requests[c], Query(c, r)
        PROVE  AllShown'
    <3>1. /\ \A d \in Callers \ {c} : fab'[d] = fab[d]
          /\ fab'[c].merged = <<>> /\ fab'[c].cost = 0
      BY <2>1, <2>4 DEF Query, FabType, NoFab
    <3>2. CASE Contains(r.scopes, "web")
      <4>1. /\ \A d \in Callers \ {c} : req'[d] = req[d]
            /\ req'[c].pc = "open" /\ req'[c].found = {} /\ req'[c].limit = r.limit
        <5> DEFINE g == [NoRequest EXCEPT !.pc = "open", !.q = r.q, !.person = r.person,
                                          !.depth = r.depth, !.limit = r.limit]
        <5>1. /\ req' = [req EXCEPT ![c] = g]
              /\ g.pc = "open" /\ g.found = {} /\ g.limit = r.limit
          BY <2>4, <3>2 DEF Query, Ask, NoRequest
        <5> HIDE DEF g
        <5> QED
          BY <5>1 DEF TypeOK
      <4>2. r.limit \in Limits
        BY RequestsAreBodies DEF Body
      <4>3. ShownInv(c)'
        BY <3>1, <4>1, <4>2 DEF ShownInv, AtPaidStep, AfterPaidStep
      <4> QED
        BY <3>1, <4>1, <4>3, OneShown
    <3>3. CASE ~Contains(r.scopes, "web")
      BY <2>2, <2>4, <3>1, <3>3 DEF Query, vars
    <3> QED
      BY <3>2, <3>3
  <2>5. ASSUME NEW c \in Callers, NEW s \in DOMAIN fab[c].read, NEW n \in 0 .. MaxRead,
               ReadIndex(c, s, n)
        PROVE  AllShown'
    BY <2>1, <2>3, <2>5 DEF ReadIndex, vars, FabType, FabRecord
  <2>6. ASSUME NEW c \in Callers, RefuseCursor(c) \/ RefuseFault(c)
        PROVE  AllShown'
    <3>1. Refuse(c)
      BY <2>6 DEF RefuseCursor, RefuseFault
    <3>2. CASE Ladder(c)
      BY <2>1, <2>3, <3>1, <3>2 DEF Refuse, Ladder, vars, FabType, FabRecord
    <3>3. CASE ~Ladder(c)
      BY <2>1, <2>2, <3>1, <3>3 DEF Refuse, Ladder, Finish, NoRequest, vars, TypeOK, FabType
    <3> QED
      BY <3>2, <3>3
  <2>7. ASSUME NEW c \in Callers, LadderFails(c) \/ OrphanEnds(c)
        PROVE  AllShown'
    BY <2>1, <2>2, <2>7 DEF LadderFails, OrphanEnds, Fail, Finish, NoRequest, TypeOK, FabType
  <2>8. ASSUME NEW c \in Callers, ClimbOn(c) \/ ClimbUnstored(c)
        PROVE  AllShown'
    <3>1. \A d \in Callers \ {c} : req'[d] = req[d]
      BY <2>8, ClimbCosts DEF ClimbOn, ClimbUnstored
    <3>2. \A d \in Callers \ {c} : fab'[d] = fab[d]
      BY <2>1, <2>8 DEF ClimbOn, ClimbUnstored, Merged, FabType
    <3> QED
      BY <2>1, <2>8, <3>1, <3>2, ClimbShown, OneShown
  <2>9. ASSUME NEW c \in Callers, ClimbUnread(c)
        PROVE  AllShown'
    <3>1. /\ \A d \in Callers \ {c} : req'[d] = req[d] /\ fab'[d] = fab[d]
          /\ fab'[c] = fab[c] /\ req[c].pc = "lookup" /\ ~Enough(c)
          /\ req[c] \in Request /\ req[c].step \in Steps /\ req[c].found \in SUBSET Urls
      BY <2>9 DEF ClimbUnread, CacheUnread, Missed, TypeOK, Request
    <3>2. CASE ~Allowed(c)
      <4>1. req'[c] = Onward(c, {})
        BY <2>9, <3>1, <3>2 DEF ClimbUnread, CacheUnread, Missed, TypeOK
      <4>2. /\ <<>> \in Seq(Urls) /\ {} \in SUBSET Urls /\ 0 \in {0, 1} /\ 0 # 1
            /\ {} \ req[c].found = {} /\ \A i \in 1 .. Len(<<>>) : FALSE
        OBVIOUS
      <4>3. /\ fab'[c].cost = fab[c].cost + 0 /\ fab'[c].merged = fab[c].merged \o <<>>
            /\ fab'[c].open = fab[c].open
            /\ fab'[c].bought = IF 0 = 1 THEN {} ELSE fab[c].bought
        BY <2>1, <3>1 DEF FabRecord
      <4>4. ShownInv(c)'
        BY <2>1, <3>1, <4>1, <4>2, <4>3, OnwardShown
      <4> QED
        BY <3>1, <4>4, OneShown
    <3>3. CASE Allowed(c)
      <4>1. /\ req'[c].pc \in {"cap", "call"}
            /\ req'[c].step = req[c].step /\ req'[c].limit = req[c].limit
            /\ req'[c].depth = req[c].depth /\ req'[c].found = req[c].found
        BY <2>9, <3>1, <3>3 DEF ClimbUnread, CacheUnread, Missed, TypeOK, Request
      <4>2. ShownInv(c)'
        BY <2>1, <3>1, <4>1, WaitShown
      <4> QED
        BY <3>1, <4>2, OneShown
    <3> QED
      BY <3>2, <3>3
  <2>10. ASSUME NEW c \in Callers, Reply(c)
         PROVE  AllShown'
    <3>1. \A d \in Callers \ {c} : fab'[d] = fab[d]
      BY <2>1, <2>10 DEF Reply, FabType
    <3>2. CASE HasWeb(c)
      BY <2>2, <2>10, <3>1, <3>2 DEF Reply, Finish, NoRequest, TypeOK
    <3>3. CASE ~HasWeb(c)
      BY <2>2, <2>10, <3>1, <3>3 DEF Reply, CostsInv, CostInv, vars
    <3> QED
      BY <3>2, <3>3
  <2>11. CASE Elsewhere \/ UNCHANGED fabricVars
    <3>1. UNCHANGED <<req, fab>>
      BY <2>11 DEF Elsewhere, Midnight, Expire, fabricVars, vars
    <3> QED
      BY <3>1 DEF AllShown, ShownInv, AtPaidStep, AfterPaidStep, Full, PaidKept
  <2>12. CASE FabricCrash
    BY <2>12 DEF FabricCrash, Crash, NoRequest, AllShown, ShownInv, AtPaidStep, AfterPaidStep
  <2> QED
    BY <2>4, <2>5, <2>6, <2>7, <2>8, <2>9, <2>10, <2>11, <2>12 DEF FabricNext
<1> QED
  BY <1>1, <1>2, FabricTypeCorrect, CostsStayReported, PTL DEF FabricSpec

\* What is in front of the web pages is a number of results.
LEMMA InFrontIsNumber ==
  ASSUME NEW c \in Callers, HasWeb(c), FabType
  PROVE  InFront(c) \in Nat
<1>1. fab[c].scopes \in Seq(Scope) /\ MaxResults \in Nat
  BY FabricAssumption DEF FabType, FabRecord
<1>2. Position(c) \in DOMAIN fab[c].scopes
  BY DEF Position, HasWeb, Contains
<1>3. Position(c) - 1 \in Nat
  BY <1>1, <1>2
<1> DEFINE all == (1 .. Position(c) - 1) \X (1 .. MaxResults)
           front == {nth \in all : nth[2] <= fab[c].read[fab[c].scopes[nth[1]]]}
<1>4. IsFiniteSet(all)
  <2>1. IsFiniteSet(1 .. Position(c) - 1) /\ IsFiniteSet(1 .. MaxResults)
    <3> HIDE DEF all, front
    <3> QED
      BY <1>1, <1>3, FS_Interval
  <2> QED
    BY <2>1, FS_Product
<1>5. front \in SUBSET all
  OBVIOUS
<1>6. InFront(c) = Cardinality(front)
  BY DEF InFront
<1> HIDE DEF front, all
<1> QED
  BY <1>4, <1>5, <1>6, FS_Subset, FS_CardinalityType

\* A page that passes the filters has at most those before it in front of it.
LEMMA PagesBefore ==
  ASSUME NEW c \in Callers, FabType, NEW i \in Passes(c)
  PROVE  /\ Cardinality({j \in Passes(c) : j < i}) \in Nat
         /\ Cardinality({j \in Passes(c) : j < i}) <= i - 1
<1>1. fab[c].merged \in Seq(Urls)
  BY DEF FabType, FabRecord
<1>2. Passes(c) \subseteq 1 .. Len(fab[c].merged)
  BY <1>1 DEF Passes, Kept
<1>3. i \in Nat \ {0} /\ i - 1 \in Nat
  BY <1>1, <1>2
<1> DEFINE before == {j \in Passes(c) : j < i}
<1>4. before \subseteq 1 .. i - 1
  BY <1>1, <1>2, <1>3
<1>5. IsFiniteSet(1 .. i - 1) /\ Cardinality(1 .. i - 1) = i - 1
  <2>1. /\ IsFiniteSet(1 .. i - 1)
        /\ Cardinality(1 .. i - 1) = IF 1 > i - 1 THEN 0 ELSE (i - 1) - 1 + 1
    BY <1>3, FS_Interval
  <2> QED
    BY <1>3, <2>1
<1> HIDE DEF before
<1> QED
  BY <1>4, <1>5, FS_Subset, FS_CardinalityType DEF before

\* A request pays only with room in its answer, and of what it paid for a page is in the answer
\* unless the filters drop all of it or the scopes before the web fill the answer
\* (server/fabric/index.js runWeb and query): for any caps, limits, requests, open index and
\* filters, whatever the other requests and the cache do meanwhile.
THEOREM PaidPagesAreShown == FabricSpec => []PaidIsShown
<1>1. TypeOK /\ CostsInv /\ AllShown => PaidIsShown
  <2> SUFFICES ASSUME TypeOK, CostsInv, AllShown, NEW c \in Callers,
                      Ready(c), HasWeb(c), fab[c].cost > 0
               PROVE  LET paidFor == {i \in Kept(c) : fab[c].merged[i] \in fab[c].bought}
                      IN /\ Full(c) => req[c].depth = "deep"
                         /\ ~Full(c) => /\ paidFor # {}
                                        /\ \/ paidFor \cap Shown(c) # {}
                                           \/ paidFor \cap Passes(c) = {}
                                           \/ InFront(c) + req[c].limit > MaxResults
    BY DEF PaidIsShown, Full
  <2> DEFINE paidFor == {i \in Kept(c) : fab[c].merged[i] \in fab[c].bought}
  <2>1. req[c].pc = "done" /\ ShownInv(c) /\ FabType
    BY DEF Ready, AllShown, CostsInv
  <2>2. AfterPaidStep(c) /\ req[c].limit \in Limits
    BY <2>1 DEF ShownInv
  <2>3. (Full(c) => req[c].depth = "deep") /\ (~Full(c) => PaidKept(c))
    BY <2>1, <2>2 DEF ShownInv
  <2>4. req[c].limit \in Nat /\ fab[c].merged \in Seq(Urls)
    BY <2>1, <2>2, LadderAssumption DEF LadderAssumption, FabType, FabRecord
  <2>5. PaidKept(c) => paidFor # {}
    BY <2>4 DEF PaidKept, Kept
  <2>6. ASSUME NEW i \in paidFor \cap Passes(c), InFront(c) + req[c].limit <= MaxResults
        PROVE  i \in Shown(c)
    <3>1. i \in Nat /\ i <= req[c].limit
      BY <2>4 DEF Kept
    <3>2. /\ Cardinality({j \in Passes(c) : j < i}) \in Nat
          /\ Cardinality({j \in Passes(c) : j < i}) <= i - 1
      BY <2>1, PagesBefore
    <3>3. InFront(c) \in Nat /\ MaxResults \in Nat
      BY <2>1, InFrontIsNumber, FabricAssumption
    <3>4. InFront(c) + Cardinality({j \in Passes(c) : j < i}) < MaxResults
      BY <2>4, <2>6, <3>1, <3>2, <3>3
    <3> QED
      BY <3>4 DEF Shown
  <2>7. InFront(c) + req[c].limit > MaxResults \/ InFront(c) + req[c].limit <= MaxResults
    <3>1. InFront(c) \in Nat /\ MaxResults \in Nat
      BY <2>1, InFrontIsNumber, FabricAssumption
    <3> QED
      BY <2>4, <3>1
  <2> HIDE DEF paidFor
  <2>8. /\ Full(c) => req[c].depth = "deep"
        /\ ~Full(c) => /\ paidFor # {}
                       /\ \/ paidFor \cap Shown(c) # {}
                          \/ paidFor \cap Passes(c) = {}
                          \/ InFront(c) + req[c].limit > MaxResults
    BY <2>3, <2>5, <2>6, <2>7
  <2> QED
    BY <2>8 DEF paidFor
<1> QED
  BY <1>1, FabricTypeCorrect, CostsStayReported, ShownInvariant, PTL
=============================================================================
