----------------------------- MODULE WebLadder -----------------------------
(***************************************************************************)
(* The web scope of the Search Fabric (server/fabric/index.js runWeb): the *)
(* open index first, then two provider steps, DeepSeek (paid, capped per   *)
(* day) and Wikipedia (free), each looked up in the answer cache before it *)
(* is called (server/fabric/cache.js, server/fabric/web.js). Every await   *)
(* is a point where the requests of other callers may run.                 *)
(*                                                                         *)
(* A Question stands for what the cache key is made of besides the step:   *)
(* the normalized query, freshness and site. Results are their URLs.       *)
(***************************************************************************)
EXTENDS Integers, FiniteSets

CONSTANTS
  Callers,    \* requests that may be under way at the same time
  Questions,
  Urls,
  OpenIndex,  \* [Questions -> SUBSET Urls]: what the open index may find
  Limits,     \* limits a request may ask for
  NoAnswer,   \* no cached answer, or a failed call
  Cap,        \* SEARCH_WEB_DAILY
  MaxDays,    \* bound: days
  MaxFaults   \* bound: crashes, and failed reads and writes

ASSUME LadderAssumption ==
  /\ IsFiniteSet(Callers) /\ Callers # {}
  /\ OpenIndex \in [Questions -> SUBSET Urls]
  /\ IsFiniteSet(Urls)
  /\ Limits \subseteq Nat \ {0}
  /\ \A answer \in SUBSET Urls : NoAnswer # answer
  /\ Cap \in Nat
  /\ MaxDays \in Nat \ {0}
  /\ MaxFaults \in Nat

Steps == {"deepseek", "wikipedia"}
Paid(step) == step = "deepseek"

VARIABLES
  req,       \* the request each caller has under way
  cache,     \* query_cache: the answer of each question and step
  calls,     \* query_provider_stats: today's calls of DeepSeek; Wikipedia's are only reported
  day,
  answered,  \* what each step has answered to each question
  again,     \* answers bought to a question although one was cached
  owed,      \* paid calls made, less those counted and those cut off before they could be
  faults

vars == <<req, cache, calls, day, answered, again, owed, faults>>

Key == Questions \X Steps

NoRequest ==
  [pc |-> "idle", q |-> "none", person |-> FALSE, depth |-> "none", limit |-> 0,
   step |-> "none", found |-> {}, answer |-> {}]

Init ==
  /\ req = [c \in Callers |-> NoRequest]
  /\ cache = [k \in Key |-> NoAnswer]
  /\ calls = 0
  /\ day = 1
  /\ answered = [k \in Key |-> {}]
  /\ again = [q \in Questions |-> 0]
  /\ owed = 0
  /\ faults = 0

Fault == faults < MaxFaults /\ faults' = faults + 1

-----------------------------------------------------------------------------
\* A request: anonymous, or of a signed-in person or a service.
Ask(c, q, person, depth, limit) ==
  /\ req[c].pc = "idle"
  /\ req' = [req EXCEPT ![c] = [NoRequest EXCEPT !.pc = "open", !.q = q, !.person = person,
                                                 !.depth = depth, !.limit = limit]]
  /\ UNCHANGED <<cache, calls, day, answered, again, owed, faults>>

\* Up to limit results of the open index as it is at the time.
OpenIndexStep(c) ==
  /\ req[c].pc = "open"
  /\ \E found \in SUBSET OpenIndex[req[c].q] :
       /\ Cardinality(found) <= req[c].limit
       /\ req' = [req EXCEPT ![c] = [@ EXCEPT !.pc = "lookup", !.step = "deepseek",
                                              !.found = found]]
  /\ UNCHANGED <<cache, calls, day, answered, again, owed, faults>>

\* Variants with a plausible fault; the properties have to notice them.
KeyWithoutStep(c) == <<req[c].q, "deepseek">>
\* cacheKey: shared by every caller, whatever the limit.
CacheKey(c) == <<req[c].q, req[c].step>>

\* The request once its step has found `more`: the next step, or the answer.
Onward(c, more) ==
  IF req[c].step = "deepseek"
  THEN [req[c] EXCEPT !.pc = "lookup", !.step = "wikipedia", !.found = @ \cup more, !.answer = {}]
  ELSE [req[c] EXCEPT !.pc = "done", !.found = @ \cup more, !.answer = {}]

\* A variant with a plausible fault: the properties have to notice it.
EnoughIsThree(c) == req[c].depth # "deep" /\ Cardinality(req[c].found) >= 3
\* Earlier steps have found min(limit, 3) results; a deep request never has enough.
Enough(c) ==
  /\ req[c].depth # "deep"
  /\ Cardinality(req[c].found) >= IF req[c].limit < 3 THEN req[c].limit ELSE 3

CachedUnlessDeep(c) == IF req[c].depth = "deep" THEN NoAnswer ELSE cache[CacheKey(c)]
Cached(c) == cache[CacheKey(c)]

AllowedAnyone(c) == req[c].depth # "quick"
\* A quick request reads indexes only; paid steps are for signed-in persons and services.
Allowed(c) == req[c].depth # "quick" /\ (Paid(req[c].step) => req[c].person)

\* Earlier steps answered.
Skip(c) ==
  /\ req[c].pc = "lookup"
  /\ Enough(c)
  /\ req' = [req EXCEPT ![c] = Onward(c, {})]
  /\ UNCHANGED <<cache, calls, day, answered, again, owed, faults>>

\* A cached answer costs nothing and serves anyone.
CacheHit(c) ==
  /\ req[c].pc = "lookup"
  /\ ~Enough(c)
  /\ Cached(c) # NoAnswer
  /\ req' = [req EXCEPT ![c] = Onward(c, Cached(c))]
  /\ UNCHANGED <<cache, calls, day, answered, again, owed, faults>>

\* No cached answer, or the cache cannot be read: the step is over, or goes on to its call,
\* a paid one to its cap first.
Missed(c) ==
  /\ req[c].pc = "lookup"
  /\ ~Enough(c)
  /\ req' = [req EXCEPT ![c] = IF ~Allowed(c) THEN Onward(c, {})
                               ELSE [@ EXCEPT !.pc = IF Paid(req[c].step) THEN "cap" ELSE "call"]]
CacheMiss(c) ==
  /\ Missed(c)
  /\ Cached(c) = NoAnswer
  /\ UNCHANGED <<cache, calls, day, answered, again, owed, faults>>
CacheUnread(c) ==
  /\ Missed(c)
  /\ Cached(c) # NoAnswer
  /\ Fault
  /\ UNCHANGED <<cache, calls, day, answered, again, owed>>

CapReachedUnlessDeep(c) == req[c].depth # "deep" /\ calls >= Cap
\* The cap is compared with the calls counted so far today.
CapReached(c) == calls >= Cap
CheckCap(c) ==
  /\ req[c].pc = "cap"
  /\ req' = [req EXCEPT ![c] = IF CapReached(c) THEN Onward(c, {}) ELSE [@ EXCEPT !.pc = "call"]]
  /\ UNCHANGED <<cache, calls, day, answered, again, owed, faults>>

\* web.research: the provider answers up to limit results, or the call fails or times out.
Research(c, answer) ==
  /\ req[c].pc = "call"
  /\ answer # NoAnswer => Cardinality(answer) <= req[c].limit
  /\ req' = [req EXCEPT ![c] = [@ EXCEPT !.pc = "record", !.answer = answer]]
  /\ IF answer = NoAnswer
     THEN UNCHANGED <<answered, again>>
     ELSE /\ answered' = [answered EXCEPT ![<<req[c].q, req[c].step>>] = @ \cup answer]
          /\ again' = IF Paid(req[c].step) /\ cache[<<req[c].q, req[c].step>>] # NoAnswer
                      THEN [again EXCEPT ![req[c].q] = @ + 1] ELSE again
  /\ owed' = IF Paid(req[c].step) THEN owed + 1 ELSE owed
  /\ UNCHANGED <<cache, calls, day, faults>>

RecordedIfAnswered(c) == req[c].answer # NoAnswer
\* A call is counted whether or not it answered.
Recorded(c) == TRUE

\* recordProvider counts the call on the day it has ended; a failed call ends the step.
Record(c) ==
  /\ req[c].pc = "record"
  /\ IF Recorded(c) /\ Paid(req[c].step)
     THEN calls' = calls + 1 /\ owed' = owed - 1
     ELSE UNCHANGED <<calls, owed>>
  /\ req' = [req EXCEPT ![c] = IF @.answer = NoAnswer THEN Onward(c, {})
                               ELSE [@ EXCEPT !.pc = "store"]]
  /\ UNCHANGED <<cache, day, answered, again, faults>>

\* The index, or the count, cannot be read or written: the request fails.
InCall(c) == req[c].pc = "record" /\ Paid(req[c].step)
Fail(c) ==
  /\ req[c].pc \in {"open", "cap", "record"}
  /\ Fault
  /\ owed' = IF InCall(c) THEN owed - 1 ELSE owed
  /\ req' = [req EXCEPT ![c] = NoRequest]
  /\ UNCHANGED <<cache, calls, day, answered, again>>

\* cache.put replaces an answer that came first.
Store(c) ==
  /\ req[c].pc = "store"
  /\ cache' = [cache EXCEPT ![CacheKey(c)] = req[c].answer]
  /\ req' = [req EXCEPT ![c] = Onward(c, req[c].answer)]
  /\ UNCHANGED <<calls, day, answered, again, owed, faults>>

\* The cache cannot be written: the answer is used all the same.
StoreFails(c) ==
  /\ req[c].pc = "store"
  /\ Fault
  /\ req' = [req EXCEPT ![c] = Onward(c, req[c].answer)]
  /\ UNCHANGED <<cache, calls, day, answered, again, owed>>

\* The answer goes out, cut to limit.
Finish(c) ==
  /\ req[c].pc = "done"
  /\ req' = [req EXCEPT ![c] = NoRequest]
  /\ UNCHANGED <<cache, calls, day, answered, again, owed, faults>>

-----------------------------------------------------------------------------
Midnight ==
  /\ day < MaxDays
  /\ day' = day + 1
  /\ calls' = 0
  /\ UNCHANGED <<req, cache, answered, again, owed, faults>>

\* An answer reaches its TTL.
Expire(k) ==
  /\ cache[k] # NoAnswer
  /\ cache' = [cache EXCEPT ![k] = NoAnswer]
  /\ again' = IF Paid(k[2]) THEN [again EXCEPT ![k[1]] = 0] ELSE again
  /\ UNCHANGED <<req, calls, day, answered, owed, faults>>

\* The process dies and starts again, its requests with it.
Crash ==
  /\ Fault
  /\ req' = [c \in Callers |-> NoRequest]
  /\ owed' = owed - Cardinality({c \in Callers : InCall(c)})
  /\ UNCHANGED <<cache, calls, day, answered, again>>

Answers == {NoAnswer} \cup SUBSET Urls
Depths == {"quick", "standard", "deep"}

Climb(c) ==
  \/ OpenIndexStep(c) \/ Skip(c) \/ CacheHit(c) \/ CacheMiss(c) \/ CheckCap(c)
  \/ \E answer \in Answers : Research(c, answer)
  \/ Record(c) \/ Store(c)

Next ==
  \/ \E c \in Callers :
       \/ \E q \in Questions, person \in BOOLEAN, depth \in Depths, limit \in Limits :
            Ask(c, q, person, depth, limit)
       \/ Climb(c) \/ Finish(c)
       \/ CacheUnread(c) \/ Fail(c) \/ StoreFails(c)
  \/ Midnight
  \/ \E k \in Key : Expire(k)
  \/ Crash

Spec == Init /\ [][Next]_vars

-----------------------------------------------------------------------------
Request ==
  [pc : {"idle", "open", "lookup", "cap", "call", "record", "store", "done"},
   q : Questions \cup {"none"}, person : BOOLEAN, depth : Depths \cup {"none"},
   limit : Limits \cup {0}, step : Steps \cup {"none"}, found : SUBSET Urls, answer : Answers]

\* The type invariant. Only a step that the request may run comes near a provider.
TypeOK ==
  /\ req \in [Callers -> Request]
  /\ \A c \in Callers :
       /\ req[c].pc # "idle" => req[c].q \in Questions
       /\ req[c].pc \in {"lookup", "cap", "call", "record", "store"} => req[c].step \in Steps
       /\ req[c].pc \in {"call", "record", "store"} =>
            req[c].depth # "quick" /\ (Paid(req[c].step) => req[c].person)
       /\ req[c].pc = "cap" => req[c].depth # "quick" /\ Paid(req[c].step) /\ req[c].person
       /\ req[c].pc = "store" => req[c].answer # NoAnswer
  /\ cache \in [Key -> Answers]
  /\ calls \in Nat
  /\ day \in 1 .. MaxDays
  /\ answered \in [Key -> SUBSET Urls]
  /\ again \in [Questions -> Nat]
  /\ owed \in Int
  /\ faults \in 0 .. MaxFaults

\* The daily cap is checked before a call and counted after it, so it may be exceeded, but
\* only by the other requests that had passed the check when it was reached.
CapNearlyKept == calls <= Cap + Cardinality(Callers) - 1

\* Every paid call is counted, once, on some day, also when it failed or its answer could
\* not be cached, unless the process dies or the database fails before the count.
EveryCallCounted == owed = Cardinality({c \in Callers : InCall(c)})

\* What is served from the cache as a step's answer is what that very step's provider
\* answered to that very question: a paid answer is never passed off as a free one.
CachedIsAnswered ==
  \A k \in Key : cache[k] # NoAnswer => cache[k] \subseteq answered[k]

\* While an answer is in the cache it is bought again only by requests that had missed it
\* before, or could not read the cache.
BoughtOncePerMiss ==
  \A q \in Questions : again[q] <= Cardinality(Callers) - 1 + faults
=============================================================================
