----------------------------- MODULE PurgeQueue -----------------------------
(***************************************************************************)
(* The Cloudflare purge queue of server/purge.js: the rows a removal       *)
(* records in its transaction, the purger that posts them to Cloudflare    *)
(* zone by zone, and - external, modelled by what the queue is for - the   *)
(* pages the product serves and the copies the edge keeps of them.         *)
(*                                                                         *)
(* A row's seq is its place in `rows`. Time is abstracted: a retried row   *)
(* is not due until its backoff has elapsed, which may happen at any time. *)
(***************************************************************************)
EXTENDS Integers, Sequences, FiniteSets

CONSTANTS
  Pages,         \* canonical URLs of documents
  RelatedUrls,   \* CLOUDFLARE_PURGE_RELATED_PATHS on the pages' hosts
  Related,       \* [Pages -> SUBSET RelatedUrls]
  Zones,         \* Cloudflare zones
  NoZone,        \* a host CLOUDFLARE_ZONE_IDS does not map
  ZoneOf,        \* [Urls -> Zones \cup {NoZone}]
  RefusedUrls,   \* URLs Cloudflare never purges: it accepts no call that names one
  MaxAttempts,   \* MAX_ATTEMPTS
  FilesPerCall,  \* FILES_PER_CALL
  DueLimit,      \* rows one flush takes
  MaxRows,       \* bound: rows ever queued
  MaxFaults      \* bound: failed transactions and restarts of the process

Urls == Pages \cup RelatedUrls

ASSUME QueueAssumption ==
  /\ Related \in [Pages -> SUBSET RelatedUrls]
  /\ \A u \in Pages : IsFiniteSet(Related[u])
  /\ ZoneOf \in [Urls -> Zones \cup {NoZone}]
  /\ NoZone \notin Zones
  /\ MaxAttempts \in Nat \ {0}
  /\ FilesPerCall \in Nat \ {0}
  /\ DueLimit \in Nat \ {0}
  /\ MaxRows \in Nat
  /\ MaxFaults \in Nat

VARIABLES
  rows,    \* cdn_purges, in seq order
  flush,   \* the flush under way: what it read and the call it is making
  served,  \* the pages their product serves publicly
  stale,   \* URLs of which Cloudflare may hold a copy made before a removal
  cover,   \* the row that stands for the last removal of each URL, 0 when there is none
  late,    \* URLs whose last removal found its row already purged but not yet marked
  refusal, \* how the last call of each row was refused: with others, on its own, or not at all
  faults

vars == <<rows, flush, served, stale, cover, late, refusal, faults>>

NotFlushing ==
  [pc |-> "idle", zone |-> NoZone, picked |-> {}, alone |-> {}, batch |-> {}, answer |-> "none"]

Init ==
  /\ rows = <<>>
  /\ flush = NotFlushing
  /\ served = {}
  /\ stale = {}
  /\ cover = [u \in Urls |-> 0]
  /\ late = {}
  /\ refusal = [i \in 1 .. MaxRows |-> "none"]
  /\ faults = 0

Smallest(S) == CHOOSE i \in S : \A j \in S : i <= j
FirstOf(n, S) == {i \in S : Cardinality({j \in S : j < i}) < n}
InZone(S, z) == {i \in S : ZoneOf[rows[i].url] = z}
PendingOf(u) == {i \in DOMAIN rows : rows[i].state = "pending" /\ rows[i].url = u}

-----------------------------------------------------------------------------
\* Outside the service: the product serves a page, and Cloudflare may keep a copy of it.
Publish(u) ==
  /\ served' = served \cup {u}
  /\ UNCHANGED <<rows, flush, stale, cover, late, refusal, faults>>

-----------------------------------------------------------------------------
PurgeUrls(u) == {u} \cup Related[u]

\* The URLs that get a row: ON CONFLICT (zone_id, url) WHERE state = 'pending' DO NOTHING
\* leaves a pending row as it is.
NewUrls(u) == {x \in PurgeUrls(u) : ZoneOf[x] = NoZone \/ PendingOf(x) = {}}

NewRow(u) ==
  [url |-> u, state |-> IF ZoneOf[u] = NoZone THEN "skipped" ELSE "pending",
   attempts |-> 0, due |-> TRUE]

\* record: a public document is removed; in the same transaction its URL and the related
\* ones are queued, the canonical URL first. What the edge holds of them predates it.
Remove(u) ==
  /\ u \in served
  /\ served' = served \ {u}
  /\ \E new \in [1 .. Cardinality(NewUrls(u)) -> NewUrls(u)] :
       /\ \A x \in NewUrls(u) : \E i \in DOMAIN new : new[i] = x
       /\ u \in NewUrls(u) => new[1] = u
       /\ Len(rows) + Len(new) <= MaxRows
       /\ rows' = rows \o [i \in DOMAIN new |-> NewRow(new[i])]
       /\ cover' = [x \in Urls |->
                      IF x \in NewUrls(u)
                      THEN Len(rows) + CHOOSE i \in DOMAIN new : new[i] = x
                      ELSE IF x \in PurgeUrls(u) THEN Smallest(PendingOf(x)) ELSE cover[x]]
  /\ stale' = stale \cup PurgeUrls(u)
  /\ late' = (late \ PurgeUrls(u)) \cup
             {x \in PurgeUrls(u) \ NewUrls(u) :
                flush.answer = "purged" /\ PendingOf(x) \subseteq flush.batch}
  /\ UNCHANGED <<flush, refusal, faults>>

\* The backoff of a retried row has elapsed.
Elapse(i) ==
  /\ i \in DOMAIN rows
  /\ rows[i].state = "pending" /\ ~rows[i].due
  /\ rows' = [rows EXCEPT ![i].due = TRUE]
  /\ UNCHANGED <<flush, served, stale, cover, late, refusal, faults>>

-----------------------------------------------------------------------------
\* doFlush reads the due rows, oldest first. One flush runs at a time.
Select ==
  LET due == {i \in DOMAIN rows : rows[i].state = "pending" /\ rows[i].due}
  IN /\ flush.pc = "idle"
     /\ due # {}
     /\ flush' = [NotFlushing EXCEPT !.pc = "call", !.picked = FirstOf(DueLimit, due)]
     /\ UNCHANGED <<rows, served, stale, cover, late, refusal, faults>>

\* Variants with a plausible fault; the properties have to notice them.
NextBatchIgnoresZone ==
  IF flush.alone # {} THEN {Smallest(flush.alone)} ELSE FirstOf(FilesPerCall, flush.picked)

\* The next call: a row of a refused batch on its own, or the next rows of the zone under
\* way, or of the zone of the oldest row left.
NextBatch ==
  LET same == InZone(flush.picked, flush.zone)
  IN IF flush.alone # {} THEN {Smallest(flush.alone)}
     ELSE FirstOf(FilesPerCall,
                  IF same # {} THEN same
                  ELSE InZone(flush.picked, ZoneOf[rows[Smallest(flush.picked)].url]))

UrlsOf(S) == {rows[i].url : i \in S}

\* purgeBatch calls Cloudflare, which answers, having dropped its copies or not.
Call(answer, dropped) ==
  /\ flush.pc = "call"
  /\ dropped => UrlsOf(NextBatch) \cap RefusedUrls = {}
  /\ stale' = IF dropped THEN stale \ UrlsOf(NextBatch) ELSE stale
  /\ flush' = [flush EXCEPT !.pc = "mark", !.batch = NextBatch, !.answer = answer]
  /\ refusal' = [i \in 1 .. MaxRows |->
                   IF i \notin NextBatch THEN refusal[i]
                   ELSE IF answer # "refused" THEN "none"
                   ELSE IF Cardinality(NextBatch) = 1 THEN "own" ELSE "shared"]
  /\ UNCHANGED <<rows, served, cover, late, faults>>

\* A 2xx that says success: true.
Accepted == Call("purged", TRUE)

\* 429, 408, 5xx, or a network error or timeout before there is a status; the purge may have
\* happened all the same.
Unanswered(dropped) == Call("retry", dropped)

\* Every other answer counts as a refusal: a bad URL, a token without permission, an unknown
\* zone, or a 2xx whose body does not say success. A body that breaks off or times out is
\* read as none, so this answer too may come after the purge.
Refused(dropped) == Call("refused", dropped)

\* The flush after its batch is dealt with; `alone` is a refused batch to take apart.
Proceed(alone) ==
  LET left == flush.picked \ flush.batch
      single == IF alone # {} THEN alone ELSE flush.alone \ flush.batch
  IN flush' = IF left = {} /\ single = {}
              THEN NotFlushing
              ELSE [NotFlushing EXCEPT !.pc = "call", !.picked = left, !.alone = single,
                      !.zone = ZoneOf[rows[Smallest(flush.batch)].url]]

SplitSinksAll ==
  /\ flush.pc = "mark"
  /\ flush.answer = "refused" /\ Cardinality(flush.batch) > 1
  /\ rows' = [i \in DOMAIN rows |->
                IF i \in flush.batch
                THEN [rows[i] EXCEPT !.state = "failed", !.attempts = @ + 1] ELSE rows[i]]
  /\ Proceed({})
  /\ UNCHANGED <<served, stale, cover, late, refusal, faults>>

\* A refused batch of several rows is retried one URL at a time; nothing is written.
Split ==
  /\ flush.pc = "mark"
  /\ flush.answer = "refused" /\ Cardinality(flush.batch) > 1
  /\ Proceed(flush.batch)
  /\ UNCHANGED <<rows, served, stale, cover, late, refusal, faults>>

MarkedRetryForever(r) ==
  IF flush.answer = "purged" THEN [r EXCEPT !.state = "purged", !.attempts = @ + 1]
  ELSE IF flush.answer = "refused" THEN [r EXCEPT !.state = "failed", !.attempts = @ + 1]
  ELSE [r EXCEPT !.due = FALSE]
MarkedPurgedOnRetry(r) ==
  IF flush.answer # "refused" THEN [r EXCEPT !.state = "purged", !.attempts = @ + 1]
  ELSE [r EXCEPT !.state = "failed", !.attempts = @ + 1]
MarkedOffByOne(r) ==
  IF flush.answer = "purged" THEN [r EXCEPT !.state = "purged", !.attempts = @ + 1]
  ELSE IF flush.answer = "refused" \/ r.attempts >= MaxAttempts
  THEN [r EXCEPT !.state = "failed", !.attempts = @ + 1]
  ELSE [r EXCEPT !.attempts = @ + 1, !.due = FALSE]

\* What the answer makes of one row: purged, failed, or retried later.
Marked(r) ==
  IF flush.answer = "purged" THEN [r EXCEPT !.state = "purged", !.attempts = @ + 1]
  ELSE IF flush.answer = "refused" \/ r.attempts + 1 >= MaxAttempts
  THEN [r EXCEPT !.state = "failed", !.attempts = @ + 1]
  ELSE [r EXCEPT !.attempts = @ + 1, !.due = FALSE]

\* mark: the rows of the batch, in one transaction.
Mark ==
  /\ flush.pc = "mark"
  /\ flush.answer = "refused" => Cardinality(flush.batch) = 1
  /\ rows' = [i \in DOMAIN rows |-> IF i \in flush.batch THEN Marked(rows[i]) ELSE rows[i]]
  /\ Proceed({})
  /\ UNCHANGED <<served, stale, cover, late, refusal, faults>>

\* The transaction fails, which ends this flush, or the process dies and starts again.
Abandon ==
  /\ flush.pc # "idle"
  /\ faults < MaxFaults
  /\ faults' = faults + 1
  /\ flush' = NotFlushing
  /\ refusal' = [i \in 1 .. MaxRows |-> IF refusal[i] = "shared" THEN "none" ELSE refusal[i]]
  /\ UNCHANGED <<rows, served, stale, cover, late>>

Work ==
  \/ Select
  \/ Accepted
  \/ \E dropped \in BOOLEAN : Unanswered(dropped) \/ Refused(dropped)
  \/ Split
  \/ Mark

Next ==
  \/ Work
  \/ Abandon
  \/ \E u \in Pages : Publish(u) \/ Remove(u)
  \/ \E i \in 1 .. MaxRows : Elapse(i)

Spec == Init /\ [][Next]_vars

\* The timer flushes for ever, a call is answered or times out, and time passes.
FairSpec ==
  /\ Spec
  /\ WF_vars(Work)
  /\ \A i \in 1 .. MaxRows : WF_vars(Elapse(i))

-----------------------------------------------------------------------------
Row == [url : Urls, state : {"pending", "purged", "failed", "skipped"},
        attempts : 0 .. MaxAttempts, due : BOOLEAN]

\* The type invariant. No row is attempted more than MAX_ATTEMPTS times.
QueueTypeOK ==
  /\ rows \in Seq(Row)
  /\ flush \in [pc : {"idle", "call", "mark"}, zone : Zones \cup {NoZone},
                picked : SUBSET DOMAIN rows,
                alone : SUBSET DOMAIN rows, batch : SUBSET DOMAIN rows,
                answer : {"none", "purged", "refused", "retry"}]
  /\ served \subseteq Pages
  /\ stale \subseteq Urls
  /\ cover \in [Urls -> 0 .. Len(rows)]
  /\ late \subseteq Urls
  /\ refusal \in [1 .. MaxRows -> {"none", "shared", "own"}]
  /\ faults \in Nat

\* A call names URLs of one zone, at most FILES_PER_CALL of them, none of them dealt with.
CallsWithinLimits ==
  flush.pc = "mark" =>
    /\ Cardinality(flush.batch) \in 1 .. FilesPerCall
    /\ \A i, j \in flush.batch : ZoneOf[rows[i].url] = ZoneOf[rows[j].url]
    /\ \A i \in flush.batch : rows[i].state = "pending"

\* One bad URL does not sink the others, whatever was wrong with the call: before its attempts
\* are used up a row is given up only on a refusal of its own, and one refused in company is
\* still pending, with a call of its own to come in the same flush - unless that flush is
\* abandoned, which leaves it pending too.
FailedForItsOwnSake ==
  /\ \A i \in DOMAIN rows :
       rows[i].state = "failed" /\ rows[i].attempts < MaxAttempts => refusal[i] = "own"
  /\ \A i \in 1 .. MaxRows :
       refusal[i] = "shared" =>
         i \in flush.batch \cup flush.alone /\ rows[i].state = "pending"

\* Once the row that stands for a URL's last removal is marked purged, the edge holds no copy
\* made before that removal - however calls, retries, restarts, republications and new
\* removals interleave. The one exception is a removal that found its row purged at
\* Cloudflare but not marked yet.
PurgedUnlessLate ==
  \A u \in Urls \ late :
    cover[u] # 0 /\ rows[cover[u]].state = "purged" => u \notin stale

\* The same without the exception, as the README puts it: what was public is purged.
RemovedUrlIsPurged ==
  \A u \in Urls : cover[u] # 0 /\ rows[cover[u]].state = "purged" => u \notin stale

\* No row waits for ever: each is purged, or given up after its attempts.
Waiting(i) == i \in DOMAIN rows /\ rows[i].state = "pending"
EveryRowSettles == \A i \in 1 .. MaxRows : Waiting(i) ~> ~Waiting(i)
=============================================================================
