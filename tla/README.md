# Verification of OpenVibe.Search

TLA+ models of OpenVibe.Search (`server/`, Node.js over PostgreSQL), checked with TLC on small
instances and proved with TLAPS for every value of the constants, as far as that prover reaches.

## The system

Products ("owners") publish documents to Search, as events through OpenVibe.Events or directly
through the owner API. Search keeps the newest revision of each document, decides whom it may be
shown to, answers queries, tells everyone else what appeared and what must disappear, and notifies
people about their saved searches. All state is in one PostgreSQL database (an embedded PGlite in
development and tests); one Node.js process serves requests and runs the background jobs.

| Part | State it keeps | Operations | What is hard |
|---|---|---|---|
| Index document (`server/document.js`) | none | `normalize`, `effectiveIndexability`, `exposureOf` | visibility is decided twice: `canView` in JavaScript, `aclClause` in SQL |
| Document store (`server/store.js`) | `documents`, `doc_acl`, `doc_facets`, and in the same transaction `search_fts`, `service_outbox`, `removals`, `cdn_purges` | `apply`, `remove` | several awaited statements per transaction, no row lock when reading, old versions arriving late |
| Events inbox (`server/api/webhook.js`) | `idempotency_receipts`, `ingest_rejections` | `POST /internal/events` | at-least-once delivery, two deliveries of one event at a time |
| Full-text index (`server/engine/pg.js`) | `search_fts` | `put`, `remove`, `reconcile`, the queries | agreement with the documents after crashes and restores |
| Removal feed and purge queue (`server/purge.js`) | `removals`, `cdn_purges` | `record`, `ownerFeed`, the purger's flush | coalescing, retries, refused batches, a crash between call and mark; a cursor over numbers that commit out of order |
| Saved searches (`server/saved.js`, `server/saved-notifier.js`) | `saved_searches` | save, delete, open results, notifier tick | one watermark moved by two actors, pushes that fail or are answered late |
| Embedder (`server/fabric/embedder.js`) | `search_embeddings`, a budget window and a backoff in memory | tick | documents change while they are being embedded, two processes may embed |
| Search Fabric (`server/fabric/index.js`) | `query_cache`, `query_provider_stats` | `query` | paid providers with a daily cap, concurrent requests, a scope that refuses the request while the ladder goes on |
| Query (`server/api/query.js`, `server/ranking.js`, `server/fabric/rrf.js`) | none | search, browse, paging, ranking, fusion | stable pages over a changing index; one order computed in SQL and again in JavaScript |
| MCP (`server/api/mcp.js`) and per-actor limits (`server/actor-limits.js`) | counters in memory | JSON-RPC batches, tool calls | a batch refused or failing halfway has spent its units |
| Web, auth, lifecycle (`server/web`, `server/auth.js`, `server/index.js`) | caches in memory | rendering, boot and shutdown | single-flight caches, shutdown order |

How the parts interact: the inbox and the owner API call the store inside one database transaction;
the store writes the index, the outbox and the purge queue in that transaction. The purger, the
notifier and the embedder are timers in the same process that read what the store committed. The
SDK's outbox relays events; Cloudflare, Network and OpenVibe.AI are called over HTTP.

`PROJECT.json` lists every part, modelled or not, and every hazard with the properties aimed at it.

## Modules

| Module | Models | Composed with |
|---|---|---|
| `Document` | the document as a value, exposure, side rows, the two visibility tests | |
| `RevisionRegister` | the abstract promise of the store: a register per document that only moves forward | `Document` |
| `IndexStore` | store, inbox, owner API, reconcile: handlers as transactions of several steps | `Document`, instance of `RevisionRegister` |
| `IndexStore_proofs` | theorems about `Document` and `IndexStore`, and that it implements `RevisionRegister` when serial | |
| `PurgeQueue` | the purge queue, the purger and the edge caches | |
| `RemovalFeed` | the owner's removal feed and reconciliation page, and a product that reads both | |
| `SavedNotifier` | saved searches, the notifier tick and the person | |
| `Embedder` | the embedding job in the service and in a backfill, the stored vectors | |
| `WebLadder` | the web scope of the Search Fabric: open index, two provider steps, cache, daily cap | |
| `Fabric` | whole requests: scopes in parallel, refusal, filters, cut and cost of the answer | `WebLadder` (its ladder steps are `WebLadder`'s actions) |
| `Fabric_proofs` | theorems about `WebLadder`, that `Fabric` implements it, and what follows | |
| `Paging` | the pages of one query: keyset and offset cursors, fusion, the relaxed answer | |
| `Ranking` | how a query is rewritten and its results ordered, by the engine and by the query path | |
| `Mcp` | JSON-RPC batches over one budget an actor | |
| `Removals_proofs` | theorems about `PurgeQueue` and `RemovalFeed` | |
| `SavedNotifier_proofs`, `Embedder_proofs`, `Paging_proofs`, `Ranking_proofs`, `Mcp_proofs` | theorems about the module of that name | |
| `MC*` | instances for TLC | |

### IndexStore

`docs`, `side`, `fts`, `receipts`, `rejections`, `outbox`, `removals`, `cdn` are the tables; `tx` is
what each request handler holds between two statements. A handler starts with `Deliver`,
`ApiApply` or `ApiDelete`, reads the row and decides (`Read`), updates or inserts it and so locks it
(`WriteRow`), replaces the side rows and the index row (`WriteSide`) and commits (`Commit`). All of a
transaction becomes visible at its commit. `Fail` is a rollback, `UniqueViolation` the lost race of
two first inserts, `Restart` a crash and boot, with a database restore that may have lost index rows,
which `reconcile` has to repair. `Serial = TRUE` is PGlite, one transaction at a time;
`Serial = FALSE` is pooled PostgreSQL at READ COMMITTED, the level the code gets because it asks for
no other. With `Serial` the store implements `RevisionRegister` under `register <- docs`. `clobbered` is
history: the identities of which a handler has replaced a version it had not read. That is the lost
update of the run `lost_update`; what events, outbox, feed and purges say is claimed of all other
identities, also while handlers overlap.

Abstractions: `doc_acl` and `doc_facets` are one set of rows, `side`; texts are told apart by
identity only; `rid`, `indexed_at`, `via` and the removal's reason are left out; a purge is queued as
if a Cloudflare token were configured. The handler of the account topic belongs to openvibe-sdk: an
account event is claimed and receipted and changes no document.

### PurgeQueue

`rows` is `cdn_purges` in `seq` order, `flush` the flush under way. `Remove` is `record` for one
removal: the canonical URL and its related URLs get a row each, unless a pending row of the same URL
exists. `Select` reads the due rows; `Accepted`, `Refused` and `Unanswered` are the ends of one call
to Cloudflare; `Mark` and `Split` are what the purger does with the answer; `Abandon` is a failed
transaction or a restart. Refused is every answer that is neither a success nor worth a retry, whatever
the reason: a URL, a token without permission, an unknown zone, or a 2xx whose body does not say success
or cannot be read, which may come after the purge. `refusal` is history: how the last call of each row
was refused, in company or on its own. The edge is external: a removal makes every copy of its URLs out of date
(`stale`, the worst case), and a purge that Cloudflare carries out drops them. `cover` names the row
that stands for a URL's last removal. A backoff is abstracted to "not due until some later time".

### RemovalFeed

`removals` holds the committed rows of the feed, `open` the number each open transaction has taken:
an identity number is drawn when the row is written (`Record`) and visible at the commit. `ReadFeed`
is `ownerFeed`, `ReadDocuments` the reconciliation page `ownerPage` with its one row too many. `handle`
is the database handle `openDb` chose: `"serial"` (PGlite) finds the connection free only between
transactions. The product is external and what README.md:310-313 asks it to be: it polls, drops its
copies, saves the cursor, and may lose an answer or stop before it has saved (`TakeFeed(FALSE)`); it
drops a copy only if that is not newer than the removal. `given` and `overtaken` are history: the
removals it took in, and the numbers its cursor passed while their transaction was open. The events of
the outbox, a second way to learn of a removal, and rows other than removals of published documents are
left out.

### SavedNotifier

`saved` is the table, `tick` the notifier's pass with its start time and its snapshot of due
searches, `open` the requests for results under way, of which several may overlap, also of one search.
An opening runs the query and takes some page of what it finds (`OpenRun`; which page depends on limit
and cursor, so it is any part), reads the clock (`OpenClock`) and writes what it read (`OpenMark`),
whatever has been written since; then the page is sent, which may not arrive. History: `announced`,
`seen` (results on pages that arrived), `missed` (documents no query could find before the watermark
passed their `indexed_at`, or found for nobody), `late` (announced by a tick that had begun before they
were indexed), `unshown` (passed by an opening without being on its page) and `uncovered` (passed
before an opening moved the watermark back). Failed pushes may or may not have arrived. Left out: the
per-subject limit and renames.

### Embedder

`vectors` is `search_embeddings`, one row per document: the version its `content_hash` names and the
version its text was taken from, which the table cannot tell apart and the properties do. `job` is the
tick under way in each process, `window`, `failures` and `wait` its budget window and backoff in memory,
`recent[n]` what it has sent in the last `n` units of time, up to a minute. A tick reads the public
documents (`ReadDocuments`), then the stored vectors (`ReadVectors`), and goes on batch by batch: `Call`
takes what the budget allows, `Answered` or `Failed` ends the call and charges the window, `Put` stores
one vector. `Change` is an owner's commit at any time. Left out: a changed model or dimension, a
database without pgvector, and deletion of vectors, which the code never does.

### WebLadder

`req` is the request of each caller, `cache` is `query_cache`, `calls` today's DeepSeek row of
`query_provider_stats`. A request reads the open index, and then for each step looks into the cache
(`CacheHit`, `CacheMiss`, `CacheUnread`), checks the cap, calls (`Research`), counts (`Record`) and
caches (`Store`); every one of these is an await between which other requests run. A question stands
for the normalized query, freshness and site, so that a key differs by question and step only.
`answered`, `again` and `owed` are history: what a step's provider has answered, how often a cached
answer was bought again, and the paid calls not counted yet. Left out: an instance with web search
off. The module has no run of its own: its actions are run, and its properties checked, inside `Fabric`.

### Fabric

`fab` is the request around each caller's ladder: the scopes asked for, how many results each has
brought (`Running` while it has not answered), the web pages one by one in the order they were merged
(`merged`), how many of them the open index found, which pages the paid answer brought, and what the
explain rows say it cost. `Query` starts all scopes; `ReadIndex` is an answer of `runNetwork`, `runMine`
or `runVertical`, as a count; `ClimbOn` is a step of `WebLadder`, whose new pages go behind the others
(`Merged`). A scope that throws, for a cursor of another query (`RefuseCursor`) or a failed search
(`RefuseFault`), rejects the `Promise.all`: the caller has its error, and the ladder goes on until
`OrphanEnds`. `Reply` makes the answer: of the merged pages the limit keeps some (`Kept`), the filters
let single ones through (`Passes`, by `Lets`), and the results of the scopes in front leave room for the
first of these (`Shown`). `bill` is history: paid answers a ladder has bought, less those reported to its
caller. Left out: `next_cursor`, citations, the synthesized answer (never given), and a service without a
person.

### Paging

`docs` is what the query can find, `page` the request under way or the last one, `shown` and `moved`
are history: how often the walk has shown each document, and what has changed since it began. A
document is reduced to what decides its place: the query's words it holds, its `tier` (site, field,
title words, thinness: `rank`'s coarse part and `docTier`, `isThin`), its `place` among equals
(relevance, importance and recency, or `sort_at` for a browse), whether its freshness boost wears off,
its vector distance, and who may see it. A walk keeps to the page limit it began with. `Ask` decides
the ranking anew and checks the cursor, `Search` is the engine's keyset page, `KeywordList`, `NearList`
and `Fuse` are the hybrid candidates, `ReadRow` is `byRid`, `Order` and `Compose` make the page (two
steps here, one in the code), `Relax` looks again for any of the words, `Answer` sends the page and its
cursor. `Change` is an owner's commit at any moment, also between
two rows of one page. Scores are compared as exact fractions, not as floats. Left out: tokenizing,
filters, snippets, the deals reordering, facet counts, and changes of a title.

### Ranking

`match` is the query as the engine is asked, `hits` two rows it finds, in either order, `page` what
the query path makes of them. `Ask` is a question's rewriting to its content words, `Relax` the query
of any word. A document is what the two orders look at: the fields that hold each word, the host and path
of its URL, its type, the lengths of title and summary, and its relevance (`ts_rank` times freshness,
external, below 2 as `engine/pg.js:165-166` says; a freshness weight above 1 would break that).
`EngineRank` is the number the SQL computes, `RankKey` the tuple of `rankOrder`. Two rows are enough for
a property of an order. A query finds every document that holds its words, in whatever fields.
`FieldTierInSql` is what the SQL makes of PostgreSQL's `ts_rank` with one field's weight at a time, and
`FieldTier` what JavaScript makes of the words: `ts_rank` is external and modelled by when it is above
zero (`ScoredFields`). Of one word, or of any word, that is when the field holds one; of every word of
several, when it holds a pair of them; and where the document holds no pair at all the answer is a
constant above zero in every field (`NoPairs`), which happens to the records that a site's name alone
finds. Left out: prefixes, title-only queries, duplicates (SQL folds the case of a title, JavaScript its
inner spaces too), importance and recency.

### Mcp

`post` is the request of each client, its batch, the message it is at and the responses so far; `used`
is the actor's units of this minute in the `search.fabric` limiter, which the query route (`RestQuery`)
takes from as well, since both create the limiter under one name. `TakeBudget` and `Refuse` are the two
ends of `takeBudget`; `ToolAnswers` and `ToolThrows` those of the tool. `Answered` gives the responses so
far with a 200, an error for the refused request with a 401 (`Unauthorized`), and none otherwise. A tool
that throws rejects the async handler, and nobody looks at its promise: the request is `unanswered`.
`Restart` is the end of the process, which Node may also choose on such a rejection: requests under way
are unanswered and the counters are gone. The limiter is openvibe-sdk's and external: a count per actor
and minute; its hourly window is left out. A client that is told 429 sends the batch again (`Retry`).
What a tool answers, and what is answered before a message is read (malformed JSON, protocol version, a
token that does not verify), is left out.

## Runs

| Run | Question | Instance |
|---|---|---|
| `store_serial` | Does the stored document keep covering what an acknowledged event said, whatever is reordered, repeated, refused or asked meanwhile? Does the store implement `RevisionRegister`? | one page, 3 events of 10 envelopes, 8 documents over revisions 1 and 2, 1 API request, 1 failure |
| `store_concurrent` | With overlapping transactions, do side rows and index match the document, is nothing hidden listed, is a refusal recorded once, are announcements, purges and plain deletes right until a version is replaced unread, and is every event processed in the end? | 2 handlers, 2 events, 4 documents over revisions 1 to 3, 2 API requests, 1 failure |
| `lost_update` | Does a stored revision never fall (`store.js:7`)? It does fall. | 2 handlers, 1 API request |
| `purge_queue` | Is a URL marked purged only when the edge holds no older copy, is none given up for the company it was in, and does every row settle? | a page and its refused sitemap, a page of another zone, calls refused for any reason, 3 rows, 2 attempts, 1 failure |
| `purge_late` | Is that so without the exception of late removals? No. | a page and its sitemap, 4 rows |
| `saved_notifier` | Is nothing passed over but what is named, by what does the watermark fall when openings overlap, when is a match told of again, is every match told of? | 1 document, 2 clock values, and one of: 2 searches, one never pushable, 1 opening, no failure; 1 search, 2 openings at once, 1 failure |
| `embedder` | Is a stored vector always of the version it names, what can one minute cost, and is every public document embedded in the end? | 2 documents, the service and a backfill, 2 documents a minute, 1 change, 1 failure |
| `fabric` | By how much can the daily cap be exceeded, is every call counted, does the cache serve the right answers, when is a cached answer bought again, is what a request pays for reported, and is it shown, through limits, filters of single pages and scopes in front? | a cap of 1, an answer of 2 results, 1 failure, and one of: 2 callers of 6 requests, 1 page, 2 days; 1 caller of 4 requests, 2 pages of which the site lets one through, limits of 1 and 2, 1 day |
| `paging` | Does a walk show everything undisturbed exactly once, does it always get on, when is a cursor the service gave refused? | 4 documents, 2 of one title, a query of 2 words, pages of 1 and of 2, 3 candidates, 1 change, 2 times |
| `removal_feed` | Which removals can the feed skip, and is every copy dropped in the end? | 3 documents, 2 of the owner, one published again, both handles, pages of 1, 1 failure |
| `ranking` | Do SQL and JavaScript order two results alike, and is a better match never behind? | 5 queries of 1 to 11 words, 9 kinds of document at the least and the most relevance, words nowhere, in one field or in title and body |
| `mcp` | Does a budget hold over batches, connections and routes, is a batch answered whole, and answered in the end? | 4 clients of 3 actors, batches of 1 to 3 messages, 2 units a minute, 1 throwing tool or restart |

Two instances are unions of smaller ones, which a `CONSTRAINT` keeps apart (`MCPart` in
`MCSavedNotifier` and `MCFabric`). In the notifier either the search that can be pushed stands beside one
that never can, is opened once at a time, and nothing fails by chance (the push that always fails is what
the liveness is about); or it is the only one, is opened twice at once, and a push, a page or the process
may fail. In the ladder either two callers ask of one page, or one caller asks of two. A constraint on
a run with fairness could hide a behaviour that does not end well, never invent one; here it cuts off no
step of the notifier's and no passing of time, only another opening, another search or a failure.

Why the bounds are enough. Two handlers are what a race on one row needs, and the handlers of
different documents share nothing but the event claim. Documents were chosen to take every branch of
the ordering rule and every rise and drop of exposure; the second owner appears only in refused
envelopes. In the purge queue two attempts give a first, a last and no further one; three rows are
more than a call takes. In the notifier two clock values let a document be indexed between a tick's start
and its query, separate before and after a watermark, and let an opening that has read the first write
after one, or a tick, that has read the second, which is how a watermark falls. In the embedder one
change during a tick is what makes a read stale, and a budget of two lets a window end with and
without use. In the ladder one question and one URL let requests meet at every key; a cap of 1 is
reached, exceeded and reset. In paging, pages of one give walks of four pages and a relaxed answer
both when it has more and when it has not, and pages of two put two documents of one title on a page;
one change lies anywhere between two statements. `FusionKeepsOrder`'s
second part, both lists before one, is said of documents among the first `RRF_K` of both: further down,
in lists of a hundred, it does not hold.
In the feed, pages of one make the cursor move at every row, and three documents let the other owner's
number lie between two of the owner's. The rankings' weights are those of `wordWeight` for real counts,
two of them less than a tenth apart; the query of eleven words has more title words than the cap. In
`mcp` two units are the least that a batch can use up halfway. In the second part of `fabric` two pages, in
either order of merging, let the filters drop the page of the open index, the paid one, or the second of
an answer, and two results of the network fill the answer before the web's; there the exceptions of
`PaidIsShown` are all needed.

Several properties state exactly what the code keeps where a document or comment promises more:

- `TwoBudgetsAMinute`: the budget window tumbles, so one minute may see two budgets, not one
  (`embedder.js:14`, "per rolling minute").
- `CapNearlyKept`: the daily cap (`README.md:201`) is exceeded by up to one call less than there are
  requests at once.
- `ToldAgainOnlyUnderWay`: "a delivered batch is never notified twice" (`saved-notifier.js:13`,
  `README.md:170`) holds but for documents indexed between a tick's start and its query, since the
  watermark is set to the start and the query has no upper bound; "what the person has seen is not
  announced" (`README.md:171`) holds but for a tick that had read the watermark before; and both but for
  documents over which an overtaken opening has moved the watermark back.
- `FallsOnlyByOvertakenOpening`: "Never moves back: a person opening the results during a notifier tick
  keeps the later time" (`saved.js:44`) is kept by the tick; the opening itself writes unconditionally.
- `NothingPassedOver`: a match that an opening found but did not show on its page is passed over, since
  the watermark moves to the opening's time whatever page was asked for.
- `ProcessedIsCovered`, `ConsumerAgrees`, `PublicDropPurged`: claimed of the identities of which no
  handler has replaced a version it had not read. On PGlite these are all (`NothingIsClobbered`).
- `RefusedOnSwitchOnly`: when AI fails "the answer is exactly today's keyword page"
  (`query.js:217-219`) holds for a first page; a later page is refused, since its cursor belongs to the
  other ranking.
- `OnlyOvertakenSkipped`: the feed that products poll and drop by (`README.md:310-313`) skips a removal
  whose transaction was open when a later number was read; the reconciliation walk finds it
  (`DroppedInTheEnd`).
- `OrderKept`: the tuple orders by coverage before everything "as in the engine" (`query.js:202`), but
  in the engine's number a tenth of coverage (1000) weighs as much as the site tier (10 times 100). The
  site tests differ on a URL with a port and on `/a/<host>` without a slash, the thin tests on
  characters against UTF-16 units.
- `OrderKept` again, `BetterMatchFirst`: "site's own records first, then title matches" (`pg.js:19-20`),
  "a title match always outranks a summary-only match" (`README.md:114`). Of two documents that hold both
  words of a query, the engine gives one with a word in the title and the other in the body no field tier,
  since neither field holds a pair of words, and puts one with both in the body before it; the query path
  counts the first as a title match (`query.js:184`), but a keyword page is cut from the engine's order. And
  the records that a site's name alone finds "rank in the site tier below the site records that do match
  the words" (`pg.js:213-215`), yet without a pair `ts_rank` is 1e-20 and not 0, which gives them the title
  tier, before records whose words match in summary or body.
- `CostReported`, `PaidIsShown`: a ladder whose request was refused may buy an answer nobody is told
  of; and what is enough is decided before the filters and before the cut, so that all a request has
  paid for may be dropped.
- `StaysShownOnce`: of a fused or a relaxed walk it speaks only while no document changes. A fused page
  is an offset into a list that is computed anew, so a change does shift it.
- `AnsweredInTheEnd`: a tool that throws leaves its client without an answer. `withMcpViewer` returns the
  handler's promise without a catch (`mcp.js:288`), and "Express 4 does not catch an async handler's
  rejection" (`webhook.js:167`); "the rest is the query route's withViewer" (`mcp.js:269`), but that one
  hands the error on (`query.js:403-410`).
- `FailedForItsOwnSake`: "permanent failure after MAX_ATTEMPTS or a 4xx refusal" (`purge.js:19`), but a 2xx
  whose body does not say success, or cannot be read, is a refusal as well; that purge may have happened.

Deadlock is checked in every run.

### Violations found

- `lost_update`: the row is read without a lock and updated by `rid` alone, so of two overlapping
  handlers the one that commits last wins whatever its revision.
- `purge_late`: a removal between Cloudflare's answer and the row's mark is coalesced into the
  purge that has already been carried out; two removals sharing a sitemap are enough.

## Fairness

- `IndexStore`: weak fairness of each handler's steps (a statement is answered or fails), strong
  fairness of the delivery of each event (Events retries until it is acknowledged, and a handler may
  be busy again and again in between). Nothing is assumed about the owners' requests or about failures
  beyond their bound.
- `PurgeQueue`: the timer flushes again and again and a call is answered or times out after 15 s
  (weak fairness of the purger's steps), and a backoff elapses.
- `SavedNotifier`: the interval timer ticks, the clock moves, a push is answered.
- `Embedder`: time passes, and the service's tick goes on (its timer starts it, a call is answered or
  times out, and failures are bounded). Nothing is assumed of the backfill, which may stop anywhere.
- `RemovalFeed`: a transaction that has written its removal commits if it does not fail, and the
  product polls the feed and walks its documents again and again, as README.md:312 asks of it.
- `Mcp`: a message is handled and a running tool answers, unless it throws or the process ends, which
  are bounded; minutes pass, and a client told to wait retries after Retry-After. `AnsweredInTheEnd` is
  claimed for clients that share their budget with nobody, for batches whose calls fit into a minute: a
  larger batch is never answered although its calls run every time, and two clients of one actor may
  refuse each other for ever.
- `WebLadder`, `Fabric`, `Ranking` and `Paging` have no fairness: they state safety only. That a
  walk ends follows from `CursorAdvances`: every page begins further on than the page before.

## Proofs

TLAPS checks the following for every value of the constants. Each invariant below is inductive: it holds
at the start, every action keeps it, and it implies the property; the proofs follow the actions one by
one. What it adds to the property is what the property alone does not carry through a step.

### IndexStore_proofs: overlapping handlers

For any number of handlers, events, documents and faults, serial or not:

- `SqlAgreesWithCanView`: a document the SQL predicate lists for a viewer, given its own side rows,
  is one `canView` opens. A case analysis over exposure and visibility.
- `TypeCorrect`: the type invariant. It is inductive together with `TxShape` (a handler past its read
  holds a document).
- `SideRowsAgree`: `doc_acl`, `doc_facets` and `search_fts` hold exactly the stored document's rows,
  also when transactions overlap. This is not inductive by itself: the replacing transaction deletes
  the rows it saw and inserts its own, so one needs to know that what it saw is still there at its
  commit. `RowsInv` adds `RowLockExclusive` (two handlers are never past the UPDATE of one row) and
  `OldRowsCurrent` (between `WriteSide` and `Commit` the rows seen are the rows stored). A restart
  needs that `reconcile` by counts is enough when only rows were lost (`ReconcileRestores`).
- `NothingListedIsHidden`: the two together: nothing is listed to a viewer who may not open it.
- `RejectedExactlyOnce`: one rejection row per refused event. It needs `ClaimExclusive`: at most one
  handler holds the claim of an event, and that event has no receipt yet.

Four more rest on `OverlapInv`: a row is stored under its own key (`KeysMatch`), what a handler has decided
is the verdict on the row it read (`HandlersDecide`), and what a handler has found covered is covered,
unless its identity is clobbered (`CoveredOrLost`). A handler's decision may be overtaken; what then holds
of the stored row is known as long as every commit replaces the very row its handler read, which is what
an identity outside `clobbered` means.

- `DropsArePurged`: a commit that takes a document out of public delivery purges the stored URL and
  records the removal at its revision.
- `ProcessedStaysCovered`: a verdict other than "applied" means that the version read covers the event's
  (`OtherwiseCovered`), an applied one stores it, and superseding keeps what was covered (`CoversGrows`).
- `ConsumersAgree`: the last event of a key in the outbox states the exposure of the stored row.
- `DeletesNeverRefused`: a plain delete takes its revision from the row it read and wins the tie with it
  (`DeletionWins`); only a version newer than that makes it stale.

### IndexStore_proofs: one transaction at a time

These assume `Serial`, the handle of PGlite. With overlapping transactions they fail, as `lost_update`
shows of the revisions. `SerialInv` says that one handler is under way at most (`OneAtATime`) and that
what the handler has read and decided is still so (`HandlerKnows`).

- `StoreIsRegister`: the refinement of `RevisionRegister`. Only `Commit` changes a document; there
  `HandlerKnows` gives that the new version supersedes the stored one, which is the register's step; all
  other steps stutter.
- `RevisionsNeverFallSerially` follows the same way.
- `NothingIsClobbered`: a handler always replaces the row it has read, so that the four theorems above
  hold of every identity; and no newer version comes between a plain delete's reading and its commit.

### Fabric_proofs

For any callers, questions, limits and cap, of the ladder:

- `TypeCorrect`: the type invariant, which also says that no anonymous and no quick request comes
  near a paid call.
- `CapNearlyHolds`: the cap is exceeded by less than the number of requests at once. The invariant
  has to count the requests that have passed the check and are not counted yet: calls counted plus
  those never exceed cap plus callers minus one (`CapInv`), since the last one to pass saw a count
  below the cap. One lemma (`PassedStep`) says how a step of one request changes their number.
- `CallsAreCounted`: what is owed is the number of requests inside a paid call; inductive as it stands.
- `CacheServesTheStep`: a request that is to store holds answers its step has given (`AnswerKept`).
- `BoughtOnce`: once an answer is in the cache, repeated purchases and the callers that may still buy it
  (`Buyers`) are together fewer than the callers, plus the faults that kept one from reading the cache
  (`AgainInv`); before that nothing is bought again.

Of whole requests:

- `FabricImplementsLadder`: every step of a whole request is a step of its ladder or leaves the ladder as
  it is, also when another scope has refused the request and the ladder is an orphan. No invariant is
  needed: the actions of `Fabric` are built on those of `WebLadder`, and a refusal either ends a ladder
  that has its answer or does not touch it.
- `FabricTypeCorrect`, `FabricKeepsCap`, `FabricCountsCalls`, `FabricServesTheStep`, `FabricBuysOnce`:
  what is proved of `WebLadder` therefore holds of whole requests.
- `CostsAreReported`: what the caller's rows say is what its ladder has bought, but for the answer it is
  recording or storing at the moment.
- `PaidPagesAreShown`: `ShownInv` follows a request along its ladder. What a step has found and nobody
  before it is put behind the pages merged so far (`MergedPages`). Before the paid step is over it has
  bought nothing, and it comes to a paid call only with room left or when it is deep; so the first page the
  paid answer adds, or one of its pages found before, lies within the limit. If the filters let one of
  these through, fewer pages than the limit lie before it, and it is cut only when the scopes in front and
  the limit together exceed `MaxResults` (`PagesBefore`).

### Removals_proofs

Of the purge queue, `PurgeInv` says of the rows that a pending one has attempts left and a zone, and
stands for its URL (`Rows`); of the flush that what it has read is still pending, that its call is of
one zone and within the limit, and that a call refused for a single row is that row's own refusal
(`Flush`, by the history `refusal`); and of the edge that it holds no old copy of what it has just been
told to drop, but for late removals (`Dropped`). From it follow `QueueIsTyped`, `CallsAreLimited`, `NoneSunkByOthers` and `PurgedIsGone`. A
page has finitely many related URLs (`QueueAssumption`).

Of the removal feed, `FeedSkipsOnlyOvertaken`: numbers come from one sequence, and neither the cursor
nor the page on its way is ahead of it (`Numbers`); what that page passes it holds or knows to be open
(`Passing`), and what was open when the saved cursor passed it is recorded as overtaken (`Overtaken`).
On the serial handle nothing is open when a page is read.

### SavedNotifier_proofs

- `NothingIsPassedOver`: `WatermarkInv` relates the stamps and the watermarks to the clock (`Times`), says
  that a search waits in the tick's queue once and was saved when the tick began (`Queued`), that the
  tick's query found all it could see after the watermark it was read with and, past the push, has told of
  it (`Found`), and that an opening under way shows what is committed, and writes a time that is later than
  all of it and, unless it was overtaken, than the watermark (`Opened`). What lies between a watermark that
  an opening has moved back and the one the tick had read is `missed` by the tick.
- `WatermarksFall`: follows from `Opened`: the tick writes the later of two times, and an opening that
  nobody has overtaken a time that is not before the watermark.
- `ToldAgainUnderWay`: without a fault the watermark has passed what was announced in time, or is about to,
  and so had it when a search still waiting was read; and it has passed what an opening has shown. Both
  are said of what is not `uncovered`, over which no opening has moved the watermark back (`ToldInv`).

### Embedder_proofs

- `VectorsMatchTheirHash`: what a tick has read are public versions, what is pending has been read, and a
  batch is part of what is pending and not empty while it is being stored (`Jobs`). Documents may change
  meanwhile; a vector and its hash come from the same reading.
- `AtMostTwoBudgetsAMinute`: a process never counts or has under way more than a budget in a window. While
  the window lasts, what was sent since it began is in that count, and what was sent in the rest of the
  last minute is at most another budget; when it has run out, nothing was sent in the present unit of
  time (`InBudget`). That a call is charged only when it is answered is why what is under way
  (`InFlight`) has to be added. `recent` counts cumulatively, so that no sum has to be taken.

### Paging_proofs

- `RefusedOnlyOnSwitch`: a cursor's kind is that of the ranking that gave it, and it is marked relaxed
  exactly if its page was (`CursorOk`); so is the cursor of the exact page that is kept while the relaxed
  one is looked for.
- `CursorsAdvance`: a page under way was asked for with a cursor of its own ranking (`Accepted`). A fused
  list is gone through from the offset (`StopsLater`); a keyset page's last key lies after the cursor's
  (`FoundAfter`), since sorting a set of keys gives these keys: the engine's order is strict and total
  (`EarlierIsStrictTotal`), and in a finite set with such an order every place is taken
  (`EveryPlaceTaken`, by the pigeonhole principle).
- `FusionRespectsLists`: what has been fused are two lists of documents (`FusionInv`), so that the order
  of the fusion is total (`FusedOrderIsTotal`). Scores are fractions `1/(k+a) + 1/(k+b)`, compared by
  their cross products (`ScoresOrdered`): better ranks in both lists make a larger sum (`BothBetter`), and
  two ranks among the first `k` one that is larger than any single fraction (`BothOverOne`).
- `EachIsShownOnce`: `WalkInv` says what a walk has shown when it comes to a cursor. An engine's page
  gives exactly what lies after its cursor and not after the next one, of what has not changed
  (`KeysetGives`); every page ends further on than it began, so that what was shown once is not shown
  again, and what has been passed was shown (`KeysetShown`). It needs that the keys of such documents are the
  same on every page, which the clock in the cursor gives, and of a relaxed walk that the words' weights
  are: a change anywhere changes those. The fused list has no keys to go on from; all its pages are cut
  from one list, `ListOf`, as long as nothing has changed (`CandidatesHold`, `HybridShown`): the two
  candidate lists, their fusion and the final order are each the only list of their set in their order
  (`OneList`). A page that is kept while the relaxed one is looked for, and then sent, gives what the
  exact walk would have given (`KeptGives`).

### Ranking_proofs

The numbers of a ranking are computed along the words of a query, and induction over such a list cannot
be stated here. The proofs take the least counterexample instead (`UpTo`, from the well-foundedness of
the naturals): a recursive sum has a value and a type (`Computed`), and with fewer words in it or worse
fields it is not larger (`CoverageAddsUp`, `MoreCoverage`, `FieldTierIsBest`, `BetterField`).

- `EngineOrderIsKept`: the parts of the engine's number do not carry into one another (`EngineParts`),
  so that it orders as its tuple does, and that tuple is the query path's unless the documents differ in
  a test (`TestsAgree`) or in a tenth of coverage (`EngineAgrees`). Of two rows the sort keeps or swaps
  (`OrderOfTwo`).
- `BetterMatchIsFirst`: a document as good in every word is not below in any part (`AsGoodIsNotBelow`), nor
  in the engine's if it holds each word wherever the other does: its fields hold the other's pairs then,
  unless the other has none at all and is ranked by the constant (`AsGoodInTheEngine`).
  `RankingInv` carries through the steps that a page is made of two documents the query finds.

### Mcp_proofs

`BudgetIsKept`: calls run never exceed the units used, which never exceed the budget (`Budget`).
`BatchesAnsweredWhole`: the responses so far are those of the requests before the message the batch is at,
in order, and a tool runs for a request only (`Progress`). A refusal drops them, but for the 401's error to
the request it names (`CutShort`), and so do a throwing tool and a restart (`GivenUp`); a restart also
begins the count anew, so that the budget is one process's.

### Assumptions, and what is only model-checked

The proofs assume the named assumptions on the constants (`NoValueAssumption`, `StoreAssumption`,
`LadderAssumption`, `FabricAssumption`, `QueueAssumption`, `FeedAssumption`, `NotifierAssumption`,
`EmbedderAssumption`, `NoVectorAssumption`, `PagingAssumption`, `RankingAssumption`, `McpAssumption`),
which TLC evaluates in every run of their modules, and `Serial` where they say so. Every safety property
and every action property that a passing run checks is the statement of a theorem. Only model-checked
is liveness under fairness, which is out of the prover's reach, as is `ENABLED`: every property that ends
in `InTheEnd`, `EveryRowSettles`, `EveryMatchTold` and `EveryEventProcessed`.

## Plan

1. Done: all modules above, with their theorems; every safety property is proved.
2. The single-flight cache of `server/web/front-data.js` (a rejected load must not stick) and the order
   of shutdown in `server/index.js` (one close that rejects leaves the rest open).

## Not modelled

Tokens and signatures (openvibe-sdk), the relay of the outbox (openvibe-sdk; only what is put in it
is modelled), tokenizing and `ts_rank`, rendering, metrics, configuration parsing, the one-shot scripts
and the deployment files. The part named in step 2 of the plan is not modelled yet.
