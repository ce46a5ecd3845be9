----------------------------- MODULE IndexStore -----------------------------
(***************************************************************************)
(* The index and everything written with it: store.apply and store.remove  *)
(* (server/store.js), the Events inbox that calls them (server/api/        *)
(* webhook.js), the owners' PUT and DELETE (server/api/documents.js) and   *)
(* the index rebuild at boot (server/engine/pg.js reconcile).              *)
(*                                                                         *)
(* Every handler is a database transaction of several statements, each     *)
(* awaited, so handlers interleave between statements. The database is     *)
(* external and modelled by what these statements rely on: a statement     *)
(* reads what is committed when it runs, a row that is being written makes *)
(* the next writer wait until that transaction ends, all of a transaction  *)
(* becomes visible at its commit, and a transaction that fails leaves      *)
(* nothing. Serial says the handle runs one transaction at a time (the     *)
(* embedded PGlite connection of development and tests); otherwise they    *)
(* overlap as on the pooled PostgreSQL of production, at its default level *)
(* READ COMMITTED (nothing in the repository asks for another).            *)
(***************************************************************************)
EXTENDS Document, Sequences, FiniteSets

CONSTANTS
  Tx,              \* concurrent request handlers, each with its transaction
  Event,           \* event ids of Events deliveries
  Envelopes,       \* the envelopes an event may carry
  Documents,       \* the documents and tombstones owners send
  AcceptedOwners,  \* SEARCH_EVENT_OWNERS
  NoEvent,         \* a request of the owner API
  Serial,          \* one transaction at a time
  MaxApi,          \* bound: requests of the owner API
  MaxFaults        \* bound: failed transactions and restarts

Envelope ==
  [topic : {"account", "document", "other"}, prefix : Owners, source : Owners,
   subjectMatches : BOOLEAN, valid : BOOLEAN, doc : Documents]

ASSUME StoreAssumption ==
  /\ Documents \subseteq Doc
  /\ Envelopes \subseteq Envelope
  /\ AcceptedOwners \subseteq Owners
  /\ NoEvent \notin Event
  /\ Serial \in BOOLEAN
  /\ MaxApi \in Nat
  /\ MaxFaults \in Nat
  /\ IsFiniteSet(Key)

VARIABLES
  docs,        \* documents: the stored row of each identity
  side,        \* doc_acl and doc_facets: the rows of each identity
  fts,         \* search_fts: the rows of each identity
  receipts,    \* idempotency_receipts: the outcome of each processed event
  rejections,  \* ingest_rejections: how many rows each event has
  outbox,      \* service_outbox: the events emitted about each identity, in order
  removals,    \* removals: the owners' removal feed
  cdn,         \* cdn_purges: the URLs pending
  payload,     \* what each event id carries, fixed by its publisher
  tx,          \* the handlers' transactions
  apiCalls,    \* requests of the owner API so far
  faults,      \* failures so far
  clobbered    \* history: the identities of which a handler has replaced a version it
               \* had not read (a lost update; the code keeps no such thing)

vars == <<docs, side, fts, receipts, rejections, outbox, removals, cdn, payload,
          tx, apiCalls, faults, clobbered>>

tables == <<docs, side, fts, receipts, rejections, outbox, removals, cdn, clobbered>>

Outcomes == {"applied", "unchanged", "stale", "conflict"}
RejectCodes ==
  {"owner_mismatch", "owner_not_accepted", "subject_mismatch", "invalid_document"}
NoReceipt == "none"

Idle ==
  [pc |-> "idle", event |-> NoEvent, doc |-> NoRow, cur |-> NoRow, bare |-> FALSE,
   outcome |-> NoReceipt, oldSide |-> {}, oldFts |-> {}]

Init ==
  /\ docs = [k \in Key |-> NoRow]
  /\ side = [k \in Key |-> {}]
  /\ fts = [k \in Key |-> {}]
  /\ receipts = [e \in Event |-> NoReceipt]
  /\ rejections = [e \in Event |-> 0]
  /\ outbox = [k \in Key |-> <<>>]
  /\ removals = {}
  /\ cdn = {}
  /\ payload \in [Event -> Envelopes]
  /\ tx = [t \in Tx |-> Idle]
  /\ apiCalls = 0
  /\ faults = 0
  /\ clobbered = {}

-----------------------------------------------------------------------------
\* documentFromEvent: the first check that fails decides. The payload's owner is the
\* document's; a payload without one takes the envelope's source.
ParseEvent(env) ==
  IF env.topic = "account" THEN "account"
  ELSE IF env.topic = "other" THEN "ignored"
  ELSE IF env.prefix # env.source THEN "owner_mismatch"
  ELSE IF env.source \notin AcceptedOwners THEN "owner_not_accepted"
  ELSE IF OwnerOf(env.doc.key) # env.source THEN "owner_mismatch"
  ELSE IF ~env.subjectMatches THEN "subject_mismatch"
  ELSE IF ~env.valid THEN "invalid_document"
  ELSE "document"

\* Variants with a plausible fault; the properties have to notice them.
VerdictWithoutStale(d, cur) ==
  IF cur = NoRow \/ d.revision # cur.revision THEN "applied"
  ELSE IF cur = d THEN "unchanged" ELSE "conflict"
VerdictTieConflicts(d, cur) ==
  IF cur = NoRow \/ d.revision > cur.revision THEN "applied"
  ELSE IF d.revision < cur.revision THEN "stale"
  ELSE IF cur = d THEN "unchanged" ELSE "conflict"

\* The ordering rule of store.apply for a document d against the row it read.
Verdict(d, cur) ==
  IF cur = NoRow THEN "applied"
  ELSE IF d.revision < cur.revision THEN "stale"
  ELSE IF d.revision > cur.revision THEN "applied"
  ELSE IF cur.deleted /\ ~d.deleted THEN "stale"
  ELSE IF cur = d THEN "unchanged"
  ELSE IF d.deleted /\ ~cur.deleted THEN "applied"
  ELSE "conflict"

\* A row's URL as far as the public knew it.
PublicUrl(row) == IF RowExposure(row) >= PublicUnlisted THEN row.url ELSE NoUrl

\* The purge of a removal is of the URL that was public, if there was one.
PurgeUrlOfNewVersion(cur, d) == {PublicUrl(d)} \ {NoUrl}
PurgeUrlUnchecked(cur, d) == {PublicUrl(cur)}
PurgeUrl(cur, d) == {PublicUrl(cur)} \ {NoUrl}

IsRemoval(cur, d) == ExposureOf(d) < RowExposure(cur)

AnnouncePublicOnly(cur, d) ==
  (IF IsRemoval(cur, d)
   THEN <<[type |-> "removed", revision |-> d.revision, exposure |-> ExposureOf(d),
           url |-> PublicUrl(cur)]>>
   ELSE <<>>)
  \o
  (IF ~d.deleted /\ ExposureOf(d) >= PublicUnlisted
   THEN <<[type |-> "indexed", revision |-> d.revision, exposure |-> ExposureOf(d),
           url |-> PublicUrl(d)]>>
   ELSE <<>>)

\* announce: what the change from the row read earlier to d tells everyone else.
Announce(cur, d) ==
  (IF IsRemoval(cur, d)
   THEN <<[type |-> "removed", revision |-> d.revision, exposure |-> ExposureOf(d),
           url |-> PublicUrl(cur)]>>
   ELSE <<>>)
  \o
  (IF ~d.deleted /\ ExposureOf(d) > None
   THEN <<[type |-> "indexed", revision |-> d.revision, exposure |-> ExposureOf(d),
           url |-> PublicUrl(d)]>>
   ELSE <<>>)

\* The two writers of one row exclude each other: the row is locked from the UPDATE or
\* INSERT of one transaction to its end, and so is the claimed receipt.
HoldsRow(u, k) ==
  tx[u].pc \in {"side", "commit"} /\ tx[u].outcome = "applied" /\ tx[u].doc.key = k
HoldsClaim(u, e) == tx[u].pc # "idle" /\ tx[u].event = e

MayBegin(t) ==
  /\ tx[t].pc = "idle"
  /\ Serial => \A u \in Tx : tx[u].pc = "idle"

-----------------------------------------------------------------------------
\* The handler once the event is claimed: an index document goes on to store.apply.
Claimed(e) ==
  LET parsed == ParseEvent(payload[e])
  IN IF parsed = "document"
     THEN [Idle EXCEPT !.pc = "read", !.event = e, !.doc = Normalize(payload[e].doc)]
     ELSE [Idle EXCEPT !.pc = "commit", !.event = e, !.outcome = parsed]

DeliverUnclaimed(t, e) ==
  /\ MayBegin(t)
  /\ receipts[e] = NoReceipt
  /\ tx' = [tx EXCEPT ![t] = Claimed(e)]
  /\ UNCHANGED <<tables, payload, apiCalls, faults>>
DeliverClaimsFirst(t, e) ==
  /\ MayBegin(t)
  /\ receipts[e] = NoReceipt
  /\ tx' = [tx EXCEPT ![t] = Claimed(e)]
  /\ receipts' = [receipts EXCEPT ![e] = "processing"]
  /\ UNCHANGED <<docs, side, fts, rejections, outbox, removals, cdn, clobbered,
                 payload, apiCalls, faults>>

\* POST /internal/events: claim the event, and for an index document go on to store.apply
\* in the same transaction. A delivery whose id is being claimed by another transaction
\* waits for it.
Deliver(t, e) ==
  /\ MayBegin(t)
  /\ receipts[e] = NoReceipt
  /\ \A u \in Tx : ~HoldsClaim(u, e)
  /\ tx' = [tx EXCEPT ![t] = Claimed(e)]
  /\ UNCHANGED <<tables, payload, apiCalls, faults>>

\* A delivery of an event that has its receipt answers `duplicate` and changes nothing.
Duplicate(t, e) ==
  /\ MayBegin(t)
  /\ receipts[e] # NoReceipt
  /\ UNCHANGED vars

\* PUT, and DELETE with a revision: the owner itself calls store.apply.
ApiApply(t, d) ==
  /\ MayBegin(t)
  /\ apiCalls < MaxApi
  /\ apiCalls' = apiCalls + 1
  /\ tx' = [tx EXCEPT ![t] = [Idle EXCEPT !.pc = "read", !.doc = Normalize(d)]]
  /\ UNCHANGED <<tables, payload, faults>>

\* DELETE without a revision: store.remove reads the stored revision first.
ApiDelete(t, k) ==
  /\ MayBegin(t)
  /\ apiCalls < MaxApi
  /\ apiCalls' = apiCalls + 1
  /\ tx' = [tx EXCEPT ![t] =
              [Idle EXCEPT !.pc = "read", !.bare = TRUE,
                 !.doc = Tombstone(k, IF docs[k] = NoRow THEN 0 ELSE docs[k].revision)]]
  /\ UNCHANGED <<tables, payload, faults>>

\* store.apply reads the row and decides; nothing but `applied` writes a document.
Read(t) ==
  /\ tx[t].pc = "read"
  /\ LET cur == docs[tx[t].doc.key]
         verdict == Verdict(tx[t].doc, cur)
     IN tx' = [tx EXCEPT ![t] =
                 [@ EXCEPT !.cur = cur, !.outcome = verdict,
                           !.pc = IF verdict = "applied" THEN "row" ELSE "commit"]]
  /\ UNCHANGED <<tables, payload, apiCalls, faults>>

\* UPDATE ... WHERE rid, or INSERT when no row was read. The insert of an identity that
\* another transaction has inserted meanwhile violates UNIQUE (owner, type, id): Fail.
WriteRow(t) ==
  /\ tx[t].pc = "row"
  /\ \A u \in Tx \ {t} : ~HoldsRow(u, tx[t].doc.key)
  /\ (tx[t].cur = NoRow) => (docs[tx[t].doc.key] = NoRow)
  /\ tx' = [tx EXCEPT ![t].pc = "side"]
  /\ UNCHANGED <<tables, payload, apiCalls, faults>>

UniqueViolation(t) ==
  /\ tx[t].pc = "row"
  /\ tx[t].cur = NoRow
  /\ docs[tx[t].doc.key] # NoRow
  /\ tx' = [tx EXCEPT ![t] = Idle]
  /\ UNCHANGED <<tables, payload, apiCalls, faults>>

WriteSideKeepsOld(t) ==
  /\ tx[t].pc = "side"
  /\ tx' = [tx EXCEPT ![t] = [@ EXCEPT !.oldFts = fts[tx[t].doc.key], !.pc = "commit"]]
  /\ UNCHANGED <<tables, payload, apiCalls, faults>>

\* writeSideRows and engine.put: delete the rows this statement sees, insert the new ones.
WriteSide(t) ==
  /\ tx[t].pc = "side"
  /\ tx' = [tx EXCEPT ![t] =
              [@ EXCEPT !.oldSide = side[tx[t].doc.key], !.oldFts = fts[tx[t].doc.key],
                        !.pc = "commit"]]
  /\ UNCHANGED <<tables, payload, apiCalls, faults>>

\* The changes of an applied document: its row, its side rows, its index row, its events,
\* and for a removal the feed row and the purge of the URL that was public.
CommitDocument(t) ==
  LET d == tx[t].doc
      k == d.key
      cur == tx[t].cur
  IN /\ docs' = [docs EXCEPT ![k] = d]
     /\ side' = [side EXCEPT ![k] = (@ \ tx[t].oldSide) \cup SideRows(d)]
     /\ fts' = [fts EXCEPT ![k] = (@ \ tx[t].oldFts) \cup FtsRows(d)]
     /\ outbox' = [outbox EXCEPT ![k] = @ \o Announce(cur, d)]
     /\ removals' = IF IsRemoval(cur, d)
                    THEN removals \cup {[key |-> k, revision |-> d.revision,
                                         url |-> PublicUrl(cur)]}
                    ELSE removals
     /\ cdn' = IF IsRemoval(cur, d) THEN cdn \cup PurgeUrl(cur, d) ELSE cdn
     /\ clobbered' = IF docs[k] = cur THEN clobbered ELSE clobbered \cup {k}

\* COMMIT. An event's receipt takes its outcome, a refused one leaves a rejection row.
Commit(t) ==
  /\ tx[t].pc = "commit"
  /\ IF tx[t].outcome = "applied"
     THEN CommitDocument(t)
     ELSE UNCHANGED <<docs, side, fts, outbox, removals, cdn, clobbered>>
  /\ IF tx[t].event = NoEvent
     THEN UNCHANGED <<receipts, rejections>>
     ELSE /\ receipts' = [receipts EXCEPT ![tx[t].event] = tx[t].outcome]
          /\ rejections' = IF tx[t].outcome \in RejectCodes
                           THEN [rejections EXCEPT ![tx[t].event] = @ + 1]
                           ELSE rejections
  /\ tx' = [tx EXCEPT ![t] = Idle]
  /\ UNCHANGED <<payload, apiCalls, faults>>

\* A statement or the connection fails: the transaction rolls back, the answer is 500.
Fail(t) ==
  /\ tx[t].pc # "idle"
  /\ faults < MaxFaults
  /\ faults' = faults + 1
  /\ tx' = [tx EXCEPT ![t] = Idle]
  /\ UNCHANGED <<tables, payload, apiCalls>>

\* engine.reconcile: rebuild search_fts when its counts differ from the documents table's.
IndexCount(f, audience) ==
  Cardinality({k \in Key : \E r \in f[k] : r.audience = audience})
DocumentCount(audience) ==
  Cardinality({k \in Key : RowExposure(docs[k]) = audience})

Reconcile(f) ==
  IF \A a \in {PublicListed, Restricted} : IndexCount(f, a) = DocumentCount(a)
  THEN f
  ELSE [k \in Key |-> IF docs[k] = NoRow THEN {} ELSE FtsRows(docs[k])]

\* The process dies and boots again, the open transactions with it. `lost` are identities
\* whose index rows a restore of the database left out: start() reconciles before it listens.
Restart(lost) ==
  /\ faults < MaxFaults
  /\ faults' = faults + 1
  /\ tx' = [t \in Tx |-> Idle]
  /\ fts' = Reconcile([k \in Key |-> IF k \in lost THEN {} ELSE fts[k]])
  /\ UNCHANGED <<docs, side, receipts, rejections, outbox, removals, cdn, payload, apiCalls,
                 clobbered>>

Step(t) == Read(t) \/ WriteRow(t) \/ UniqueViolation(t) \/ WriteSide(t) \/ Commit(t)

Next ==
  \/ \E t \in Tx :
       \/ Step(t)
       \/ Fail(t)
       \/ \E e \in Event : Deliver(t, e) \/ Duplicate(t, e)
       \/ \E d \in Documents : ApiApply(t, d)
       \/ \E k \in Key : ApiDelete(t, k)
  \/ \E lost \in SUBSET Key : Restart(lost)

Spec == Init /\ [][Next]_vars

\* A statement is answered or fails, and Events delivers an event again until it is
\* acknowledged: a handler goes on by itself, a delivery is retried for ever.
FairSpec ==
  /\ Spec
  /\ \A t \in Tx : WF_vars(Step(t))
  /\ \A e \in Event : SF_vars(\E t \in Tx : Deliver(t, e))

-----------------------------------------------------------------------------
SideRow == Principal \cup FacetRow
FtsRow == [audience : {PublicListed, Restricted}, text : Texts]
OutboxEvent ==
  [type : {"removed", "indexed"}, revision : Nat, exposure : Exposure,
   url : Urls \cup {NoUrl}]
RemovalRow == [key : Key, revision : Nat, url : Urls \cup {NoUrl}]
FinalOutcomes == Outcomes \cup RejectCodes \cup {"account", "ignored"}
TxState ==
  [pc : {"idle", "read", "row", "side", "commit"}, event : Event \cup {NoEvent},
   doc : Doc \cup {NoRow}, cur : Doc \cup {NoRow}, bare : BOOLEAN,
   outcome : FinalOutcomes \cup {NoReceipt}, oldSide : SUBSET SideRow,
   oldFts : SUBSET FtsRow]

\* The type invariant.
TypeOK ==
  /\ docs \in [Key -> Doc \cup {NoRow}]
  /\ side \in [Key -> SUBSET SideRow]
  /\ fts \in [Key -> SUBSET FtsRow]
  /\ receipts \in [Event -> FinalOutcomes \cup {NoReceipt}]
  /\ rejections \in [Event -> Nat]
  /\ outbox \in [Key -> Seq(OutboxEvent)]
  /\ removals \subseteq RemovalRow
  /\ cdn \subseteq Urls
  /\ payload \in [Event -> Envelopes]
  /\ tx \in [Tx -> TxState]
  /\ apiCalls \in Nat
  /\ faults \in Nat
  /\ clobbered \subseteq Key

\* In every committed state the side tables and the full-text table hold exactly the rows
\* of the stored document: an old ACL row, facet or index entry never survives a change,
\* however the handlers interleave, fail or restart (store.js apply, pg.js put, reconcile).
SideRowsMatch ==
  \A k \in Key :
    /\ docs[k] = NoRow => side[k] = {} /\ fts[k] = {}
    /\ docs[k] # NoRow => side[k] = SideRows(docs[k]) /\ fts[k] = FtsRows(docs[k])

\* The strengthening that makes SideRowsMatch inductive: a handler past its read knows its
\* document, one handler at a time has a row, and the rows it is about to replace are
\* still the ones the tables hold, because nobody else can commit that row meanwhile.
TxShape ==
  \A t \in Tx :
    /\ tx[t].pc \in {"read", "row", "side"} => tx[t].doc \in Doc
    /\ tx[t].pc \in {"row", "side"} => tx[t].outcome = "applied"
    /\ tx[t].pc = "commit" /\ tx[t].outcome = "applied" => tx[t].doc \in Doc

RowLockExclusive ==
  \A t, u \in Tx, k \in Key : HoldsRow(t, k) /\ HoldsRow(u, k) => t = u

OldRowsCurrent ==
  \A t \in Tx :
    tx[t].pc = "commit" /\ tx[t].outcome = "applied"
      => /\ tx[t].oldSide = side[tx[t].doc.key]
         /\ tx[t].oldFts = fts[tx[t].doc.key]

RowsInv == TypeOK /\ TxShape /\ RowLockExclusive /\ OldRowsCurrent /\ SideRowsMatch

\* What search and browse list for a viewer, out of three tables, is something canView
\* lets the viewer open: the SQL visibility predicate and the JavaScript one agree, and
\* the ACL rows the SQL reads are never those of another revision.
ListedIsViewable ==
  \A k \in Key, v \in Viewer :
    Browsable(v, docs[k], side[k]) \/ Searchable(v, docs[k], side[k], fts[k])
      => CanView(v, docs[k])

\* A refused event leaves one rejection row, together with its receipt, although it may be
\* delivered any number of times, to two handlers at once and after failures.
RejectedOnce ==
  \A e \in Event : rejections[e] = IF receipts[e] \in RejectCodes THEN 1 ELSE 0

\* An event whose receipt says it was processed stays reflected in the index: the stored
\* row is at least as new, and deleted if the event deleted that revision, in whatever
\* order, and however often, the events and the owners' own requests arrive. Handlers may
\* overlap: only an identity of which one of them has replaced a version it had not read
\* (store.js reads without a lock) is left out, and one transaction at a time leaves none.
ProcessedIsCovered ==
  \A e \in Event :
    receipts[e] \in Outcomes =>
      LET d == payload[e].doc
          row == docs[d.key]
      IN d.key \notin clobbered =>
           /\ row # NoRow
           /\ row.revision >= d.revision
           /\ row.revision = d.revision /\ d.deleted => row.deleted

\* A consumer that folds the outbox knows how far each document reaches now: no rise and no
\* drop of exposure goes unannounced, and none is announced that did not happen. Each is
\* announced against the row its handler read, so a lost update is where it ends.
ConsumerAgrees ==
  \A k \in Key \ clobbered :
    RowExposure(docs[k]) =
      IF outbox[k] = <<>> THEN None ELSE outbox[k][Len(outbox[k])].exposure

\* A DELETE that names no revision loses to nothing but a newer version, which another
\* handler must have committed since the request read the stored revision: it wins the
\* tie, and one transaction at a time it is never refused.
DeleteNeverRefused ==
  \A t \in Tx :
    tx[t].pc = "commit" /\ tx[t].bare =>
      \/ tx[t].outcome \in {"applied", "unchanged"}
      \/ ~Serial /\ tx[t].cur # NoRow /\ tx[t].cur.revision > tx[t].doc.revision

\* A step that takes a document out of public delivery writes, with the drop, the purge of
\* the URL it was publicly served at, not of the URL the new version names, and the feed
\* row of that very revision; unless the handler had read another version than it replaces.
PublicDropPurged ==
  [][\A k \in Key :
       /\ RowExposure(docs[k]) >= PublicUnlisted
       /\ RowExposure(docs'[k]) < PublicUnlisted
       /\ docs[k].url # NoUrl
       /\ k \notin clobbered'
       => /\ docs[k].url \in cdn'
          /\ [key |-> k, revision |-> docs'[k].revision, url |-> docs[k].url]
               \in removals']_vars

\* A stored revision never falls.
RevisionNeverFalls ==
  [][\A k \in Key :
       docs[k] # NoRow => docs'[k] # NoRow /\ docs'[k].revision >= docs[k].revision]_vars

\* One transaction at a time, the store is the register it promises to be.
Register == INSTANCE RevisionRegister WITH register <- docs
ImplementsRegister == Register!Spec

\* Every event Events keeps delivering is processed in the end: claims and row locks are
\* taken in one order, so handlers do not wait for each other in a circle, and neither a
\* failure nor a lost insert race leaves a claim behind.
EveryEventProcessed ==
  \A e \in Event : <>(receipts[e] \in FinalOutcomes)
=============================================================================
