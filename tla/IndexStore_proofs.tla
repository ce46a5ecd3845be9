------------------------- MODULE IndexStore_proofs -------------------------
(***************************************************************************)
(* Proofs about IndexStore, for any number of handlers, events, documents  *)
(* and identities. First what holds of overlapping transactions too: type  *)
(* correctness, the agreement of the side tables with the document row,    *)
(* what that gives a viewer, the inbox's claim of an event, and what the   *)
(* events, the feed and the outbox tell of every identity of which no      *)
(* handler has replaced a version it had not read. Then what holds when    *)
(* the handle runs one transaction at a time (Serial): the store is the    *)
(* register of RevisionRegister, and nothing is replaced unread. With      *)
(* overlapping transactions a handler may: RevisionNeverFalls is violated  *)
(* then.                                                                   *)
(***************************************************************************)
EXTENDS IndexStore, FiniteSetTheorems, TLAPS

-----------------------------------------------------------------------------
(* Facts about documents. *)

\* An exposure is one of the four levels.
LEMMA ExposureInRange ==
  ASSUME NEW d PROVE ExposureOf(d) \in Exposure
BY DEF ExposureOf, Exposure, None, Restricted, PublicUnlisted, PublicListed

\* A tombstone is a document, and reaches nobody.
LEMMA TombstoneIsDoc ==
  ASSUME NEW k \in Key, NEW rev \in Nat
  PROVE  /\ Tombstone(k, rev) \in Doc
         /\ Tombstone(k, rev).key = k
         /\ Tombstone(k, rev).deleted
         /\ Tombstone(k, rev).revision = rev
BY DEF Tombstone, Doc, TombstoneDocument

\* The fields of a document have their types.
LEMMA DocFields ==
  ASSUME NEW d \in Doc
  PROVE  /\ d.key \in Key /\ d.revision \in Nat /\ d.deleted \in BOOLEAN
         /\ d.url \in Urls \cup {NoUrl}
         /\ d.acl \in SUBSET Principal
         /\ d.facets \in SUBSET FacetRow
         /\ ~d.deleted => d.text \in Texts
BY DEF Doc, LiveDocument, TombstoneDocument

\* The rows a document gives rise to belong in their tables.
LEMMA RowsOfDoc ==
  ASSUME NEW d \in Doc
  PROVE  /\ SideRows(d) \in SUBSET SideRow
         /\ FtsRows(d) \in SUBSET FtsRow
<1>1. SideRows(d) \in SUBSET SideRow
  BY DocFields DEF SideRows, SideRow
<1>2. FtsRows(d) \in SUBSET FtsRow
  <2>1. CASE ExposureOf(d) \in {PublicListed, Restricted}
    <3>1. ~d.deleted
      BY <2>1 DEF ExposureOf, Servable, None, Restricted, PublicListed
    <3>2. d.text \in Texts
      BY <3>1, DocFields
    <3>3. [audience |-> ExposureOf(d), text |-> d.text] \in FtsRow
      BY <2>1, <3>2 DEF FtsRow
    <3>4. QED
      BY <2>1, <3>3 DEF FtsRows
  <2>2. CASE ExposureOf(d) \notin {PublicListed, Restricted}
    BY <2>2 DEF FtsRows
  <2>3. QED
    BY <2>1, <2>2
<1>3. QED
  BY <1>1, <1>2

\* The SQL visibility predicate, over the rows that belong to the document, never lists
\* a document that canView refuses (engine/pg.js visibleSet and matchedSet, api/query.js).
THEOREM SqlAgreesWithCanView ==
  ASSUME NEW d \in Doc, NEW v \in Viewer,
         \/ Browsable(v, d, SideRows(d))
         \/ Searchable(v, d, SideRows(d), FtsRows(d))
  PROVE  CanView(v, d)
<1>1. ~d.deleted
  BY DEF Browsable, Searchable
<1>2. \/ ExposureOf(d) = PublicListed
      \/ ExposureOf(d) = Restricted /\ AclClause(v, d, SideRows(d))
  BY DEF Browsable, Searchable
<1>3. CASE ExposureOf(d) = PublicListed
  BY <1>1, <1>3 DEF CanView, PublicListed, PublicUnlisted, None
<1>4. CASE ExposureOf(d) = Restricted /\ AclClause(v, d, SideRows(d))
  <2>1. SideRows(d) = d.acl \cup d.facets
    BY <1>4 DEF SideRows, Restricted, None
  <2>2. \A p \in HeldBy(v) : p \in SideRows(d) => p \in d.acl
    <3>1. SUFFICES ASSUME NEW p \in HeldBy(v), p \in d.facets PROVE FALSE
      BY <2>1
    <3>2. p[1] # "f"
      BY DEF HeldBy
    <3>3. p[1] = "f"
      BY <3>1, DocFields DEF FacetRow
    <3>4. QED
      BY <3>2, <3>3
  <2>3. <<"s", v.subject>> \in HeldBy(v)
    BY DEF HeldBy
  <2>4. HeldBy(v) \cap SideRows(d) # {} => HeldBy(v) \cap d.acl # {}
    BY <2>2
  <2>5. /\ v.subject # NoSubject
        /\ \/ d.visibility = "private" /\ <<"s", v.subject>> \in d.acl
           \/ d.visibility = "unlisted"
           \/ d.visibility = "members" /\ HeldBy(v) \cap d.acl # {}
    BY <1>4, <2>2, <2>3, <2>4 DEF AclClause
  <2>6. QED
    BY <1>1, <1>4, <2>5 DEF CanView, Restricted, None
<1>5. QED
  BY <1>2, <1>3, <1>4

-----------------------------------------------------------------------------
(* Type correctness. *)

\* What a handler is set to when it starts is well typed.
LEMMA NormalizeIsDoc ==
  ASSUME NEW d \in Doc PROVE Normalize(d) \in Doc /\ Normalize(d).key = d.key
BY TombstoneIsDoc, DocFields DEF Normalize

\* A handler between requests is a well-typed transaction state.
LEMMA IdleIsTx == Idle \in TxState /\ Idle.pc = "idle"
BY DEF Idle, TxState, NoReceipt

\* documentFromEvent ends with one of the webhook's answers.
LEMMA ParseEventOutcome ==
  ASSUME NEW env
  PROVE  ParseEvent(env) \in RejectCodes \cup {"account", "ignored", "document"}
BY DEF ParseEvent, RejectCodes

\* A claimed delivery is well typed, carries its event, and has not applied anything yet.
LEMMA ClaimedIsTx ==
  ASSUME TypeOK, NEW e \in Event
  PROVE  /\ Claimed(e) \in TxState
         /\ Claimed(e).event = e
         /\ Claimed(e).pc = "read" => Claimed(e).doc \in Doc
         /\ Claimed(e).pc \in {"read", "commit"}
         /\ Claimed(e).outcome # "applied"
<1>1. payload[e] \in Envelope /\ payload[e].doc \in Doc
  BY StoreAssumption DEF TypeOK, Envelope
<1>2. Normalize(payload[e].doc) \in Doc
  BY <1>1, NormalizeIsDoc
<1>3. CASE ParseEvent(payload[e]) = "document"
  BY <1>2, <1>3, IdleIsTx DEF Claimed, Idle, TxState, NoReceipt
<1>4. CASE ParseEvent(payload[e]) # "document"
  <2>1. ParseEvent(payload[e]) \in RejectCodes \cup {"account", "ignored"}
    BY <1>4, ParseEventOutcome
  <2>2. ParseEvent(payload[e]) # "applied"
    BY <2>1 DEF RejectCodes
  <2>3. ParseEvent(payload[e]) \in FinalOutcomes
    BY <2>1 DEF FinalOutcomes
  <2>4. Claimed(e) = [Idle EXCEPT !.pc = "commit", !.event = e,
                                  !.outcome = ParseEvent(payload[e])]
    BY <1>4 DEF Claimed
  <2>5. QED
    BY <2>2, <2>3, <2>4 DEF Idle, TxState
<1>5. QED
  BY <1>3, <1>4

\* The ordering rule of store.apply always gives one of its four outcomes.
LEMMA VerdictOutcome ==
  ASSUME NEW d, NEW cur PROVE Verdict(d, cur) \in Outcomes
BY DEF Verdict, Outcomes

\* Everything announced about a change is a well-formed event.
LEMMA PublicUrlType ==
  ASSUME NEW row \in Doc \cup {NoRow} PROVE PublicUrl(row) \in Urls \cup {NoUrl}
<1>1. CASE row = NoRow
  BY <1>1 DEF PublicUrl, RowExposure, None, PublicUnlisted
<1>2. CASE row \in Doc
  BY <1>2, DocFields DEF PublicUrl
<1>3. QED
  BY <1>1, <1>2

\* What announce emits is a sequence of well-formed events.
LEMMA AnnounceType ==
  ASSUME NEW cur \in Doc \cup {NoRow}, NEW d \in Doc
  PROVE  Announce(cur, d) \in Seq(OutboxEvent)
<1> DEFINE removed == [type |-> "removed", revision |-> d.revision,
                       exposure |-> ExposureOf(d), url |-> PublicUrl(cur)]
           indexed == [type |-> "indexed", revision |-> d.revision,
                       exposure |-> ExposureOf(d), url |-> PublicUrl(d)]
<1>1. removed \in OutboxEvent /\ indexed \in OutboxEvent
  BY PublicUrlType, ExposureInRange, DocFields DEF OutboxEvent
<1>2. <<removed>> \in Seq(OutboxEvent) /\ <<indexed>> \in Seq(OutboxEvent)
      /\ <<>> \in Seq(OutboxEvent)
  BY <1>1
<1> HIDE DEF removed, indexed
<1>3. Announce(cur, d) =
        (IF IsRemoval(cur, d) THEN <<removed>> ELSE <<>>)
        \o (IF ~d.deleted /\ ExposureOf(d) > None THEN <<indexed>> ELSE <<>>)
  BY DEF Announce, removed, indexed
<1>4. QED
  BY <1>2, <1>3

\* Steps that change only a handler's own state, to a well-typed one, keep both parts.
LEMMA LocalStep ==
  ASSUME TypeOK, TxShape, UNCHANGED <<tables, payload>>,
         apiCalls' \in Nat, faults' \in Nat,
         NEW t \in Tx, NEW s \in TxState, tx' = [tx EXCEPT ![t] = s],
         s.pc \in {"read", "row", "side"} => s.doc \in Doc,
         s.pc \in {"row", "side"} => s.outcome = "applied",
         s.pc = "commit" /\ s.outcome = "applied" => s.doc \in Doc
  PROVE  TypeOK' /\ TxShape'
<1>1. TypeOK'
  BY DEF TypeOK, tables
<1>2. \A u \in Tx : tx'[u] = IF u = t THEN s ELSE tx[u]
  BY DEF TypeOK
<1>3. TxShape'
  BY <1>2 DEF TxShape
<1>4. QED
  BY <1>1, <1>3

\* The commit of an applied document keeps the tables' types.
LEMMA CommitDocumentType ==
  ASSUME TypeOK, NEW t \in Tx, tx[t].doc \in Doc, CommitDocument(t)
  PROVE  /\ docs' \in [Key -> Doc \cup {NoRow}]
         /\ side' \in [Key -> SUBSET SideRow]
         /\ fts' \in [Key -> SUBSET FtsRow]
         /\ outbox' \in [Key -> Seq(OutboxEvent)]
         /\ removals' \subseteq RemovalRow
         /\ cdn' \subseteq Urls
         /\ clobbered' \subseteq Key
<1> DEFINE d == tx[t].doc
           k == d.key
           cur == tx[t].cur
<1>1. d \in Doc /\ k \in Key /\ cur \in Doc \cup {NoRow} /\ tx[t] \in TxState
  BY DocFields DEF TypeOK, TxState
<1>2. docs' \in [Key -> Doc \cup {NoRow}]
  BY <1>1 DEF CommitDocument, TypeOK
<1>3. side' \in [Key -> SUBSET SideRow]
  <2>1. (side[k] \ tx[t].oldSide) \cup SideRows(d) \in SUBSET SideRow
    BY <1>1, RowsOfDoc DEF TypeOK
  <2>2. side' = [side EXCEPT ![k] = (side[k] \ tx[t].oldSide) \cup SideRows(d)]
    BY DEF CommitDocument
  <2>3. QED
    BY <1>1, <2>1, <2>2 DEF TypeOK
<1>4. fts' \in [Key -> SUBSET FtsRow]
  <2>1. (fts[k] \ tx[t].oldFts) \cup FtsRows(d) \in SUBSET FtsRow
    BY <1>1, RowsOfDoc DEF TypeOK
  <2>2. fts' = [fts EXCEPT ![k] = (fts[k] \ tx[t].oldFts) \cup FtsRows(d)]
    BY DEF CommitDocument
  <2>3. QED
    BY <1>1, <2>1, <2>2 DEF TypeOK
<1>5. outbox' \in [Key -> Seq(OutboxEvent)]
  <2>1. outbox[k] \o Announce(cur, d) \in Seq(OutboxEvent)
    <3>1. outbox[k] \in Seq(OutboxEvent)
      BY <1>1 DEF TypeOK
    <3>2. Announce(cur, d) \in Seq(OutboxEvent)
      BY <1>1, AnnounceType
    <3> HIDE DEF d, k, cur
    <3>3. QED
      BY <3>1, <3>2
  <2>2. outbox' = [outbox EXCEPT ![k] = outbox[k] \o Announce(cur, d)]
    BY DEF CommitDocument
  <2>3. QED
    BY <1>1, <2>1, <2>2 DEF TypeOK
<1>6. PublicUrl(cur) \in Urls \cup {NoUrl}
  BY <1>1, PublicUrlType
<1>7. removals' \subseteq RemovalRow
  <2>1. [key |-> k, revision |-> d.revision, url |-> PublicUrl(cur)] \in RemovalRow
    BY <1>1, <1>6, DocFields DEF RemovalRow
  <2>2. QED
    BY <2>1 DEF CommitDocument, TypeOK
<1>8. cdn' \subseteq Urls
  BY <1>6 DEF CommitDocument, TypeOK, PurgeUrl
<1>9. clobbered' \subseteq Key
  BY <1>1 DEF CommitDocument, TypeOK
<1>10. QED
  BY <1>2, <1>3, <1>4, <1>5, <1>7, <1>8, <1>9

\* Rebuilding the index, or keeping it, leaves well-typed rows.
LEMMA ReconcileType ==
  ASSUME TypeOK, NEW f \in [Key -> SUBSET FtsRow]
  PROVE  Reconcile(f) \in [Key -> SUBSET FtsRow]
<1>1. \A k \in Key : docs[k] # NoRow => FtsRows(docs[k]) \in SUBSET FtsRow
  BY RowsOfDoc DEF TypeOK
<1>2. QED
  BY <1>1 DEF Reconcile

\* Every step of the store keeps the types and the shape of the handlers.
LEMMA TypeStep ==
  ASSUME TypeOK, TxShape, [Next]_vars
  PROVE  TypeOK' /\ TxShape'
<1> USE StoreAssumption
<1>1. ASSUME NEW t \in Tx, NEW e \in Event, Deliver(t, e) PROVE TypeOK' /\ TxShape'
  <2>1. tx' = [tx EXCEPT ![t] = Claimed(e)] /\ UNCHANGED <<tables, payload, apiCalls, faults>>
    BY <1>1 DEF Deliver
  <2>2. apiCalls' \in Nat /\ faults' \in Nat
    BY <2>1 DEF TypeOK
  <2>3. QED
    BY <2>1, <2>2, ClaimedIsTx, LocalStep
<1>2. ASSUME NEW t \in Tx, NEW d \in Documents, ApiApply(t, d) PROVE TypeOK' /\ TxShape'
  <2> DEFINE s == [Idle EXCEPT !.pc = "read", !.doc = Normalize(d)]
  <2>1. Normalize(d) \in Doc
    BY NormalizeIsDoc
  <2>2. s \in TxState /\ s.pc = "read" /\ s.doc \in Doc
    BY <2>1 DEF Idle, TxState, NoReceipt
  <2>3. tx' = [tx EXCEPT ![t] = s] /\ UNCHANGED <<tables, payload>>
        /\ apiCalls' \in Nat /\ faults' \in Nat
    BY <1>2 DEF ApiApply, TypeOK
  <2> HIDE DEF s
  <2>4. QED
    BY <2>2, <2>3, LocalStep
<1>3. ASSUME NEW t \in Tx, NEW k \in Key, ApiDelete(t, k) PROVE TypeOK' /\ TxShape'
  <2> DEFINE rev == IF docs[k] = NoRow THEN 0 ELSE docs[k].revision
             s == [Idle EXCEPT !.pc = "read", !.bare = TRUE, !.doc = Tombstone(k, rev)]
  <2>1. rev \in Nat
    BY DocFields DEF TypeOK
  <2>2. Tombstone(k, rev) \in Doc
    BY <2>1, TombstoneIsDoc
  <2>3. s \in TxState /\ s.pc = "read" /\ s.doc \in Doc
    BY <2>2 DEF Idle, TxState, NoReceipt
  <2>4. tx' = [tx EXCEPT ![t] = s] /\ UNCHANGED <<tables, payload>>
        /\ apiCalls' \in Nat /\ faults' \in Nat
    BY <1>3 DEF ApiDelete, TypeOK
  <2> HIDE DEF s
  <2>5. QED
    BY <2>3, <2>4, LocalStep
<1>4. ASSUME NEW t \in Tx, Read(t) PROVE TypeOK' /\ TxShape'
  <2> DEFINE cur == docs[tx[t].doc.key]
             verdict == Verdict(tx[t].doc, cur)
             s == [tx[t] EXCEPT !.cur = cur, !.outcome = verdict,
                                !.pc = IF verdict = "applied" THEN "row" ELSE "commit"]
  <2>1. tx[t] \in TxState /\ tx[t].doc \in Doc
    BY <1>4 DEF Read, TypeOK, TxShape
  <2>2. cur \in Doc \cup {NoRow}
    BY <2>1, DocFields DEF TypeOK
  <2>3. verdict \in FinalOutcomes
    BY VerdictOutcome DEF FinalOutcomes
  <2> HIDE DEF cur, verdict
  <2>4. /\ s \in TxState /\ s.doc = tx[t].doc /\ s.outcome = verdict
        /\ s.pc = IF verdict = "applied" THEN "row" ELSE "commit"
    BY <2>1, <2>2, <2>3 DEF TxState
  <2>5. tx' = [tx EXCEPT ![t] = s] /\ UNCHANGED <<tables, payload>>
        /\ apiCalls' \in Nat /\ faults' \in Nat
    BY <1>4 DEF Read, TypeOK, cur, verdict
  <2> HIDE DEF s
  <2>6. QED
    BY <2>1, <2>4, <2>5, LocalStep
<1>5. ASSUME NEW t \in Tx, WriteRow(t) PROVE TypeOK' /\ TxShape'
  <2> DEFINE s == [tx[t] EXCEPT !.pc = "side"]
  <2>1. tx[t] \in TxState /\ tx[t].doc \in Doc /\ tx[t].outcome = "applied"
    BY <1>5 DEF WriteRow, TypeOK, TxShape
  <2>2. s \in TxState /\ s.doc = tx[t].doc /\ s.outcome = tx[t].outcome /\ s.pc = "side"
    BY <2>1 DEF TxState
  <2>3. tx' = [tx EXCEPT ![t] = s] /\ UNCHANGED <<tables, payload>>
        /\ apiCalls' \in Nat /\ faults' \in Nat
    BY <1>5 DEF WriteRow, TypeOK
  <2> HIDE DEF s
  <2>4. QED
    BY <2>1, <2>2, <2>3, LocalStep
<1>6. ASSUME NEW t \in Tx, WriteSide(t) PROVE TypeOK' /\ TxShape'
  <2> DEFINE k == tx[t].doc.key
             s == [tx[t] EXCEPT !.oldSide = side[k], !.oldFts = fts[k], !.pc = "commit"]
  <2>1. tx[t] \in TxState /\ tx[t].doc \in Doc
    BY <1>6 DEF WriteSide, TypeOK, TxShape
  <2>2. side[k] \in SUBSET SideRow /\ fts[k] \in SUBSET FtsRow
    BY <2>1, DocFields DEF TypeOK
  <2>3. s \in TxState /\ s.doc = tx[t].doc /\ s.pc = "commit"
    BY <2>1, <2>2 DEF TxState
  <2>4. tx' = [tx EXCEPT ![t] = s] /\ UNCHANGED <<tables, payload>>
        /\ apiCalls' \in Nat /\ faults' \in Nat
    BY <1>6 DEF WriteSide, TypeOK
  <2> HIDE DEF s
  <2>5. QED
    BY <2>1, <2>3, <2>4, LocalStep
<1>7. ASSUME NEW t \in Tx, UniqueViolation(t) \/ Fail(t) PROVE TypeOK' /\ TxShape'
  <2>1. tx' = [tx EXCEPT ![t] = Idle] /\ UNCHANGED <<tables, payload>>
        /\ apiCalls' \in Nat /\ faults' \in Nat
    BY <1>7 DEF UniqueViolation, Fail, TypeOK
  <2>2. QED
    BY <2>1, IdleIsTx, LocalStep
<1>8. ASSUME NEW t \in Tx, Commit(t) PROVE TypeOK' /\ TxShape'
  <2>1. /\ docs' \in [Key -> Doc \cup {NoRow}]
        /\ side' \in [Key -> SUBSET SideRow]
        /\ fts' \in [Key -> SUBSET FtsRow]
        /\ outbox' \in [Key -> Seq(OutboxEvent)]
        /\ removals' \subseteq RemovalRow
        /\ cdn' \subseteq Urls
        /\ clobbered' \subseteq Key
    <3>1. CASE tx[t].outcome = "applied"
      BY <1>8, <3>1, CommitDocumentType DEF Commit, TxShape
    <3>2. CASE tx[t].outcome # "applied"
      BY <1>8, <3>2 DEF Commit, TypeOK
    <3>3. QED
      BY <3>1, <3>2
  <2>2. /\ receipts' \in [Event -> FinalOutcomes \cup {NoReceipt}]
        /\ rejections' \in [Event -> Nat]
    <3>1. tx[t] \in TxState
      BY DEF TypeOK
    <3>2. CASE tx[t].event = NoEvent
      BY <1>8, <3>2 DEF Commit, TypeOK
    <3>3. CASE tx[t].event # NoEvent
      <4>1. tx[t].event \in Event /\ tx[t].outcome \in FinalOutcomes \cup {NoReceipt}
        BY <3>1, <3>3 DEF TxState
      <4>2. receipts' = [receipts EXCEPT ![tx[t].event] = tx[t].outcome]
        BY <1>8, <3>3 DEF Commit
      <4>3. \/ rejections' = [rejections EXCEPT ![tx[t].event] = rejections[tx[t].event] + 1]
            \/ rejections' = rejections
        BY <1>8, <3>3 DEF Commit
      <4>4. rejections[tx[t].event] + 1 \in Nat
        BY <4>1 DEF TypeOK
      <4>5. receipts' \in [Event -> FinalOutcomes \cup {NoReceipt}]
        BY <4>1, <4>2 DEF TypeOK
      <4>6. rejections' \in [Event -> Nat]
        BY <4>1, <4>3, <4>4 DEF TypeOK
      <4>7. QED
        BY <4>5, <4>6
    <3>4. QED
      BY <3>2, <3>3
  <2>3. tx' = [tx EXCEPT ![t] = Idle] /\ UNCHANGED <<payload, apiCalls, faults>>
    BY <1>8 DEF Commit
  <2>4. TypeOK'
    BY <2>1, <2>2, <2>3, IdleIsTx DEF TypeOK
  <2>5. \A u \in Tx : tx'[u] = IF u = t THEN Idle ELSE tx[u]
    BY <2>3 DEF TypeOK
  <2>6. TxShape'
    BY <2>5, IdleIsTx DEF TxShape
  <2>7. QED
    BY <2>4, <2>6
<1>9. ASSUME NEW lost \in SUBSET Key, Restart(lost) PROVE TypeOK' /\ TxShape'
  <2>1. [k \in Key |-> IF k \in lost THEN {} ELSE fts[k]] \in [Key -> SUBSET FtsRow]
    BY DEF TypeOK
  <2>2. fts' \in [Key -> SUBSET FtsRow]
    BY <1>9, <2>1, ReconcileType DEF Restart
  <2>3. TypeOK'
    <3>1. tx' \in [Tx -> TxState]
      BY <1>9, IdleIsTx DEF Restart
    <3>2. faults' \in Nat
      BY <1>9 DEF Restart, TypeOK
    <3>3. UNCHANGED <<docs, side, receipts, rejections, outbox, removals, cdn, payload,
                      apiCalls, clobbered>>
      BY <1>9 DEF Restart
    <3>4. QED
      BY <2>2, <3>1, <3>2, <3>3 DEF TypeOK
  <2>4. TxShape'
    BY <1>9, IdleIsTx DEF Restart, TxShape
  <2>5. QED
    BY <2>3, <2>4
<1>10. ASSUME UNCHANGED vars PROVE TypeOK' /\ TxShape'
  BY <1>10 DEF vars, TypeOK, TxShape
<1>11. QED
  BY <1>1, <1>2, <1>3, <1>4, <1>5, <1>6, <1>7, <1>8, <1>9, <1>10 DEF Next, Step, Duplicate

\* The empty schema is well typed.
LEMMA TypeInit ==
  ASSUME Init PROVE TypeOK /\ TxShape
<1>1. TypeOK
  BY IdleIsTx, StoreAssumption DEF Init, TypeOK, NoReceipt
<1>2. TxShape
  BY IdleIsTx DEF Init, TxShape
<1>3. QED
  BY <1>1, <1>2

\* Types and the shape of a handler's state hold together, in every reachable state.
LEMMA TypeAndShape == Spec => [](TypeOK /\ TxShape)
<1>1. Init => TypeOK /\ TxShape
  BY TypeInit
<1>2. (TypeOK /\ TxShape) /\ [Next]_vars => (TypeOK /\ TxShape)'
  BY TypeStep
<1>3. QED
  BY <1>1, <1>2, PTL DEF Spec

\* The documents, the tables and the transactions keep their types: no handler of
\* server/store.js or server/api/webhook.js leaves a row that is not a normalized document
\* or an event that is not well formed.
THEOREM TypeCorrect == Spec => []TypeOK
BY TypeAndShape, PTL

-----------------------------------------------------------------------------
(* The side tables agree with the document row. *)

\* A handler that does not have a row after its step disturbs nobody's rows.
LEMMA NoRowStep ==
  ASSUME TypeOK, RowLockExclusive, OldRowsCurrent, SideRowsMatch,
         UNCHANGED <<docs, side, fts>>,
         NEW t \in Tx, NEW s \in TxState, tx' = [tx EXCEPT ![t] = s],
         ~(s.pc \in {"side", "commit"} /\ s.outcome = "applied")
  PROVE  RowLockExclusive' /\ OldRowsCurrent' /\ SideRowsMatch'
<1>1. \A u \in Tx : tx'[u] = IF u = t THEN s ELSE tx[u]
  BY DEF TypeOK
<1>2. \A u \in Tx, k \in Key : HoldsRow(u, k)' => HoldsRow(u, k)
  BY <1>1 DEF HoldsRow
<1>3. RowLockExclusive'
  BY <1>2 DEF RowLockExclusive
<1>4. OldRowsCurrent'
  BY <1>1 DEF OldRowsCurrent
<1>5. SideRowsMatch'
  BY DEF SideRowsMatch
<1>6. QED
  BY <1>3, <1>4, <1>5

\* Commit installs exactly the new document's rows, because the ones it replaces are the
\* ones it saw; nobody else was about to replace rows of this document.
LEMMA CommitRows ==
  ASSUME TypeOK, TxShape, RowLockExclusive, OldRowsCurrent, SideRowsMatch,
         NEW t \in Tx, Commit(t), tx[t].outcome = "applied"
  PROVE  RowLockExclusive' /\ OldRowsCurrent' /\ SideRowsMatch'
<1> DEFINE d == tx[t].doc
           k == d.key
<1>1. d \in Doc /\ k \in Key /\ HoldsRow(t, k)
  BY DocFields DEF Commit, TxShape, HoldsRow
<1>2. tx[t].oldSide = side[k] /\ tx[t].oldFts = fts[k]
  BY DEF OldRowsCurrent, Commit
<1>3. CommitDocument(t)
  BY DEF Commit
<1>4. /\ docs' = [docs EXCEPT ![k] = d]
      /\ side' = [side EXCEPT ![k] = SideRows(d)]
      /\ fts' = [fts EXCEPT ![k] = FtsRows(d)]
  <2>1. (side[k] \ side[k]) \cup SideRows(d) = SideRows(d)
    OBVIOUS
  <2>2. (fts[k] \ fts[k]) \cup FtsRows(d) = FtsRows(d)
    OBVIOUS
  <2>3. QED
    BY <1>2, <1>3, <2>1, <2>2 DEF CommitDocument
<1>5. \A u \in Tx : tx'[u] = IF u = t THEN Idle ELSE tx[u]
  BY DEF Commit, TypeOK
<1>6. \A u \in Tx, j \in Key : HoldsRow(u, j)' => u # t /\ HoldsRow(u, j)
  BY <1>5, IdleIsTx DEF HoldsRow
<1>7. RowLockExclusive'
  BY <1>6 DEF RowLockExclusive
<1>8. OldRowsCurrent'
  <2>1. SUFFICES ASSUME NEW u \in Tx, tx'[u].pc = "commit", tx'[u].outcome = "applied"
                 PROVE  /\ tx'[u].oldSide = side'[tx'[u].doc.key]
                        /\ tx'[u].oldFts = fts'[tx'[u].doc.key]
    BY DEF OldRowsCurrent
  <2>2. u # t /\ tx'[u] = tx[u]
    BY <2>1, <1>5, IdleIsTx
  <2>3. tx[u].doc \in Doc /\ tx[u].doc.key \in Key
    BY <2>1, <2>2, DocFields DEF TxShape
  <2>4. HoldsRow(u, tx[u].doc.key)
    BY <2>1, <2>2 DEF HoldsRow
  <2>5. tx[u].doc.key # k
    BY <1>1, <2>2, <2>3, <2>4 DEF RowLockExclusive
  <2>6. side'[tx[u].doc.key] = side[tx[u].doc.key] /\ fts'[tx[u].doc.key] = fts[tx[u].doc.key]
    BY <1>4, <2>3, <2>5 DEF TypeOK
  <2>7. QED
    BY <2>1, <2>2, <2>6 DEF OldRowsCurrent
<1>9. SideRowsMatch'
  <2>1. d # NoRow
    BY <1>1, NoValueAssumption
  <2>2. \A j \in Key : /\ docs'[j] = IF j = k THEN d ELSE docs[j]
                       /\ side'[j] = IF j = k THEN SideRows(d) ELSE side[j]
                       /\ fts'[j] = IF j = k THEN FtsRows(d) ELSE fts[j]
    BY <1>1, <1>4 DEF TypeOK
  <2> HIDE DEF d, k
  <2>3. QED
    BY <2>1, <2>2 DEF SideRowsMatch
<1>10. QED
  BY <1>7, <1>8, <1>9

\* The boot-time rebuild notices every missing index row by counting alone: a subset of the
\* right rows with the right counts is all of them (engine/pg.js reconcile).
LEMMA ReconcileRestores ==
  ASSUME TypeOK, SideRowsMatch, NEW lost \in SUBSET Key
  PROVE  Reconcile([k \in Key |-> IF k \in lost THEN {} ELSE fts[k]]) = fts
<1> DEFINE f == [k \in Key |-> IF k \in lost THEN {} ELSE fts[k]]
           indexed(a) == {k \in Key : \E r \in f[k] : r.audience = a}
           stored(a) == {k \in Key : RowExposure(docs[k]) = a}
<1>1. \A k \in Key : fts[k] = IF docs[k] = NoRow THEN {} ELSE FtsRows(docs[k])
  BY DEF SideRowsMatch
<1>2. \A k \in Key : \A r \in fts[k] : r.audience = RowExposure(docs[k])
  <2>1. SUFFICES ASSUME NEW k \in Key, NEW r \in fts[k]
                 PROVE  r.audience = RowExposure(docs[k])
    OBVIOUS
  <2>2. docs[k] # NoRow /\ r \in FtsRows(docs[k])
    BY <1>1
  <2>3. r = [audience |-> ExposureOf(docs[k]), text |-> docs[k].text]
    BY <2>2 DEF FtsRows
  <2>4. QED
    BY <2>2, <2>3 DEF RowExposure
<1>3. \A k \in Key : fts[k] # {} => RowExposure(docs[k]) \in {PublicListed, Restricted}
                                    /\ \E r \in fts[k] : TRUE
  BY <1>1 DEF FtsRows, RowExposure
<1>4. CASE \A a \in {PublicListed, Restricted} : IndexCount(f, a) = DocumentCount(a)
  <2>1. ASSUME NEW a \in {PublicListed, Restricted} PROVE indexed(a) = stored(a)
    <3>1. indexed(a) \subseteq stored(a)
      BY <1>2
    <3>2. IsFiniteSet(stored(a))
      BY FS_Subset, StoreAssumption
    <3>3. Cardinality(indexed(a)) = Cardinality(stored(a))
      BY <1>4 DEF IndexCount, DocumentCount
    <3>4. QED
      BY <3>1, <3>2, <3>3, FS_Subset
  <2>2. ASSUME NEW k \in Key PROVE f[k] = fts[k]
    <3>1. CASE fts[k] = {}
      BY <3>1
    <3>2. CASE fts[k] # {}
      <4> DEFINE a == RowExposure(docs[k])
      <4>1. a \in {PublicListed, Restricted}
        BY <1>3, <3>2
      <4>2. k \in indexed(a)
        BY <2>1, <4>1
      <4>3. QED
        BY <4>2
    <3>3. QED
      BY <3>1, <3>2
  <2>3. fts = [k \in Key |-> fts[k]] /\ f = [k \in Key |-> f[k]]
    BY DEF TypeOK
  <2>4. f = fts
    BY <2>2, <2>3
  <2>5. QED
    BY <1>4, <2>4 DEF Reconcile
<1>5. CASE ~\A a \in {PublicListed, Restricted} : IndexCount(f, a) = DocumentCount(a)
  <2>1. Reconcile(f) = [k \in Key |-> IF docs[k] = NoRow THEN {} ELSE FtsRows(docs[k])]
    BY <1>5 DEF Reconcile
  <2>2. fts = [k \in Key |-> fts[k]]
    BY DEF TypeOK
  <2>3. QED
    BY <1>1, <2>1, <2>2
<1>6. QED
  BY <1>4, <1>5

\* Every step keeps the rows of the side tables in agreement with the documents.
LEMMA RowsStep ==
  ASSUME RowsInv, [Next]_vars
  PROVE  RowLockExclusive' /\ OldRowsCurrent' /\ SideRowsMatch'
<1> USE DEF RowsInv
<1>1. ASSUME NEW t \in Tx, NEW e \in Event, Deliver(t, e)
      PROVE  RowLockExclusive' /\ OldRowsCurrent' /\ SideRowsMatch'
  <2>1. tx' = [tx EXCEPT ![t] = Claimed(e)] /\ UNCHANGED <<docs, side, fts>>
    BY <1>1 DEF Deliver, tables
  <2>2. QED
    BY <2>1, ClaimedIsTx, NoRowStep
<1>2. ASSUME NEW t \in Tx, NEW d \in Documents, ApiApply(t, d)
      PROVE  RowLockExclusive' /\ OldRowsCurrent' /\ SideRowsMatch'
  <2> DEFINE s == [Idle EXCEPT !.pc = "read", !.doc = Normalize(d)]
  <2>1. Normalize(d) \in Doc
    BY NormalizeIsDoc, StoreAssumption
  <2>2. s \in TxState /\ s.pc = "read"
    BY <2>1 DEF Idle, TxState, NoReceipt
  <2>3. tx' = [tx EXCEPT ![t] = s] /\ UNCHANGED <<docs, side, fts>>
    BY <1>2 DEF ApiApply, tables
  <2> HIDE DEF s
  <2>4. QED
    BY <2>2, <2>3, NoRowStep
<1>3. ASSUME NEW t \in Tx, NEW k \in Key, ApiDelete(t, k)
      PROVE  RowLockExclusive' /\ OldRowsCurrent' /\ SideRowsMatch'
  <2> DEFINE rev == IF docs[k] = NoRow THEN 0 ELSE docs[k].revision
             s == [Idle EXCEPT !.pc = "read", !.bare = TRUE, !.doc = Tombstone(k, rev)]
  <2>1. rev \in Nat
    BY DocFields DEF TypeOK
  <2>2. Tombstone(k, rev) \in Doc
    BY <2>1, TombstoneIsDoc
  <2>3. s \in TxState /\ s.pc = "read"
    BY <2>2 DEF Idle, TxState, NoReceipt
  <2>4. tx' = [tx EXCEPT ![t] = s] /\ UNCHANGED <<docs, side, fts>>
    BY <1>3 DEF ApiDelete, tables
  <2> HIDE DEF s
  <2>5. QED
    BY <2>3, <2>4, NoRowStep
<1>4. ASSUME NEW t \in Tx, Read(t)
      PROVE  RowLockExclusive' /\ OldRowsCurrent' /\ SideRowsMatch'
  <2> DEFINE cur == docs[tx[t].doc.key]
             verdict == Verdict(tx[t].doc, cur)
             s == [tx[t] EXCEPT !.cur = cur, !.outcome = verdict,
                                !.pc = IF verdict = "applied" THEN "row" ELSE "commit"]
  <2>1. tx[t] \in TxState /\ tx[t].doc \in Doc
    BY <1>4 DEF Read, TypeOK, TxShape
  <2>2. cur \in Doc \cup {NoRow}
    BY <2>1, DocFields DEF TypeOK
  <2>3. verdict \in FinalOutcomes
    BY VerdictOutcome DEF FinalOutcomes
  <2> HIDE DEF cur, verdict
  <2>4. /\ s \in TxState /\ s.outcome = verdict
        /\ s.pc = IF verdict = "applied" THEN "row" ELSE "commit"
    BY <2>1, <2>2, <2>3 DEF TxState
  <2>5. tx' = [tx EXCEPT ![t] = s] /\ UNCHANGED <<docs, side, fts>>
    BY <1>4 DEF Read, tables, cur, verdict
  <2> HIDE DEF s
  <2>6. QED
    BY <2>4, <2>5, NoRowStep
<1>5. ASSUME NEW t \in Tx, WriteRow(t)
      PROVE  RowLockExclusive' /\ OldRowsCurrent' /\ SideRowsMatch'
  <2>1. tx[t] \in TxState /\ tx[t].doc.key \in Key
    BY <1>5, DocFields DEF WriteRow, TypeOK, TxShape
  <2>2. \A u \in Tx : tx'[u] = IF u = t THEN [tx[t] EXCEPT !.pc = "side"] ELSE tx[u]
    BY <1>5 DEF WriteRow, TypeOK
  <2>3. tx'[t].pc = "side" /\ tx'[t].doc = tx[t].doc
    BY <2>1, <2>2 DEF TxState
  <2>4. \A u \in Tx \ {t}, k \in Key : HoldsRow(u, k)' = HoldsRow(u, k)
    BY <2>2 DEF HoldsRow
  <2>5. \A u \in Tx \ {t} : ~HoldsRow(u, tx[t].doc.key)
    BY <1>5 DEF WriteRow
  <2>6. \A k \in Key : HoldsRow(t, k)' => k = tx[t].doc.key
    BY <2>3 DEF HoldsRow
  <2>7. RowLockExclusive'
    BY <2>4, <2>5, <2>6 DEF RowLockExclusive
  <2>8. UNCHANGED <<docs, side, fts>>
    BY <1>5 DEF WriteRow, tables
  <2>9. OldRowsCurrent'
    BY <2>2, <2>3, <2>8 DEF OldRowsCurrent
  <2>10. SideRowsMatch'
    BY <2>8 DEF SideRowsMatch
  <2>11. QED
    BY <2>7, <2>9, <2>10
<1>6. ASSUME NEW t \in Tx, WriteSide(t)
      PROVE  RowLockExclusive' /\ OldRowsCurrent' /\ SideRowsMatch'
  <2> DEFINE k == tx[t].doc.key
  <2>1. tx[t] \in TxState /\ k \in Key /\ HoldsRow(t, k)
    BY <1>6, DocFields DEF WriteSide, TypeOK, TxShape, HoldsRow
  <2>2. \A u \in Tx : tx'[u] = IF u = t
                               THEN [tx[t] EXCEPT !.oldSide = side[k], !.oldFts = fts[k],
                                                  !.pc = "commit"]
                               ELSE tx[u]
    BY <1>6 DEF WriteSide, TypeOK
  <2>3. /\ tx'[t].doc = tx[t].doc
        /\ tx'[t].oldSide = side[k]
        /\ tx'[t].oldFts = fts[k]
    BY <2>1, <2>2 DEF TxState
  <2>4. \A u \in Tx, j \in Key : HoldsRow(u, j)' => HoldsRow(u, j)
    BY <2>1, <2>2, <2>3 DEF HoldsRow
  <2>5. RowLockExclusive'
    BY <2>4 DEF RowLockExclusive
  <2>6. UNCHANGED <<docs, side, fts>>
    BY <1>6 DEF WriteSide, tables
  <2>7. OldRowsCurrent'
    BY <2>2, <2>3, <2>6 DEF OldRowsCurrent
  <2>8. SideRowsMatch'
    BY <2>6 DEF SideRowsMatch
  <2>9. QED
    BY <2>5, <2>7, <2>8
<1>7. ASSUME NEW t \in Tx, UniqueViolation(t) \/ Fail(t)
      PROVE  RowLockExclusive' /\ OldRowsCurrent' /\ SideRowsMatch'
  <2>1. tx' = [tx EXCEPT ![t] = Idle] /\ UNCHANGED <<docs, side, fts>>
    BY <1>7 DEF UniqueViolation, Fail, tables
  <2>2. QED
    BY <2>1, IdleIsTx, NoRowStep
<1>8. ASSUME NEW t \in Tx, Commit(t)
      PROVE  RowLockExclusive' /\ OldRowsCurrent' /\ SideRowsMatch'
  <2>1. CASE tx[t].outcome = "applied"
    BY <1>8, <2>1, CommitRows
  <2>2. CASE tx[t].outcome # "applied"
    <3>1. tx' = [tx EXCEPT ![t] = Idle] /\ UNCHANGED <<docs, side, fts>>
      BY <1>8, <2>2 DEF Commit
    <3>2. QED
      BY <3>1, IdleIsTx, NoRowStep
  <2>3. QED
    BY <2>1, <2>2
<1>9. ASSUME NEW lost \in SUBSET Key, Restart(lost)
      PROVE  RowLockExclusive' /\ OldRowsCurrent' /\ SideRowsMatch'
  <2>1. UNCHANGED <<docs, side, fts>>
    BY <1>9, ReconcileRestores DEF Restart
  <2>2. \A u \in Tx : tx'[u] = Idle
    BY <1>9 DEF Restart
  <2>3. QED
    BY <2>1, <2>2, IdleIsTx DEF RowLockExclusive, OldRowsCurrent, SideRowsMatch, HoldsRow
<1>10. ASSUME UNCHANGED vars
       PROVE  RowLockExclusive' /\ OldRowsCurrent' /\ SideRowsMatch'
  BY <1>10 DEF vars, RowLockExclusive, OldRowsCurrent, SideRowsMatch, HoldsRow
<1>11. QED
  BY <1>1, <1>2, <1>3, <1>4, <1>5, <1>6, <1>7, <1>8, <1>9, <1>10 DEF Next, Step, Duplicate

\* The inductive invariant of the tables, in every reachable state.
LEMMA RowsInvariant == Spec => []RowsInv
<1>1. Init => RowsInv
  <2>1. SUFFICES ASSUME Init PROVE RowsInv
    OBVIOUS
  <2>2. TypeOK /\ TxShape
    BY <2>1, TypeInit
  <2>3. RowLockExclusive /\ OldRowsCurrent
    BY <2>1, IdleIsTx DEF Init, RowLockExclusive, OldRowsCurrent, HoldsRow
  <2>4. SideRowsMatch
    BY <2>1 DEF Init, SideRowsMatch
  <2>5. QED
    BY <2>2, <2>3, <2>4 DEF RowsInv
<1>2. RowsInv /\ [Next]_vars => RowsInv'
  BY TypeStep, RowsStep DEF RowsInv
<1>3. QED
  BY <1>1, <1>2, PTL DEF Spec

\* In every committed state, and for any number of overlapping handlers, failures and
\* restarts, doc_acl, doc_facets and search_fts hold exactly the stored document's rows
\* (server/store.js apply and writeSideRows, server/engine/pg.js put and reconcile).
THEOREM SideRowsAgree == Spec => []SideRowsMatch
<1>1. RowsInv => SideRowsMatch
  BY DEF RowsInv
<1>2. QED
  BY <1>1, RowsInvariant, PTL

\* Hence nobody finds in search or browse, by whatever interleaving of writers, a document
\* that canView would refuse to open for them (server/api/query.js, server/engine/pg.js).
THEOREM NothingListedIsHidden == Spec => []ListedIsViewable
<1>1. RowsInv => ListedIsViewable
  <2>1. SUFFICES ASSUME RowsInv, NEW k \in Key, NEW v \in Viewer,
                        \/ Browsable(v, docs[k], side[k])
                        \/ Searchable(v, docs[k], side[k], fts[k])
                 PROVE  CanView(v, docs[k])
    BY DEF ListedIsViewable
  <2>2. docs[k] # NoRow
    BY <2>1 DEF Browsable, Searchable
  <2>3. docs[k] \in Doc /\ side[k] = SideRows(docs[k]) /\ fts[k] = FtsRows(docs[k])
    BY <2>1, <2>2 DEF RowsInv, TypeOK, SideRowsMatch
  <2>4. QED
    BY <2>1, <2>3, SqlAgreesWithCanView
<1>2. QED
  BY <1>1, RowsInvariant, PTL

-----------------------------------------------------------------------------
(* One event, one receipt, one rejection. *)

\* A claimed event has no receipt yet, and one handler only has claimed it: the strengthening
\* that makes RejectedOnce inductive (server/api/webhook.js claims by INSERT ... ON CONFLICT).
ClaimExclusive ==
  \A e \in Event, t \in Tx :
    HoldsClaim(t, e) => receipts[e] = NoReceipt /\ \A u \in Tx : HoldsClaim(u, e) => u = t

\* A handler that claims nothing, or goes on with the claim it has, disturbs no claim.
LEMMA ClaimStep ==
  ASSUME TypeOK, ClaimExclusive, RejectedOnce, UNCHANGED <<receipts, rejections>>,
         \A u \in Tx, e \in Event : HoldsClaim(u, e)' => HoldsClaim(u, e)
  PROVE  ClaimExclusive' /\ RejectedOnce'
<1>1. ClaimExclusive'
  BY DEF ClaimExclusive
<1>2. RejectedOnce'
  BY DEF RejectedOnce
<1> QED
  BY <1>1, <1>2

\* A refused event leaves exactly one rejection row, with its receipt: for any number of
\* deliveries, handlers at once, failures and restarts (server/api/webhook.js recordOutcome).
THEOREM RejectedExactlyOnce == Spec => []RejectedOnce
<1>1. Init => ClaimExclusive /\ RejectedOnce
  BY IdleIsTx DEF Init, ClaimExclusive, RejectedOnce, HoldsClaim, NoReceipt, RejectCodes
<1>2. TypeOK /\ (ClaimExclusive /\ RejectedOnce) /\ [Next]_vars
        => (ClaimExclusive /\ RejectedOnce)'
  <2> SUFFICES ASSUME TypeOK, ClaimExclusive, RejectedOnce, [Next]_vars
               PROVE  ClaimExclusive' /\ RejectedOnce'
    OBVIOUS
  <2>1. ASSUME NEW t \in Tx, NEW e \in Event, Deliver(t, e)
        PROVE  ClaimExclusive' /\ RejectedOnce'
    <3>1. /\ \A u \in Tx : tx'[u] = IF u = t THEN Claimed(e) ELSE tx[u]
          /\ receipts[e] = NoReceipt /\ \A u \in Tx : ~HoldsClaim(u, e)
          /\ UNCHANGED <<receipts, rejections>>
      BY <2>1 DEF Deliver, TypeOK, tables
    <3>2. \A u \in Tx, f \in Event :
            HoldsClaim(u, f)' => (u = t /\ f = e) \/ (u # t /\ f # e /\ HoldsClaim(u, f))
      BY <3>1, ClaimedIsTx DEF HoldsClaim
    <3>3. ClaimExclusive'
      BY <3>1, <3>2 DEF ClaimExclusive
    <3> QED
      BY <3>1, <3>3 DEF RejectedOnce
  <2>2. ASSUME NEW t \in Tx,
               \/ \E d \in Documents : ApiApply(t, d)
               \/ \E k \in Key : ApiDelete(t, k)
        PROVE  ClaimExclusive' /\ RejectedOnce'
    <3>0. \E s : tx' = [tx EXCEPT ![t] = s] /\ s.event = NoEvent
      <4>1. ASSUME NEW d \in Documents, ApiApply(t, d)
            PROVE  \E s : tx' = [tx EXCEPT ![t] = s] /\ s.event = NoEvent
        <5>1. [Idle EXCEPT !.pc = "read", !.doc = Normalize(d)].event = NoEvent
          BY DEF Idle
        <5> QED
          BY <4>1, <5>1 DEF ApiApply
      <4>2. ASSUME NEW k \in Key, ApiDelete(t, k)
            PROVE  \E s : tx' = [tx EXCEPT ![t] = s] /\ s.event = NoEvent
        <5> DEFINE d == Tombstone(k, IF docs[k] = NoRow THEN 0 ELSE docs[k].revision)
        <5>1. [Idle EXCEPT !.pc = "read", !.bare = TRUE, !.doc = d].event = NoEvent
          BY DEF Idle
        <5> QED
          BY <4>2, <5>1 DEF ApiDelete
      <4> QED
        BY <2>2, <4>1, <4>2
    <3>1. /\ tx'[t].event = NoEvent
          /\ \A u \in Tx \ {t} : tx'[u] = tx[u]
          /\ UNCHANGED <<receipts, rejections>>
      BY <2>2, <3>0 DEF ApiApply, ApiDelete, TypeOK, tables
    <3>2. \A u \in Tx, e \in Event : HoldsClaim(u, e)' => HoldsClaim(u, e)
      BY <3>1, StoreAssumption DEF HoldsClaim
    <3> QED
      BY <3>1, <3>2, ClaimStep
  <2>3. ASSUME NEW t \in Tx, Read(t) \/ WriteRow(t) \/ WriteSide(t)
        PROVE  ClaimExclusive' /\ RejectedOnce'
    <3>1. /\ tx'[t].event = tx[t].event /\ tx[t].pc # "idle"
          /\ \A u \in Tx \ {t} : tx'[u] = tx[u]
          /\ UNCHANGED <<receipts, rejections>>
      <4>1. CASE Read(t)
        BY <4>1 DEF Read, TypeOK, TxState, tables
      <4>2. CASE WriteRow(t) \/ WriteSide(t)
        BY <4>2 DEF WriteRow, WriteSide, TypeOK, TxState, tables
      <4> QED
        BY <2>3, <4>1, <4>2
    <3>2. \A u \in Tx, e \in Event : HoldsClaim(u, e)' => HoldsClaim(u, e)
      BY <3>1 DEF HoldsClaim
    <3> QED
      BY <3>1, <3>2, ClaimStep
  <2>4. ASSUME NEW t \in Tx, UniqueViolation(t) \/ Fail(t)
        PROVE  ClaimExclusive' /\ RejectedOnce'
    <3>1. /\ \A u \in Tx : tx'[u] = IF u = t THEN Idle ELSE tx[u]
          /\ UNCHANGED <<receipts, rejections>>
      BY <2>4 DEF UniqueViolation, Fail, TypeOK, tables
    <3>2. \A u \in Tx, e \in Event : HoldsClaim(u, e)' => HoldsClaim(u, e)
      BY <3>1, IdleIsTx DEF HoldsClaim
    <3> QED
      BY <3>1, <3>2, ClaimStep
  <2>5. ASSUME NEW t \in Tx, Commit(t)
        PROVE  ClaimExclusive' /\ RejectedOnce'
    <3>1. \A u \in Tx : tx'[u] = IF u = t THEN Idle ELSE tx[u]
      BY <2>5 DEF Commit, TypeOK
    <3>2. \A u \in Tx, e \in Event : HoldsClaim(u, e)' => u # t /\ HoldsClaim(u, e)
      BY <3>1, IdleIsTx DEF HoldsClaim
    <3>3. CASE tx[t].event = NoEvent
      <4>1. UNCHANGED <<receipts, rejections>>
        BY <2>5, <3>3 DEF Commit
      <4> QED
        BY <3>2, <4>1, ClaimStep
    <3>4. CASE tx[t].event # NoEvent
      <4> DEFINE e == tx[t].event
                 o == tx[t].outcome
      <4>1. e \in Event /\ HoldsClaim(t, e)
        BY <2>5, <3>4 DEF TypeOK, TxState, HoldsClaim, Commit
      <4>2. /\ receipts' = [receipts EXCEPT ![e] = o]
            /\ rejections' = IF o \in RejectCodes
                             THEN [rejections EXCEPT ![e] = rejections[e] + 1] ELSE rejections
        BY <2>5, <3>4 DEF Commit
      <4>3. receipts[e] = NoReceipt /\ rejections[e] = 0
        BY <4>1 DEF ClaimExclusive, RejectedOnce, NoReceipt, RejectCodes
      <4>4. \A u \in Tx : u # t => ~HoldsClaim(u, e)
        BY <4>1 DEF ClaimExclusive
      <4> HIDE DEF e, o
      <4>5. \A f \in Event : /\ receipts'[f] = IF f = e THEN o ELSE receipts[f]
                             /\ rejections'[f] = IF f = e /\ o \in RejectCodes THEN 1
                                                 ELSE rejections[f]
        BY <4>1, <4>2, <4>3 DEF TypeOK
      <4>6. ClaimExclusive'
        BY <3>2, <4>4, <4>5 DEF ClaimExclusive
      <4>7. RejectedOnce'
        BY <4>3, <4>5 DEF RejectedOnce
      <4> QED
        BY <4>6, <4>7
    <3> QED
      BY <3>3, <3>4
  <2>6. ASSUME NEW lost \in SUBSET Key, Restart(lost)
        PROVE  ClaimExclusive' /\ RejectedOnce'
    <3>1. \A u \in Tx, e \in Event : HoldsClaim(u, e)' => HoldsClaim(u, e)
      BY <2>6, IdleIsTx DEF Restart, HoldsClaim
    <3> QED
      BY <2>6, <3>1, ClaimStep DEF Restart
  <2>7. CASE UNCHANGED vars
    BY <2>7, ClaimStep DEF vars, HoldsClaim
  <2> QED
    BY <2>1, <2>2, <2>3, <2>4, <2>5, <2>6, <2>7 DEF Next, Step, Duplicate
<1> QED
  BY <1>1, <1>2, TypeCorrect, PTL DEF Spec

-----------------------------------------------------------------------------
(* What every store keeps, with overlapping transactions too. *)

(* Facts about documents and the ordering rule. *)

\* A tombstone has nothing but its identity and its revision.
LEMMA DeletedIsTombstone ==
  ASSUME NEW d \in Doc, d.deleted
  PROVE  d = Tombstone(d.key, d.revision)
<1>1. d \in TombstoneDocument
  BY DEF Doc, LiveDocument
<1> QED
  BY <1>1 DEF TombstoneDocument, Tombstone

\* normalize keeps what is normalized already (server/document.js).
LEMMA NormalizeKeeps ==
  ASSUME NEW d \in Doc PROVE Normalize(d) = d
BY DeletedIsTombstone DEF Normalize

\* store.apply applies what supersedes the stored version, and nothing else.
LEMMA AppliedSupersedes ==
  ASSUME NEW d \in Doc, NEW cur \in Doc \cup {NoRow}, Verdict(d, cur) = "applied"
  PROVE  Register!Supersedes(d, cur)
BY DocFields DEF Verdict, Register!Supersedes

\* Row has taken up version d of its document: it is as new, and as deleted.
Covers(row, d) ==
  /\ row # NoRow
  /\ row.revision >= d.revision
  /\ row.revision = d.revision /\ d.deleted => row.deleted

\* Whatever else store.apply decides, the stored version has taken up this one.
LEMMA OtherwiseCovered ==
  ASSUME NEW d \in Doc, NEW cur \in Doc \cup {NoRow}, Verdict(d, cur) # "applied"
  PROVE  Covers(cur, d)
BY DocFields DEF Verdict, Covers

\* What a version has taken up, every version that supersedes it has taken up, too.
LEMMA CoversGrows ==
  ASSUME NEW d \in Doc, NEW cur \in Doc, NEW new \in Doc,
         Covers(cur, d), Register!Supersedes(new, cur)
  PROVE  Covers(new, d)
<1>1. cur # NoRow /\ new # NoRow
  BY NoValueAssumption
<1> QED
  BY <1>1, DocFields DEF Covers, Register!Supersedes

-----------------------------------------------------------------------------
(* The inductive invariant of handlers that may overlap. *)

\* A row is stored under the identity it names.
KeysMatch == \A k \in Key : docs[k] # NoRow => docs[k].key = k

\* The handler's event carries nothing for store.apply.
Refused(t) == tx[t].event # NoEvent /\ ParseEvent(payload[tx[t].event]) # "document"

\* The store has taken up version d, or a handler has replaced unread what had.
CoveredOrLost(d) == Covers(docs[d.key], d) \/ d.key \in clobbered

\* What a handler has decided follows from what it has read, whatever happens to the row
\* meanwhile; and what it will not write, the store has taken up.
Decided(t) ==
  IF Refused(t)
  THEN /\ tx[t].pc = "commit" /\ ~tx[t].bare
       /\ tx[t].outcome = ParseEvent(payload[tx[t].event])
  ELSE /\ tx[t].doc \in Doc
       /\ tx[t].bare => tx[t].event = NoEvent /\ tx[t].doc.deleted
       /\ tx[t].event # NoEvent => tx[t].doc = payload[tx[t].event].doc
       /\ tx[t].pc # "read" =>
            /\ tx[t].outcome = Verdict(tx[t].doc, tx[t].cur)
            /\ tx[t].cur # NoRow => tx[t].cur.key = tx[t].doc.key
            /\ tx[t].outcome # "applied" => CoveredOrLost(tx[t].doc)

HandlersDecide == \A t \in Tx : tx[t].pc # "idle" => Decided(t)
OverlapInv == TypeOK /\ TxShape /\ KeysMatch /\ HandlersDecide

\* Documents change only by the commit of an applied version.
LEMMA DocsStep ==
  ASSUME [Next]_vars
  PROVE  docs' = docs \/ \E t \in Tx : Commit(t) /\ tx[t].outcome = "applied"
<1>1. ASSUME NEW t \in Tx, Commit(t), tx[t].outcome # "applied" PROVE docs' = docs
  BY <1>1 DEF Commit
<1>2. ASSUME ~\E t \in Tx : Commit(t) PROVE docs' = docs
  BY <1>2 DEF Next, Step, Read, WriteRow, UniqueViolation, WriteSide, Fail, Deliver,
              Duplicate, ApiApply, ApiDelete, Restart, vars, tables
<1> QED
  BY <1>1, <1>2

\* What a commit of an applied version does: it replaces the stored version, and if that
\* is not the one that was read, the identity is clobbered.
LEMMA CommitReplaces ==
  ASSUME OverlapInv, NEW t \in Tx, Commit(t), tx[t].outcome = "applied"
  PROVE  /\ tx[t].doc \in Doc /\ tx[t].doc.key \in Key /\ tx[t].cur \in Doc \cup {NoRow}
         /\ CommitDocument(t)
         /\ docs' = [docs EXCEPT ![tx[t].doc.key] = tx[t].doc]
         /\ clobbered' = IF docs[tx[t].doc.key] = tx[t].cur
                         THEN clobbered ELSE clobbered \cup {tx[t].doc.key}
         /\ Register!Supersedes(tx[t].doc, tx[t].cur)
<1>1. tx[t].pc = "commit" /\ Decided(t) /\ CommitDocument(t)
  BY DEF Commit, OverlapInv, HandlersDecide
<1>2. ~Refused(t)
  <2>1. ParseEvent(payload[tx[t].event]) # "applied"
    BY ParseEventOutcome DEF RejectCodes
  <2> QED
    BY <1>1, <2>1 DEF Decided
<1>3. tx[t].doc \in Doc /\ Verdict(tx[t].doc, tx[t].cur) = "applied"
  BY <1>1, <1>2 DEF Decided
<1>4. tx[t].doc.key \in Key
  BY <1>3, DocFields
<1>5. tx[t].cur \in Doc \cup {NoRow}
  BY DEF OverlapInv, TypeOK, TxState
<1>6. Register!Supersedes(tx[t].doc, tx[t].cur)
  BY <1>3, <1>5, AppliedSupersedes
<1>7. /\ docs' = [docs EXCEPT ![tx[t].doc.key] = tx[t].doc]
      /\ clobbered' = IF docs[tx[t].doc.key] = tx[t].cur
                      THEN clobbered ELSE clobbered \cup {tx[t].doc.key}
  BY <1>1 DEF CommitDocument
<1> QED
  BY <1>1, <1>3, <1>4, <1>5, <1>6, <1>7

\* Nothing makes up for a lost update: an identity stays clobbered.
LEMMA ClobberedStays ==
  ASSUME OverlapInv, [Next]_vars PROVE clobbered \subseteq clobbered'
<1>1. ASSUME NEW t \in Tx, Commit(t) PROVE clobbered \subseteq clobbered'
  BY <1>1 DEF Commit, CommitDocument
<1>2. ASSUME ~\E t \in Tx : Commit(t) PROVE clobbered' = clobbered
  BY <1>2 DEF Next, Step, Read, WriteRow, UniqueViolation, WriteSide, Fail, Deliver,
              Duplicate, ApiApply, ApiDelete, Restart, vars, tables
<1> QED
  BY <1>1, <1>2

\* A step leaves a document as it was, or replaces it by the version a handler commits:
\* one that supersedes what is replaced, or the identity is clobbered.
LEMMA DocChanges ==
  ASSUME OverlapInv, [Next]_vars, NEW k \in Key, docs'[k] # docs[k]
  PROVE  \E t \in Tx : /\ CommitDocument(t) /\ tx[t].doc \in Doc /\ tx[t].doc.key = k
                       /\ docs'[k] = tx[t].doc
                       /\ \/ k \in clobbered'
                          \/ /\ tx[t].cur = docs[k]
                             /\ Register!Supersedes(tx[t].doc, docs[k])
<1>1. PICK t \in Tx : Commit(t) /\ tx[t].outcome = "applied"
  BY DocsStep
<1>2. /\ tx[t].doc \in Doc /\ CommitDocument(t)
      /\ docs' = [docs EXCEPT ![tx[t].doc.key] = tx[t].doc]
      /\ clobbered' = IF docs[tx[t].doc.key] = tx[t].cur
                      THEN clobbered ELSE clobbered \cup {tx[t].doc.key}
      /\ Register!Supersedes(tx[t].doc, tx[t].cur)
  BY <1>1, CommitReplaces
<1>3. docs \in [Key -> Doc \cup {NoRow}]
  BY DEF OverlapInv, TypeOK
<1>4. tx[t].doc.key = k /\ docs'[k] = tx[t].doc
  BY <1>2, <1>3
<1>5. \/ k \in clobbered'
      \/ tx[t].cur = docs[k] /\ Register!Supersedes(tx[t].doc, docs[k])
  BY <1>2, <1>4
<1> QED
  BY <1>2, <1>4, <1>5

\* A row that has taken up a version keeps having done so, until it is clobbered.
LEMMA StaysCovered ==
  ASSUME OverlapInv, [Next]_vars, NEW d \in Doc, CoveredOrLost(d)
  PROVE  Covers(docs'[d.key], d) \/ d.key \in clobbered'
<1>1. CASE d.key \in clobbered
  BY <1>1, ClobberedStays
<1>2. CASE Covers(docs[d.key], d)
  <2>1. d.key \in Key /\ docs[d.key] \in Doc
    BY <1>2, DocFields DEF OverlapInv, TypeOK, Covers
  <2>2. CASE docs'[d.key] # docs[d.key]
    BY <1>2, <2>1, <2>2, DocChanges, CoversGrows
  <2> QED
    BY <1>2, <2>2
<1> QED
  BY <1>1, <1>2 DEF CoveredOrLost

\* Whoever does not take the step knows what it knew.
LEMMA OthersDecide ==
  ASSUME OverlapInv, [Next]_vars, NEW u \in Tx, tx[u].pc # "idle",
         tx'[u] = tx[u], payload' = payload
  PROVE  Decided(u)'
<1>1. Decided(u)
  BY DEF OverlapInv, HandlersDecide
<1>2. Refused(u)' = Refused(u)
  BY DEF Refused
<1>3. CASE Refused(u)
  BY <1>1, <1>2, <1>3 DEF Decided
<1>4. CASE ~Refused(u)
  <2>1. tx[u].doc \in Doc
    BY <1>1, <1>4 DEF Decided
  <2>2. CoveredOrLost(tx[u].doc) => CoveredOrLost(tx[u].doc)'
    BY <2>1, StaysCovered DEF CoveredOrLost
  <2> QED
    BY <1>1, <1>2, <1>4, <2>2 DEF Decided
<1> QED
  BY <1>3, <1>4

\* So only the handler that takes the step has to be looked at.
LEMMA OwnStep ==
  ASSUME OverlapInv, [Next]_vars, NEW t \in Tx, NEW s, tx' = [tx EXCEPT ![t] = s],
         payload' = payload, s.pc # "idle" => Decided(t)'
  PROVE  HandlersDecide'
<1>1. \A u \in Tx : tx'[u] = IF u = t THEN s ELSE tx[u]
  BY DEF OverlapInv, TypeOK
<1>2. ASSUME NEW u \in Tx, tx'[u].pc # "idle" PROVE Decided(u)'
  BY <1>1, <1>2, OthersDecide
<1> QED
  BY <1>2 DEF HandlersDecide

\* A row is always stored under the identity it names.
LEMMA KeysStep ==
  ASSUME OverlapInv, [Next]_vars PROVE KeysMatch'
<1>1. ASSUME NEW k \in Key, docs'[k] # NoRow PROVE docs'[k].key = k
  <2>1. CASE docs'[k] = docs[k]
    BY <1>1, <2>1 DEF OverlapInv, KeysMatch
  <2>2. CASE docs'[k] # docs[k]
    BY <2>2, DocChanges
  <2> QED
    BY <2>1, <2>2
<1> QED
  BY <1>1 DEF KeysMatch

\* A claimed delivery has its event's document, or what its event comes to.
LEMMA ClaimedDecides ==
  ASSUME TypeOK, NEW t \in Tx, NEW e \in Event, tx'[t] = Claimed(e), payload' = payload
  PROVE  Decided(t)'
<1>1. e # NoEvent /\ payload[e].doc \in Doc
  BY StoreAssumption DEF TypeOK, Envelope
<1>2. CASE ParseEvent(payload[e]) = "document"
  <2>1. Claimed(e) = [Idle EXCEPT !.pc = "read", !.event = e, !.doc = payload[e].doc]
    BY <1>1, <1>2, NormalizeKeeps DEF Claimed
  <2>2. /\ Claimed(e).pc = "read" /\ Claimed(e).event = e /\ ~Claimed(e).bare
        /\ Claimed(e).doc = payload[e].doc
    BY <2>1 DEF Idle
  <2> QED
    BY <1>1, <1>2, <2>2 DEF Decided, Refused
<1>3. CASE ParseEvent(payload[e]) # "document"
  <2>1. /\ Claimed(e).pc = "commit" /\ Claimed(e).event = e /\ ~Claimed(e).bare
        /\ Claimed(e).outcome = ParseEvent(payload[e])
    BY <1>3 DEF Claimed, Idle
  <2> QED
    BY <1>1, <1>3, <2>1 DEF Decided, Refused
<1> QED
  BY <1>2, <1>3

\* However the handlers overlap, every step keeps the invariant.
LEMMA OverlapStep ==
  ASSUME OverlapInv, [Next]_vars PROVE HandlersDecide'
<1> USE StoreAssumption
<1>0. TypeOK /\ TxShape /\ KeysMatch /\ HandlersDecide
  BY DEF OverlapInv
<1>1. ASSUME NEW t \in Tx, NEW e \in Event, Deliver(t, e) PROVE HandlersDecide'
  <2>1. tx' = [tx EXCEPT ![t] = Claimed(e)] /\ payload' = payload
    BY <1>1 DEF Deliver
  <2>2. tx'[t] = Claimed(e)
    BY <1>0, <2>1 DEF TypeOK
  <2> QED
    BY <1>0, <2>1, <2>2, ClaimedDecides, OwnStep
<1>2. ASSUME NEW t \in Tx, NEW d \in Documents, ApiApply(t, d) PROVE HandlersDecide'
  <2> DEFINE s == [Idle EXCEPT !.pc = "read", !.doc = Normalize(d)]
  <2>1. tx' = [tx EXCEPT ![t] = s] /\ payload' = payload
    BY <1>2 DEF ApiApply
  <2>2. s.pc = "read" /\ s.doc = d /\ s.event = NoEvent /\ ~s.bare /\ d \in Doc
    BY NormalizeKeeps DEF Idle
  <2> HIDE DEF s
  <2>3. tx'[t] = s
    BY <1>0, <2>1 DEF TypeOK
  <2>4. Decided(t)'
    BY <2>2, <2>3 DEF Decided, Refused
  <2> QED
    BY <2>1, <2>4, OwnStep
<1>3. ASSUME NEW t \in Tx, NEW k \in Key, ApiDelete(t, k) PROVE HandlersDecide'
  <2> DEFINE rev == IF docs[k] = NoRow THEN 0 ELSE docs[k].revision
             s == [Idle EXCEPT !.pc = "read", !.bare = TRUE, !.doc = Tombstone(k, rev)]
  <2>1. tx' = [tx EXCEPT ![t] = s] /\ payload' = payload
    BY <1>3 DEF ApiDelete
  <2>2. rev \in Nat
    BY <1>0, DocFields DEF TypeOK
  <2>3. Tombstone(k, rev) \in Doc /\ Tombstone(k, rev).deleted
    BY <2>2, TombstoneIsDoc
  <2>4. s.pc = "read" /\ s.doc = Tombstone(k, rev) /\ s.event = NoEvent /\ s.bare
    BY DEF Idle
  <2> HIDE DEF s, rev
  <2>5. tx'[t] = s
    BY <1>0, <2>1 DEF TypeOK
  <2>6. Decided(t)'
    BY <2>3, <2>4, <2>5 DEF Decided, Refused
  <2> QED
    BY <2>1, <2>6, OwnStep
<1>4. ASSUME NEW t \in Tx, Read(t) PROVE HandlersDecide'
  <2> DEFINE cur == docs[tx[t].doc.key]
             verdict == Verdict(tx[t].doc, cur)
             s == [tx[t] EXCEPT !.cur = cur, !.outcome = verdict,
                                !.pc = IF verdict = "applied" THEN "row" ELSE "commit"]
  <2>1. /\ tx' = [tx EXCEPT ![t] = s] /\ UNCHANGED <<docs, clobbered, payload>>
        /\ tx[t].pc = "read"
    BY <1>4 DEF Read, tables
  <2>2. tx[t] \in TxState /\ Decided(t) /\ ~Refused(t)
    BY <1>0, <2>1 DEF TypeOK, HandlersDecide, Decided
  <2>3. tx[t].doc \in Doc /\ tx[t].doc.key \in Key /\ cur \in Doc \cup {NoRow}
    BY <1>0, <2>2, DocFields DEF Decided, TypeOK
  <2>4. /\ verdict # "applied" => CoveredOrLost(tx[t].doc)
        /\ cur # NoRow => cur.key = tx[t].doc.key
    BY <1>0, <2>3, OtherwiseCovered DEF CoveredOrLost, KeysMatch
  <2>5. /\ s.pc \in {"row", "commit"} /\ s.cur = cur /\ s.outcome = verdict
        /\ s.event = tx[t].event /\ s.doc = tx[t].doc /\ s.bare = tx[t].bare
    BY <2>2 DEF TxState
  <2>6. tx'[t] = s
    BY <1>0, <2>1 DEF TypeOK
  <2>7. CoveredOrLost(tx[t].doc)' = CoveredOrLost(tx[t].doc)
    <3>1. tx'[t].doc = tx[t].doc
      BY <2>5, <2>6
    <3> QED
      BY <2>1, <3>1 DEF CoveredOrLost
  <2> HIDE DEF s
  <2>8. ~Refused(t)'
    BY <2>1, <2>2, <2>5, <2>6 DEF Refused
  <2>9. Decided(t)'
    <3> HIDE DEF cur, verdict
    <3>1. verdict = Verdict(tx[t].doc, cur)
      BY DEF verdict
    <3> QED
      BY <2>1, <2>2, <2>4, <2>5, <2>6, <2>7, <2>8, <3>1 DEF Decided
  <2> QED
    BY <2>1, <2>9, OwnStep
<1>5. ASSUME NEW t \in Tx, WriteRow(t) \/ WriteSide(t) PROVE HandlersDecide'
  <2>1. PICK s : tx' = [tx EXCEPT ![t] = s] /\ s = tx'[t]
    BY <1>0, <1>5 DEF WriteRow, WriteSide, TypeOK
  <2>2. /\ UNCHANGED <<docs, clobbered, payload>> /\ tx[t].pc \in {"row", "side"}
        /\ tx'[t].pc # "read" /\ tx'[t].event = tx[t].event /\ tx'[t].doc = tx[t].doc
        /\ tx'[t].bare = tx[t].bare /\ tx'[t].cur = tx[t].cur
        /\ tx'[t].outcome = tx[t].outcome
    <3>1. UNCHANGED <<docs, clobbered, payload>> /\ tx[t].pc \in {"row", "side"}
      BY <1>5 DEF WriteRow, WriteSide, tables
    <3>2. tx[t] \in TxState
      BY <1>0 DEF TypeOK
    <3>3. CASE tx'[t] = [tx[t] EXCEPT !.pc = "side"]
      BY <3>1, <3>2, <3>3 DEF TxState
    <3>4. CASE tx'[t] = [tx[t] EXCEPT !.oldSide = side[tx[t].doc.key],
                                      !.oldFts = fts[tx[t].doc.key], !.pc = "commit"]
      BY <3>1, <3>2, <3>4 DEF TxState
    <3> QED
      BY <1>0, <1>5, <3>3, <3>4 DEF WriteRow, WriteSide, TypeOK
  <2>3. Decided(t) /\ ~Refused(t) /\ ~Refused(t)'
    BY <1>0, <2>2 DEF HandlersDecide, Decided, Refused
  <2>4. Decided(t)'
    BY <2>2, <2>3 DEF Decided, CoveredOrLost
  <2> QED
    BY <2>1, <2>2, <2>4, OwnStep
<1>6. ASSUME NEW t \in Tx, UniqueViolation(t) \/ Fail(t) \/ Commit(t) PROVE HandlersDecide'
  <2>1. tx' = [tx EXCEPT ![t] = Idle] /\ payload' = payload
    BY <1>6 DEF UniqueViolation, Fail, Commit
  <2> QED
    BY <2>1, IdleIsTx, OwnStep
<1>7. ASSUME NEW lost \in SUBSET Key, Restart(lost) PROVE HandlersDecide'
  <2>1. \A u \in Tx : tx'[u].pc = "idle"
    BY <1>7, IdleIsTx DEF Restart
  <2> QED
    BY <2>1 DEF HandlersDecide
<1>8. CASE UNCHANGED vars
  BY <1>0, <1>8 DEF vars, HandlersDecide, Decided, Refused, CoveredOrLost
<1> QED
  BY <1>1, <1>2, <1>3, <1>4, <1>5, <1>6, <1>7, <1>8 DEF Next, Step, Duplicate

\* It holds in every state, with no word about Serial.
LEMMA OverlapInvariant == Spec => []OverlapInv
<1>1. Init => OverlapInv
  BY TypeInit, IdleIsTx DEF Init, OverlapInv, KeysMatch, HandlersDecide
<1>2. OverlapInv /\ [Next]_vars => OverlapInv'
  <2> SUFFICES ASSUME OverlapInv, [Next]_vars PROVE OverlapInv'
    OBVIOUS
  <2>1. TypeOK' /\ TxShape'
    BY TypeStep DEF OverlapInv
  <2> QED
    BY <2>1, KeysStep, OverlapStep DEF OverlapInv
<1> QED
  BY <1>1, <1>2, PTL DEF Spec

-----------------------------------------------------------------------------
(* What follows, however the handlers overlap. *)

\* A drop out of public delivery writes the purge of the URL that was public, and the feed
\* row of its revision: the row that was read is the one that is replaced, or else the
\* identity is clobbered.
THEOREM DropsArePurged == Spec => PublicDropPurged
<1>1. OverlapInv /\ [Next]_vars
        => [\A k \in Key :
              /\ RowExposure(docs[k]) >= PublicUnlisted
              /\ RowExposure(docs'[k]) < PublicUnlisted
              /\ docs[k].url # NoUrl
              /\ k \notin clobbered'
              => /\ docs[k].url \in cdn'
                 /\ [key |-> k, revision |-> docs'[k].revision, url |-> docs[k].url]
                      \in removals']_vars
  <2> SUFFICES ASSUME OverlapInv, [Next]_vars, NEW k \in Key,
                      RowExposure(docs[k]) >= PublicUnlisted,
                      RowExposure(docs'[k]) < PublicUnlisted,
                      docs[k].url # NoUrl,
                      k \notin clobbered'
               PROVE  /\ docs[k].url \in cdn'
                      /\ [key |-> k, revision |-> docs'[k].revision, url |-> docs[k].url]
                           \in removals'
    OBVIOUS
  <2>1. docs'[k] # docs[k]
    <3>1. RowExposure(docs[k]) \in Int
      BY ExposureInRange DEF RowExposure, Exposure, None, PublicListed
    <3> QED
      BY <3>1 DEF PublicUnlisted
  <2>2. PICK t \in Tx : /\ CommitDocument(t) /\ tx[t].doc \in Doc
                        /\ tx[t].doc.key = k /\ tx[t].cur = docs[k]
                        /\ docs'[k] = tx[t].doc
    BY <2>1, DocChanges
  <2>3. RowExposure(docs'[k]) = ExposureOf(tx[t].doc)
    BY <2>2, NoValueAssumption DEF RowExposure
  <2>4. IsRemoval(docs[k], tx[t].doc)
    BY <2>3, ExposureInRange DEF IsRemoval, RowExposure, Exposure, None, PublicUnlisted,
                                 PublicListed
  <2>5. PublicUrl(docs[k]) = docs[k].url
    BY DEF PublicUrl
  <2>6. docs[k].url \in PurgeUrl(docs[k], tx[t].doc)
    BY <2>5 DEF PurgeUrl
  <2>7. docs[k].url \in cdn'
    BY <2>2, <2>4, <2>6 DEF CommitDocument
  <2>8. removals' = removals \cup {[key |-> k, revision |-> tx[t].doc.revision,
                                    url |-> PublicUrl(docs[k])]}
    BY <2>2, <2>4 DEF CommitDocument
  <2> QED
    BY <2>2, <2>5, <2>7, <2>8
<1> QED
  BY <1>1, OverlapInvariant, PTL DEF Spec, PublicDropPurged

\* Receipts are written by the commit of the handler that has claimed the event.
LEMMA ReceiptStep ==
  ASSUME TypeOK, [Next]_vars, NEW e \in Event, receipts'[e] # receipts[e]
  PROVE  \E t \in Tx : /\ Commit(t) /\ tx[t].event = e
                       /\ receipts'[e] = tx[t].outcome
<1>1. ASSUME NEW t \in Tx, Commit(t), tx[t].event = NoEvent PROVE receipts' = receipts
  BY <1>1 DEF Commit
<1>2. ASSUME ~\E t \in Tx : Commit(t) PROVE receipts' = receipts
  BY <1>2 DEF Next, Step, Read, WriteRow, UniqueViolation, WriteSide, Fail, Deliver,
              Duplicate, ApiApply, ApiDelete, Restart, vars, tables
<1>3. PICK t \in Tx : Commit(t) /\ tx[t].event # NoEvent
  BY <1>1, <1>2
<1>4. receipts' = [receipts EXCEPT ![tx[t].event] = tx[t].outcome]
  BY <1>3 DEF Commit
<1>5. receipts \in [Event -> FinalOutcomes \cup {NoReceipt}]
  BY DEF TypeOK
<1>6. tx[t].event = e /\ receipts'[e] = tx[t].outcome
  BY <1>4, <1>5
<1> QED
  BY <1>3, <1>6

\* The stored row has taken up this event's version, unless it was clobbered.
EventCovered(e) == CoveredOrLost(payload[e].doc)

\* An event that was processed, with whatever outcome, stays reflected in the index, until
\* a handler replaces a version of its document that it had not read.
THEOREM ProcessedStaysCovered == Spec => []ProcessedIsCovered
<1>0. ProcessedIsCovered <=> \A e \in Event : receipts[e] \in Outcomes => EventCovered(e)
  BY DEF ProcessedIsCovered, EventCovered, CoveredOrLost, Covers
<1>1. Init => ProcessedIsCovered
  BY DEF Init, ProcessedIsCovered, NoReceipt, Outcomes
<1>2. OverlapInv /\ ProcessedIsCovered /\ [Next]_vars => ProcessedIsCovered'
  <2> SUFFICES ASSUME OverlapInv, ProcessedIsCovered, [Next]_vars,
                      NEW e \in Event, receipts'[e] \in Outcomes
               PROVE  EventCovered(e)'
    BY DEF ProcessedIsCovered, EventCovered, CoveredOrLost, Covers
  <2> DEFINE d == payload[e].doc
  <2>1. d \in Doc /\ payload' = payload
    <3>1. payload' = payload
      BY DEF Next, Step, Read, WriteRow, UniqueViolation, WriteSide, Commit, Fail, Deliver,
             Duplicate, ApiApply, ApiDelete, Restart, vars
    <3> QED
      BY <3>1, StoreAssumption DEF OverlapInv, TypeOK, Envelope
  <2>2. SUFFICES Covers(docs'[d.key], d) \/ d.key \in clobbered'
    BY <2>1 DEF EventCovered, CoveredOrLost
  <2>3. CASE receipts'[e] = receipts[e]
    BY <1>0, <2>1, <2>3, StaysCovered DEF EventCovered
  <2>4. CASE receipts'[e] # receipts[e]
    <3>1. PICK t \in Tx : Commit(t) /\ tx[t].event = e /\ receipts'[e] = tx[t].outcome
      BY <2>4, ReceiptStep DEF OverlapInv
    <3>2. Decided(t) /\ tx[t].pc = "commit"
      BY <3>1 DEF OverlapInv, HandlersDecide, Commit
    <3>3. ~Refused(t)
      <4>1. ParseEvent(payload[e]) \notin Outcomes
        BY ParseEventOutcome DEF RejectCodes, Outcomes
      <4> QED
        BY <3>1, <3>2, <4>1 DEF Decided
    <3>4. tx[t].doc = d /\ (tx[t].outcome # "applied" => CoveredOrLost(d))
      BY <3>1, <3>2, <3>3, StoreAssumption DEF Decided
    <3>5. CASE tx[t].outcome = "applied"
      <4>1. d.key \in Key /\ docs' = [docs EXCEPT ![d.key] = d]
        BY <3>1, <3>4, <3>5, CommitReplaces
      <4>2. docs'[d.key] = d
        BY <4>1 DEF OverlapInv, TypeOK
      <4> QED
        BY <2>1, <4>2, DocFields, NoValueAssumption DEF Covers
    <3>6. CASE tx[t].outcome # "applied"
      BY <2>1, <3>4, <3>6, StaysCovered
    <3> QED
      BY <3>5, <3>6
  <2> QED
    BY <2>3, <2>4
<1> QED
  BY <1>1, <1>2, OverlapInvariant, PTL DEF Spec

\* How far a consumer that has folded these events believes the document reaches.
Believed(events) == IF events = <<>> THEN None ELSE events[Len(events)].exposure

\* Whoever knew how far the old version reached knows, after the events announced about
\* its replacement, how far the new one does: also when there are none.
LEMMA AnnounceTells ==
  ASSUME NEW cur \in Doc \cup {NoRow}, NEW d \in Doc, NEW events \in Seq(OutboxEvent),
         Believed(events) = RowExposure(cur)
  PROVE  Believed(events \o Announce(cur, d)) = RowExposure(d)
<1> DEFINE removed == [type |-> "removed", revision |-> d.revision,
                       exposure |-> ExposureOf(d), url |-> PublicUrl(cur)]
           indexed == [type |-> "indexed", revision |-> d.revision,
                       exposure |-> ExposureOf(d), url |-> PublicUrl(d)]
           isIndexed == ~d.deleted /\ ExposureOf(d) > None
<1>1. /\ RowExposure(d) = ExposureOf(d)
      /\ ExposureOf(d) \in 0..3 /\ RowExposure(cur) \in 0..3
  BY ExposureInRange, NoValueAssumption
     DEF RowExposure, Exposure, None, PublicListed
<1>2. removed \in OutboxEvent /\ indexed \in OutboxEvent
  BY PublicUrlType, ExposureInRange, DocFields DEF OutboxEvent
<1>3. removed.exposure = ExposureOf(d) /\ indexed.exposure = ExposureOf(d)
  OBVIOUS
<1>4. Announce(cur, d) = (IF IsRemoval(cur, d) THEN <<removed>> ELSE <<>>)
                         \o (IF isIndexed THEN <<indexed>> ELSE <<>>)
  BY DEF Announce
<1> HIDE DEF removed, indexed
<1>5. CASE isIndexed
  <2> DEFINE before == events \o (IF IsRemoval(cur, d) THEN <<removed>> ELSE <<>>)
  <2>1. before \in Seq(OutboxEvent)
    BY <1>2
  <2>2. events \o Announce(cur, d) = Append(before, indexed)
    BY <1>2, <1>4, <1>5
  <2> HIDE DEF before
  <2>3. Append(before, indexed)[Len(Append(before, indexed))] = indexed
        /\ Append(before, indexed) # <<>>
    BY <1>2, <2>1
  <2> QED
    BY <1>1, <1>3, <2>2, <2>3 DEF Believed
<1>6. CASE ~isIndexed /\ IsRemoval(cur, d)
  <2>1. events \o Announce(cur, d) = Append(events, removed)
    BY <1>2, <1>4, <1>6
  <2>2. Append(events, removed)[Len(Append(events, removed))] = removed
        /\ Append(events, removed) # <<>>
    BY <1>2
  <2> QED
    BY <1>1, <1>3, <2>1, <2>2 DEF Believed
<1>7. CASE ~isIndexed /\ ~IsRemoval(cur, d)
  <2>1. events \o Announce(cur, d) = events
    BY <1>4, <1>7
  <2>2. ExposureOf(d) = 0
    BY <1>1, <1>7 DEF ExposureOf, Servable, None
  <2>3. RowExposure(cur) = 0
    BY <1>1, <1>7, <2>2 DEF IsRemoval
  <2> QED
    BY <1>1, <2>1, <2>2, <2>3
<1> QED
  BY <1>5, <1>6, <1>7

\* A consumer of the outbox knows how far each document reaches: every rise and drop of
\* exposure is announced, and nothing that did not happen, until a handler announces a
\* change against a version that is not the one it replaces.
THEOREM ConsumersAgree == Spec => []ConsumerAgrees
<1>0. ConsumerAgrees
        <=> \A k \in Key \ clobbered : Believed(outbox[k]) = RowExposure(docs[k])
  BY DEF ConsumerAgrees, Believed
<1>1. Init => ConsumerAgrees
  BY DEF Init, ConsumerAgrees, RowExposure
<1>2. OverlapInv /\ ConsumerAgrees /\ [Next]_vars => ConsumerAgrees'
  <2> SUFFICES ASSUME OverlapInv, ConsumerAgrees, [Next]_vars PROVE ConsumerAgrees'
    OBVIOUS
  <2>1. CASE \E t \in Tx : Commit(t) /\ tx[t].outcome = "applied"
    <3>1. PICK t \in Tx : Commit(t) /\ tx[t].outcome = "applied"
      BY <2>1
    <3> DEFINE d == tx[t].doc
               cur == docs[d.key]
    <3>2. /\ d \in Doc /\ d.key \in Key /\ tx[t].cur \in Doc \cup {NoRow}
          /\ docs' = [docs EXCEPT ![d.key] = d]
          /\ clobbered' = IF cur = tx[t].cur THEN clobbered ELSE clobbered \cup {d.key}
          /\ CommitDocument(t)
      BY <3>1, CommitReplaces
    <3>3. outbox' = [outbox EXCEPT ![d.key] = outbox[d.key] \o Announce(tx[t].cur, d)]
      BY <3>2 DEF CommitDocument
    <3>4. outbox \in [Key -> Seq(OutboxEvent)] /\ docs \in [Key -> Doc \cup {NoRow}]
      BY DEF OverlapInv, TypeOK
    <3>5. ASSUME d.key \notin clobbered'
          PROVE  Believed(outbox[d.key] \o Announce(tx[t].cur, d)) = RowExposure(d)
      <4>1. tx[t].cur = cur /\ d.key \notin clobbered
        BY <3>2, <3>5
      <4>2. Believed(outbox[d.key]) = RowExposure(tx[t].cur)
        BY <1>0, <3>2, <4>1
      <4> QED
        BY <3>2, <3>4, <4>2, AnnounceTells
    <3> HIDE DEF d, cur
    <3>6. \A k \in Key \ clobbered' : Believed(outbox'[k]) = RowExposure(docs'[k])
      BY <1>0, <3>2, <3>3, <3>4, <3>5
    <3> QED
      BY <3>6 DEF ConsumerAgrees, Believed
  <2>2. CASE ~\E t \in Tx : Commit(t) /\ tx[t].outcome = "applied"
    <3>1. docs' = docs /\ outbox' = outbox /\ clobbered' = clobbered
      <4>1. ASSUME NEW t \in Tx, Commit(t), tx[t].outcome # "applied"
            PROVE  docs' = docs /\ outbox' = outbox /\ clobbered' = clobbered
        BY <4>1 DEF Commit
      <4>2. ASSUME ~\E t \in Tx : Commit(t)
            PROVE  docs' = docs /\ outbox' = outbox /\ clobbered' = clobbered
        BY <4>2 DEF Next, Step, Read, WriteRow, UniqueViolation, WriteSide, Fail, Deliver,
                    Duplicate, ApiApply, ApiDelete, Restart, vars, tables
      <4> QED
        BY <2>2, <4>1, <4>2
    <3> QED
      BY <3>1 DEF ConsumerAgrees
  <2> QED
    BY <2>1, <2>2
<1> QED
  BY <1>1, <1>2, OverlapInvariant, PTL DEF Spec

-----------------------------------------------------------------------------
(* One transaction at a time. *)

-----------------------------------------------------------------------------
(* The inductive invariant. *)

OneAtATime == \A t, u \in Tx : tx[t].pc # "idle" /\ tx[u].pc # "idle" => t = u

\* The version an unconditional DELETE goes on with: the stored one's revision.
BareTombstone(k) == Tombstone(k, IF docs[k] = NoRow THEN 0 ELSE docs[k].revision)

\* Where a handler's document comes from, and that what it has read is what is stored still.
Knows(t) ==
  IF Refused(t)
  THEN /\ tx[t].pc = "commit" /\ ~tx[t].bare
       /\ tx[t].outcome = ParseEvent(payload[tx[t].event])
  ELSE /\ tx[t].doc \in Doc
       /\ IF tx[t].bare
          THEN tx[t].event = NoEvent /\ tx[t].doc = BareTombstone(tx[t].doc.key)
          ELSE tx[t].doc \in Documents
       /\ tx[t].event # NoEvent => tx[t].doc = payload[tx[t].event].doc
       /\ tx[t].pc # "read" =>
            /\ tx[t].cur = docs[tx[t].doc.key]
            /\ tx[t].outcome = Verdict(tx[t].doc, tx[t].cur)

HandlerKnows == \A t \in Tx : tx[t].pc # "idle" => Knows(t)
SerialInv == OneAtATime /\ KeysMatch /\ HandlerKnows

\* Nobody is under way beside a handler that starts or goes on.
LEMMA NobodyElse ==
  ASSUME Serial, OneAtATime, NEW t \in Tx, MayBegin(t) \/ tx[t].pc # "idle"
  PROVE  \A u \in Tx \ {t} : tx[u].pc = "idle"
BY DEF MayBegin, OneAtATime

\* So one handler's step has to be looked at alone.
LEMMA AloneStep ==
  ASSUME TypeOK, SerialInv, NEW t \in Tx, \A u \in Tx \ {t} : tx[u].pc = "idle",
         NEW s, tx' = [tx EXCEPT ![t] = s], KeysMatch',
         s.pc # "idle" => Knows(t)'
  PROVE  SerialInv'
<1>1. \A u \in Tx : tx'[u] = IF u = t THEN s ELSE tx[u]
  BY DEF TypeOK
<1>2. OneAtATime'
  BY <1>1 DEF OneAtATime
<1>3. HandlerKnows'
  BY <1>1 DEF HandlerKnows
<1> QED
  BY <1>2, <1>3 DEF SerialInv

\* What a commit of an applied version does: it replaces the version that was read, which is
\* the stored one, by one that supersedes it.
LEMMA CommitSupersedes ==
  ASSUME TypeOK, SerialInv, NEW t \in Tx, Commit(t), tx[t].outcome = "applied"
  PROVE  /\ ~Refused(t) /\ tx[t].doc \in Doc /\ tx[t].doc.key \in Key
         /\ tx[t].cur = docs[tx[t].doc.key]
         /\ docs[tx[t].doc.key] \in Doc \cup {NoRow}
         /\ docs' = [docs EXCEPT ![tx[t].doc.key] = tx[t].doc]
         /\ CommitDocument(t)
         /\ Register!Supersedes(tx[t].doc, docs[tx[t].doc.key])
<1>1. tx[t].pc = "commit" /\ Knows(t) /\ CommitDocument(t)
  BY DEF Commit, SerialInv, HandlerKnows
<1>2. ~Refused(t)
  <2>1. ParseEvent(payload[tx[t].event]) # "applied"
    BY ParseEventOutcome DEF RejectCodes
  <2> QED
    BY <1>1, <2>1 DEF Knows
<1>3. /\ tx[t].doc \in Doc /\ tx[t].cur = docs[tx[t].doc.key]
      /\ Verdict(tx[t].doc, tx[t].cur) = "applied"
  BY <1>1, <1>2 DEF Knows
<1>4. tx[t].doc.key \in Key
  BY <1>3, DocFields
<1>5. docs[tx[t].doc.key] \in Doc \cup {NoRow}
  BY <1>4 DEF TypeOK
<1>6. Register!Supersedes(tx[t].doc, docs[tx[t].doc.key])
  BY <1>3, <1>5, AppliedSupersedes
<1>7. docs' = [docs EXCEPT ![tx[t].doc.key] = tx[t].doc]
  BY <1>1 DEF CommitDocument
<1> QED
  BY <1>1, <1>2, <1>3, <1>4, <1>5, <1>6, <1>7

\* What a claimed delivery knows.
LEMMA ClaimedKnows ==
  ASSUME TypeOK, NEW t \in Tx, NEW e \in Event, tx'[t] = Claimed(e), payload' = payload
  PROVE  Knows(t)'
<1>1. e # NoEvent /\ payload[e].doc \in Documents /\ payload[e].doc \in Doc
  BY StoreAssumption DEF TypeOK, Envelope
<1>2. CASE ParseEvent(payload[e]) = "document"
  <2>1. Claimed(e) = [Idle EXCEPT !.pc = "read", !.event = e, !.doc = payload[e].doc]
    BY <1>1, <1>2, NormalizeKeeps DEF Claimed
  <2>2. /\ Claimed(e).pc = "read" /\ Claimed(e).event = e /\ ~Claimed(e).bare
        /\ Claimed(e).doc = payload[e].doc
    BY <2>1 DEF Idle
  <2> QED
    BY <1>1, <1>2, <2>2 DEF Knows, Refused
<1>3. CASE ParseEvent(payload[e]) # "document"
  <2>1. /\ Claimed(e).pc = "commit" /\ Claimed(e).event = e /\ ~Claimed(e).bare
        /\ Claimed(e).outcome = ParseEvent(payload[e])
    BY <1>3 DEF Claimed, Idle
  <2> QED
    BY <1>1, <1>3, <2>1 DEF Knows, Refused
<1> QED
  BY <1>2, <1>3

\* A handler that goes on knows what it knew: its document and its event stay, and so do
\* what it has read and decided, once it has.
LEMMA StillKnows ==
  ASSUME NEW t \in Tx, Knows(t), tx[t].pc \in {"row", "side"}, tx'[t].pc # "read",
         tx'[t].event = tx[t].event, tx'[t].doc = tx[t].doc, tx'[t].bare = tx[t].bare,
         tx'[t].cur = tx[t].cur, tx'[t].outcome = tx[t].outcome,
         UNCHANGED <<docs, payload>>
  PROVE  Knows(t)'
<1>1. ~Refused(t) /\ ~Refused(t)'
  BY DEF Knows, Refused
<1> QED
  BY <1>1 DEF Knows, BareTombstone

\* One transaction at a time: every step keeps the invariant.
LEMMA SerialStep ==
  ASSUME Serial, TypeOK, TxShape, SerialInv, [Next]_vars
  PROVE  SerialInv'
<1> USE StoreAssumption
<1>0. OneAtATime /\ KeysMatch /\ HandlerKnows
  BY DEF SerialInv
<1>1. ASSUME NEW t \in Tx, NEW e \in Event, Deliver(t, e) PROVE SerialInv'
  <2>1. tx' = [tx EXCEPT ![t] = Claimed(e)] /\ UNCHANGED <<docs, payload>> /\ MayBegin(t)
    BY <1>1 DEF Deliver, tables
  <2>2. tx'[t] = Claimed(e) /\ KeysMatch'
    BY <1>0, <2>1 DEF TypeOK, KeysMatch
  <2>3. Knows(t)'
    BY <2>1, <2>2, ClaimedKnows
  <2> QED
    BY <1>0, <2>1, <2>2, <2>3, NobodyElse, AloneStep
<1>2. ASSUME NEW t \in Tx, NEW d \in Documents, ApiApply(t, d) PROVE SerialInv'
  <2> DEFINE s == [Idle EXCEPT !.pc = "read", !.doc = Normalize(d)]
  <2>1. tx' = [tx EXCEPT ![t] = s] /\ UNCHANGED <<docs, payload>> /\ MayBegin(t)
    BY <1>2 DEF ApiApply, tables
  <2>2. /\ s.pc = "read" /\ s.doc = d /\ s.event = NoEvent /\ ~s.bare
        /\ d \in Doc
    BY NormalizeKeeps DEF Idle
  <2> HIDE DEF s
  <2>3. tx'[t] = s /\ KeysMatch'
    BY <1>0, <2>1 DEF TypeOK, KeysMatch
  <2>4. Knows(t)'
    BY <2>2, <2>3 DEF Knows, Refused
  <2> QED
    BY <1>0, <2>1, <2>3, <2>4, NobodyElse, AloneStep
<1>3. ASSUME NEW t \in Tx, NEW k \in Key, ApiDelete(t, k) PROVE SerialInv'
  <2> DEFINE s == [Idle EXCEPT !.pc = "read", !.bare = TRUE, !.doc = BareTombstone(k)]
  <2>1. tx' = [tx EXCEPT ![t] = s] /\ UNCHANGED <<docs, payload>> /\ MayBegin(t)
    BY <1>3 DEF ApiDelete, tables, BareTombstone
  <2>2. s.pc = "read" /\ s.doc = BareTombstone(k) /\ s.event = NoEvent /\ s.bare
    BY DEF Idle
  <2>3. BareTombstone(k) \in Doc /\ BareTombstone(k).key = k
    BY TombstoneIsDoc, DocFields DEF TypeOK, BareTombstone
  <2> HIDE DEF s
  <2>4. tx'[t] = s /\ KeysMatch'
    BY <1>0, <2>1 DEF TypeOK, KeysMatch
  <2>5. BareTombstone(k)' = BareTombstone(k)
    BY <2>1 DEF BareTombstone
  <2>6. Knows(t)'
    BY <2>2, <2>3, <2>4, <2>5 DEF Knows, Refused
  <2> QED
    BY <1>0, <2>1, <2>4, <2>6, NobodyElse, AloneStep
<1>4. ASSUME NEW t \in Tx, Read(t) PROVE SerialInv'
  <2> DEFINE cur == docs[tx[t].doc.key]
             verdict == Verdict(tx[t].doc, cur)
             s == [tx[t] EXCEPT !.cur = cur, !.outcome = verdict,
                                !.pc = IF verdict = "applied" THEN "row" ELSE "commit"]
  <2>1. tx' = [tx EXCEPT ![t] = s] /\ UNCHANGED <<docs, payload>> /\ tx[t].pc = "read"
    BY <1>4 DEF Read, tables
  <2>2. tx[t] \in TxState /\ Knows(t) /\ ~Refused(t)
    BY <1>0, <2>1 DEF TypeOK, HandlerKnows, Knows
  <2>3. /\ s.pc \in {"row", "commit"} /\ s.cur = cur /\ s.outcome = verdict
        /\ s.event = tx[t].event /\ s.doc = tx[t].doc /\ s.bare = tx[t].bare
    BY <2>2 DEF TxState
  <2>4. tx'[t] = s /\ KeysMatch'
    BY <1>0, <2>1 DEF TypeOK, KeysMatch
  <2> HIDE DEF s
  <2>5. ~Refused(t)' /\ BareTombstone(tx[t].doc.key)' = BareTombstone(tx[t].doc.key)
    BY <2>1, <2>2, <2>3, <2>4 DEF Refused, BareTombstone
  <2>6. Knows(t)'
    BY <2>1, <2>2, <2>3, <2>4, <2>5 DEF Knows, BareTombstone
  <2> QED
    BY <1>0, <2>1, <2>4, <2>6, NobodyElse, AloneStep
<1>5. ASSUME NEW t \in Tx, WriteRow(t) \/ WriteSide(t) PROVE SerialInv'
  <2>1. PICK s : tx' = [tx EXCEPT ![t] = s] /\ s = tx'[t]
    BY <1>5 DEF WriteRow, WriteSide, TypeOK
  <2>2. /\ UNCHANGED <<docs, payload>> /\ tx[t].pc \in {"row", "side"}
        /\ tx'[t].pc # "read" /\ tx'[t].event = tx[t].event /\ tx'[t].doc = tx[t].doc
        /\ tx'[t].bare = tx[t].bare /\ tx'[t].cur = tx[t].cur
        /\ tx'[t].outcome = tx[t].outcome
    <3>1. UNCHANGED <<docs, payload>> /\ tx[t].pc \in {"row", "side"}
      BY <1>5 DEF WriteRow, WriteSide, tables
    <3>2. tx[t] \in TxState
      BY DEF TypeOK
    <3>3. CASE tx'[t] = [tx[t] EXCEPT !.pc = "side"]
      BY <3>1, <3>2, <3>3 DEF TxState
    <3>4. CASE tx'[t] = [tx[t] EXCEPT !.oldSide = side[tx[t].doc.key],
                                      !.oldFts = fts[tx[t].doc.key], !.pc = "commit"]
      BY <3>1, <3>2, <3>4 DEF TxState
    <3> QED
      BY <1>5, <3>3, <3>4 DEF WriteRow, WriteSide, TypeOK
  <2>3. Knows(t)' /\ KeysMatch'
    BY <1>0, <2>2, StillKnows DEF HandlerKnows, KeysMatch
  <2> QED
    BY <1>0, <2>1, <2>2, <2>3, NobodyElse, AloneStep
<1>6. ASSUME NEW t \in Tx, UniqueViolation(t) \/ Fail(t) PROVE SerialInv'
  <2>1. tx' = [tx EXCEPT ![t] = Idle] /\ UNCHANGED docs /\ tx[t].pc # "idle"
    BY <1>6 DEF UniqueViolation, Fail, tables
  <2>2. KeysMatch'
    BY <1>0, <2>1 DEF KeysMatch
  <2> QED
    BY <1>0, <2>1, <2>2, IdleIsTx, NobodyElse, AloneStep
<1>7. ASSUME NEW t \in Tx, Commit(t) PROVE SerialInv'
  <2>1. tx' = [tx EXCEPT ![t] = Idle] /\ tx[t].pc # "idle"
    BY <1>7 DEF Commit
  <2>2. KeysMatch'
    <3>1. CASE tx[t].outcome = "applied"
      <4> DEFINE k == tx[t].doc.key
      <4>1. /\ k \in Key /\ docs' = [docs EXCEPT ![k] = tx[t].doc]
        BY <1>0, <1>7, <3>1, CommitSupersedes
      <4>2. docs'[k] = tx[t].doc /\ \A l \in Key \ {k} : docs'[l] = docs[l]
        BY <4>1 DEF TypeOK
      <4> HIDE DEF k
      <4>3. \A l \in Key : docs'[l] # NoRow => docs'[l].key = l
        BY <1>0, <4>1, <4>2 DEF KeysMatch, k
      <4> QED
        BY <4>3 DEF KeysMatch
    <3>2. CASE tx[t].outcome # "applied"
      BY <1>0, <1>7, <3>2 DEF Commit, KeysMatch
    <3> QED
      BY <3>1, <3>2
  <2> QED
    BY <1>0, <2>1, <2>2, IdleIsTx, NobodyElse, AloneStep
<1>8. ASSUME NEW lost \in SUBSET Key, Restart(lost) PROVE SerialInv'
  <2>1. \A u \in Tx : tx'[u].pc = "idle"
    BY <1>8, IdleIsTx DEF Restart
  <2> QED
    BY <1>0, <1>8, <2>1 DEF Restart, SerialInv, OneAtATime, KeysMatch, HandlerKnows
<1>9. CASE UNCHANGED vars
  BY <1>0, <1>9
     DEF vars, SerialInv, OneAtATime, KeysMatch, HandlerKnows, Knows, Refused, BareTombstone
<1> QED
  BY <1>1, <1>2, <1>3, <1>4, <1>5, <1>6, <1>7, <1>8, <1>9 DEF Next, Step, Duplicate

\* The invariant of the serial store, with the types it rests on.
AllInv == TypeOK /\ TxShape /\ SerialInv

\* It holds in every state.
LEMMA SerialInvariant ==
  ASSUME Serial PROVE Spec => []AllInv
<1>1. Init => AllInv
  BY TypeInit, IdleIsTx
     DEF Init, AllInv, SerialInv, OneAtATime, KeysMatch, HandlerKnows
<1>2. AllInv /\ [Next]_vars => AllInv'
  BY TypeStep, SerialStep DEF AllInv
<1> QED
  BY <1>1, <1>2, PTL DEF Spec

-----------------------------------------------------------------------------
(* What follows for the documents. *)

\* A step leaves a document as it was, or replaces it by a version that supersedes it.
LEMMA DocMoves ==
  ASSUME AllInv, [Next]_vars, NEW k \in Key, docs'[k] # docs[k]
  PROVE  \E t \in Tx : /\ CommitDocument(t) /\ tx[t].doc \in Doc /\ tx[t].doc.key = k
                       /\ tx[t].cur = docs[k]
                       /\ docs'[k] = tx[t].doc /\ Register!Supersedes(tx[t].doc, docs[k])
<1>1. PICK t \in Tx : Commit(t) /\ tx[t].outcome = "applied"
  BY DocsStep
<1>2. /\ tx[t].doc \in Doc /\ CommitDocument(t)
      /\ tx[t].cur = docs[tx[t].doc.key]
      /\ docs' = [docs EXCEPT ![tx[t].doc.key] = tx[t].doc]
      /\ Register!Supersedes(tx[t].doc, docs[tx[t].doc.key])
  BY <1>1, CommitSupersedes DEF AllInv
<1>3. docs \in [Key -> Doc \cup {NoRow}]
  BY DEF AllInv, TypeOK
<1>4. tx[t].doc.key = k /\ docs'[k] = tx[t].doc
  BY <1>2, <1>3
<1> QED
  BY <1>2, <1>4

\* One transaction at a time, the store is the register that server/store.js promises: a
\* document is replaced by what supersedes it only, and by what an owner sent or a DELETE
\* made of the stored version.
THEOREM StoreIsRegister ==
  ASSUME Serial PROVE Spec => ImplementsRegister
<1>1. Init => Register!Init
  BY DEF Init, Register!Init, Key, Register!Key
<1>2. AllInv /\ [Next]_vars => [Register!Next]_docs
  <2> SUFFICES ASSUME AllInv, [Next]_vars, docs' # docs
               PROVE  Register!Next
    OBVIOUS
  <2>1. PICK t \in Tx : Commit(t) /\ tx[t].outcome = "applied"
    BY DocsStep
  <2> DEFINE d == tx[t].doc
  <2>2. /\ ~Refused(t) /\ d.key \in Key
        /\ docs' = [docs EXCEPT ![d.key] = d]
        /\ Register!Supersedes(d, docs[d.key])
    BY <2>1, CommitSupersedes DEF AllInv
  <2>3. Register!Put(d)
    BY <2>2 DEF Register!Put
  <2>4. Knows(t)
    BY <2>1 DEF AllInv, SerialInv, HandlerKnows, Commit
  <2>5. CASE tx[t].bare
    <3>1. d = BareTombstone(d.key)
      BY <2>2, <2>4, <2>5 DEF Knows
    <3>2. Register!Put(BareTombstone(d.key))
      BY <2>3, <3>1
    <3>3. Register!Delete(d.key)
      BY <3>2 DEF Register!Delete, BareTombstone, Register!Tombstone, Tombstone
    <3> QED
      BY <2>2, <3>3 DEF Register!Next, Key, Register!Key
  <2>6. CASE ~tx[t].bare
    BY <2>2, <2>3, <2>4, <2>6 DEF Knows, Register!Next
  <2> QED
    BY <2>5, <2>6
<1> QED
  BY <1>1, <1>2, SerialInvariant, PTL DEF Spec, ImplementsRegister, Register!Spec

\* One transaction at a time, a stored revision never falls, and no row is lost again: the
\* overlapping handlers of production are what RevisionNeverFalls fails for.
THEOREM RevisionsNeverFallSerially ==
  ASSUME Serial PROVE Spec => RevisionNeverFalls
<1>1. AllInv /\ [Next]_vars
        => [\A k \in Key : docs[k] # NoRow
                => docs'[k] # NoRow /\ docs'[k].revision >= docs[k].revision]_vars
  <2> SUFFICES ASSUME AllInv, [Next]_vars, NEW k \in Key, docs[k] # NoRow
               PROVE  docs'[k] # NoRow /\ docs'[k].revision >= docs[k].revision
    OBVIOUS
  <2>1. docs[k] \in Doc /\ docs[k].revision \in Nat
    BY DocFields DEF AllInv, TypeOK
  <2>2. CASE docs'[k] = docs[k]
    BY <2>1, <2>2
  <2>3. CASE docs'[k] # docs[k]
    BY <2>1, <2>3, DocMoves, DocFields, NoValueAssumption DEF Register!Supersedes
  <2> QED
    BY <2>2, <2>3
<1> QED
  BY <1>1, SerialInvariant, PTL DEF Spec, RevisionNeverFalls

\* One transaction at a time, no handler replaces a version it has not read, so what holds
\* of the identities that are not clobbered holds of all of them.
THEOREM NothingIsClobbered ==
  ASSUME Serial PROVE Spec => [](clobbered = {})
<1>1. Init => clobbered = {}
  BY DEF Init
<1>2. AllInv /\ (clobbered = {}) /\ [Next]_vars => (clobbered = {})'
  <2> SUFFICES ASSUME AllInv, clobbered = {}, [Next]_vars PROVE clobbered' = {}
    OBVIOUS
  <2>1. ASSUME NEW t \in Tx, Commit(t), tx[t].outcome = "applied" PROVE clobbered' = {}
    BY <2>1, CommitSupersedes DEF AllInv, CommitDocument
  <2>2. ASSUME NEW t \in Tx, Commit(t), tx[t].outcome # "applied" PROVE clobbered' = {}
    BY <2>2 DEF Commit
  <2>3. ASSUME ~\E t \in Tx : Commit(t) PROVE clobbered' = {}
    BY <2>3 DEF Next, Step, Read, WriteRow, UniqueViolation, WriteSide, Fail, Deliver,
                Duplicate, ApiApply, ApiDelete, Restart, vars, tables
  <2> QED
    BY <2>1, <2>2, <2>3
<1> QED
  BY <1>1, <1>2, SerialInvariant, PTL DEF Spec

\* A deletion loses to a newer version only: against one that is not newer it is applied,
\* or the document is deleted already.
LEMMA DeletionWins ==
  ASSUME NEW d \in Doc, d.deleted, NEW cur \in Doc \cup {NoRow},
         cur # NoRow => cur.key = d.key /\ ~(cur.revision > d.revision)
  PROVE  Verdict(d, cur) \in {"applied", "unchanged"}
<1>1. CASE cur = NoRow
  BY <1>1 DEF Verdict
<1>2. CASE cur # NoRow
  <2>1. cur \in Doc /\ cur.key = d.key /\ cur.revision \in Nat /\ d.revision \in Nat
    BY <1>2, DocFields
  <2>2. cur.deleted /\ cur.revision = d.revision => cur = d
    BY <2>1, DeletedIsTombstone
  <2> QED
    BY <1>2, <2>1, <2>2 DEF Verdict
<1> QED
  BY <1>1, <1>2

\* A DELETE without a revision is refused only for a version newer than the one it has read
\* the revision of, and one transaction at a time never: nothing comes between that read and
\* the one store.apply decides by.
THEOREM DeletesNeverRefused == Spec => []DeleteNeverRefused
<1>1. ASSUME OverlapInv, NEW t \in Tx, tx[t].pc = "commit", tx[t].bare
      PROVE  /\ tx[t].doc \in Doc /\ tx[t].doc.deleted
             /\ tx[t].cur \in Doc \cup {NoRow}
             /\ tx[t].cur # NoRow => tx[t].cur.key = tx[t].doc.key
             /\ tx[t].outcome = Verdict(tx[t].doc, tx[t].cur)
  <2>1. Decided(t) /\ tx[t].cur \in Doc \cup {NoRow}
    BY <1>1 DEF OverlapInv, HandlersDecide, TypeOK, TxState
  <2> QED
    BY <1>1, <2>1 DEF Decided
<1>2. ASSUME Serial PROVE Spec => []DeleteNeverRefused
  <2>1. OverlapInv /\ AllInv => DeleteNeverRefused
    <3> SUFFICES ASSUME OverlapInv, AllInv, NEW t \in Tx, tx[t].pc = "commit", tx[t].bare
                 PROVE  tx[t].outcome \in {"applied", "unchanged"}
      BY DEF DeleteNeverRefused
    <3> DEFINE d == tx[t].doc
               cur == tx[t].cur
    <3>1. d = BareTombstone(d.key) /\ cur = docs[d.key]
      BY DEF AllInv, SerialInv, HandlerKnows, Knows, Refused
    <3>2. cur # NoRow => d.revision = cur.revision
      BY <3>1 DEF BareTombstone, Tombstone
    <3>3. cur # NoRow => cur.revision \in Nat
      BY <1>1, DocFields
    <3> HIDE DEF d, cur
    <3>4. cur # NoRow => ~(cur.revision > d.revision)
      BY <3>2, <3>3
    <3> QED
      BY <1>1, <3>4, DeletionWins DEF d, cur
  <2> QED
    BY <1>2, <2>1, SerialInvariant, OverlapInvariant, PTL
<1>3. ASSUME ~Serial PROVE Spec => []DeleteNeverRefused
  <2>1. OverlapInv => DeleteNeverRefused
    BY <1>1, <1>3, DeletionWins DEF DeleteNeverRefused
  <2> QED
    BY <2>1, OverlapInvariant, PTL
<1> QED
  BY <1>2, <1>3

=============================================================================
