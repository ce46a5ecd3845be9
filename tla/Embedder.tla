------------------------------ MODULE Embedder ------------------------------
(***************************************************************************)
(* The embedding job of server/fabric/embedder.js, which keeps one vector  *)
(* per public document in search_embeddings (fabric/vector-store.js)       *)
(* through the embedding client (server/fabric/embed.js), while owners     *)
(* change the documents. The job may run in the service and in a backfill  *)
(* (scripts/embed-backfill.js) at once: each process has its own budget    *)
(* window and backoff, and they share the table.                           *)
(*                                                                         *)
(* A version of a document stands for its documents.hash and for the text  *)
(* it contributes. The configured model and dimension do not change.       *)
(***************************************************************************)
EXTENDS Integers, Sequences, FiniteSetsExt

CONSTANTS
  Docs,        \* rids of documents
  Workers,     \* processes that run the job
  Service,     \* the one that runs it for ever
  NoVector,    \* no row in search_embeddings
  PerMinute,   \* SEARCH_EMBED_PER_MIN
  BatchSize,   \* BATCH_SIZE
  Minute,      \* the length of a budget window, in units of time
  Backoff,     \* BACKOFF_MS, in units of time
  MaxChanges,  \* bound: changes of documents
  MaxFaults    \* bound: failed calls, failed writes and restarts

ASSUME EmbedderAssumption ==
  /\ Docs \subseteq Nat /\ IsFiniteSet(Docs)
  /\ Service \in Workers
  /\ PerMinute \in Nat \ {0}
  /\ BatchSize \in Nat \ {0}
  /\ Minute \in Nat \ {0}
  /\ Backoff \in Seq(Nat \ {0}) /\ Backoff # <<>>
  /\ MaxChanges \in Nat
  /\ MaxFaults \in Nat

Version == [n : 0 .. MaxChanges, public : BOOLEAN]

ASSUME NoVectorAssumption == NoVector \notin [hash : Version, text : Version]

VARIABLES
  docs,      \* the current version of each document; public: served to everyone
  vectors,   \* search_embeddings: content_hash, and the version the vector was made of
  job,       \* the tick under way in each process
  window,    \* age and use of each process's budget window
  failures,  \* failed calls in a row, as far as Backoff tells them apart
  wait,      \* time until nextTryAt
  recent,    \* documents sent to AI by each process in the last n units of time, the present one
             \* included, for n up to Minute
  changes,
  faults

vars == <<docs, vectors, job, window, failures, wait, recent, changes, faults>>

NotTicking == [pc |-> "idle", rows |-> <<>>, pending |-> {}, batch |-> {}]
NothingSent == [n \in 1 .. Minute |-> 0]

Init ==
  /\ docs = [d \in Docs |-> [n |-> 0, public |-> TRUE]]
  /\ vectors = [d \in Docs |-> NoVector]
  /\ job = [w \in Workers |-> NotTicking]
  /\ window = [w \in Workers |-> [age |-> 0, used |-> 0]]
  /\ failures = [w \in Workers |-> 0]
  /\ wait = [w \in Workers |-> 0]
  /\ recent = [w \in Workers |-> NothingSent]
  /\ changes = 0
  /\ faults = 0

FirstOf(n, S) == {d \in S : Cardinality({e \in S : e < d}) < n}
Smaller(a, b) == IF a < b THEN a ELSE b

-----------------------------------------------------------------------------
\* An owner changes a document, or takes it out of public view.
Change(d, public) ==
  /\ changes < MaxChanges
  /\ changes' = changes + 1
  /\ docs' = [docs EXCEPT ![d] = [n |-> changes + 1, public |-> public]]
  /\ UNCHANGED <<vectors, job, window, failures, wait, recent, faults>>

\* Time passes.
Pass ==
  /\ window' = [w \in Workers |-> [window[w] EXCEPT !.age = Smaller(@ + 1, Minute)]]
  /\ wait' = [w \in Workers |-> IF wait[w] = 0 THEN 0 ELSE wait[w] - 1]
  /\ recent' = [w \in Workers |->
                  [n \in 1 .. Minute |-> IF n = 1 THEN 0 ELSE recent[w][n - 1]]]
  /\ UNCHANGED <<docs, vectors, job, failures, changes, faults>>

-----------------------------------------------------------------------------
\* Variants with a plausible fault; the properties have to notice them.
PublicDocumentsAll == docs
\* publicDocuments: the public, published documents.
PublicDocuments == [d \in {x \in Docs : docs[x].public} |-> docs[d]]

\* A tick starts, unless it is too soon after a failure, and reads the documents, ...
ReadDocuments(w) ==
  /\ job[w].pc = "idle"
  /\ wait[w] = 0
  /\ job' = [job EXCEPT ![w] = [NotTicking EXCEPT !.pc = "existing", !.rows = PublicDocuments]]
  /\ UNCHANGED <<docs, vectors, window, failures, wait, recent, changes, faults>>

OutdatedMissing(rows) == {d \in DOMAIN rows : vectors[d] = NoVector}
\* The rows with no vector, or one of another content_hash.
Outdated(rows) ==
  {d \in DOMAIN rows : vectors[d] = NoVector \/ vectors[d].hash # rows[d]}

\* ... then the stored vectors.
ReadVectors(w) ==
  /\ job[w].pc = "existing"
  /\ LET pending == Outdated(job[w].rows)
     IN job' = [job EXCEPT ![w] =
                  IF pending = {} THEN NotTicking
                  ELSE [@ EXCEPT !.pc = "batch", !.pending = pending]]
  /\ UNCHANGED <<docs, vectors, window, failures, wait, recent, changes, faults>>

\* budgetLeft starts a new window when the last one is a minute old.
WindowNow(w) == IF window[w].age >= Minute THEN [age |-> 0, used |-> 0] ELSE window[w]
BudgetLeftBefore(w) == PerMinute
BudgetLeft(w) == PerMinute - WindowNow(w).used

\* The next batch goes to AI, as large as the budget allows; without budget the tick is over.
Call(w) ==
  LET batch == FirstOf(Smaller(BatchSize, BudgetLeft(w)), job[w].pending)
  IN /\ job[w].pc = "batch"
     /\ window' = [window EXCEPT ![w] = WindowNow(w)]
     /\ IF BudgetLeft(w) <= 0
        THEN /\ job' = [job EXCEPT ![w] = NotTicking]
             /\ UNCHANGED recent
        ELSE /\ job' = [job EXCEPT ![w] = [@ EXCEPT !.pc = "answer", !.batch = batch]]
             /\ recent' = [recent EXCEPT ![w] = [n \in 1 .. Minute |-> @[n] + Cardinality(batch)]]
     /\ UNCHANGED <<docs, vectors, failures, wait, changes, faults>>

\* The budget is spent whatever the answer.
Spend(w) == window' = [window EXCEPT ![w].used = @ + Cardinality(job[w].batch)]

\* AI answers with a vector for every text.
Answered(w) ==
  /\ job[w].pc = "answer"
  /\ Spend(w)
  /\ job' = [job EXCEPT ![w].pc = "put"]
  /\ UNCHANGED <<docs, vectors, failures, wait, recent, changes, faults>>

\* AI fails, does not answer in time, or answers vectors of the wrong dimension: the tick is
\* over, nothing is stored, and the next one has to wait.
Failed(w) ==
  /\ job[w].pc = "answer"
  /\ faults < MaxFaults
  /\ faults' = faults + 1
  /\ Spend(w)
  /\ failures' = [failures EXCEPT ![w] = Smaller(@ + 1, Len(Backoff))]
  /\ wait' = [wait EXCEPT ![w] = Backoff[failures'[w]]]
  /\ job' = [job EXCEPT ![w] = NotTicking]
  /\ UNCHANGED <<docs, vectors, recent, changes>>

StoredCurrent(w, d) == [hash |-> docs[d], text |-> job[w].rows[d]]
\* What put stores for a row of the batch.
Stored(w, d) == [hash |-> job[w].rows[d], text |-> job[w].rows[d]]

\* The vectors of the batch are stored one after the other; the last one ends the batch.
Put(w) ==
  LET d == Min(job[w].batch)
      batch == job[w].batch \ {d}
      pending == job[w].pending \ {d}
  IN /\ job[w].pc = "put"
     /\ vectors' = [vectors EXCEPT ![d] = Stored(w, d)]
     /\ job' = [job EXCEPT ![w] =
                  IF batch # {} THEN [@ EXCEPT !.batch = batch, !.pending = pending]
                  ELSE IF pending # {} THEN [@ EXCEPT !.pc = "batch", !.batch = {}, !.pending = pending]
                  ELSE NotTicking]
     /\ IF batch = {}
        THEN failures' = [failures EXCEPT ![w] = 0] /\ wait' = [wait EXCEPT ![w] = 0]
        ELSE UNCHANGED <<failures, wait>>
     /\ UNCHANGED <<docs, window, recent, changes, faults>>

\* A statement fails: the tick is over, without a backoff.
Abandon(w) ==
  /\ job[w].pc \in {"existing", "put"}
  /\ faults < MaxFaults
  /\ faults' = faults + 1
  /\ job' = [job EXCEPT ![w] = NotTicking]
  /\ UNCHANGED <<docs, vectors, window, failures, wait, recent, changes>>

\* The process dies and starts again, with a new window and no backoff.
Restart(w) ==
  /\ faults < MaxFaults
  /\ faults' = faults + 1
  /\ job' = [job EXCEPT ![w] = NotTicking]
  /\ window' = [window EXCEPT ![w] = [age |-> 0, used |-> 0]]
  /\ failures' = [failures EXCEPT ![w] = 0]
  /\ wait' = [wait EXCEPT ![w] = 0]
  /\ recent' = [recent EXCEPT ![w] = NothingSent]
  /\ UNCHANGED <<docs, vectors, changes>>

Work(w) == ReadDocuments(w) \/ ReadVectors(w) \/ Call(w) \/ Answered(w) \/ Put(w)

Next ==
  \/ \E d \in Docs, public \in BOOLEAN : Change(d, public)
  \/ Pass
  \/ \E w \in Workers : Work(w) \/ Failed(w) \/ Abandon(w) \/ Restart(w)

Spec == Init /\ [][Next]_vars

\* Time passes, and the service's timer starts a tick again and again. A backfill may stop
\* at any step.
FairSpec == Spec /\ WF_vars(Pass) /\ WF_vars(Work(Service))

-----------------------------------------------------------------------------
\* A stored vector was made of the very version its content_hash names, and that version
\* was public - although the document may change between the read, the call and the write,
\* and another process may store vectors of the same document meanwhile. Otherwise a wrong
\* vector would pass for an up-to-date one for ever.
VectorOfItsHash ==
  \A d \in Docs :
    vectors[d] # NoVector => vectors[d].hash = vectors[d].text /\ vectors[d].text.public

\* In any minute a process sends at most two windows' budgets to AI, failed calls included,
\* however long a call takes.
TwoBudgetsAMinute ==
  \A w \in Workers : recent[w][Minute] <= 2 * PerMinute

\* Once the owners leave the documents alone, every public document has the vector of its
\* current version, and keeps it: in spite of failures, restarts, the budget, and a
\* backfill that stores old versions late.
EmbeddedInTheEnd ==
  <>[](\A d \in Docs :
         docs[d].public => vectors[d] # NoVector /\ vectors[d].hash = docs[d])
=============================================================================
