---------------------------- MODULE RemovalFeed ----------------------------
(***************************************************************************)
(* What a product reads of its own documents: the removal feed (server/    *)
(* purge.js ownerFeed) and the reconciliation page (server/store.js        *)
(* ownerPage), both behind server/api/documents.js, and a product that     *)
(* keeps derived copies (pages, caches, sitemaps) and drops them by what   *)
(* it reads.                                                               *)
(*                                                                         *)
(* Both are read after a cursor over identity numbers. A number is taken   *)
(* inside the transaction that writes the row and is visible only at its   *)
(* commit, so on the pooled handle a row may appear below a cursor that    *)
(* has already passed it. The product is external: it polls, it may lose   *)
(* an answer or stop before it saves the cursor, and it walks its own      *)
(* documents from time to time.                                            *)
(***************************************************************************)
EXTENDS Integers, FiniteSets, FiniteSetsExt

CONSTANTS
  Docs,         \* documents, named by their rid
  Owned,        \* those of the product that reads
  Handles,      \* the database handles: "serial" runs one transaction at a time
  FeedLimit,    \* ?limit= of the feed
  WalkLimit,    \* ?limit= of the reconciliation page
  Republished,  \* bound: the documents published a second time
  MaxFeedFaults     \* bound: failed transactions, lost answers, stops of the product

ASSUME FeedAssumption ==
  /\ Docs \subseteq Nat \ {0}
  /\ Owned \subseteq Docs
  /\ Handles \subseteq {"serial", "pooled"}
  /\ FeedLimit \in Nat \ {0}
  /\ WalkLimit \in Nat \ {0}
  /\ Republished \subseteq Docs
  /\ MaxFeedFaults \in Nat

VARIABLES
  handle,     \* which handle the process has
  documents,  \* documents: revision and whether it is public, of each rid
  removals,   \* removals: the committed rows, as a set
  nextSeq,    \* the identity sequence of removals
  open,       \* the number each open removal holds, 0 for none
  kept,       \* the revision of the product's derived copy, 0 for none
  after,      \* the product's saved cursor of the feed
  feed,       \* the feed page on its way
  position,   \* where the product's walk stands
  walk,       \* the reconciliation page on its way
  given,      \* numbers of the removals the product has taken in
  overtaken,  \* numbers the cursor passed while their transaction was open
  feedFaults

feedVars == <<handle, documents, removals, nextSeq, open, kept, after, feed, position, walk,
          given, overtaken, feedFaults>>

NoPage == [there |-> FALSE, rows |-> {}, next |-> 0, passing |-> {}]

FeedInit ==
  /\ handle \in Handles
  /\ documents = [d \in Docs |-> [revision |-> 1, public |-> TRUE]]
  /\ removals = {}
  /\ nextSeq = 1
  /\ open = [d \in Docs |-> 0]
  /\ kept = [d \in Docs |-> 0]
  /\ after = 0
  /\ feed = NoPage
  /\ position = 0
  /\ walk = NoPage
  /\ given = {}
  /\ overtaken = {}
  /\ feedFaults = 0

Fault == feedFaults < MaxFeedFaults /\ feedFaults' = feedFaults + 1

\* A statement finds the connection free.
Free == handle = "serial" => \A d \in Docs : open[d] = 0

-----------------------------------------------------------------------------
(* The transactions of the store. *)

\* A removal writes the document's row, which keeps other writers of it out, and then its
\* row of the feed: the number is taken here.
Record(d) ==
  /\ Free /\ open[d] = 0
  /\ documents[d].public
  /\ open' = [open EXCEPT ![d] = nextSeq]
  /\ nextSeq' = nextSeq + 1
  /\ UNCHANGED <<handle, documents, removals, kept, after, feed, position, walk, given,
                 overtaken, feedFaults>>

Commit(d) ==
  /\ open[d] # 0
  /\ documents' = [documents EXCEPT ![d].public = FALSE]
  /\ removals' = removals \cup {[seq |-> open[d], doc |-> d, revision |-> documents[d].revision]}
  /\ open' = [open EXCEPT ![d] = 0]
  /\ UNCHANGED <<handle, nextSeq, kept, after, feed, position, walk, given, overtaken, feedFaults>>

\* The transaction fails: its number is never used.
Rollback(d) ==
  /\ open[d] # 0
  /\ Fault
  /\ open' = [open EXCEPT ![d] = 0]
  /\ UNCHANGED <<handle, documents, removals, nextSeq, kept, after, feed, position, walk,
                 given, overtaken>>

\* The product publishes the document again.
PublishDocument(d) ==
  /\ Free /\ open[d] = 0
  /\ ~documents[d].public
  /\ d \in Republished /\ documents[d].revision = 1
  /\ documents' = [documents EXCEPT ![d] = [revision |-> 2, public |-> TRUE]]
  /\ UNCHANGED <<handle, removals, nextSeq, open, kept, after, feed, position, walk, given,
                 overtaken, feedFaults>>

-----------------------------------------------------------------------------
(* The two reads. *)

\* ORDER BY the number LIMIT n: the first n rows. A page is kept as a set.
Page(rows, n) == {r \in rows : Cardinality({x \in rows : x.seq < r.seq}) < n}
LastOf(rows) == Max({r.seq : r \in rows})

\* Variants with a plausible fault: the properties have to notice them.
NextAfterRow(rows) == IF rows = {} THEN 0 ELSE LastOf(rows) + 1
WalkPageAfterExtra(rows) ==
  [there |-> TRUE, rows |-> Page(rows, WalkLimit), passing |-> {},
   next |-> IF Cardinality(rows) > WalkLimit THEN LastOf(rows) ELSE 0]

\* WHERE owner = ? AND seq > ? ORDER BY seq LIMIT ?
FeedRows == Page({r \in removals : r.doc \in Owned /\ r.seq > after}, FeedLimit)

\* next_after: null (0) for an empty page.
NextAfter(rows) == IF rows = {} THEN 0 ELSE LastOf(rows)

ReadFeed ==
  /\ Free /\ ~feed.there
  /\ LET rows == FeedRows
         next == NextAfter(rows)
     IN feed' = [there |-> TRUE, rows |-> rows, next |-> next,
                 passing |-> {open[d] : d \in {e \in Owned : open[e] \in 1 .. next}}]
  /\ UNCHANGED <<handle, documents, removals, nextSeq, open, kept, after, position, walk,
                 given, overtaken, feedFaults>>

\* The documents of the owner after a rid, one more than asked for: is there a next page?
WalkRows ==
  Page({[seq |-> d, doc |-> d, revision |-> documents[d].revision, public |-> documents[d].public] :
          d \in {e \in Owned : e > position}},
       WalkLimit + 1)

WalkPage(rows) ==
  LET page == Page(rows, WalkLimit)
  IN [there |-> TRUE, rows |-> page, passing |-> {},
      next |-> IF Cardinality(rows) > WalkLimit THEN LastOf(page) ELSE 0]

ReadDocuments ==
  /\ Free /\ ~walk.there
  /\ walk' = WalkPage(WalkRows)
  /\ UNCHANGED <<handle, documents, removals, nextSeq, open, kept, after, feed, position,
                 given, overtaken, feedFaults>>

-----------------------------------------------------------------------------
(* The product. *)

\* It renders a page of a public document, caches it, lists it in its sitemap.
Keep(d) ==
  /\ documents[d].public
  /\ kept' = [kept EXCEPT ![d] = documents[d].revision]
  /\ UNCHANGED <<handle, documents, removals, nextSeq, open, after, feed, position, walk,
                 given, overtaken, feedFaults>>

\* A copy goes when the removal is of its revision or a later one.
DroppedBy(gone) ==
  [d \in Docs |-> IF \E r \in gone : r.doc = d /\ kept[d] <= r.revision THEN 0 ELSE kept[d]]

\* It takes the page in and then saves the cursor, unless it stops in between.
TakeFeed(saved) ==
  /\ feed.there
  /\ kept' = DroppedBy(feed.rows)
  /\ given' = given \cup {r.seq : r \in feed.rows}
  /\ IF saved
     THEN /\ after' = IF feed.next = 0 THEN after ELSE feed.next
          /\ overtaken' = overtaken \cup feed.passing
          /\ UNCHANGED feedFaults
     ELSE Fault /\ UNCHANGED <<after, overtaken>>
  /\ feed' = NoPage
  /\ UNCHANGED <<handle, documents, removals, nextSeq, open, position, walk>>

LoseFeed ==
  /\ feed.there
  /\ Fault
  /\ feed' = NoPage
  /\ UNCHANGED <<handle, documents, removals, nextSeq, open, kept, after, position, walk,
                 given, overtaken>>

\* It compares the page with what it keeps, and walks on or from the start again.
TakeDocuments ==
  /\ walk.there
  /\ kept' = DroppedBy({r \in walk.rows : ~r.public})
  /\ position' = walk.next
  /\ walk' = NoPage
  /\ UNCHANGED <<handle, documents, removals, nextSeq, open, after, feed, given, overtaken,
                 feedFaults>>

FeedNext ==
  \/ \E d \in Docs : Record(d) \/ Commit(d) \/ Rollback(d) \/ PublishDocument(d)
  \/ \E d \in Owned : Keep(d)
  \/ ReadFeed \/ LoseFeed \/ (\E saved \in BOOLEAN : TakeFeed(saved))
  \/ ReadDocuments \/ TakeDocuments

FeedSpec == FeedInit /\ [][FeedNext]_feedVars

\* Transactions end, and the product polls the feed and walks its documents for ever.
FairFeedSpec ==
  /\ FeedSpec
  /\ \A d \in Docs : WF_feedVars(Commit(d))
  /\ WF_feedVars(ReadFeed) /\ WF_feedVars(TakeFeed(TRUE))
  /\ WF_feedVars(ReadDocuments) /\ WF_feedVars(TakeDocuments)

-----------------------------------------------------------------------------
\* The feed skips nothing else: a removal of the owner below the saved cursor was given to
\* the product, or its transaction was still open when the page that passed it was read -
\* which on the serial handle never happens - however answers are lost, transactions fail
\* and leave gaps, and the product stops before it saves the cursor.
OnlyOvertakenSkipped ==
  /\ \A r \in removals : r.doc \in Owned /\ r.seq <= after => r.seq \in given \cup overtaken
  /\ handle = "serial" => overtaken = {}

\* What the feed skips the walk finds: a copy of a document that left the public index is
\* dropped in the end, or the document is public again.
DroppedInTheEnd ==
  \A d \in Owned :
    (kept[d] # 0 /\ ~documents[d].public) ~> (kept[d] = 0 \/ documents[d].public)
=============================================================================
