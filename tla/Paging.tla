------------------------------- MODULE Paging -------------------------------
(***************************************************************************)
(* A caller walks through the pages of one query (server/api/query.js      *)
(* createSearcher.run and matchedPage; server/engine/pg.js search, browse; *)
(* server/fabric/rrf.js) while documents change, time passes and the       *)
(* embedding service comes and goes.                                       *)
(*                                                                         *)
(* A document is reduced to what decides its place: the query's words it   *)
(* holds, its tier (site, field, title words, thinness), and its `place`   *)
(* among equals: relevance, importance and recency for a word query,       *)
(* sort_at for a browse.                                                   *)
(***************************************************************************)
EXTENDS Integers, FiniteSets, Sequences, Functions

CONSTANTS
  Docs,         \* rids
  Title,        \* dedupeKey of each document: owner and title
  Versions,     \* what a document may be and become
  QueryWords,   \* the query's words
  Limits,       \* what a page may be asked to hold, the same for all pages of a walk
  RelaxBelow,   \* RELAX_BELOW
  Candidates,   \* HYBRID_CANDIDATES
  RrfK,         \* RRF_K
  MaxChanges,   \* bound: changes of documents
  MaxTime       \* bound: the clock

Version ==
  [words : SUBSET QueryWords, tier : Nat, place : Nat,
   fades : BOOLEAN,                         \* its freshness boost wears off
   near : Nat,                              \* vector distance; 0: no vector, or none near
   \* Listed for anybody, for this viewer, opened by who has the address, or neither.
   seen : {"everyone", "acl", "link", "nobody"}]

ASSUME PagingAssumption ==
  /\ Docs \subseteq Nat /\ IsFiniteSet(Docs)
  /\ DOMAIN Title = Docs
  /\ Versions \subseteq Version
  /\ \A v \in Versions : v.words = {} => v.tier = 0
  /\ IsFiniteSet(QueryWords) /\ QueryWords # {}
  /\ Limits \subseteq Nat \ {0} /\ RelaxBelow \in Nat
  /\ Candidates \in Nat \ {0} /\ RrfK \in Nat \ {0}
  /\ MaxChanges \in Nat /\ MaxTime \in Nat

VARIABLES
  docs,     \* the documents as they are now
  clock,
  page,     \* the page request under way, or the last one
  shown,    \* how often the walk has shown each document: 0, 1 or more
  moved,    \* documents changed since the walk began
  changes

vars == <<docs, clock, page, shown, moved, changes>>

NoKey == [cover |-> 0, tier |-> 0, place |-> 0, rid |-> -1]
NoCursor == [k |-> "none", key |-> NoKey, offset |-> 0, now |-> 0, x |-> FALSE, h |-> FALSE]
NoAnswer == [results |-> {}, next |-> NoCursor]
NoPage ==
  [pc |-> "idle", words |-> FALSE, limit |-> 0, cursor |-> NoCursor, now |-> 0, ranking |-> "none",
   relaxed |-> FALSE, weights |-> [w \in QueryWords |-> 0],
   waits |-> {"keyword", "near"}, keyword |-> <<>>, near |-> <<>>,
   order |-> <<>>, after |-> NoKey, rows |-> <<>>, kept |-> NoAnswer, answer |-> NoAnswer]

Init ==
  /\ docs \in [Docs -> Versions]
  /\ clock = 0
  /\ page = NoPage
  /\ shown = [d \in Docs |-> 0]
  /\ moved = {}
  /\ changes = 0

-----------------------------------------------------------------------------
Smaller(a, b) == IF a < b THEN a ELSE b
\* A set in a strict total order, as a sequence.
Sorted(S, Before(_, _)) ==
  [i \in 1 .. Cardinality(S) |-> CHOOSE x \in S : Cardinality({y \in S : Before(y, x)}) = i - 1]
First(n, s) == SubSeq(s, 1, Smaller(n, Len(s)))

\* A commit of the store.
Change(d, v) ==
  /\ changes < MaxChanges
  /\ docs[d] # v
  /\ docs' = [docs EXCEPT ![d] = v]
  /\ moved' = moved \cup {d}
  /\ changes' = changes + 1
  /\ UNCHANGED <<clock, page, shown>>

Pass ==
  /\ clock < MaxTime
  /\ clock' = clock + 1
  /\ UNCHANGED <<docs, page, shown, moved, changes>>

-----------------------------------------------------------------------------
\* Every word of the query, or relaxed any of them.
Matches(v, relaxed) == IF relaxed THEN v.words # {} ELSE v.words = QueryWords
Relaxable == Cardinality(QueryWords) > 1

\* wordWeights: the fewer public documents hold a word, the more it weighs.
Weights ==
  [w \in QueryWords |->
     Cardinality(Docs) + 1 - Cardinality({d \in Docs : docs[d].seen = "everyone" /\ w \in docs[d].words})]

\* coverage: how much of a relaxed query a document holds, the sum of its words' weights.
Coverage(v) ==
  IF page.relaxed
  THEN Cardinality({unit \in v.words \X (1 .. Cardinality(Docs) + 1) : unit[2] <= page.weights[unit[1]]})
  ELSE 0

\* The sort key of a document, at the reference time of the page.
SortKey(d) ==
  IF page.words
  THEN [cover |-> Coverage(docs[d]), tier |-> docs[d].tier,
        place |-> docs[d].place + IF docs[d].fades THEN page.now ELSE 0, rid |-> d]
  ELSE [cover |-> 0, tier |-> 0, place |-> docs[d].place, rid |-> d]

\* The engine's order; a browse breaks ties by the higher rid.
Earlier(a, b) ==
  \/ a.cover > b.cover
  \/ a.cover = b.cover /\ a.tier > b.tier
  \/ a.cover = b.cover /\ a.tier = b.tier /\ a.place < b.place
  \/ /\ a.cover = b.cover /\ a.tier = b.tier /\ a.place = b.place
     /\ IF page.words THEN a.rid < b.rid ELSE a.rid > b.rid

\* What the viewer may see, for a word query of what matches it.
Matching ==
  {d \in Docs : docs[d].seen \in {"everyone", "acl"} /\ (page.words => Matches(docs[d], page.relaxed))}

AfterOrAt(key, cursor) == cursor.k = "none" \/ ~Earlier(key, cursor.key)
\* A keyset page begins after the cursor's key.
After(key, cursor) == cursor.k = "none" \/ Earlier(cursor.key, key)

\* matchedSet, visibleSet: the keys of what is found, best first; of equal titles the best (words).
Ranked(cursor) ==
  LET key == [d \in Matching |-> SortKey(d)]
      found == {d \in Matching : page.words =>
                  \A e \in Matching \ {d} : Title[e] = Title[d] => Earlier(key[d], key[e])}
  IN Sorted({k \in {key[d] : d \in found} : After(k, cursor)}, Earlier)

\* nearest: public documents only, the nearest first.
Nearest ==
  First(Candidates,
        Sorted({d \in Docs : docs[d].seen = "everyone" /\ docs[d].near > 0},
                     LAMBDA d, e : docs[d].near < docs[e].near \/ (docs[d].near = docs[e].near /\ d < e)))

-----------------------------------------------------------------------------
\* fuseRrf. A rank of 0 stands for a document that the list does not hold.
RankIn(list, d) == IF d \in Range(list) THEN CHOOSE i \in DOMAIN list : list[i] = d ELSE 0
Place(rank) == IF rank = 0 THEN 1 ELSE RrfK + rank
Numerator(a, b) == IF a = 0 \/ b = 0 THEN 1 ELSE Place(a) + Place(b)
Outscores(a, b, c, d) == Numerator(a, b) * Place(c) * Place(d) > Numerator(c, d) * Place(a) * Place(b)
Absent(rank) == IF rank = 0 THEN Cardinality(Docs) + 1 ELSE rank

FusedByKeyword(keyword, near) ==
  keyword \o SelectSeq(near, LAMBDA d : d \notin Range(keyword))
Fused(keyword, near) ==
  LET rids == Range(keyword) \cup Range(near)
      kr == [d \in rids |-> RankIn(keyword, d)]
      nr == [d \in rids |-> RankIn(near, d)]
      Before(d, e) ==
        \/ Outscores(kr[d], nr[d], kr[e], nr[e])
        \/ /\ ~Outscores(kr[e], nr[e], kr[d], nr[d])
           /\ \/ Absent(kr[d]) < Absent(kr[e])
              \/ /\ kr[d] = kr[e]
                 /\ Absent(nr[d]) < Absent(nr[e]) \/ (nr[d] = nr[e] /\ d < e)
  IN Sorted(rids, Before)

Rids(keys) == [i \in DOMAIN keys |-> keys[i].rid]

\* rankOrder: coverage, then tier, then the fused order, all of the documents as they were read.
RankOrder(list) ==
  LET Before(i, j) ==
        LET v == page.rows[list[i]]  u == page.rows[list[j]]
        IN \/ Coverage(v) > Coverage(u)
           \/ Coverage(v) = Coverage(u) /\ (v.tier > u.tier \/ (v.tier = u.tier /\ i < j))
      order == Sorted(DOMAIN list, Before)
  IN [i \in DOMAIN list |-> list[order[i]]]

\* canView, by the document as it was read, and one result of each title (words only).
Visible(i) == page.rows[page.order[i]].seen # "nobody"
Shows(i, from) ==
  /\ Visible(i)
  /\ page.words => \A j \in from + 1 .. i - 1 : Visible(j) => Title[page.order[j]] # Title[page.order[i]]

\* The results of a page that goes through the list from an offset, and where it stops.
Stop(from) ==
  LET shows == {i \in from + 1 .. Len(page.order) : Shows(i, from)}
      last == {i \in shows : Cardinality({j \in shows : j <= i}) = page.limit}
  IN IF last = {} THEN Len(page.order) ELSE CHOOSE i \in last : TRUE
Results(from) ==
  {page.order[i] : i \in {j \in from + 1 .. Stop(from) : Shows(j, from)}}

CursorXLost(relaxed) == FALSE
\* A relaxed answer's cursor says so (x).
CursorX(relaxed) == relaxed
CursorNowOfClock == clock
\* Later pages rank on the first page's clock.
CursorNow == page.now

Cursor(k, key, offset) ==
  [k |-> k, key |-> key, offset |-> offset, now |-> CursorNow, x |-> CursorX(page.relaxed),
   h |-> page.relaxed]

HybridPageByCount ==
  LET from == page.cursor.offset
  IN [results |-> Results(from),
      next |-> IF Stop(from) < Len(page.order)
               THEN Cursor("f", NoKey, Cardinality(Results(from))) ELSE NoCursor]
\* A page of the fused list, from an offset.
HybridPage ==
  LET from == page.cursor.offset
  IN [results |-> Results(from),
      next |-> IF Stop(from) < Len(page.order) THEN Cursor("f", NoKey, Stop(from)) ELSE NoCursor]

\* A page of the engine's list; the next one begins after its last key.
KeysetPage ==
  [results |-> Results(0),
   next |-> IF page.after = NoKey THEN NoCursor
            ELSE Cursor(IF page.words THEN "r" ELSE "t", page.after, 0)]

-----------------------------------------------------------------------------
\* A walk begins: a browse, or a search for the words.
Start(words, limit) ==
  /\ page.pc \in {"idle", "done", "refused"}
  /\ page' = [NoPage EXCEPT !.pc = "ask", !.words = words, !.limit = limit]
  /\ shown' = [d \in Docs |-> 0]
  /\ moved' = {}
  /\ UNCHANGED <<docs, clock, changes>>

\* A page is asked for. Its cursor has to belong to the query, and to a page of this ranking;
\* whether the ranking is hybrid depends on the embedding service at this moment.
Ask(ranking) ==
  LET cursor == page.cursor
      relaxed == Relaxable /\ cursor.x
      kind == IF ranking = "hybrid" THEN "f" ELSE IF page.words THEN "r" ELSE "t"
  IN /\ page.pc = "ask"
     /\ ranking = "hybrid" => page.words
     /\ page' = IF cursor.k # "none" /\ (cursor.h # relaxed \/ cursor.k # kind)
                THEN [page EXCEPT !.pc = "refused", !.ranking = ranking]
                ELSE [NoPage EXCEPT !.pc = IF relaxed THEN "weigh" ELSE "search",
                                    !.words = page.words, !.limit = page.limit, !.cursor = cursor,
                                    !.ranking = ranking, !.relaxed = relaxed,
                                    !.now = IF cursor.k = "none" THEN clock ELSE cursor.now]
     /\ UNCHANGED <<docs, clock, shown, moved, changes>>

Weigh ==
  /\ page.pc = "weigh"
  /\ page' = [page EXCEPT !.pc = "search", !.weights = Weights]
  /\ UNCHANGED <<docs, clock, shown, moved, changes>>

\* The engine's answer for a page that is not hybrid: its hits, and the last key if there is more.
Search ==
  LET ranked == Ranked(page.cursor)
  IN /\ page.pc = "search" /\ page.ranking = "keyword"
     /\ page' = [page EXCEPT !.pc = "read", !.order = Rids(First(page.limit, ranked)),
                             !.after = IF Len(ranked) > page.limit THEN ranked[page.limit] ELSE NoKey]
     /\ UNCHANGED <<docs, clock, shown, moved, changes>>

\* The two lists of candidates, by statements that run at the same time, and their fusion.
KeywordList ==
  /\ page.pc = "search" /\ page.ranking = "hybrid" /\ "keyword" \in page.waits
  /\ page' = [page EXCEPT !.waits = @ \ {"keyword"},
                          !.keyword = Rids(First(Candidates, Ranked(NoCursor)))]
  /\ UNCHANGED <<docs, clock, shown, moved, changes>>

NearList ==
  /\ page.pc = "search" /\ page.ranking = "hybrid" /\ "near" \in page.waits
  /\ page' = [page EXCEPT !.waits = @ \ {"near"}, !.near = Nearest]
  /\ UNCHANGED <<docs, clock, shown, moved, changes>>

Fuse ==
  /\ page.pc = "search" /\ page.ranking = "hybrid" /\ page.waits = {}
  /\ page' = [page EXCEPT !.pc = "read", !.order = Fused(page.keyword, page.near)]
  /\ UNCHANGED <<docs, clock, shown, moved, changes>>

Unread == {i \in DOMAIN page.order : page.order[i] \notin DOMAIN page.rows}

\* byRid: the documents are read one after the other.
ReadRow ==
  /\ page.pc = "read"
  /\ Unread # {}
  /\ LET d == page.order[CHOOSE i \in Unread : \A j \in Unread : i <= j]
     IN page' = [page EXCEPT !.rows = [e \in DOMAIN @ \cup {d} |-> IF e = d THEN docs[d] ELSE @[e]]]
  /\ UNCHANGED <<docs, clock, shown, moved, changes>>

\* Two steps here, which the code makes at once: the order of the page, then its results.
Order ==
  /\ page.pc = "read"
  /\ Unread = {}
  /\ page' = [page EXCEPT !.pc = "ordered",
                          !.order = IF page.ranking = "hybrid" THEN RankOrder(@) ELSE @]
  /\ UNCHANGED <<docs, clock, shown, moved, changes>>

Compose ==
  /\ page.pc = "ordered"
  /\ page' = [page EXCEPT !.pc = "composed",
                          !.answer = IF page.ranking = "hybrid" THEN HybridPage ELSE KeysetPage]
  /\ UNCHANGED <<docs, clock, shown, moved, changes>>

\* A first page for every word of the query that found little.
TooFew ==
  /\ page.words /\ Relaxable /\ ~page.relaxed
  /\ page.cursor.k = "none"
  /\ Cardinality(page.answer.results) < RelaxBelow

\* It is looked for again, for any of the words.
Relax ==
  /\ page.pc = "composed"
  /\ TooFew
  /\ page' = [NoPage EXCEPT !.pc = "weigh", !.words = TRUE, !.limit = page.limit,
                            !.ranking = page.ranking, !.now = page.now, !.relaxed = TRUE, !.kept = page.answer]
  /\ UNCHANGED <<docs, clock, shown, moved, changes>>

\* The page goes out; of an exact and a relaxed first page, the relaxed one if it has more.
Answer ==
  LET exact == /\ page.relaxed /\ page.cursor.k = "none"
               /\ Cardinality(page.answer.results) <= Cardinality(page.kept.results)
      out == IF exact THEN page.kept ELSE page.answer
  IN /\ page.pc = "composed"
     /\ ~TooFew
     /\ shown' = [d \in Docs |-> Smaller(2, shown[d] + IF d \in out.results THEN 1 ELSE 0)]
     /\ page' = [NoPage EXCEPT !.pc = IF out.next.k = "none" THEN "done" ELSE "ask",
                               !.words = page.words, !.limit = page.limit,
                               !.ranking = page.ranking, !.now = page.now,
                               !.relaxed = page.relaxed /\ ~exact, !.weights = page.weights,
                               !.cursor = out.next]
     /\ UNCHANGED <<docs, clock, moved, changes>>

Serve ==
  \/ \E ranking \in {"hybrid", "keyword"} : Ask(ranking)
  \/ Weigh \/ Search \/ KeywordList \/ NearList \/ Fuse
  \/ ReadRow \/ Order \/ Compose \/ Relax \/ Answer

Next ==
  \/ \E words \in BOOLEAN, limit \in Limits : Start(words, limit)
  \/ Serve
  \/ \E d \in Docs, v \in Versions : Change(d, v)
  \/ Pass

Spec == Init /\ [][Next]_vars

-----------------------------------------------------------------------------
\* Nothing that matters to this walk has changed: its order depends on the sort keys only, unless
\* ranks are recomputed over the whole index (fused lists, the words' weights).
Undisturbed(d) ==
  /\ d \notin moved
  /\ page.ranking = "hybrid" \/ page.relaxed => moved = {}

\* The documents the walk is about.
InWalk ==
  IF page.ranking = "hybrid"
  THEN Range(Rids(First(Candidates, Ranked(NoCursor)))) \cup Range(Nearest)
  ELSE Matching

\* A walk to the last page shows each undisturbed document once - one of each title, for a word
\* query - and none twice, however long it takes. On a keyset walk of the exact words that is so
\* whatever happens to the other documents, also while a page is read; of a fused or relaxed walk
\* it says only that nothing is repeated or left out while no document changes at all.
StaysShownOnce ==
  page.pc = "done" =>
    /\ \A d \in Docs : Undisturbed(d) => shown[d] <= 1
    /\ \A d \in InWalk : (\A e \in Docs : Title[e] = Title[d] => Undisturbed(e)) =>
         \E e \in InWalk : shown[e] = 1 /\ (IF page.words THEN Title[e] = Title[d] ELSE e = d)

\* Fusion respects both lists: what is better in both stays better, and what both lists hold
\* among their first RRF_K comes before what only one holds, if it were the first there.
FusionKeepsOrder ==
  page.pc = "read" /\ page.ranking = "hybrid" =>
    LET both == Range(page.keyword) \cap Range(page.near)
    IN /\ \A d, e \in both :
            /\ RankIn(page.keyword, d) < RankIn(page.keyword, e)
            /\ RankIn(page.near, d) < RankIn(page.near, e)
            => RankIn(page.order, d) < RankIn(page.order, e)
       /\ \A d \in both, e \in Range(page.order) \ both :
            /\ RankIn(page.keyword, d) <= RrfK
            /\ RankIn(page.near, d) <= RrfK
            => RankIn(page.order, d) < RankIn(page.order, e)

\* A cursor the service has given is accepted, also a relaxed page's, unless the embedding
\* service has come or gone in between.
RefusedOnSwitchOnly ==
  page.pc = "refused" => (page.ranking = "hybrid") # (page.cursor.k = "f")

\* A page's cursor lies after the cursor it was asked with, so that a walk over a finite index
\* comes to an end, although documents move about and are ranked anew.
CursorAdvances ==
  [][LET before == page.cursor  after == page'.cursor
     IN page.pc = "composed" /\ page'.pc = "ask" /\ before.k # "none" =>
          /\ after.k = before.k
          /\ IF after.k = "f" THEN after.offset > before.offset
             ELSE Earlier(before.key, after.key)]_vars
=============================================================================
