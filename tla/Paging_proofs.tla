--------------------------- MODULE Paging_proofs ---------------------------
(***************************************************************************)
(* Proofs about Paging, for any documents, queries, page sizes, lists of   *)
(* candidates and changes: which cursors are refused, that every page ends *)
(* further on than it began, what the fusion keeps of its two lists, and   *)
(* that a walk shows each document once: of a fused or relaxed walk, while *)
(* no document changes.                                                    *)
(***************************************************************************)
EXTENDS Paging, FiniteSetTheorems, SequenceTheorems, TLAPS

-----------------------------------------------------------------------------
(* Places in a strict total order. *)

StrictTotalOrder(R, S) ==
  /\ \A x \in S : <<x, x>> \notin R
  /\ \A x, y, z \in S : <<x, y>> \in R /\ <<y, z>> \in R => <<x, z>> \in R
  /\ \A x, y \in S : x = y \/ <<x, y>> \in R \/ <<y, x>> \in R
Predecessors(R, S, x) == {y \in S : <<y, x>> \in R}

\* In a finite set that is strictly and totally ordered, each place is taken.
LEMMA EveryPlaceTaken ==
  ASSUME NEW S, IsFiniteSet(S), NEW R, StrictTotalOrder(R, S), NEW i \in 1 .. Cardinality(S)
  PROVE  \E x \in S : Cardinality(Predecessors(R, S, x)) = i - 1
<1> USE DEF StrictTotalOrder, Predecessors
<1> DEFINE n == Cardinality(S)
           Before(x) == {y \in S : <<y, x>> \in R}
           place == [x \in S |-> Cardinality(Before(x)) + 1]
<1>1. n \in Nat
  BY FS_CardinalityType
<1>2. ASSUME NEW x \in S
      PROVE  /\ IsFiniteSet(Before(x)) /\ Cardinality(Before(x)) \in Nat
             /\ Cardinality(Before(x)) < n
  <2>1. Before(x) \in SUBSET (S \ {x})
    OBVIOUS
  <2>2. IsFiniteSet(S \ {x}) /\ Cardinality(S \ {x}) = n - 1
    BY FS_RemoveElement
  <2> HIDE DEF Before, n
  <2>3. IsFiniteSet(Before(x)) /\ Cardinality(Before(x)) <= n - 1
    BY <2>1, <2>2, FS_Subset
  <2> QED
    BY <1>1, <2>3, FS_CardinalityType
<1>3. ASSUME NEW x \in S, NEW y \in S, <<x, y>> \in R
      PROVE  Cardinality(Before(x)) < Cardinality(Before(y))
  <2>1. Before(x) \cup {x} \in SUBSET Before(y) /\ x \notin Before(x)
    BY <1>3
  <2>2. IsFiniteSet(Before(x)) /\ IsFiniteSet(Before(y))
    BY <1>2
  <2>3. Cardinality(Before(x)) \in Nat /\ Cardinality(Before(y)) \in Nat
    BY <1>2
  <2> HIDE DEF Before
  <2>4. Cardinality(Before(x) \cup {x}) = Cardinality(Before(x)) + 1
    BY <2>1, <2>2, FS_AddElement
  <2>5. Cardinality(Before(x) \cup {x}) <= Cardinality(Before(y))
    BY <2>1, <2>2, FS_Subset
  <2> QED
    BY <2>3, <2>4, <2>5
<1>4. SUFFICES ASSUME \A x \in S : Cardinality(Before(x)) # i - 1 PROVE FALSE
  OBVIOUS
<1> DEFINE T == (1 .. n) \ {i}
<1>5. IsFiniteSet(T) /\ Cardinality(T) < n
  <2>1. IsFiniteSet(1 .. n) /\ Cardinality(1 .. n) = n
    <3> HIDE DEF n
    <3> QED
      BY <1>1, FS_Interval
  <2>2. i \in 1 .. n
    OBVIOUS
  <2> HIDE DEF n
  <2>3. IsFiniteSet(T) /\ Cardinality(T) = n - 1
    BY <2>1, <2>2, FS_RemoveElement
  <2> QED
    BY <1>1, <2>3
<1>6. place \in [S -> T]
  <2>1. ASSUME NEW x \in S PROVE Cardinality(Before(x)) + 1 \in T
    <3>1. Cardinality(Before(x)) \in Nat /\ Cardinality(Before(x)) < n
      BY <1>2
    <3>2. Cardinality(Before(x)) # i - 1 /\ i \in Int
      BY <1>4
    <3> HIDE DEF Before, n
    <3> QED
      BY <1>1, <3>1, <3>2
  <2> QED
    BY <2>1
<1>7. \A x \in S : place[x] = Cardinality(Before(x)) + 1
  OBVIOUS
<1>8. \E x, y \in S : x # y /\ place[x] = place[y]
  <2> HIDE DEF place, T
  <2> QED
    BY <1>5, <1>6, FS_PigeonHole
<1>9. PICK x \in S, y \in S : x # y /\ place[x] = place[y]
  BY <1>8
<1>10. Cardinality(Before(x)) = Cardinality(Before(y))
  <2>1. Cardinality(Before(x)) \in Nat /\ Cardinality(Before(y)) \in Nat
    BY <1>2
  <2>2. Cardinality(Before(x)) + 1 = Cardinality(Before(y)) + 1
    BY <1>7, <1>9
  <2> HIDE DEF Before, place
  <2> QED
    BY <2>1, <2>2
<1>11. /\ <<x, y>> \in R => Cardinality(Before(x)) < Cardinality(Before(y))
       /\ <<y, x>> \in R => Cardinality(Before(y)) < Cardinality(Before(x))
  BY <1>3
<1>12. Cardinality(Before(x)) \in Nat /\ (<<x, y>> \in R \/ <<y, x>> \in R)
  BY <1>2, <1>9
<1> HIDE DEF Before
<1> QED
  BY <1>10, <1>11, <1>12

-----------------------------------------------------------------------------
(* The engine's order. *)

SortKeys == [cover : Nat, tier : Nat, place : Nat, rid : Nat]

\* The engine's order is strict and total, since rids are.
LEMMA EarlierIsStrictTotal ==
  ASSUME NEW K \in SUBSET SortKeys
  PROVE  /\ \A a \in K : ~Earlier(a, a)
         /\ \A a, b, c \in K : Earlier(a, b) /\ Earlier(b, c) => Earlier(a, c)
         /\ \A a, b \in K : a = b \/ Earlier(a, b) \/ Earlier(b, a)
<1>1. ASSUME NEW a \in K, NEW b \in K, NEW c \in K
      PROVE  /\ ~Earlier(a, a)
             /\ Earlier(a, b) /\ Earlier(b, c) => Earlier(a, c)
             /\ a = b \/ Earlier(a, b) \/ Earlier(b, a)
  <2>1. /\ a.cover \in Nat /\ a.tier \in Nat /\ a.place \in Nat /\ a.rid \in Nat
        /\ b.cover \in Nat /\ b.tier \in Nat /\ b.place \in Nat /\ b.rid \in Nat
        /\ c.cover \in Nat /\ c.tier \in Nat /\ c.place \in Nat /\ c.rid \in Nat
    BY DEF SortKeys
  <2>2. ~Earlier(a, a) /\ (Earlier(a, b) /\ Earlier(b, c) => Earlier(a, c))
    BY <2>1 DEF Earlier
  <2>3. /\ a.cover = b.cover /\ a.tier = b.tier /\ a.place = b.place /\ a.rid = b.rid
        => a = b
    BY DEF SortKeys
  <2>4. a = b \/ Earlier(a, b) \/ Earlier(b, a)
    BY <2>1, <2>3 DEF Earlier
  <2> QED
    BY <2>2, <2>4
<1> QED
  BY <1>1

\* A sorted set of keys is a list of these keys.
LEMMA SortedKeys ==
  ASSUME NEW K \in SUBSET SortKeys, IsFiniteSet(K)
  PROVE  Sorted(K, Earlier) \in [1 .. Cardinality(K) -> K]
<1> DEFINE R == {p \in K \X K : Earlier(p[1], p[2])}
<1>1. \A a, b \in K : <<a, b>> \in R <=> Earlier(a, b)
  OBVIOUS
<1> HIDE DEF R
<1>2. ASSUME NEW i \in 1 .. Cardinality(K)
      PROVE  \E x \in K : Cardinality({y \in K : Earlier(y, x)}) = i - 1
  <2>1. StrictTotalOrder(R, K)
    BY <1>1, EarlierIsStrictTotal DEF StrictTotalOrder
  <2>2. PICK x \in K : Cardinality(Predecessors(R, K, x)) = i - 1
    BY <2>1, EveryPlaceTaken
  <2>3. Predecessors(R, K, x) = {y \in K : Earlier(y, x)}
    BY <1>1 DEF Predecessors
  <2> QED
    BY <2>2, <2>3
<1>3. ASSUME NEW i \in 1 .. Cardinality(K)
      PROVE  (CHOOSE x \in K : Cardinality({y \in K : Earlier(y, x)}) = i - 1) \in K
  BY <1>2
<1> QED
  BY <1>3 DEF Sorted

PageFields ==
  {"pc", "words", "limit", "cursor", "now", "ranking", "relaxed", "weights", "waits", "keyword",
   "near", "order", "after", "rows", "kept", "answer"}
Types ==
  /\ DOMAIN page = PageFields
  /\ docs \in [Docs -> Version]
  /\ clock \in Nat
  /\ page.words \in BOOLEAN /\ page.relaxed \in BOOLEAN /\ page.now \in Nat

\* What the words of a document weigh is a number.
LEMMA UnitsType ==
  ASSUME NEW v \in Version, NEW weights
  PROVE  Cardinality({unit \in v.words \X (1 .. Cardinality(Docs) + 1) :
                        unit[2] <= weights[unit[1]]}) \in Nat
<1> DEFINE all == v.words \X (1 .. Cardinality(Docs) + 1)
           units == {unit \in all : unit[2] <= weights[unit[1]]}
<1>1. IsFiniteSet(v.words)
  BY PagingAssumption, FS_Subset DEF Version
<1>2. IsFiniteSet(1 .. Cardinality(Docs) + 1)
  BY PagingAssumption, FS_CardinalityType, FS_Interval
<1>3. IsFiniteSet(all)
  BY <1>1, <1>2, FS_Product
<1>4. units \in SUBSET all
  OBVIOUS
<1>5. Cardinality(units) \in Nat
  <2> HIDE DEF units, all
  <2> QED
    BY <1>3, <1>4, FS_Subset, FS_CardinalityType
<1> QED
  BY <1>5

\* A document's key is one.
LEMMA SortKeyType ==
  ASSUME Types, NEW d \in Docs
  PROVE  SortKey(d) \in SortKeys /\ SortKey(d).rid = d
<1>1. docs[d] \in Version /\ d \in Nat
  BY PagingAssumption DEF Types
<1>2. Coverage(docs[d]) \in Nat
  BY <1>1, UnitsType DEF Coverage
<1>3. docs[d].tier \in Nat /\ docs[d].place \in Nat
  BY <1>1 DEF Version
<1>4. docs[d].place + (IF docs[d].fades THEN page.now ELSE 0) \in Nat
  BY <1>3 DEF Types
<1> QED
  BY <1>1, <1>2, <1>3, <1>4 DEF SortKey, SortKeys

\* A keyset page's list holds keys after the cursor's.
LEMMA RankedAfter ==
  ASSUME Types, NEW cursor
  PROVE  \E n \in Nat : \E K :
           /\ n <= Cardinality(Docs) /\ Ranked(cursor) \in [1 .. n -> K]
           /\ \A k \in K : k \in SortKeys /\ k.rid \in Docs /\ After(k, cursor)
<1> DEFINE key == [d \in Matching |-> SortKey(d)]
           found == {d \in Matching : page.words =>
                       \A e \in Matching \ {d} : Title[e] = Title[d] => Earlier(key[d], key[e])}
           K == {k \in {key[d] : d \in found} : After(k, cursor)}
           rid == [k \in K |-> k.rid]
<1>1. Matching \subseteq Docs
  BY DEF Matching
<1>2. \A k \in K : k \in SortKeys /\ After(k, cursor) /\ k.rid \in Docs /\ k = SortKey(k.rid)
  <2>1. ASSUME NEW k \in K PROVE \E d \in Matching : k = SortKey(d) /\ After(k, cursor)
    OBVIOUS
  <2> HIDE DEF K
  <2> QED
    BY <1>1, <2>1, SortKeyType
<1>3. IsFiniteSet(K) /\ Cardinality(K) <= Cardinality(Docs)
  <2> HIDE DEF K
  <2>1. rid \in Injection(K, Docs)
    <3>1. rid \in [K -> Docs]
      BY <1>2
    <3>2. \A a, b \in K : rid[a] = rid[b] => a = b
      BY <1>2
    <3> HIDE DEF rid
    <3> QED
      BY <3>1, <3>2 DEF Injection, IsInjective
  <2> HIDE DEF rid
  <2> QED
    BY <2>1, PagingAssumption, FS_Injection
<1>4. Ranked(cursor) = Sorted(K, Earlier)
  BY DEF Ranked
<1> HIDE DEF K
<1>5. K \in SUBSET SortKeys
  BY <1>2
<1>6. Cardinality(K) \in Nat /\ Sorted(K, Earlier) \in [1 .. Cardinality(K) -> K]
  BY <1>3, <1>5, SortedKeys, FS_CardinalityType
<1> QED
  BY <1>2, <1>3, <1>4, <1>6

-----------------------------------------------------------------------------
(* Lists of candidates. *)

IsList(s) == \E n \in Nat : s \in [1 .. n -> Range(s)]

\* A list has a length, and what is in it is finite.
LEMMA ListHasLength ==
  ASSUME NEW s, IsList(s)
  PROVE  Len(s) \in Nat /\ DOMAIN s = 1 .. Len(s) /\ IsFiniteSet(Range(s))
<1>1. PICK n \in Nat : s \in [1 .. n -> Range(s)]
  BY DEF IsList
<1>2. Len(s) = n /\ DOMAIN s = 1 .. n
  BY <1>1
<1>3. IsFiniteSet(1 .. n)
  BY <1>1, FS_Interval
<1>4. s \in Surjection(1 .. n, Range(s))
  BY <1>1 DEF Surjection, Range
<1> QED
  BY <1>2, <1>3, <1>4, FS_Surjection

\* What begins a list is one.
LEMMA FirstIsList ==
  ASSUME NEW s, IsList(s), NEW n \in Nat
  PROVE  IsList(First(n, s))
<1> DEFINE m == Smaller(n, Len(s))
<1>1. m \in Nat /\ Len(s) \in Nat /\ m <= Len(s)
  BY ListHasLength DEF Smaller
<1>2. \A i \in 1 .. m : s[i] \in Range(s)
  BY <1>1, ListHasLength DEF Range
<1> HIDE DEF m
<1>3. /\ SubSeq(s, 1, m) \in Seq(Range(s))
      /\ Len(SubSeq(s, 1, m)) \in Nat
  BY <1>1, <1>2, SubSeqProperties
<1> DEFINE t == SubSeq(s, 1, m)
<1>4. Len(t) \in Nat /\ t \in [1 .. Len(t) -> Range(s)]
  <2>1. t \in Seq(Range(s))
    BY <1>3
  <2> HIDE DEF t
  <2> QED
    BY <2>1, LenProperties
<1>5. First(n, s) = t
  BY DEF First, m
<1> HIDE DEF t
<1> QED
  BY <1>4, <1>5 DEF IsList, Range

\* So are the rids of a list of keys,
LEMMA RidsIsList ==
  ASSUME NEW keys, IsList(keys) PROVE IsList(Rids(keys))
<1>1. PICK n \in Nat : DOMAIN keys = 1 .. n
  BY DEF IsList
<1> QED
  BY <1>1 DEF Rids, IsList, Range

\* the engine's answer, and as much of it as is wanted;
LEMMA RankedIsList ==
  ASSUME Types, NEW cursor, NEW n \in Nat
  PROVE  IsList(Ranked(cursor)) /\ IsList(Rids(First(n, Ranked(cursor))))
<1>1. IsList(Ranked(cursor))
  BY RankedAfter DEF IsList, Range
<1> QED
  BY <1>1, FirstIsList, RidsIsList

\* the nearest documents,
LEMMA NearestIsList == IsList(Nearest)
<1> DEFINE S == {d \in Docs : docs[d].seen = "everyone" /\ docs[d].near > 0}
           Nearer(d, e) == docs[d].near < docs[e].near \/ (docs[d].near = docs[e].near /\ d < e)
           sorted == Sorted(S, Nearer)
<1>1. Cardinality(S) \in Nat
  BY PagingAssumption, FS_Subset, FS_CardinalityType
<1>2. sorted \in [1 .. Cardinality(S) -> Range(sorted)]
  <2> HIDE DEF S, Nearer
  <2> QED
    BY Zenon DEF Sorted, Range
<1>3. Nearest = First(Candidates, sorted)
  BY DEF Nearest
<1> HIDE DEF S, sorted
<1>4. IsList(sorted)
  BY <1>1, <1>2 DEF IsList
<1> QED
  BY <1>3, <1>4, FirstIsList, PagingAssumption

\* what two lists are fused to,
LEMMA FusedIsList ==
  ASSUME NEW keyword, NEW near, IsList(keyword), IsList(near)
  PROVE  IsList(Fused(keyword, near))
<1> DEFINE rids == Range(keyword) \cup Range(near)
<1>1. Cardinality(rids) \in Nat
  BY ListHasLength, FS_Union, FS_CardinalityType
<1>2. Fused(keyword, near) \in [1 .. Cardinality(rids) -> Range(Fused(keyword, near))]
  BY Zenon DEF Fused, Sorted, Range
<1> HIDE DEF rids
<1> QED
  BY <1>1, <1>2 DEF IsList

\* and a list put into another order.
LEMMA RankOrderIsList ==
  ASSUME NEW list, IsList(list) PROVE IsList(RankOrder(list))
<1>1. PICK n \in Nat : DOMAIN list = 1 .. n
  BY DEF IsList
<1>2. RankOrder(list) \in [DOMAIN list -> Range(RankOrder(list))]
  BY Zenon DEF RankOrder, Range
<1> QED
  BY <1>1, <1>2 DEF IsList

-----------------------------------------------------------------------------
(* The invariant. *)

\* The kind of cursor a ranking gives and takes.
KindOf(ranking) == IF ranking = "hybrid" THEN "f" ELSE IF page.words THEN "r" ELSE "t"

\* A cursor the service has given belongs to the query, relaxed or not.
CursorOk(c) ==
  /\ c.k \in {"none", KindOf("hybrid"), KindOf("keyword")}
  /\ c.offset \in Nat /\ c.now \in Nat /\ c.x \in BOOLEAN
  /\ c.h = c.x
  /\ c.x => Relaxable

Found == page.pc \in {"read", "ordered", "composed"}
UnderWay == Found \/ page.pc \in {"weigh", "search"}

Cursors ==
  /\ CursorOk(page.cursor) /\ CursorOk(page.kept.next)
  /\ page.pc = "composed" => CursorOk(page.answer.next)
  /\ page.relaxed => Relaxable
Lists == IsList(page.keyword) /\ IsList(page.near) /\ IsList(page.order)
\* A page under way was asked for with a cursor of its own ranking.
Accepted ==
  /\ page.pc = "ask" \/ UnderWay => page.limit \in Limits
  /\ UnderWay =>
       /\ page.ranking \in {"hybrid", "keyword"}
       /\ page.cursor.k \in {"none", KindOf(page.ranking)}
\* What it has found to go on with lies after that cursor,
FoundAfter ==
  Found /\ page.ranking = "keyword" /\ page.cursor.k # "none" /\ page.after # NoKey =>
    Earlier(page.cursor.key, page.after)
\* and so does the cursor it ends with.
EndsAfter(c) ==
  page.cursor.k # "none" /\ c.k # "none" =>
    /\ c.k = page.cursor.k
    /\ IF c.k = "f" THEN c.offset > page.cursor.offset ELSE Earlier(page.cursor.key, c.key)
PageInv ==
  /\ Types /\ Cursors /\ Lists /\ Accepted /\ FoundAfter
  /\ page.pc = "composed" => EndsAfter(page.answer.next)
  /\ RefusedOnSwitchOnly

-----------------------------------------------------------------------------
\* No cursor, and no page, are what they should be.
LEMMA NoCursorOk == CursorOk(NoCursor) /\ NoCursor.k = "none"
BY DEF CursorOk, NoCursor

LEMMA NoPageShape ==
  /\ DOMAIN NoPage = PageFields
  /\ NoPage.cursor = NoCursor /\ NoPage.kept = NoAnswer /\ NoPage.now = 0
  /\ NoPage.relaxed \in BOOLEAN /\ ~NoPage.relaxed /\ NoPage.words \in BOOLEAN /\ NoPage.pc = "idle"
  /\ IsList(NoPage.keyword) /\ IsList(NoPage.near) /\ IsList(NoPage.order)
<1> DEFINE nothing == <<>>
<1>1. IsList(nothing)
  <2>1. nothing \in [1 .. 0 -> Range(nothing)]
    BY DEF Range
  <2> HIDE DEF nothing
  <2> QED
    BY <2>1 DEF IsList
<1>2. NoPage.keyword = nothing /\ NoPage.near = nothing /\ NoPage.order = nothing
  BY DEF NoPage
<1>3. /\ DOMAIN NoPage = PageFields
      /\ NoPage.cursor = NoCursor /\ NoPage.kept = NoAnswer /\ NoPage.now = 0
      /\ NoPage.relaxed \in BOOLEAN /\ ~NoPage.relaxed /\ NoPage.words \in BOOLEAN
      /\ NoPage.pc = "idle"
  BY DEF NoPage, PageFields
<1> HIDE DEF nothing
<1> QED
  BY <1>1, <1>2, <1>3

\* The cursor a page ends with, if it has one, is such a cursor.
LEMMA CursorIsOk ==
  ASSUME Types, Cursors, NEW ranking \in {"hybrid", "keyword"}, NEW key, NEW offset \in Nat
  PROVE  CursorOk(Cursor(KindOf(ranking), key, offset))
BY DEF Types, Cursors, Cursor, CursorOk, KindOf, CursorX, CursorNow

\* A page of the fused list stops at its end or after its beginning.
LEMMA StopsLater ==
  ASSUME Lists, NEW from \in Nat
  PROVE  /\ Stop(from) \in Nat /\ Len(page.order) \in Nat
         /\ Stop(from) < Len(page.order) => Stop(from) > from
<1> DEFINE shows == {i \in from + 1 .. Len(page.order) : Shows(i, from)}
           last == {i \in shows : Cardinality({j \in shows : j <= i}) = page.limit}
<1>1. Len(page.order) \in Nat
  BY ListHasLength DEF Lists
<1>2. \A i \in last : i \in Nat /\ i > from
  <2>1. \A i \in last : i \in from + 1 .. Len(page.order)
    OBVIOUS
  <2> HIDE DEF last
  <2> QED
    BY <1>1, <2>1
<1>3. Stop(from) = IF last = {} THEN Len(page.order) ELSE CHOOSE i \in last : TRUE
  BY DEF Stop
<1> HIDE DEF last
<1> QED
  BY <1>1, <1>2, <1>3

\* The cursor of the next page, of either ranking.
LEMMA NextCursor ==
  ASSUME PageInv, page.pc = "ordered"
  PROVE  LET answer == IF page.ranking = "hybrid" THEN HybridPage ELSE KeysetPage
         IN CursorOk(answer.next) /\ EndsAfter(answer.next)
<1> DEFINE from == page.cursor.offset
<1>1. from \in Nat /\ page.ranking \in {"hybrid", "keyword"} /\ Found /\ Lists
  BY DEF PageInv, Cursors, CursorOk, Accepted, UnderWay, Found
<1>2. CASE page.ranking = "hybrid"
  <2>1. HybridPage.next =
          IF Stop(from) < Len(page.order) THEN Cursor("f", NoKey, Stop(from)) ELSE NoCursor
    BY DEF HybridPage
  <2>2. /\ Stop(from) \in Nat
        /\ Stop(from) < Len(page.order) => Stop(from) > from
    <3> HIDE DEF from
    <3> QED
      BY <1>1, StopsLater
  <2>3. CursorOk(Cursor("f", NoKey, Stop(from)))
    BY <1>1, <2>2, CursorIsOk DEF PageInv, KindOf
  <2>4. page.cursor.k \in {"none", "f"}
    BY <1>1, <1>2 DEF PageInv, Accepted, UnderWay, KindOf
  <2>5. /\ Cursor("f", NoKey, Stop(from)).k = "f"
        /\ Cursor("f", NoKey, Stop(from)).offset = Stop(from)
    BY DEF Cursor
  <2> HIDE DEF from
  <2>6. EndsAfter(HybridPage.next)
    BY <2>1, <2>2, <2>4, <2>5, NoCursorOk DEF EndsAfter, from
  <2> QED
    BY <1>2, <2>1, <2>3, <2>6, NoCursorOk
<1>3. CASE page.ranking = "keyword"
  <2> DEFINE c == Cursor(KindOf("keyword"), page.after, 0)
  <2>1. KeysetPage.next = IF page.after = NoKey THEN NoCursor ELSE c
    BY DEF KeysetPage, KindOf
  <2>2. CursorOk(c)
    BY CursorIsOk DEF PageInv
  <2>3. c.k = KindOf("keyword") /\ c.key = page.after
    BY DEF Cursor
  <2>4. page.cursor.k \in {"none", KindOf("keyword")} /\ KindOf("keyword") # "f"
    BY <1>1, <1>3 DEF PageInv, Accepted, UnderWay, KindOf
  <2>5. page.cursor.k # "none" /\ page.after # NoKey => Earlier(page.cursor.key, page.after)
    BY <1>1, <1>3 DEF PageInv, FoundAfter
  <2> HIDE DEF c
  <2>6. EndsAfter(KeysetPage.next)
    BY <2>1, <2>3, <2>4, <2>5, NoCursorOk DEF EndsAfter
  <2> QED
    BY <1>3, <2>1, <2>2, <2>6, NoCursorOk
<1> QED
  BY <1>1, <1>2, <1>3

-----------------------------------------------------------------------------
\* What depends on the query stays while the query does.
LEMMA SameQuery ==
  ASSUME page'.words = page.words
  PROVE  /\ \A ranking : KindOf(ranking)' = KindOf(ranking)
         /\ \A a, b : Earlier(a, b)' <=> Earlier(a, b)
         /\ \A c : CursorOk(c) => CursorOk(c)'
BY DEF KindOf, Earlier, CursorOk

\* A step of the same request, with its cursor and its ranking.
SameRequest ==
  /\ DOMAIN page' = PageFields
  /\ page'.words = page.words /\ page'.limit = page.limit /\ page'.cursor = page.cursor
  /\ page'.now = page.now /\ page'.ranking = page.ranking /\ page'.relaxed = page.relaxed
  /\ page'.kept = page.kept
  /\ docs' = docs /\ clock' = clock
  /\ page'.pc = "composed" => page.pc = "ordered"
  /\ UnderWay /\ UnderWay'

LEMMA RequestGoesOn ==
  ASSUME PageInv, SameRequest, Lists', FoundAfter',
         page'.pc = "composed" => CursorOk(page'.answer.next) /\ EndsAfter(page'.answer.next)
  PROVE  PageInv'
<1> USE SameQuery DEF PageInv, SameRequest
<1>1. Types'
  BY DEF Types
<1>2. Cursors'
  BY DEF Cursors
<1>3. Accepted'
  BY DEF Accepted
<1>4. (page.pc = "composed" => EndsAfter(page.answer.next))'
  BY DEF EndsAfter
<1>5. RefusedOnSwitchOnly'
  <2>1. page'.pc # "refused"
    BY DEF UnderWay, Found
  <2> QED
    BY <2>1 DEF RefusedOnSwitchOnly
<1> QED
  BY <1>1, <1>2, <1>3, <1>4, <1>5

\* The engine's page begins after the cursor's key.
LEMMA SearchStep ==
  ASSUME PageInv, Search PROVE PageInv'
<1> DEFINE ranked == Ranked(page.cursor)
<1>1. /\ page.limit \in Nat \ {0} /\ Lists /\ Types
  BY PagingAssumption DEF PageInv, Accepted, UnderWay, Search
<1>2. /\ SameRequest
      /\ page'.keyword = page.keyword /\ page'.near = page.near
      /\ page'.order = Rids(First(page.limit, ranked))
      /\ page'.after = IF Len(ranked) > page.limit THEN ranked[page.limit] ELSE NoKey
      /\ page'.pc = "read"
  BY <1>1 DEF Search, SameRequest, UnderWay, Found, Types, PageFields
<1>3. Lists'
  BY <1>1, <1>2, RankedIsList DEF Lists
<1>4. PICK n \in Nat : \E K : /\ ranked \in [1 .. n -> K]
                             /\ \A k \in K : k \in SortKeys /\ After(k, page.cursor)
  BY <1>1, RankedAfter
<1>5. PICK K : /\ ranked \in [1 .. n -> K]
               /\ \A k \in K : k \in SortKeys /\ After(k, page.cursor)
  BY <1>4
<1> HIDE DEF ranked
<1>6. Len(ranked) > page.limit => ranked[page.limit] \in K
  <2>1. Len(ranked) = n
    BY <1>5
  <2> QED
    BY <1>1, <1>5, <2>1
<1>7. page.cursor.k # "none" /\ page'.after # NoKey => Earlier(page.cursor.key, page'.after)
  BY <1>2, <1>5, <1>6 DEF After
<1>8. FoundAfter'
  BY <1>2, <1>7, SameQuery DEF FoundAfter, SameRequest
<1> QED
  BY <1>2, <1>3, <1>8, RequestGoesOn

\* An answer ends its page and gives a cursor it has checked.
LEMMA AnswerStep ==
  ASSUME PageInv, Answer PROVE PageInv'
<1> DEFINE exact == /\ page.relaxed /\ page.cursor.k = "none"
                    /\ Cardinality(page.answer.results) <= Cardinality(page.kept.results)
           out == IF exact THEN page.kept ELSE page.answer
<1>1. /\ page.pc = "composed" /\ docs' = docs /\ clock' = clock
      /\ page' = [NoPage EXCEPT !.pc = IF out.next.k = "none" THEN "done" ELSE "ask",
                               !.words = page.words, !.limit = page.limit,
                               !.ranking = page.ranking, !.now = page.now,
                               !.relaxed = page.relaxed /\ ~exact, !.weights = page.weights,
                               !.cursor = out.next]
  BY DEF Answer
<1>2. (page.relaxed /\ ~exact) \in BOOLEAN /\ (page.relaxed /\ ~exact => page.relaxed)
  BY DEF PageInv, Types
<1>3. CursorOk(out.next)
  BY <1>1 DEF PageInv, Cursors
<1> HIDE DEF exact, out
<1>4. /\ DOMAIN page' = PageFields
      /\ page'.words = page.words /\ page'.limit = page.limit /\ page'.now = page.now
      /\ page'.relaxed = (page.relaxed /\ ~exact) /\ page'.cursor = out.next
      /\ page'.pc = IF out.next.k = "none" THEN "done" ELSE "ask"
      /\ page'.kept = NoAnswer
      /\ page'.keyword = NoPage.keyword /\ page'.near = NoPage.near /\ page'.order = NoPage.order
  BY <1>1, NoPageShape DEF PageFields
<1>5. NoAnswer.next = NoCursor
  BY DEF NoAnswer
<1>6. Types' /\ Cursors' /\ Lists'
  BY <1>1, <1>2, <1>3, <1>4, <1>5, SameQuery, NoCursorOk, NoPageShape
  DEF PageInv, Types, Cursors, Lists
<1>7. Accepted' /\ FoundAfter' /\ RefusedOnSwitchOnly'
  BY <1>1, <1>4 DEF PageInv, Accepted, FoundAfter, RefusedOnSwitchOnly, UnderWay, Found
<1> QED
  BY <1>4, <1>6, <1>7 DEF PageInv

\* A page is asked for: a cursor of the other ranking is refused, and no other.
LEMMA AskStep ==
  ASSUME PageInv, NEW ranking \in {"hybrid", "keyword"}, Ask(ranking) PROVE PageInv'
<1> DEFINE cursor == page.cursor
           relaxed == Relaxable /\ cursor.x
           kind == IF ranking = "hybrid" THEN "f" ELSE IF page.words THEN "r" ELSE "t"
<1>1. /\ page.pc = "ask" /\ docs' = docs /\ clock' = clock
      /\ page' = IF cursor.k # "none" /\ (cursor.h # relaxed \/ cursor.k # kind)
                THEN [page EXCEPT !.pc = "refused", !.ranking = ranking]
                ELSE [NoPage EXCEPT !.pc = IF relaxed THEN "weigh" ELSE "search",
                                    !.words = page.words, !.limit = page.limit, !.cursor = cursor,
                                    !.ranking = ranking, !.relaxed = relaxed,
                                    !.now = IF cursor.k = "none" THEN clock ELSE cursor.now]
  BY DEF Ask
<1>2. kind = KindOf(ranking)
  BY DEF KindOf
<1>3. CursorOk(cursor) /\ relaxed = cursor.x
  BY Zenon DEF PageInv, Cursors, CursorOk
<1>4. /\ cursor.k \in {"none", KindOf("hybrid"), KindOf("keyword")}
      /\ cursor.h = relaxed /\ relaxed \in BOOLEAN /\ (relaxed => Relaxable)
      /\ (IF cursor.k = "none" THEN clock ELSE cursor.now) \in Nat
      /\ page.limit \in Limits
  BY <1>1, <1>3 DEF CursorOk, PageInv, Types, Accepted
<1> HIDE DEF cursor, relaxed, kind
<1>5. CASE cursor.k # "none" /\ cursor.k # kind
  <2>1. page' = [page EXCEPT !.pc = "refused", !.ranking = ranking]
    BY <1>1, <1>5
  <2>2. /\ DOMAIN page' = PageFields /\ page'.pc = "refused" /\ page'.ranking = ranking
        /\ page'.words = page.words /\ page'.cursor = cursor /\ page'.now = page.now
        /\ page'.relaxed = page.relaxed /\ page'.kept = page.kept
        /\ page'.keyword = page.keyword /\ page'.near = page.near /\ page'.order = page.order
    BY <2>1 DEF PageInv, Types, PageFields, cursor
  <2>3. Types' /\ Cursors' /\ Lists'
    BY <1>1, <2>2, SameQuery DEF PageInv, Types, Cursors, Lists, cursor
  <2>4. (ranking = "hybrid") # (cursor.k = "f")
    BY <1>2, <1>4, <1>5 DEF KindOf
  <2>5. RefusedOnSwitchOnly'
    BY <2>2, <2>4, Zenon DEF RefusedOnSwitchOnly
  <2> QED
    BY <2>2, <2>3, <2>5 DEF PageInv, Accepted, FoundAfter, UnderWay, Found
<1>6. CASE cursor.k = "none" \/ cursor.k = kind
  <2> DEFINE now == IF cursor.k = "none" THEN clock ELSE cursor.now
  <2>1. page' = [NoPage EXCEPT !.pc = IF relaxed THEN "weigh" ELSE "search",
                                    !.words = page.words, !.limit = page.limit, !.cursor = cursor,
                                    !.ranking = ranking, !.relaxed = relaxed, !.now = now]
    BY <1>1, <1>4, <1>6
  <2>2. now \in Nat
    BY <1>4
  <2> HIDE DEF now
  <2>3. /\ DOMAIN page' = PageFields /\ page'.pc \in {"weigh", "search"}
        /\ page'.ranking = ranking /\ page'.limit = page.limit
        /\ page'.words = page.words /\ page'.cursor = cursor /\ page'.now = now
        /\ page'.relaxed = relaxed /\ page'.kept = NoAnswer
        /\ page'.keyword = NoPage.keyword /\ page'.near = NoPage.near /\ page'.order = NoPage.order
    BY <2>1, NoPageShape DEF PageFields
  <2>4. NoAnswer.next = NoCursor
    BY DEF NoAnswer
  <2>5. Types' /\ Cursors' /\ Lists'
    BY <1>1, <1>3, <1>4, <2>2, <2>3, <2>4, SameQuery, NoCursorOk, NoPageShape
    DEF PageInv, Types, Cursors, Lists
  <2>6. Accepted'
    BY <1>2, <1>4, <1>6, <2>3, SameQuery DEF Accepted
  <2> QED
    BY <2>3, <2>5, <2>6 DEF PageInv, FoundAfter, RefusedOnSwitchOnly, Found
<1> QED
  BY <1>5, <1>6

\* The query of any word begins with no cursor, and keeps the page it may have to give.
LEMMA RelaxStep ==
  ASSUME PageInv, Relax PROVE PageInv'
<1>1. /\ page.pc = "composed" /\ page.words /\ Relaxable /\ docs' = docs /\ clock' = clock
      /\ page' = [NoPage EXCEPT !.pc = "weigh", !.words = TRUE, !.limit = page.limit,
                            !.ranking = page.ranking, !.now = page.now, !.relaxed = TRUE,
                            !.kept = page.answer]
  BY DEF Relax, TooFew
<1>2. /\ DOMAIN page' = PageFields /\ page'.pc = "weigh" /\ page'.words = TRUE
      /\ page'.limit = page.limit /\ page'.ranking = page.ranking /\ page'.now = page.now
      /\ page'.relaxed = TRUE /\ page'.kept = page.answer /\ page'.cursor = NoCursor
      /\ page'.keyword = NoPage.keyword /\ page'.near = NoPage.near /\ page'.order = NoPage.order
  BY <1>1, NoPageShape DEF PageFields
<1>3. page'.words = page.words
  BY <1>1, <1>2 DEF PageInv, Types
<1>4. Types' /\ Cursors' /\ Lists'
  BY <1>1, <1>2, <1>3, SameQuery, NoCursorOk, NoPageShape DEF PageInv, Types, Cursors, Lists
<1>5. Accepted'
  BY <1>1, <1>2, <1>3, SameQuery, NoCursorOk DEF PageInv, Accepted, UnderWay, Found
<1> QED
  BY <1>2, <1>4, <1>5 DEF PageInv, FoundAfter, RefusedOnSwitchOnly, Found

\* The steps that leave the cursor, the list and the key to go on from alone.
LEMMA WorkStep ==
  ASSUME PageInv, SameRequest, page'.order = page.order, page'.after = page.after,
         IsList(page'.keyword), IsList(page'.near),
         (page.pc \in {"weigh", "search"} /\ page'.pc = "search") \/ (Found /\ page'.pc = "read")
  PROVE  PageInv'
<1>1. Lists'
  BY DEF PageInv, Lists
<1>2. FoundAfter'
  BY SameQuery DEF PageInv, FoundAfter, SameRequest, Found
<1>3. page'.pc # "composed"
  OBVIOUS
<1> QED
  BY <1>1, <1>2, <1>3, RequestGoesOn

LEMMA PageInvariant == Spec => []PageInv
<1>1. Init => PageInv
  <2> SUFFICES ASSUME Init PROVE PageInv
    OBVIOUS
  <2>1. page = NoPage /\ docs \in [Docs -> Version] /\ clock \in Nat
    BY PagingAssumption DEF Init
  <2>2. NoAnswer.next = NoCursor
    BY DEF NoAnswer
  <2>3. Types
    BY <2>1, NoPageShape DEF Types
  <2>4. Cursors
    BY <2>1, <2>2, NoCursorOk, NoPageShape DEF Cursors
  <2>5. Lists
    BY <2>1, NoPageShape DEF Lists
  <2> QED
    BY <2>1, <2>3, <2>4, <2>5, NoPageShape
    DEF PageInv, Accepted, FoundAfter, RefusedOnSwitchOnly, UnderWay, Found
<1>2. PageInv /\ [Next]_vars => PageInv'
  <2> SUFFICES ASSUME PageInv, [Next]_vars PROVE PageInv'
    OBVIOUS
  <2>1. ASSUME NEW words \in BOOLEAN, NEW limit \in Limits, Start(words, limit) PROVE PageInv'
    <3>1. /\ page' = [NoPage EXCEPT !.pc = "ask", !.words = words, !.limit = limit]
          /\ docs' = docs /\ clock' = clock
      BY <2>1 DEF Start
    <3>2. /\ DOMAIN page' = PageFields /\ page'.pc = "ask" /\ page'.words = words
          /\ page'.limit = limit /\ page'.cursor = NoCursor /\ page'.kept = NoAnswer
          /\ page'.now = 0 /\ page'.relaxed = NoPage.relaxed
          /\ page'.keyword = NoPage.keyword /\ page'.near = NoPage.near
          /\ page'.order = NoPage.order
      BY <3>1, NoPageShape DEF PageFields
    <3>3. NoAnswer.next = NoCursor
      BY DEF NoAnswer
    <3>4. \A c : c = NoCursor => CursorOk(c)'
      BY DEF CursorOk, NoCursor
    <3>5. Types' /\ Cursors' /\ Lists'
      BY <3>1, <3>2, <3>3, <3>4, NoPageShape DEF PageInv, Types, Cursors, Lists
    <3> QED
      BY <3>2, <3>5 DEF PageInv, Accepted, FoundAfter, RefusedOnSwitchOnly, UnderWay, Found
  <2>2. ASSUME Weigh PROVE PageInv'
    <3>1. /\ SameRequest /\ page'.order = page.order /\ page'.after = page.after
          /\ page'.keyword = page.keyword /\ page'.near = page.near
          /\ page.pc = "weigh" /\ page'.pc = "search"
      BY <2>2 DEF Weigh, PageInv, Types, PageFields, SameRequest, UnderWay
    <3> QED
      BY <3>1, WorkStep DEF PageInv, Lists
  <2>3. ASSUME KeywordList PROVE PageInv'
    <3>1. /\ SameRequest /\ page'.order = page.order /\ page'.after = page.after
          /\ page'.keyword = Rids(First(Candidates, Ranked(NoCursor))) /\ page'.near = page.near
          /\ page.pc = "search" /\ page'.pc = "search"
      BY <2>3 DEF KeywordList, PageInv, Types, PageFields, SameRequest, UnderWay
    <3>2. IsList(page'.keyword)
      BY <3>1, RankedIsList, PagingAssumption DEF PageInv
    <3> QED
      BY <3>1, <3>2, WorkStep DEF PageInv, Lists
  <2>4. ASSUME NearList PROVE PageInv'
    <3>1. /\ SameRequest /\ page'.order = page.order /\ page'.after = page.after
          /\ page'.keyword = page.keyword /\ page'.near = Nearest
          /\ page.pc = "search" /\ page'.pc = "search"
      BY <2>4 DEF NearList, PageInv, Types, PageFields, SameRequest, UnderWay
    <3> QED
      BY <3>1, NearestIsList, WorkStep DEF PageInv, Lists
  <2>5. ASSUME Fuse PROVE PageInv'
    <3>1. /\ SameRequest /\ page'.order = Fused(page.keyword, page.near)
          /\ page'.keyword = page.keyword /\ page'.near = page.near
          /\ page.ranking = "hybrid" /\ page'.pc = "read"
      BY <2>5 DEF Fuse, PageInv, Types, PageFields, SameRequest, UnderWay, Found
    <3>2. Lists'
      BY <3>1, FusedIsList DEF PageInv, Lists
    <3>3. FoundAfter'
      BY <3>1 DEF FoundAfter, SameRequest
    <3> QED
      BY <3>1, <3>2, <3>3, RequestGoesOn
  <2>6. ASSUME ReadRow PROVE PageInv'
    <3>1. /\ SameRequest /\ page'.order = page.order /\ page'.after = page.after
          /\ page'.keyword = page.keyword /\ page'.near = page.near
          /\ Found /\ page'.pc = "read"
      BY <2>6 DEF ReadRow, PageInv, Types, PageFields, SameRequest, UnderWay, Found
    <3> QED
      BY <3>1, WorkStep DEF PageInv, Lists
  <2>7. ASSUME Order PROVE PageInv'
    <3>1. /\ SameRequest
          /\ page'.order = IF page.ranking = "hybrid" THEN RankOrder(page.order) ELSE page.order
          /\ page'.keyword = page.keyword /\ page'.near = page.near /\ page'.after = page.after
          /\ Found /\ page'.pc = "ordered"
      BY <2>7 DEF Order, PageInv, Types, PageFields, SameRequest, UnderWay, Found
    <3>2. Lists'
      BY <3>1, RankOrderIsList DEF PageInv, Lists
    <3>3. FoundAfter'
      BY <3>1, SameQuery DEF PageInv, FoundAfter, SameRequest
    <3> QED
      BY <3>1, <3>2, <3>3, RequestGoesOn
  <2>8. ASSUME Compose PROVE PageInv'
    <3> DEFINE answer == IF page.ranking = "hybrid" THEN HybridPage ELSE KeysetPage
    <3>1. /\ SameRequest /\ page'.order = page.order /\ page'.after = page.after
          /\ page'.keyword = page.keyword /\ page'.near = page.near /\ page'.answer = answer
          /\ Found /\ page.pc = "ordered" /\ page'.pc = "composed"
      BY <2>8 DEF Compose, PageInv, Types, PageFields, SameRequest, UnderWay, Found
    <3>2. CursorOk(answer.next) /\ EndsAfter(answer.next)
      BY <3>1, NextCursor
    <3> HIDE DEF answer
    <3>3. Lists'
      BY <3>1 DEF PageInv, Lists
    <3>4. FoundAfter'
      BY <3>1, SameQuery DEF PageInv, FoundAfter, SameRequest
    <3> QED
      BY <3>1, <3>2, <3>3, <3>4, RequestGoesOn
  <2>9. ASSUME UNCHANGED page, docs' \in [Docs -> Version], clock' \in Nat PROVE PageInv'
    BY <2>9, SameQuery
    DEF PageInv, Types, Cursors, Lists, Accepted, FoundAfter, EndsAfter, RefusedOnSwitchOnly,
        UnderWay, Found
  <2>10. ASSUME NEW d \in Docs, NEW v \in Versions, Change(d, v) PROVE PageInv'
    BY <2>9, <2>10, PagingAssumption DEF Change, PageInv, Types
  <2>11. ASSUME Pass PROVE PageInv'
    BY <2>9, <2>11 DEF Pass, PageInv, Types
  <2>12. CASE UNCHANGED vars
    BY <2>9, <2>12 DEF vars, PageInv, Types
  <2> QED
    BY <2>1, <2>2, <2>3, <2>4, <2>5, <2>6, <2>7, <2>8, <2>10, <2>11, <2>12,
       SearchStep, AnswerStep, AskStep, RelaxStep DEF Next, Serve
<1> QED
  BY <1>1, <1>2, PTL DEF Spec

-----------------------------------------------------------------------------
\* A cursor the service has given is refused only because the embedding service has come or
\* gone since (server/api/query.js run and hybridCandidates).
THEOREM RefusedOnlyOnSwitch == Spec => []RefusedOnSwitchOnly
<1>1. PageInv => RefusedOnSwitchOnly
  BY DEF PageInv
<1> QED
  BY <1>1, PageInvariant, PTL

\* A page's cursor lies after the one it was asked with: a later place in the fused list, or a
\* key behind the last one (server/api/query.js matchedPage, engine/pg.js search and browse).
THEOREM CursorsAdvance == Spec => CursorAdvances
<1>1. PageInv /\ [Next]_vars =>
        [LET before == page.cursor  after == page'.cursor
         IN page.pc = "composed" /\ page'.pc = "ask" /\ before.k # "none" =>
              /\ after.k = before.k
              /\ IF after.k = "f" THEN after.offset > before.offset
                 ELSE Earlier(before.key, after.key)]_vars
  <2> SUFFICES ASSUME PageInv, [Next]_vars,
                      page.pc = "composed", page'.pc = "ask", page.cursor.k # "none"
               PROVE  /\ page'.cursor.k = page.cursor.k
                      /\ IF page'.cursor.k = "f" THEN page'.cursor.offset > page.cursor.offset
                         ELSE Earlier(page.cursor.key, page'.cursor.key)
    OBVIOUS
  <2>1. Answer
    <3>1. ~Relax
      BY NoPageShape DEF Relax, PageFields
    <3> QED
      BY <3>1 DEF Next, Serve, Start, Ask, Weigh, Search, KeywordList, NearList, Fuse, ReadRow,
                  Order, Compose, Change, Pass, vars
  <2>2. /\ page'.cursor = page.answer.next
        /\ page'.cursor.k # "none"
    <3> DEFINE n == page.answer.next
    <3>1. /\ page'.cursor = n
          /\ page'.pc = IF n.k = "none" THEN "done" ELSE "ask"
      BY <2>1, NoPageShape DEF Answer, PageFields
    <3> QED
      BY <3>1
  <2>3. EndsAfter(page.answer.next)
    BY DEF PageInv
  <2> QED
    BY <2>2, <2>3 DEF EndsAfter
<1> QED
  BY <1>1, PageInvariant, PTL DEF Spec, CursorAdvances

-----------------------------------------------------------------------------
(* Scores. *)

Positive == Nat \ {0}

\* Multiplying by a positive number keeps the order.
LEMMA Times ==
  ASSUME NEW a \in Int, NEW b \in Int, NEW c \in Positive
  PROVE  /\ a * c \in Int /\ b * c \in Int
         /\ a > b <=> a * c > b * c
         /\ a >= b <=> a * c >= b * c
BY DEF Positive

\* Fractions that are compared by cross multiplication are ordered.
LEMMA Fractions ==
  ASSUME NEW n1 \in Positive, NEW d1 \in Positive, NEW n2 \in Positive, NEW d2 \in Positive,
         NEW n3 \in Positive, NEW d3 \in Positive,
         n1 * d2 >= n2 * d1, n2 * d3 >= n3 * d2
  PROVE  /\ n1 * d3 >= n3 * d1
         /\ n1 * d2 > n2 * d1 \/ n2 * d3 > n3 * d2 => n1 * d3 > n3 * d1
<1> DEFINE x == n1 * d3  y == n3 * d1
<1>1. x \in Int /\ y \in Int
  BY DEF Positive
<1>2. /\ (n1 * d2) * d3 >= (n2 * d1) * d3
      /\ n1 * d2 > n2 * d1 => (n1 * d2) * d3 > (n2 * d1) * d3
  BY Times DEF Positive
<1>3. /\ (n2 * d3) * d1 >= (n3 * d2) * d1
      /\ n2 * d3 > n3 * d2 => (n2 * d3) * d1 > (n3 * d2) * d1
  BY Times DEF Positive
<1>4. /\ (n1 * d2) * d3 = x * d2 /\ (n2 * d1) * d3 = (n2 * d3) * d1 /\ (n3 * d2) * d1 = y * d2
      /\ x * d2 \in Int /\ y * d2 \in Int /\ (n2 * d3) * d1 \in Int
  BY DEF Positive
<1> HIDE DEF x, y
<1>5. /\ x * d2 >= y * d2
      /\ n1 * d2 > n2 * d1 \/ n2 * d3 > n3 * d2 => x * d2 > y * d2
  BY <1>2, <1>3, <1>4
<1> QED
  BY <1>1, <1>5, Times DEF x, y

\* Better in both lists is better in the sum,
LEMMA BothBetter ==
  ASSUME NEW a \in Positive, NEW b \in Positive, NEW c \in Positive, NEW d \in Positive,
         a < c, b < d
  PROVE  (a + b) * c * d > (c + d) * a * b
<1>1. (a + b) * c * d = a * (c * d) + b * (c * d) /\ (c + d) * a * b = b * (a * c) + (a * b) * d
  BY DEF Positive
<1>2. d * (a * c) > b * (a * c)
  BY Times DEF Positive
<1>3. c * (b * d) > a * (b * d)
  BY Times DEF Positive
<1> QED
  BY <1>1, <1>2, <1>3 DEF Positive

\* and among the first k of both is better than the first of one.
LEMMA BothOverOne ==
  ASSUME NEW k \in Positive, NEW a \in 1 .. k, NEW b \in 1 .. k, NEW c \in Positive
  PROVE  ((k + a) + (k + b)) * (k + c) > (k + a) * (k + b)
<1>1. a * b <= k * k
  <2>1. a * b <= k * b
    BY DEF Positive
  <2>2. k * b <= k * k
    BY DEF Positive
  <2> QED
    BY <2>1, <2>2 DEF Positive
<1>2. ((k + a) + (k + b)) * (k + c) = 2 * (k * k) + 2 * (k * c) + a * k + b * k + a * c + b * c
  BY DEF Positive
<1>3. (k + a) * (k + b) = k * k + a * k + b * k + a * b
  BY DEF Positive
<1>4. k * c > 0 /\ a * c > 0 /\ b * c > 0
  BY DEF Positive
<1> QED
  BY <1>1, <1>2, <1>3, <1>4 DEF Positive

-----------------------------------------------------------------------------
(* Places in a sorted list. *)

\* What comes before something has fewer before it.
LEMMA FewerBefore ==
  ASSUME NEW S, IsFiniteSet(S), NEW R, StrictTotalOrder(R, S), NEW x \in S, NEW y \in S,
         <<x, y>> \in R
  PROVE  /\ Cardinality(Predecessors(R, S, x)) \in Nat /\ Cardinality(Predecessors(R, S, y)) \in Nat
         /\ Cardinality(Predecessors(R, S, x)) < Cardinality(Predecessors(R, S, y))
<1>1. /\ Predecessors(R, S, x) \cup {x} \in SUBSET Predecessors(R, S, y)
      /\ x \notin Predecessors(R, S, x)
      /\ Predecessors(R, S, x) \in SUBSET S /\ Predecessors(R, S, y) \in SUBSET S
  BY DEF Predecessors, StrictTotalOrder
<1>2. IsFiniteSet(Predecessors(R, S, x)) /\ IsFiniteSet(Predecessors(R, S, y))
  BY <1>1, FS_Subset
<1>3. Cardinality(Predecessors(R, S, x)) \in Nat /\ Cardinality(Predecessors(R, S, y)) \in Nat
  BY <1>2, FS_CardinalityType
<1>4. Cardinality(Predecessors(R, S, x) \cup {x}) = Cardinality(Predecessors(R, S, x)) + 1
  BY <1>1, <1>2, FS_AddElement
<1>5. Cardinality(Predecessors(R, S, x) \cup {x}) <= Cardinality(Predecessors(R, S, y))
  BY <1>1, <1>2, FS_Subset
<1> QED
  BY <1>3, <1>4, <1>5

\* s lists the set S in the order R: each thing at the place after what comes before it.
ListsInOrder(s, S, R) ==
  /\ DOMAIN s = 1 .. Cardinality(S)
  /\ \A i \in DOMAIN s : s[i] \in S /\ Cardinality(Predecessors(R, S, s[i])) = i - 1

\* Such a list holds the whole set, and ranks it as the order does.
LEMMA ListRanks ==
  ASSUME NEW S, IsFiniteSet(S), NEW R, StrictTotalOrder(R, S), NEW s, ListsInOrder(s, S, R)
  PROVE  /\ Range(s) = S
         /\ \A x, y \in S : <<x, y>> \in R => RankIn(s, x) < RankIn(s, y)
<1> DEFINE before == [x \in S |-> Cardinality(Predecessors(R, S, x))]
<1>1. Cardinality(S) \in Nat
  BY FS_CardinalityType
<1>2. \A x, y \in S :
        <<x, y>> \in R => before[x] < before[y] /\ before[x] \in Nat /\ before[y] \in Nat
  BY FewerBefore
<1>3. ASSUME NEW x \in S
      PROVE  before[x] \in 0 .. Cardinality(S) - 1
  <2>1. Predecessors(R, S, x) \in SUBSET (S \ {x})
    BY DEF Predecessors, StrictTotalOrder
  <2>2. IsFiniteSet(S \ {x}) /\ Cardinality(S \ {x}) = Cardinality(S) - 1
    BY FS_RemoveElement
  <2>3. /\ IsFiniteSet(Predecessors(R, S, x))
        /\ Cardinality(Predecessors(R, S, x)) <= Cardinality(S) - 1
    BY <2>1, <2>2, FS_Subset
  <2> QED
    BY <1>1, <2>3, FS_CardinalityType
<1>4. \A i \in DOMAIN s : s[i] \in S /\ before[s[i]] = i - 1 /\ i \in 1 .. Cardinality(S)
  BY DEF ListsInOrder
<1> HIDE DEF before
<1>5. ASSUME NEW x \in S
      PROVE  before[x] + 1 \in DOMAIN s /\ s[before[x] + 1] = x
  <2> DEFINE i == before[x] + 1
  <2>1. i \in DOMAIN s
    BY <1>1, <1>3 DEF ListsInOrder
  <2>2. s[i] \in S /\ before[s[i]] = before[x]
    BY <1>3, <1>4, <2>1
  <2> HIDE DEF i
  <2>3. s[i] = x \/ <<s[i], x>> \in R \/ <<x, s[i]>> \in R
    BY <2>2 DEF StrictTotalOrder
  <2>4. s[i] = x
    BY <1>2, <2>2, <2>3
  <2> QED
    BY <2>1, <2>4 DEF i
<1>6. Range(s) = S
  BY <1>4, <1>5 DEF Range
<1>7. ASSUME NEW x \in S
      PROVE  RankIn(s, x) = before[x] + 1
  <2>1. \A i \in DOMAIN s : s[i] = x => i = before[x] + 1
    BY <1>4
  <2>2. \E i \in DOMAIN s : s[i] = x
    BY <1>5
  <2> QED
    BY <1>6, <2>1, <2>2 DEF RankIn
<1>8. ASSUME NEW x \in S, NEW y \in S, <<x, y>> \in R
      PROVE  RankIn(s, x) < RankIn(s, y)
  BY <1>2, <1>7, <1>8
<1> QED
  BY <1>6, <1>8

-----------------------------------------------------------------------------
(* The fused order. *)

\* A list of documents, none longer than there are documents.
ListOfDocs(s) == IsList(s) /\ Range(s) \subseteq Docs /\ Len(s) <= Cardinality(Docs)
Rank == 0 .. Cardinality(Docs)

\* A rank in such a list, and what it weighs.
LEMMA RankType ==
  ASSUME NEW s, ListOfDocs(s), NEW d
  PROVE  RankIn(s, d) \in Rank /\ (d \in Range(s) <=> RankIn(s, d) > 0)
<1>1. Cardinality(Docs) \in Nat /\ Len(s) \in Nat /\ DOMAIN s = 1 .. Len(s)
  BY PagingAssumption, FS_CardinalityType, ListHasLength DEF ListOfDocs
<1>2. CASE d \in Range(s)
  <2>1. \E i \in DOMAIN s : s[i] = d
    BY <1>2 DEF Range
  <2>2. RankIn(s, d) \in DOMAIN s
    BY <1>2, <2>1 DEF RankIn
  <2> QED
    BY <1>1, <1>2, <2>2 DEF ListOfDocs, Rank
<1>3. CASE d \notin Range(s)
  BY <1>1, <1>3 DEF RankIn, Rank
<1> QED
  BY <1>2, <1>3

LEMMA ScoreType ==
  ASSUME NEW a \in Rank, NEW b \in Rank
  PROVE  /\ Place(a) \in Positive /\ Place(b) \in Positive /\ Place(a) * Place(b) \in Positive
         /\ Numerator(a, b) \in Positive
<1>1. Cardinality(Docs) \in Nat /\ RrfK \in Positive
  BY PagingAssumption, FS_CardinalityType DEF Positive
<1>2. a \in Nat /\ b \in Nat
  BY <1>1 DEF Rank
<1>3. Place(a) \in Positive /\ Place(b) \in Positive
  BY <1>1, <1>2 DEF Place, Positive
<1>4. Place(a) * Place(b) \in Positive
  BY <1>3, Times DEF Positive
<1> QED
  BY <1>3, <1>4 DEF Numerator, Positive

\* Scores are ordered.
LEMMA ScoresOrdered ==
  ASSUME NEW a \in Rank, NEW b \in Rank, NEW c \in Rank, NEW d \in Rank, NEW e \in Rank,
         NEW f \in Rank
  PROVE  /\ Outscores(a, b, c, d) => ~Outscores(c, d, a, b)
         /\ ~Outscores(c, d, a, b) /\ ~Outscores(e, f, c, d) => ~Outscores(e, f, a, b)
         /\ /\ ~Outscores(c, d, a, b) /\ ~Outscores(e, f, c, d)
            /\ Outscores(a, b, c, d) \/ Outscores(c, d, e, f)
            => Outscores(a, b, e, f)
<1> DEFINE n1 == Numerator(a, b)  d1 == Place(a) * Place(b)
           n2 == Numerator(c, d)  d2 == Place(c) * Place(d)
           n3 == Numerator(e, f)  d3 == Place(e) * Place(f)
<1>1. /\ n1 \in Positive /\ d1 \in Positive /\ n2 \in Positive /\ d2 \in Positive
      /\ n3 \in Positive /\ d3 \in Positive
  BY ScoreType
<1>2. /\ Outscores(a, b, c, d) <=> n1 * d2 > n2 * d1
      /\ Outscores(c, d, a, b) <=> n2 * d1 > n1 * d2
      /\ Outscores(c, d, e, f) <=> n2 * d3 > n3 * d2
      /\ Outscores(e, f, c, d) <=> n3 * d2 > n2 * d3
      /\ Outscores(a, b, e, f) <=> n1 * d3 > n3 * d1
      /\ Outscores(e, f, a, b) <=> n3 * d1 > n1 * d3
  <2>1. \A x, y, z \in Positive : x * y * z = x * (y * z)
    BY DEF Positive
  <2>2. /\ Place(a) \in Positive /\ Place(b) \in Positive /\ Place(c) \in Positive
        /\ Place(d) \in Positive /\ Place(e) \in Positive /\ Place(f) \in Positive
    BY ScoreType
  <2>3. /\ n1 * Place(c) * Place(d) = n1 * d2 /\ n1 * Place(e) * Place(f) = n1 * d3
        /\ n2 * Place(a) * Place(b) = n2 * d1 /\ n2 * Place(e) * Place(f) = n2 * d3
        /\ n3 * Place(a) * Place(b) = n3 * d1 /\ n3 * Place(c) * Place(d) = n3 * d2
    <3> HIDE DEF n1, n2, n3
    <3> QED
      BY <1>1, <2>1, <2>2
  <2> QED
    BY <2>3 DEF Outscores
<1> HIDE DEF n1, n2, n3, d1, d2, d3
<1>3. /\ n1 * d2 \in Int /\ n2 * d1 \in Int /\ n2 * d3 \in Int /\ n3 * d2 \in Int
      /\ n1 * d3 \in Int /\ n3 * d1 \in Int
  BY <1>1 DEF Positive
<1>4. n1 * d2 >= n2 * d1 /\ n2 * d3 >= n3 * d2 =>
        /\ n1 * d3 >= n3 * d1
        /\ n1 * d2 > n2 * d1 \/ n2 * d3 > n3 * d2 => n1 * d3 > n3 * d1
  BY <1>1, Fractions
<1> QED
  BY <1>2, <1>3, <1>4

\* Among equal scores.
Tied(a, b, d, p, q, e) ==
  \/ Absent(a) < Absent(p)
  \/ a = p /\ (Absent(b) < Absent(q) \/ (b = q /\ d < e))

\* A rank that a list does not give comes after those it gives.
LEMMA AbsentLast ==
  \A a, b \in Rank : /\ Absent(a) \in Nat /\ a \in Nat
                     /\ Absent(a) = Absent(b) => a = b
<1>1. Cardinality(Docs) \in Nat
  BY PagingAssumption, FS_CardinalityType
<1> QED
  BY <1>1 DEF Absent, Rank

\* The fused order is strict and total, and the fused list is in it.
Fuses(keyword, near, d, e) ==
  LET kr(x) == RankIn(keyword, x)
      nr(x) == RankIn(near, x)
  IN \/ Outscores(kr(d), nr(d), kr(e), nr(e))
     \/ ~Outscores(kr(e), nr(e), kr(d), nr(d)) /\ Tied(kr(d), nr(d), d, kr(e), nr(e), e)
FusedOrder(keyword, near) ==
  LET rids == Range(keyword) \cup Range(near)
  IN {p \in rids \X rids : Fuses(keyword, near, p[1], p[2])}

LEMMA FusedOrderIsTotal ==
  ASSUME NEW keyword, NEW near, ListOfDocs(keyword), ListOfDocs(near)
  PROVE  StrictTotalOrder(FusedOrder(keyword, near), Range(keyword) \cup Range(near))
<1> DEFINE rids == Range(keyword) \cup Range(near)
<1>1. \A x \in rids : RankIn(keyword, x) \in Rank /\ RankIn(near, x) \in Rank /\ x \in Nat
  BY RankType, PagingAssumption DEF ListOfDocs
<1>2. ASSUME NEW x \in rids, NEW y \in rids, NEW z \in rids
      PROVE  /\ ~Fuses(keyword, near, x, x)
             /\ Fuses(keyword, near, x, y) /\ Fuses(keyword, near, y, z) => Fuses(keyword, near, x, z)
             /\ x = y \/ Fuses(keyword, near, x, y) \/ Fuses(keyword, near, y, x)
  <2> DEFINE a == RankIn(keyword, x)  b == RankIn(near, x)
             c == RankIn(keyword, y)  d == RankIn(near, y)
             e == RankIn(keyword, z)  f == RankIn(near, z)
  <2>1. /\ a \in Rank /\ b \in Rank /\ c \in Rank /\ d \in Rank /\ e \in Rank /\ f \in Rank
        /\ x \in Nat /\ y \in Nat /\ z \in Nat
    BY <1>1
  <2>2. /\ Fuses(keyword, near, x, x) <=>
             Outscores(a, b, a, b) \/ (~Outscores(a, b, a, b) /\ Tied(a, b, x, a, b, x))
        /\ Fuses(keyword, near, x, y) <=>
             Outscores(a, b, c, d) \/ (~Outscores(c, d, a, b) /\ Tied(a, b, x, c, d, y))
        /\ Fuses(keyword, near, y, x) <=>
             Outscores(c, d, a, b) \/ (~Outscores(a, b, c, d) /\ Tied(c, d, y, a, b, x))
        /\ Fuses(keyword, near, y, z) <=>
             Outscores(c, d, e, f) \/ (~Outscores(e, f, c, d) /\ Tied(c, d, y, e, f, z))
        /\ Fuses(keyword, near, x, z) <=>
             Outscores(a, b, e, f) \/ (~Outscores(e, f, a, b) /\ Tied(a, b, x, e, f, z))
    BY DEF Fuses
  <2> HIDE DEF a, b, c, d, e, f
  <2>3. /\ ~Outscores(a, b, a, b)
        /\ Outscores(a, b, c, d) => ~Outscores(c, d, a, b)
        /\ Outscores(c, d, e, f) => ~Outscores(e, f, c, d)
        /\ ~Outscores(c, d, a, b) /\ ~Outscores(e, f, c, d) => ~Outscores(e, f, a, b)
        /\ /\ ~Outscores(c, d, a, b) /\ ~Outscores(e, f, c, d)
           /\ Outscores(a, b, c, d) \/ Outscores(c, d, e, f)
           => Outscores(a, b, e, f)
    BY <2>1, ScoresOrdered
  <2>4. /\ ~Tied(a, b, x, a, b, x)
        /\ Tied(a, b, x, c, d, y) /\ Tied(c, d, y, e, f, z) => Tied(a, b, x, e, f, z)
        /\ x = y \/ Tied(a, b, x, c, d, y) \/ Tied(c, d, y, a, b, x)
    BY <2>1, AbsentLast DEF Tied
  <2> QED
    BY <2>2, <2>3, <2>4, Zenon
<1>3. \A x, y \in rids : <<x, y>> \in FusedOrder(keyword, near) <=> Fuses(keyword, near, x, y)
  BY DEF FusedOrder
<1> HIDE DEF rids
<1> QED
  BY <1>2, <1>3 DEF StrictTotalOrder, rids

LEMMA FusedInOrder ==
  ASSUME NEW keyword, NEW near, ListOfDocs(keyword), ListOfDocs(near)
  PROVE  LET rids == Range(keyword) \cup Range(near)
         IN IsFiniteSet(rids) /\ ListsInOrder(Fused(keyword, near), rids, FusedOrder(keyword, near))
<1> DEFINE rids == Range(keyword) \cup Range(near)
           R == FusedOrder(keyword, near)
           kr == [d \in rids |-> RankIn(keyword, d)]
           nr == [d \in rids |-> RankIn(near, d)]
           Before(d, e) ==
             \/ Outscores(kr[d], nr[d], kr[e], nr[e])
             \/ /\ ~Outscores(kr[e], nr[e], kr[d], nr[d])
                /\ \/ Absent(kr[d]) < Absent(kr[e])
                   \/ /\ kr[d] = kr[e]
                      /\ Absent(nr[d]) < Absent(nr[e]) \/ (nr[d] = nr[e] /\ d < e)
<1>1. IsFiniteSet(rids)
  BY ListHasLength, FS_Union DEF ListOfDocs
<1>2. Fused(keyword, near) =
        [i \in 1 .. Cardinality(rids) |->
           CHOOSE x \in rids : Cardinality({y \in rids : Before(y, x)}) = i - 1]
  BY DEF Fused, Sorted
<1>3. \A x, y \in rids : Before(x, y) <=> <<x, y>> \in R
  BY DEF Fuses, FusedOrder, Tied
<1> HIDE DEF rids, R, Before
<1>4. \A x \in rids : {y \in rids : Before(y, x)} = Predecessors(R, rids, x)
  BY <1>3 DEF Predecessors
<1>5. ASSUME NEW i \in 1 .. Cardinality(rids)
      PROVE  /\ Fused(keyword, near)[i] \in rids
             /\ Cardinality(Predecessors(R, rids, Fused(keyword, near)[i])) = i - 1
  <2>1. StrictTotalOrder(R, rids)
    BY FusedOrderIsTotal DEF R, rids
  <2>2. \E x \in rids : Cardinality({y \in rids : Before(y, x)}) = i - 1
    <3>1. PICK x \in rids : Cardinality(Predecessors(R, rids, x)) = i - 1
      BY <1>1, <2>1, EveryPlaceTaken
    <3> QED
      BY <1>4, <3>1
  <2>3. /\ Fused(keyword, near)[i] \in rids
        /\ Cardinality({y \in rids : Before(y, Fused(keyword, near)[i])}) = i - 1
    BY <1>2, <2>2
  <2> QED
    BY <1>4, <2>3
<1>6. DOMAIN Fused(keyword, near) = 1 .. Cardinality(rids)
  BY <1>2
<1> QED
  BY <1>1, <1>5, <1>6 DEF ListsInOrder, rids, R

-----------------------------------------------------------------------------
(* The lists that are fused. *)

\* What begins a list is no longer than the list and holds nothing else.
LEMMA FirstOfList ==
  ASSUME NEW s, IsList(s), NEW n \in Nat
  PROVE  /\ Len(First(n, s)) \in Nat /\ Len(First(n, s)) <= Len(s)
         /\ \A i \in 1 .. Len(First(n, s)) : First(n, s)[i] = s[i] /\ i \in DOMAIN s
<1> DEFINE m == Smaller(n, Len(s))
<1>1. m \in Nat /\ Len(s) \in Nat /\ m <= Len(s) /\ DOMAIN s = 1 .. Len(s)
  BY ListHasLength DEF Smaller
<1>2. \A i \in 1 .. m : s[i] \in Range(s)
  BY <1>1 DEF Range
<1>3. First(n, s) = SubSeq(s, 1, m)
  BY DEF First
<1> HIDE DEF m
<1>4. /\ Len(SubSeq(s, 1, m)) = m
      /\ \A i \in 1 .. m : SubSeq(s, 1, m)[i] = s[1 + i - 1]
  BY <1>1, <1>2, SubSeqProperties
<1>5. \A i \in 1 .. m : 1 + i - 1 = i
  BY <1>1
<1> QED
  BY <1>1, <1>3, <1>4, <1>5

LEMMA KeywordListOfDocs ==
  ASSUME Types
  PROVE  ListOfDocs(Rids(First(Candidates, Ranked(NoCursor))))
<1> DEFINE first == First(Candidates, Ranked(NoCursor))
<1>1. PICK n \in Nat : n <= Cardinality(Docs) /\ \E K :
        /\ Ranked(NoCursor) \in [1 .. n -> K]
        /\ \A k \in K : k.rid \in Docs
  BY RankedAfter
<1>2. DOMAIN Ranked(NoCursor) = 1 .. n /\ \A i \in 1 .. n : Ranked(NoCursor)[i].rid \in Docs
  BY <1>1
<1>3. IsList(Ranked(NoCursor)) /\ IsList(first) /\ IsList(Rids(first))
  BY RankedIsList, FirstIsList, PagingAssumption
<1>4. Len(Ranked(NoCursor)) = n
  BY <1>2, <1>3, ListHasLength
<1>5. /\ Len(first) \in Nat /\ Len(first) <= n /\ DOMAIN first = 1 .. Len(first)
      /\ \A i \in 1 .. Len(first) : first[i].rid \in Docs
  BY <1>2, <1>3, <1>4, FirstOfList, ListHasLength, PagingAssumption
<1> HIDE DEF first
<1>6. DOMAIN Rids(first) = 1 .. Len(first) /\ Range(Rids(first)) \subseteq Docs
  BY <1>5 DEF Rids, Range
<1>7. Len(Rids(first)) = Len(first)
  BY <1>3, <1>5, <1>6, ListHasLength
<1> QED
  BY <1>1, <1>3, <1>5, <1>6, <1>7, FS_CardinalityType, PagingAssumption DEF ListOfDocs, first

\* The documents near the query, ordered by their distance.
Near == {d \in Docs : docs[d].seen = "everyone" /\ docs[d].near > 0}
NearOrder ==
  {p \in Near \X Near : \/ docs[p[1]].near < docs[p[2]].near
                        \/ docs[p[1]].near = docs[p[2]].near /\ p[1] < p[2]}
NearestOfAll ==
  Sorted(Near, LAMBDA d, e : docs[d].near < docs[e].near \/ (docs[d].near = docs[e].near /\ d < e))

LEMMA NearestInOrder ==
  ASSUME Types
  PROVE  /\ IsFiniteSet(Near) /\ Near \subseteq Docs
         /\ StrictTotalOrder(NearOrder, Near) /\ ListsInOrder(NearestOfAll, Near, NearOrder)
<1>1. Near \subseteq Docs /\ IsFiniteSet(Near)
  BY PagingAssumption, FS_Subset DEF Near
<1>2. StrictTotalOrder(NearOrder, Near)
  <2>1. \A d \in Near : docs[d].near \in Nat /\ d \in Nat
    BY <1>1, PagingAssumption DEF Types, Version
  <2> QED
    BY <2>1 DEF StrictTotalOrder, NearOrder
<1> DEFINE Nearer(d, e) == docs[d].near < docs[e].near \/ (docs[d].near = docs[e].near /\ d < e)
<1>3. NearestOfAll =
        [i \in 1 .. Cardinality(Near) |->
           CHOOSE x \in Near : Cardinality({y \in Near : Nearer(y, x)}) = i - 1]
  BY DEF NearestOfAll, Sorted
<1>4. \A x \in Near : {y \in Near : Nearer(y, x)} = Predecessors(NearOrder, Near, x)
  BY DEF Predecessors, NearOrder
<1> HIDE DEF Nearer
<1>5. ASSUME NEW i \in 1 .. Cardinality(Near)
      PROVE  /\ NearestOfAll[i] \in Near
             /\ Cardinality(Predecessors(NearOrder, Near, NearestOfAll[i])) = i - 1
  <2>1. PICK x \in Near : Cardinality(Predecessors(NearOrder, Near, x)) = i - 1
    BY <1>1, <1>2, EveryPlaceTaken
  <2>2. /\ NearestOfAll[i] \in Near
        /\ Cardinality({y \in Near : Nearer(y, NearestOfAll[i])}) = i - 1
    BY <1>3, <1>4, <2>1
  <2> QED
    BY <1>4, <2>2
<1> QED
  BY <1>1, <1>2, <1>3, <1>5 DEF ListsInOrder

LEMMA NearestListOfDocs ==
  ASSUME Types
  PROVE  ListOfDocs(Nearest)
<1>1. Nearest = First(Candidates, NearestOfAll)
  BY DEF Nearest, NearestOfAll, Near
<1>2. Range(NearestOfAll) = Near /\ DOMAIN NearestOfAll = 1 .. Cardinality(Near)
  BY NearestInOrder, ListRanks DEF ListsInOrder
<1>3. Cardinality(Near) \in Nat /\ Cardinality(Near) <= Cardinality(Docs)
  BY NearestInOrder, PagingAssumption, FS_Subset, FS_CardinalityType
<1>4. IsList(NearestOfAll)
  <2>1. NearestOfAll \in [1 .. Cardinality(Near) -> Range(NearestOfAll)]
    BY <1>2, Zenon DEF NearestOfAll, Sorted, Range
  <2> QED
    BY <1>3, <2>1 DEF IsList
<1>5. Len(NearestOfAll) = Cardinality(Near)
  BY <1>2, <1>3, <1>4, ListHasLength
<1>6. /\ IsList(Nearest) /\ Len(Nearest) \in Nat /\ Len(Nearest) <= Cardinality(Near)
      /\ \A i \in 1 .. Len(Nearest) : Nearest[i] \in Near
  BY <1>1, <1>2, <1>4, <1>5, FirstOfList, NearestIsList, PagingAssumption DEF Range
<1>7. Range(Nearest) \subseteq Docs
  BY <1>6, ListHasLength, NearestInOrder DEF Range
<1> QED
  BY <1>3, <1>6, <1>7, FS_CardinalityType, PagingAssumption DEF ListOfDocs

\* The candidates are documents, and what was fused stays their fusion while it is read.
FusionInv ==
  /\ ListOfDocs(page.keyword) /\ ListOfDocs(page.near)
  /\ page.pc = "read" /\ page.ranking = "hybrid" => page.order = Fused(page.keyword, page.near)

LEMMA FusionInvariant == Spec => []FusionInv
<1>1. ListOfDocs(NoPage.keyword) /\ ListOfDocs(NoPage.near)
  <2> DEFINE nothing == <<>>
  <2>1. NoPage.keyword = nothing /\ NoPage.near = nothing
    BY DEF NoPage
  <2>2. Len(nothing) = 0 /\ Range(nothing) = {}
    BY DEF Range
  <2>3. IsList(nothing)
    BY <2>1, NoPageShape
  <2> HIDE DEF nothing
  <2> QED
    BY <2>1, <2>2, <2>3, FS_CardinalityType, PagingAssumption DEF ListOfDocs
<1>2. Init => FusionInv
  BY <1>1, NoPageShape DEF Init, FusionInv
<1>3. Types /\ FusionInv /\ [Next]_vars => FusionInv'
  <2> SUFFICES ASSUME Types, FusionInv, [Next]_vars PROVE FusionInv'
    OBVIOUS
  <2>1. ASSUME page'.keyword = NoPage.keyword, page'.near = NoPage.near, page'.pc # "read"
        PROVE  FusionInv'
    BY <1>1, <2>1 DEF FusionInv
  <2>2. ASSUME page'.keyword = page.keyword, page'.near = page.near, page'.pc # "read"
        PROVE  FusionInv'
    BY <2>2 DEF FusionInv
  <2>3. ASSUME NEW words \in BOOLEAN, NEW limit \in Limits, Start(words, limit) PROVE FusionInv'
    BY <2>1, <2>3, NoPageShape DEF Start, PageFields
  <2>4. ASSUME NEW ranking \in {"hybrid", "keyword"}, Ask(ranking) PROVE FusionInv'
    <3>1. \/ page' = [page EXCEPT !.pc = "refused", !.ranking = ranking]
          \/ /\ page'.keyword = NoPage.keyword /\ page'.near = NoPage.near
             /\ page'.pc \in {"weigh", "search"}
      BY <2>4, NoPageShape DEF Ask, PageFields
    <3> QED
      BY <2>1, <2>2, <3>1 DEF Types, PageFields
  <2>5. ASSUME Weigh \/ Order \/ Compose PROVE FusionInv'
    BY <2>2, <2>5 DEF Weigh, Order, Compose, Types, PageFields
  <2>6. ASSUME Search PROVE FusionInv'
    <3>1. page'.keyword = page.keyword /\ page'.near = page.near /\ page'.ranking = "keyword"
      BY <2>6 DEF Search, Types, PageFields
    <3> QED
      BY <3>1 DEF FusionInv
  <2>7. ASSUME KeywordList PROVE FusionInv'
    <3>1. /\ page'.keyword = Rids(First(Candidates, Ranked(NoCursor))) /\ page'.near = page.near
          /\ page'.pc = "search"
      BY <2>7 DEF KeywordList, Types, PageFields
    <3> QED
      BY <3>1, KeywordListOfDocs DEF FusionInv
  <2>8. ASSUME NearList PROVE FusionInv'
    <3>1. page'.keyword = page.keyword /\ page'.near = Nearest /\ page'.pc = "search"
      BY <2>8 DEF NearList, Types, PageFields
    <3> QED
      BY <3>1, NearestListOfDocs DEF FusionInv
  <2>9. ASSUME Fuse PROVE FusionInv'
    <3>1. /\ page'.keyword = page.keyword /\ page'.near = page.near
          /\ page'.order = Fused(page.keyword, page.near)
      BY <2>9 DEF Fuse, Types, PageFields
    <3> QED
      BY <3>1 DEF FusionInv
  <2>10. ASSUME ReadRow PROVE FusionInv'
    <3>1. /\ page'.keyword = page.keyword /\ page'.near = page.near /\ page'.order = page.order
          /\ page'.pc = page.pc /\ page'.ranking = page.ranking
      BY <2>10 DEF ReadRow, Types, PageFields
    <3> QED
      BY <3>1 DEF FusionInv
  <2>11. ASSUME Relax PROVE FusionInv'
    BY <2>1, <2>11, NoPageShape DEF Relax, PageFields
  <2>12. ASSUME Answer PROVE FusionInv'
    <3>1. /\ page'.keyword = NoPage.keyword /\ page'.near = NoPage.near
          /\ page'.pc \in {"done", "ask"}
      BY <2>12, NoPageShape DEF Answer, PageFields
    <3> QED
      BY <2>1, <3>1
  <2>13. CASE UNCHANGED page
    BY <2>13 DEF FusionInv
  <2> QED
    BY <2>3, <2>4, <2>5, <2>6, <2>7, <2>8, <2>9, <2>10, <2>11, <2>12, <2>13
    DEF Next, Serve, Change, Pass, vars
<1>4. PageInv => Types
  BY DEF PageInv
<1> QED
  BY <1>2, <1>3, <1>4, PageInvariant, PTL DEF Spec

\* Fusion (server/fabric/rrf.js fuseRrf) respects both lists, for any documents, any lists of
\* candidates and any RRF_K: what is better in both stays better, and what is among the first
\* RRF_K of both comes before what is in one of them only.
THEOREM FusionRespectsLists == Spec => []FusionKeepsOrder
<1>1. FusionInv => FusionKeepsOrder
  <2> DEFINE keyword == page.keyword  near == page.near
             rids == Range(keyword) \cup Range(near)
             both == Range(keyword) \cap Range(near)
             R == FusedOrder(keyword, near)
  <2> SUFFICES ASSUME FusionInv, page.order = Fused(keyword, near)
               PROVE  /\ \A d, e \in both :
                           /\ RankIn(keyword, d) < RankIn(keyword, e)
                           /\ RankIn(near, d) < RankIn(near, e)
                           => RankIn(page.order, d) < RankIn(page.order, e)
                      /\ \A d \in both, e \in Range(page.order) \ both :
                           RankIn(keyword, d) <= RrfK /\ RankIn(near, d) <= RrfK
                           => RankIn(page.order, d) < RankIn(page.order, e)
    BY DEF FusionKeepsOrder, FusionInv
  <2>1. ListOfDocs(keyword) /\ ListOfDocs(near)
    BY DEF FusionInv
  <2> HIDE DEF keyword, near
  <2>2. /\ IsFiniteSet(rids) /\ StrictTotalOrder(R, rids)
        /\ ListsInOrder(page.order, rids, R)
    BY <2>1, FusedInOrder, FusedOrderIsTotal
  <2>3. /\ Range(page.order) = rids
        /\ \A d, e \in rids : <<d, e>> \in R => RankIn(page.order, d) < RankIn(page.order, e)
    <3> HIDE DEF rids, R
    <3> QED
      BY <2>2, ListRanks
  <2>4. \A d, e \in rids :
          Outscores(RankIn(keyword, d), RankIn(near, d), RankIn(keyword, e), RankIn(near, e))
            => <<d, e>> \in R
    BY DEF FusedOrder, Fuses
  <2> HIDE DEF R
  <2>5. RrfK \in Positive /\ RrfK \in Nat /\ Cardinality(Docs) \in Nat
    BY PagingAssumption, FS_CardinalityType DEF Positive
  <2>6. ASSUME NEW d \in both, NEW e \in both,
               RankIn(keyword, d) < RankIn(keyword, e), RankIn(near, d) < RankIn(near, e)
        PROVE  RankIn(page.order, d) < RankIn(page.order, e)
    <3> DEFINE a == RankIn(keyword, d)  b == RankIn(near, d)
               p == RankIn(keyword, e)  q == RankIn(near, e)
    <3>1. /\ a \in Nat /\ b \in Nat /\ p \in Nat /\ q \in Nat
          /\ a > 0 /\ b > 0 /\ p > 0 /\ q > 0 /\ a < p /\ b < q
      BY <2>1, <2>5, <2>6, RankType DEF Rank
    <3> HIDE DEF a, b, p, q
    <3>2. /\ RrfK + a \in Positive /\ RrfK + b \in Positive
          /\ RrfK + p \in Positive /\ RrfK + q \in Positive
          /\ RrfK + a < RrfK + p /\ RrfK + b < RrfK + q
      BY <2>5, <3>1 DEF Positive
    <3>3. ((RrfK + a) + (RrfK + b)) * (RrfK + p) * (RrfK + q)
            > ((RrfK + p) + (RrfK + q)) * (RrfK + a) * (RrfK + b)
      BY <3>2, BothBetter
    <3>4. Outscores(a, b, p, q)
      BY <3>1, <3>3 DEF Outscores, Numerator, Place
    <3>5. d \in rids /\ e \in rids
      OBVIOUS
    <3> QED
      BY <2>3, <2>4, <3>4, <3>5 DEF a, b, p, q
  <2>7. ASSUME NEW d \in both, NEW e \in Range(page.order) \ both,
               RankIn(keyword, d) <= RrfK, RankIn(near, d) <= RrfK
        PROVE  RankIn(page.order, d) < RankIn(page.order, e)
    <3> DEFINE a == RankIn(keyword, d)  b == RankIn(near, d)
               p == RankIn(keyword, e)  q == RankIn(near, e)
    <3>1. /\ a \in 1 .. RrfK /\ b \in 1 .. RrfK /\ p \in Nat /\ q \in Nat
          /\ a \in Nat /\ b \in Nat
      BY <2>1, <2>5, <2>7, RankType DEF Rank
    <3>2. (p > 0 /\ q = 0) \/ (p = 0 /\ q > 0)
      BY <2>1, <2>3, <2>5, <2>7, RankType DEF Rank
    <3>3. d \in rids /\ e \in rids
      BY <2>3
    <3> HIDE DEF a, b, p, q
    <3>4. \A c \in Nat \ {0} :
            ((RrfK + a) + (RrfK + b)) * (RrfK + c) > (RrfK + a) * (RrfK + b)
      BY <2>5, <3>1, BothOverOne DEF Positive
    <3>5. /\ Numerator(a, b) = (RrfK + a) + (RrfK + b) /\ Numerator(p, q) = 1
          /\ Place(a) = RrfK + a /\ Place(b) = RrfK + b
      BY <3>1, <3>2 DEF Numerator, Place
    <3>6. /\ (RrfK + a) + (RrfK + b) \in Int /\ RrfK + a \in Int /\ RrfK + b \in Int
          /\ RrfK + p \in Int /\ RrfK + q \in Int
      BY <2>5, <3>1
    <3>7. CASE p > 0 /\ q = 0
      <4>1. Place(p) = RrfK + p /\ Place(q) = 1
        BY <3>1, <3>7 DEF Place
      <4>2. Outscores(a, b, p, q)
        BY <3>1, <3>4, <3>5, <3>6, <3>7, <4>1 DEF Outscores
      <4> QED
        BY <2>3, <2>4, <3>3, <4>2 DEF a, b, p, q
    <3>8. CASE p = 0 /\ q > 0
      <4>1. Place(p) = 1 /\ Place(q) = RrfK + q
        BY <3>1, <3>8 DEF Place
      <4>2. Outscores(a, b, p, q)
        BY <3>1, <3>4, <3>5, <3>6, <3>8, <4>1 DEF Outscores
      <4> QED
        BY <2>3, <2>4, <3>3, <4>2 DEF a, b, p, q
    <3> QED
      BY <3>2, <3>7, <3>8
  <2> QED
    BY <2>6, <2>7
<1> QED
  BY <1>1, FusionInvariant, PTL

-----------------------------------------------------------------------------
(* What a walk shows. A page of the engine's list gives what lies between its cursor and the *)
(* next page's; a page of the fused list, between two places of a list that is the same for  *)
(* all pages of the walk while nothing has changed.                                          *)

\* A document's sort key in an exact or a relaxed walk, its words weighed by what the index holds.
CoverOf(v) ==
  Cardinality({unit \in v.words \X (1 .. Cardinality(Docs) + 1) : unit[2] <= Weights[unit[1]]})
KeyOf(d, relaxed) ==
  IF page.words
  THEN [cover |-> IF relaxed THEN CoverOf(docs[d]) ELSE 0, tier |-> docs[d].tier,
        place |-> docs[d].place + IF docs[d].fades THEN page.now ELSE 0, rid |-> d]
  ELSE [cover |-> 0, tier |-> 0, place |-> docs[d].place, rid |-> d]
MatchingOf(relaxed) ==
  {d \in Docs : docs[d].seen \in {"everyone", "acl"} /\ (page.words => Matches(docs[d], relaxed))}

\* The order of such a walk depends on this document only through what it still is.
Steady(d, relaxed) == d \notin moved /\ (relaxed => moved = {})
\* What a keyset walk has to show: the best of its title, if none of that title has changed.
Best(d, relaxed) ==
  /\ d \in MatchingOf(relaxed) /\ Steady(d, relaxed)
  /\ page.words =>
       \A e \in Docs \ {d} : Title[e] = Title[d] =>
         /\ Steady(e, relaxed)
         /\ e \in MatchingOf(relaxed) => Earlier(KeyOf(d, relaxed), KeyOf(e, relaxed))

\* A key that lies up to the next page, and one that lies before a page.
Upto(key, next) == next.k = "none" \/ ~Earlier(next.key, key)
Passed(key, cursor) == cursor.k # "none" /\ ~Earlier(cursor.key, key)

\* A keyset page from one cursor to the next: what is between them, and nothing else.
KeysetGives(results, cursor, next, relaxed) ==
  \A d \in Docs : Steady(d, relaxed) =>
    LET key == KeyOf(d, relaxed)
    IN /\ d \in results => d \in MatchingOf(relaxed) /\ After(key, cursor) /\ Upto(key, next)
       /\ Best(d, relaxed) /\ After(key, cursor) /\ Upto(key, next) => d \in results
\* What the walk has shown: once what lies before its cursor, in the end everything.
KeysetShown(cursor, relaxed, done) ==
  \A d \in Docs : Steady(d, relaxed) =>
    LET passed == done \/ Passed(KeyOf(d, relaxed), cursor)
    IN /\ shown[d] <= 1
       /\ shown[d] # 0 => d \in MatchingOf(relaxed) /\ passed
       /\ Best(d, relaxed) /\ passed => shown[d] = 1

\* The one order of a set.
Arranged(S, R) ==
  [i \in 1 .. Cardinality(S) |-> CHOOSE x \in S : Cardinality(Predecessors(R, S, x)) = i - 1]
\* The fused list of an index that does not change: what a query finds in it, of equal titles the
\* best, in the engine's order; the nearest; and the fusion of both, by coverage and tier first.
FoundOf(relaxed) ==
  {d \in MatchingOf(relaxed) :
     page.words => \A e \in MatchingOf(relaxed) \ {d} :
                     Title[e] = Title[d] => Earlier(KeyOf(d, relaxed), KeyOf(e, relaxed))}
EarlierIn(K) == {p \in K \X K : Earlier(p[1], p[2])}
KeysOf(relaxed) == {KeyOf(d, relaxed) : d \in FoundOf(relaxed)}
KeywordOf(relaxed) ==
  Rids(First(Candidates, Arranged(KeysOf(relaxed), EarlierIn(KeysOf(relaxed)))))
NearestOf == First(Candidates, Arranged(Near, NearOrder))
CoverIn(v, relaxed) == IF relaxed THEN CoverOf(v) ELSE 0
OrderOf(list, relaxed) ==
  {p \in (DOMAIN list) \X (DOMAIN list) :
     LET v == docs[list[p[1]]]  u == docs[list[p[2]]]
     IN \/ CoverIn(v, relaxed) > CoverIn(u, relaxed)
        \/ /\ CoverIn(v, relaxed) = CoverIn(u, relaxed)
           /\ v.tier > u.tier \/ (v.tier = u.tier /\ p[1] < p[2])}
ListOf(relaxed) ==
  LET list == Fused(KeywordOf(relaxed), NearestOf)
      order == Arranged(DOMAIN list, OrderOf(list, relaxed))
  IN [i \in DOMAIN list |-> list[order[i]]]

\* A page of that list: each title between its ends, and nothing else.
HybridGives(results, cursor, next, relaxed) ==
  moved = {} =>
    LET list == ListOf(relaxed)
        here == {i \in DOMAIN list : cursor.offset < i /\ (next.k = "none" \/ i <= next.offset)}
    IN /\ \A d \in results : \E i \in here : list[i] = d
       /\ \A i \in here : \E j \in here : list[j] \in results /\ Title[list[j]] = Title[list[i]]
\* What the walk has shown: each title before its cursor, in the end each of the list.
HybridShown(cursor, relaxed, done) ==
  moved = {} =>
    LET list == ListOf(relaxed)
        passed == {i \in DOMAIN list : done \/ (cursor.k # "none" /\ i <= cursor.offset)}
    IN /\ \A d \in Docs : shown[d] <= 1 /\ (shown[d] # 0 => \E i \in passed : list[i] = d)
       /\ \A i \in passed : \E j \in passed : shown[list[j]] = 1 /\ Title[list[j]] = Title[list[i]]

\* Of either ranking.
Gives(results, cursor, next, relaxed) ==
  IF page.ranking = "hybrid" THEN HybridGives(results, cursor, next, relaxed)
  ELSE KeysetGives(results, cursor, next, relaxed)
HasShown(cursor, relaxed, done) ==
  IF page.ranking = "hybrid" THEN HybridShown(cursor, relaxed, done)
  ELSE KeysetShown(cursor, relaxed, done)
\* The cursor a page ends with goes on with its walk.
GoesOn(next, relaxed) ==
  IF next.k = "none" THEN next = NoCursor
  ELSE /\ (next.k = "f") <=> (page.ranking = "hybrid")
       /\ next.now = page.now /\ next.h = relaxed
       /\ next.k # "f" => next.key \in SortKeys

\* What an engine's page has found to go on with.
NextOf ==
  IF page.after = NoKey THEN NoCursor ELSE Cursor(IF page.words THEN "r" ELSE "t", page.after, 0)

\* Nothing is shown before the first page,
NothingYet ==
  page.pc \notin {"done", "refused"} /\ page.cursor.k = "none" => \A d \in Docs : shown[d] = 0
\* each page goes on where the one before has ended,
CursorGoesOn == page.pc \in {"idle", "ask"} \/ UnderWay => GoesOn(page.cursor, page.relaxed)
\* and what lies before it has been shown.
WalkShown ==
  page.pc # "refused" => HasShown(page.cursor, page.relaxed, page.pc = "done")
\* What a page has read of an index, as far as that has not changed, is still so:
WeightsHold ==
  /\ UnderWay \/ page.pc = "done" => (page.ranking = "hybrid" => page.words)
  /\ (UnderWay /\ page.pc # "weigh") \/ page.pc = "done" =>
       (page.relaxed /\ moved = {} => page.weights = Weights)
RowsHold == UnderWay => \A d \in Docs \cap DOMAIN page.rows : d \in moved \/ page.rows[d] = docs[d]
AllRead ==
  page.pc = "ordered" /\ (page.ranking = "keyword" \/ moved = {}) =>
    Range(page.order) \subseteq DOMAIN page.rows
CandidatesHold ==
  page.ranking = "hybrid" /\ moved = {} =>
    /\ page.pc \in {"weigh", "search"} =>
         /\ "keyword" \notin page.waits => page.keyword = KeywordOf(page.relaxed)
         /\ "near" \notin page.waits => page.near = NearestOf
    /\ page.pc = "read" => page.order = Fused(KeywordOf(page.relaxed), NearestOf)
    /\ page.pc = "ordered" => page.order = ListOf(page.relaxed)
\* and what the engine has found is what comes after the cursor, one of a title.
EngineHolds ==
  page.pc \in {"read", "ordered"} /\ page.ranking = "keyword" =>
    /\ Len(page.order) <= page.limit
    /\ page.words => \A i, j \in DOMAIN page.order :
                       Title[page.order[i]] = Title[page.order[j]] => i = j
    /\ page.after # NoKey => page.after \in SortKeys
    /\ KeysetGives(Range(page.order), page.cursor, NextOf, page.relaxed)
AnswerGives ==
  page.pc = "composed" =>
    /\ Gives(page.answer.results, page.cursor, page.answer.next, page.relaxed)
    /\ GoesOn(page.answer.next, page.relaxed)
\* The exact page that may go out in the place of a relaxed one.
KeptGives ==
  UnderWay /\ page.relaxed /\ page.cursor.k = "none" =>
    /\ Gives(page.kept.results, NoCursor, page.kept.next, FALSE)
    /\ GoesOn(page.kept.next, FALSE)
WalkInv ==
  /\ shown \in [Docs -> 0 .. 2]
  /\ NothingYet /\ CursorGoesOn /\ WalkShown /\ WeightsHold /\ RowsHold /\ AllRead
  /\ CandidatesHold /\ EngineHolds /\ AnswerGives /\ KeptGives

-----------------------------------------------------------------------------
(* Lists in order. *)

\* What is earlier in such a list comes before, and everything has one place.
LEMMA PlacesInOrder ==
  ASSUME NEW S, IsFiniteSet(S), NEW R, StrictTotalOrder(R, S), NEW s, ListsInOrder(s, S, R)
  PROVE  /\ \A i, j \in DOMAIN s : i < j <=> <<s[i], s[j]>> \in R
         /\ \A i, j \in DOMAIN s : s[i] = s[j] => i = j
         /\ \A x \in S : \E i \in DOMAIN s : s[i] = x
         /\ DOMAIN s = 1 .. Cardinality(S) /\ Cardinality(S) \in Nat
<1>1. Cardinality(S) \in Nat
  BY FS_CardinalityType
<1>2. \A i \in DOMAIN s : i \in Nat /\ s[i] \in S /\ Cardinality(Predecessors(R, S, s[i])) = i - 1
  BY <1>1 DEF ListsInOrder
<1>3. \A i, j \in DOMAIN s : <<s[i], s[j]>> \in R => i < j
  BY <1>2, FewerBefore
<1>4. \A i, j \in DOMAIN s : s[i] = s[j] => i = j
  BY <1>2
<1>5. \A i, j \in DOMAIN s : s[i] = s[j] \/ <<s[i], s[j]>> \in R \/ <<s[j], s[i]>> \in R
  BY <1>2 DEF StrictTotalOrder
<1>6. ASSUME NEW i \in DOMAIN s, NEW j \in DOMAIN s, i < j
      PROVE  <<s[i], s[j]>> \in R
  <2>1. i \in Nat /\ j \in Nat /\ ~(j < i) /\ i # j
    BY <1>2, <1>6
  <2>2. <<s[j], s[i]>> \notin R /\ s[i] # s[j]
    BY <1>3, <1>4, <2>1
  <2> QED
    BY <1>5, <2>2
<1>7. \A x \in S : \E i \in DOMAIN s : s[i] = x
  BY ListRanks DEF Range
<1> QED
  BY <1>1, <1>3, <1>4, <1>6, <1>7 DEF ListsInOrder

\* A set has a first.
LEMMA FirstOne ==
  ASSUME NEW S, IsFiniteSet(S), S # {}, NEW R, StrictTotalOrder(R, S)
  PROVE  \E x \in S : \A y \in S : y = x \/ <<x, y>> \in R
<1>1. Cardinality(S) \in Nat /\ Cardinality(S) # 0
  BY FS_CardinalityType, FS_EmptySet
<1>2. PICK x \in S : Cardinality(Predecessors(R, S, x)) = 1 - 1
  BY <1>1, EveryPlaceTaken
<1>3. Predecessors(R, S, x) \in SUBSET S
  BY DEF Predecessors
<1>4. Predecessors(R, S, x) = {}
  BY <1>2, <1>3, FS_Subset, FS_EmptySet
<1> QED
  BY <1>4 DEF Predecessors, StrictTotalOrder

\* So has a set of numbers.
LEMMA FirstNumber ==
  ASSUME NEW N \in SUBSET Nat, IsFiniteSet(N), N # {}
  PROVE  \E i \in N : \A j \in N : i <= j
<1> DEFINE R == {p \in N \X N : p[1] < p[2]}
<1>1. StrictTotalOrder(R, N)
  BY DEF StrictTotalOrder
<1>2. \A i, j \in N : <<i, j>> \in R => i < j
  OBVIOUS
<1> HIDE DEF R
<1>3. PICK i \in N : \A j \in N : j = i \/ <<i, j>> \in R
  BY <1>1, FirstOne
<1>4. \A j \in N : j = i \/ i < j
  BY <1>2, <1>3
<1>5. \A j \in N : i \in Nat /\ j \in Nat
  OBVIOUS
<1> QED
  BY <1>4, <1>5


\* A set has one list in an order.
LEMMA OneList ==
  ASSUME NEW S, IsFiniteSet(S), NEW R, StrictTotalOrder(R, S)
  PROVE  /\ ListsInOrder(Arranged(S, R), S, R)
         /\ \A s : ListsInOrder(s, S, R) /\ s = [i \in DOMAIN s |-> s[i]] => s = Arranged(S, R)
<1>1. ASSUME NEW i \in 1 .. Cardinality(S)
      PROVE  /\ Arranged(S, R)[i] \in S
             /\ Cardinality(Predecessors(R, S, Arranged(S, R)[i])) = i - 1
  <2>1. \E x \in S : Cardinality(Predecessors(R, S, x)) = i - 1
    BY EveryPlaceTaken
  <2> QED
    BY <2>1 DEF Arranged
<1>2. DOMAIN Arranged(S, R) = 1 .. Cardinality(S)
  BY DEF Arranged
<1>3. ListsInOrder(Arranged(S, R), S, R)
  BY <1>1, <1>2 DEF ListsInOrder
<1>4. ASSUME NEW s, ListsInOrder(s, S, R), s = [i \in DOMAIN s |-> s[i]]
      PROVE  s = Arranged(S, R)
  <2>1. \A x, y \in S :
          Cardinality(Predecessors(R, S, x)) = Cardinality(Predecessors(R, S, y)) => x = y
    <3>1. \A x, y \in S : <<x, y>> \in R =>
            Cardinality(Predecessors(R, S, x)) # Cardinality(Predecessors(R, S, y))
      BY FewerBefore
    <3>2. \A x, y \in S : x = y \/ <<x, y>> \in R \/ <<y, x>> \in R
      BY DEF StrictTotalOrder
    <3> QED
      BY <3>1, <3>2
  <2>2. \A i \in 1 .. Cardinality(S) : s[i] = Arranged(S, R)[i]
    BY <1>1, <1>4, <2>1 DEF ListsInOrder
  <2>3. Arranged(S, R) = [i \in DOMAIN Arranged(S, R) |-> Arranged(S, R)[i]]
    BY DEF Arranged
  <2>4. DOMAIN s = 1 .. Cardinality(S)
    BY <1>4 DEF ListsInOrder
  <2> QED
    BY <1>2, <1>4, <2>2, <2>3, <2>4
<1> QED
  BY <1>3, <1>4

\* What a list in order begins with is an initial part of it.
LEMMA FirstInOrder ==
  ASSUME NEW S, IsFiniteSet(S), NEW R, StrictTotalOrder(R, S), NEW s, ListsInOrder(s, S, R),
         s = [i \in DOMAIN s |-> s[i]], NEW n \in Nat
  PROVE  /\ Len(s) = Cardinality(S) /\ IsList(s)
         /\ Len(First(n, s)) = Smaller(n, Len(s))
         /\ DOMAIN First(n, s) = 1 .. Smaller(n, Len(s))
         /\ \A i \in DOMAIN First(n, s) : First(n, s)[i] = s[i] /\ i \in DOMAIN s
<1>1. DOMAIN s = 1 .. Cardinality(S) /\ Cardinality(S) \in Nat
  BY PlacesInOrder
<1>2. s \in [1 .. Cardinality(S) -> Range(s)]
  BY <1>1 DEF Range
<1>3. IsList(s)
  BY <1>1, <1>2 DEF IsList
<1>4. Len(s) = Cardinality(S)
  BY <1>1, <1>2
<1> DEFINE m == Smaller(n, Len(s))
<1>5. m \in Nat /\ m <= Len(s)
  BY <1>1, <1>4 DEF Smaller
<1>6. \A i \in 1 .. m : s[i] \in Range(s)
  BY <1>1, <1>4, <1>5 DEF Range
<1>7. First(n, s) = SubSeq(s, 1, m)
  BY DEF First
<1> HIDE DEF m
<1>8. Len(SubSeq(s, 1, m)) = m
  BY <1>5, <1>6, SubSeqProperties
<1>9. IsList(First(n, s))
  BY <1>3, FirstIsList
<1>10. DOMAIN First(n, s) = 1 .. m
  BY <1>7, <1>8, <1>9, ListHasLength
<1> QED
  BY <1>3, <1>4, <1>7, <1>8, <1>10, FirstOfList DEF m

-----------------------------------------------------------------------------
(* Keys of a walk. *)

\* The keys of a walk are sort keys.
LEMMA KeyOfType ==
  ASSUME Types, NEW relaxed, NEW d \in Docs
  PROVE  /\ KeyOf(d, relaxed) \in SortKeys /\ KeyOf(d, relaxed).rid = d
         /\ CoverIn(docs[d], relaxed) \in Nat
<1>1. docs[d] \in Version /\ d \in Nat
  BY PagingAssumption DEF Types
<1>2. CoverOf(docs[d]) \in Nat
  BY <1>1, UnitsType DEF CoverOf
<1>3. docs[d].tier \in Nat /\ docs[d].place \in Nat
  BY <1>1 DEF Version
<1>4. docs[d].place + (IF docs[d].fades THEN page.now ELSE 0) \in Nat
  BY <1>3 DEF Types
<1> QED
  BY <1>1, <1>2, <1>3, <1>4 DEF KeyOf, SortKeys, CoverIn

\* A page's keys are those of its walk.
LEMMA KeysAgree ==
  ASSUME page.relaxed => page.weights = Weights
  PROVE  /\ Matching = MatchingOf(page.relaxed)
         /\ \A d : SortKey(d) = KeyOf(d, page.relaxed)
         /\ \A v : Coverage(v) = CoverIn(v, page.relaxed)
<1>1. Matching = MatchingOf(page.relaxed)
  BY DEF Matching, MatchingOf
<1>2. \A v : Coverage(v) = CoverIn(v, page.relaxed)
  BY DEF Coverage, CoverIn, CoverOf
<1>3. \A d : SortKey(d) = KeyOf(d, page.relaxed)
  BY <1>2 DEF SortKey, KeyOf, CoverIn
<1> QED
  BY <1>1, <1>2, <1>3

\* The keys are sorted by the engine's order.
LEMMA KeysInOrder ==
  ASSUME NEW K \in SUBSET SortKeys, IsFiniteSet(K)
  PROVE  /\ StrictTotalOrder(EarlierIn(K), K)
         /\ ListsInOrder(Sorted(K, Earlier), K, EarlierIn(K))
         /\ Sorted(K, Earlier) = [i \in DOMAIN Sorted(K, Earlier) |-> Sorted(K, Earlier)[i]]
<1> DEFINE s == Sorted(K, Earlier)
<1>1. \A a, b \in K : <<a, b>> \in EarlierIn(K) <=> Earlier(a, b)
  BY DEF EarlierIn
<1>2. StrictTotalOrder(EarlierIn(K), K)
  BY <1>1, EarlierIsStrictTotal DEF StrictTotalOrder
<1>3. \A x \in K : Predecessors(EarlierIn(K), K, x) = {y \in K : Earlier(y, x)}
  BY <1>1 DEF Predecessors
<1>4. s = [i \in 1 .. Cardinality(K) |->
             CHOOSE x \in K : Cardinality({y \in K : Earlier(y, x)}) = i - 1]
  BY DEF Sorted
<1>5. DOMAIN s = 1 .. Cardinality(K) /\ s = [i \in DOMAIN s |-> s[i]]
  <2>1. s \in [1 .. Cardinality(K) -> Range(s)]
    BY Zenon DEF Sorted, Range
  <2> HIDE DEF s
  <2> QED
    BY <2>1
<1> HIDE DEF s
<1>6. ASSUME NEW i \in 1 .. Cardinality(K)
      PROVE  s[i] \in K /\ Cardinality(Predecessors(EarlierIn(K), K, s[i])) = i - 1
  <2>1. PICK x \in K : Cardinality(Predecessors(EarlierIn(K), K, x)) = i - 1
    BY <1>2, EveryPlaceTaken
  <2>2. s[i] \in K /\ Cardinality({y \in K : Earlier(y, s[i])}) = i - 1
    BY <1>3, <1>4, <2>1
  <2> QED
    BY <1>3, <2>2
<1>7. ListsInOrder(s, K, EarlierIn(K))
  BY <1>5, <1>6 DEF ListsInOrder
<1> QED
  BY <1>2, <1>5, <1>7 DEF s

\* What a page's query finds, of equal titles the best, and the keys of it after a cursor.
FoundHere ==
  {d \in Matching : page.words => \A e \in Matching \ {d} :
                                    Title[e] = Title[d] => Earlier(SortKey(d), SortKey(e))}
KeysHere(cursor) == {k \in {SortKey(d) : d \in FoundHere} : After(k, cursor)}

\* A page's keys are sorted by the engine's order.
LEMMA RankedInOrder ==
  ASSUME Types, NEW cursor
  PROVE  /\ KeysHere(cursor) \in SUBSET SortKeys /\ IsFiniteSet(KeysHere(cursor))
         /\ StrictTotalOrder(EarlierIn(KeysHere(cursor)), KeysHere(cursor))
         /\ ListsInOrder(Ranked(cursor), KeysHere(cursor), EarlierIn(KeysHere(cursor)))
         /\ Ranked(cursor) = [i \in DOMAIN Ranked(cursor) |-> Ranked(cursor)[i]]
<1> DEFINE key == [d \in Matching |-> SortKey(d)]
           found == {d \in Matching : page.words =>
                       \A e \in Matching \ {d} : Title[e] = Title[d] => Earlier(key[d], key[e])}
           K == {k \in {key[d] : d \in found} : After(k, cursor)}
           keys == {SortKey(d) : d \in Docs}
<1>1. found = FoundHere
  BY DEF FoundHere
<1>2. \A d \in Matching : key[d] = SortKey(d)
  OBVIOUS
<1>3. found \subseteq Matching
  OBVIOUS
<1>4. Ranked(cursor) = Sorted(K, Earlier)
  BY DEF Ranked
<1> HIDE DEF key, found
<1>5. K = KeysHere(cursor)
  BY <1>1, <1>2, <1>3 DEF KeysHere
<1>6. K \subseteq keys
  BY <1>2, <1>3 DEF Matching
<1>7. IsFiniteSet(keys)
  <2> DEFINE all == [d \in Docs |-> SortKey(d)]
  <2>1. all \in Surjection(Docs, keys)
    BY DEF Surjection
  <2> HIDE DEF all, keys
  <2> QED
    BY <2>1, PagingAssumption, FS_Surjection
<1>8. K \in SUBSET SortKeys /\ IsFiniteSet(K)
  <2>1. \A k \in keys : k \in SortKeys
    BY SortKeyType
  <2> HIDE DEF K, keys
  <2> QED
    BY <1>6, <1>7, <2>1, FS_Subset
<1> HIDE DEF K
<1> QED
  BY <1>4, <1>5, <1>8, KeysInOrder

\* The engine's page: of what is found, all that comes after the cursor and not after its last key.
LEMMA EngineFinds ==
  ASSUME Types, NEW cursor, NEW limit \in Nat \ {0}, NEW order, NEW after,
         order = Rids(First(limit, Ranked(cursor))),
         after = IF Len(Ranked(cursor)) > limit THEN Ranked(cursor)[limit] ELSE NoKey
  PROVE  /\ Len(order) <= limit
         /\ after # NoKey => after \in SortKeys
         /\ page.words => \A i, j \in DOMAIN order : Title[order[i]] = Title[order[j]] => i = j
         /\ \A d : d \in Range(order) <=>
              /\ d \in FoundHere /\ After(SortKey(d), cursor)
              /\ after = NoKey \/ ~Earlier(after, SortKey(d))
<1> DEFINE s == Ranked(cursor)
           K == KeysHere(cursor)
           n == Cardinality(K)
           m == Smaller(limit, n)
<1>1. /\ K \in SUBSET SortKeys /\ IsFiniteSet(K) /\ StrictTotalOrder(EarlierIn(K), K)
      /\ ListsInOrder(s, K, EarlierIn(K)) /\ s = [i \in DOMAIN s |-> s[i]]
  BY RankedInOrder
<1>2. \A k \in K : /\ k.rid \in FoundHere /\ k = SortKey(k.rid) /\ After(k, cursor)
  <2>1. \A d \in FoundHere : d \in Docs /\ SortKey(d).rid = d
    BY SortKeyType DEF FoundHere, Matching
  <2>2. \A k \in K : \E d \in FoundHere : k = SortKey(d) /\ After(k, cursor)
    BY DEF KeysHere
  <2> QED
    BY <2>1, <2>2
<1>3. \A d \in FoundHere : After(SortKey(d), cursor) => SortKey(d) \in K
  BY DEF KeysHere
<1>4. \A d \in FoundHere : SortKey(d).rid = d /\ d \in Docs
  BY SortKeyType DEF FoundHere, Matching
<1> HIDE DEF s, K
<1>5. /\ \A i, j \in DOMAIN s : i < j <=> <<s[i], s[j]>> \in EarlierIn(K)
      /\ \A i, j \in DOMAIN s : s[i] = s[j] => i = j
      /\ \A k \in K : \E i \in DOMAIN s : s[i] = k
      /\ DOMAIN s = 1 .. n /\ n \in Nat
  BY <1>1, PlacesInOrder
<1>6. \A i \in DOMAIN s : s[i] \in K
  BY <1>1 DEF ListsInOrder
<1>7. \A i, j \in DOMAIN s : i < j <=> Earlier(s[i], s[j])
  BY <1>5, <1>6 DEF EarlierIn
<1>8. /\ Len(s) = n /\ IsList(First(limit, s))
      /\ DOMAIN First(limit, s) = 1 .. m
      /\ \A i \in 1 .. m : First(limit, s)[i] = s[i] /\ i \in DOMAIN s
  BY <1>1, FirstInOrder, FirstIsList
<1> HIDE DEF n
<1>9. m \in Nat /\ (n > limit => m = limit) /\ (n <= limit => m = n) /\ limit \in Nat
  BY <1>5 DEF Smaller
<1> HIDE DEF m
<1>10. /\ DOMAIN order = 1 .. m /\ IsList(order)
       /\ \A i \in 1 .. m : order[i] = s[i].rid /\ s[i] \in K /\ i \in DOMAIN s
  BY <1>6, <1>8, RidsIsList DEF Rids, s
<1>11. Len(order) <= limit
  <2>1. Len(order) \in Nat /\ DOMAIN order = 1 .. Len(order)
    BY <1>10, ListHasLength
  <2> QED
    BY <1>5, <1>9, <1>10, <2>1
<1>12. /\ n > limit => after = s[limit] /\ limit \in DOMAIN s /\ after \in SortKeys
       /\ n <= limit => after = NoKey
  BY <1>1, <1>5, <1>6, <1>8, <1>9 DEF s
<1>13. NoKey \notin SortKeys
  BY DEF NoKey, SortKeys
<1>14. after # NoKey => after \in SortKeys
  BY <1>5, <1>9, <1>12
<1>15. ASSUME page.words, NEW i \in DOMAIN order, NEW j \in DOMAIN order,
              Title[order[i]] = Title[order[j]]
       PROVE  i = j
  <2>1. /\ s[i] \in K /\ s[j] \in K /\ i \in DOMAIN s /\ j \in DOMAIN s
        /\ order[i] = s[i].rid /\ order[j] = s[j].rid
    BY <1>10
  <2>2. order[i] \in FoundHere /\ order[j] \in FoundHere
        /\ s[i] = SortKey(order[i]) /\ s[j] = SortKey(order[j])
    BY <1>2, <2>1
  <2>3. order[i] # order[j] => Earlier(s[i], s[j]) /\ Earlier(s[j], s[i])
    BY <1>15, <2>2 DEF FoundHere
  <2>4. ~(Earlier(s[i], s[j]) /\ Earlier(s[j], s[i]))
    BY <1>5, <1>7, <2>1
  <2> QED
    BY <1>5, <2>1, <2>2, <2>3, <2>4
<1>16. ASSUME NEW d \in Range(order)
       PROVE  /\ d \in FoundHere /\ After(SortKey(d), cursor)
              /\ after = NoKey \/ ~Earlier(after, SortKey(d))
  <2>1. PICK i \in 1 .. m : d = order[i]
    BY <1>10 DEF Range
  <2>2. d \in FoundHere /\ s[i] = SortKey(d) /\ After(SortKey(d), cursor) /\ i \in DOMAIN s
    BY <1>2, <1>10, <2>1
  <2>3. ASSUME after # NoKey PROVE ~Earlier(after, SortKey(d))
    <3>1. n > limit
      BY <1>5, <1>9, <1>12, <2>3
    <3>2. ~(limit < i) /\ after = s[limit] /\ limit \in DOMAIN s
      BY <1>5, <1>9, <1>12, <3>1
    <3> QED
      BY <1>7, <2>2, <3>2
  <2> QED
    BY <2>2, <2>3
<1>17. ASSUME NEW d \in FoundHere, After(SortKey(d), cursor),
              after = NoKey \/ ~Earlier(after, SortKey(d))
       PROVE  d \in Range(order)
  <2>1. PICK i \in DOMAIN s : s[i] = SortKey(d)
    BY <1>3, <1>5, <1>17
  <2>2. i \in 1 .. m
    <3>1. CASE n > limit
      <4>1. after # NoKey /\ after = s[limit] /\ limit \in DOMAIN s
        BY <1>12, <1>13, <3>1
      <4>2. ~(limit < i)
        BY <1>7, <1>17, <2>1, <4>1
      <4> QED
        BY <1>5, <1>9, <2>1, <3>1, <4>2
    <3>2. CASE n <= limit
      BY <1>5, <1>9, <2>1, <3>2
    <3> QED
      BY <1>5, <1>9, <3>1, <3>2
  <2>3. order[i] = d
    BY <1>4, <1>10, <2>1, <2>2
  <2> QED
    BY <1>10, <2>2, <2>3 DEF Range
<1> QED
  BY <1>11, <1>14, <1>15, <1>16, <1>17

-----------------------------------------------------------------------------
(* What stays as it is while the index, the query and its clock do. *)

SameWalk == docs' = docs /\ moved' = moved /\ page'.words = page.words /\ page'.now = page.now

\* Keys and lists depend on the index, the query and its clock only,
LEMMA SameKeys ==
  ASSUME docs' = docs, page'.words = page.words, page'.now = page.now
  PROVE  /\ \A d, r : KeyOf(d, r)' = KeyOf(d, r)
         /\ \A r : MatchingOf(r)' = MatchingOf(r)
         /\ Weights' = Weights
         /\ \A r : KeywordOf(r)' = KeywordOf(r)
         /\ NearestOf' = NearestOf
         /\ \A r : ListOf(r)' = ListOf(r)
<1>1. \A d, r : KeyOf(d, r)' = KeyOf(d, r)
  BY DEF KeyOf, CoverOf, Weights
<1>2. \A r : MatchingOf(r)' = MatchingOf(r)
  BY DEF MatchingOf, Matches
<1>3. \A a, b : Earlier(a, b)' <=> Earlier(a, b)
  BY DEF Earlier
<1>4. Weights' = Weights
  BY DEF Weights
<1>5. \A r : FoundOf(r)' = FoundOf(r)
  BY <1>1, <1>2, <1>3 DEF FoundOf
<1>6. ASSUME NEW r PROVE KeywordOf(r)' = KeywordOf(r)
  <2> DEFINE keys == KeysOf(r)
             R == EarlierIn(keys)
  <2>1. keys' = keys
    BY <1>1, <1>5 DEF KeysOf
  <2>2. R' = R
    BY <1>3, <2>1 DEF EarlierIn
  <2>3. KeywordOf(r) = Rids(First(Candidates, Arranged(keys, R)))
    BY DEF KeywordOf
  <2>4. KeywordOf(r)' = Rids(First(Candidates, Arranged(keys', R')))
    BY DEF KeywordOf
  <2> HIDE DEF keys, R
  <2> QED
    BY <2>1, <2>2, <2>3, <2>4
<1>7. NearestOf' = NearestOf
  <2>1. Near' = Near
    BY DEF Near
  <2>2. NearOrder' = NearOrder
    BY <2>1 DEF NearOrder
  <2> QED
    BY <2>1, <2>2 DEF NearestOf
<1>8. ASSUME NEW r PROVE ListOf(r)' = ListOf(r)
  <2> DEFINE list == Fused(KeywordOf(r), NearestOf)
             R == OrderOf(list, r)
             order == Arranged(DOMAIN list, R)
  <2>1. list' = list
    BY <1>6, <1>7
  <2>2. \A v : CoverIn(v, r)' = CoverIn(v, r)
    BY <1>4 DEF CoverIn, CoverOf
  <2>3. \A l : OrderOf(l, r)' = OrderOf(l, r)
    BY <2>2 DEF OrderOf
  <2>4. R' = R
    BY <2>1, <2>3
  <2>5. ListOf(r) = [i \in DOMAIN list |-> list[order[i]]]
    BY DEF ListOf
  <2>6. ListOf(r)' = [i \in DOMAIN list' |-> list'[order'[i]]]
    BY DEF ListOf
  <2> HIDE DEF list, R
  <2> QED
    BY <2>1, <2>4, <2>5, <2>6
<1> QED
  BY <1>1, <1>2, <1>4, <1>6, <1>7, <1>8

\* what keys say of cursors too,
LEMMA SameTerms ==
  ASSUME SameWalk
  PROVE  /\ \A key, c : (After(key, c)' <=> After(key, c)) /\ (Upto(key, c)' <=> Upto(key, c))
                        /\ (Passed(key, c)' <=> Passed(key, c))
         /\ \A d, r : (Steady(d, r)' <=> Steady(d, r)) /\ (Best(d, r)' <=> Best(d, r))
<1>1. \A a, b : Earlier(a, b)' <=> Earlier(a, b)
  BY DEF Earlier, SameWalk
<1>2. \A d, r : Steady(d, r)' <=> Steady(d, r)
  BY DEF Steady, SameWalk
<1>3. \A d, r : Best(d, r)' <=> Best(d, r)
  BY <1>1, <1>2, SameKeys DEF Best, SameWalk
<1> QED
  BY <1>1, <1>2, <1>3 DEF After, Upto, Passed

\* and so do what a page gives,
LEMMA SameGives ==
  ASSUME SameWalk, NEW results, NEW c, NEW next, NEW r
  PROVE  /\ KeysetGives(results, c, next, r)' <=> KeysetGives(results, c, next, r)
         /\ HybridGives(results, c, next, r)' <=> HybridGives(results, c, next, r)
<1>1. KeysetGives(results, c, next, r)' <=> KeysetGives(results, c, next, r)
  BY SameTerms, SameKeys DEF KeysetGives, SameWalk
<1>2. HybridGives(results, c, next, r)' <=> HybridGives(results, c, next, r)
  BY SameKeys DEF HybridGives, SameWalk
<1> QED
  BY <1>1, <1>2

\* and what a walk has shown.
LEMMA SameShown ==
  ASSUME SameWalk, shown' = shown, NEW c, NEW r, NEW done
  PROVE  /\ KeysetShown(c, r, done)' <=> KeysetShown(c, r, done)
         /\ HybridShown(c, r, done)' <=> HybridShown(c, r, done)
<1>1. KeysetShown(c, r, done)' <=> KeysetShown(c, r, done)
  BY SameTerms, SameKeys DEF KeysetShown, SameWalk
<1>2. HybridShown(c, r, done)' <=> HybridShown(c, r, done)
  BY SameKeys DEF HybridShown, SameWalk
<1> QED
  BY <1>1, <1>2

\* A change leaves the documents that have not changed where they were, in an exact walk.
LEMMA ChangedTerms ==
  ASSUME Types, NEW c \in Docs, NEW v, Change(c, v)
  PROVE  \A d \in Docs : \A r :
           Steady(d, r)' =>
             /\ ~r /\ Steady(d, r) /\ KeyOf(d, r)' = KeyOf(d, r)
             /\ (d \in MatchingOf(r))' <=> d \in MatchingOf(r)
             /\ Best(d, r)' => Best(d, r)
<1>1. /\ docs' = [docs EXCEPT ![c] = v] /\ moved' = moved \cup {c} /\ page' = page
      /\ docs \in [Docs -> Version]
  BY DEF Change, Types
<1>2. ASSUME NEW d \in Docs, NEW r, Steady(d, r)'
      PROVE  /\ ~r /\ Steady(d, r) /\ KeyOf(d, r)' = KeyOf(d, r)
             /\ (d \in MatchingOf(r))' <=> d \in MatchingOf(r)
  <2>1. d # c /\ ~r /\ Steady(d, r) /\ docs'[d] = docs[d]
    BY <1>1, <1>2 DEF Steady
  <2>2. KeyOf(d, r)' = KeyOf(d, r)
    BY <1>1, <2>1 DEF KeyOf
  <2>3. (d \in MatchingOf(r))' <=> d \in MatchingOf(r)
    BY <1>1, <2>1 DEF MatchingOf, Matches
  <2> QED
    BY <2>1, <2>2, <2>3
<1>3. \A a, b : Earlier(a, b)' <=> Earlier(a, b)
  BY <1>1 DEF Earlier
<1>4. ASSUME NEW d \in Docs, NEW r, Steady(d, r)', Best(d, r)'
      PROVE  Best(d, r)
  BY <1>1, <1>2, <1>3, <1>4 DEF Best
<1> QED
  BY <1>2, <1>4

\* So what pages have given and a walk has shown of these stays true.
LEMMA ChangeKeeps ==
  ASSUME Types, NEW c \in Docs, NEW v, Change(c, v), NEW cursor, NEW r
  PROVE  /\ \A results, next : KeysetGives(results, cursor, next, r) =>
                                 KeysetGives(results, cursor, next, r)'
         /\ \A results, next : HybridGives(results, cursor, next, r)'
         /\ \A done : KeysetShown(cursor, r, done) => KeysetShown(cursor, r, done)'
         /\ \A done : HybridShown(cursor, r, done)'
<1>1. moved' # {} /\ page' = page /\ shown' = shown
  BY DEF Change
<1>2. \A key, n : /\ (After(key, n)' <=> After(key, n)) /\ (Upto(key, n)' <=> Upto(key, n))
                  /\ (Passed(key, n)' <=> Passed(key, n))
  BY <1>1 DEF After, Upto, Passed, Earlier
<1>3. \A results, next : KeysetGives(results, cursor, next, r) =>
                           KeysetGives(results, cursor, next, r)'
  BY <1>2, ChangedTerms DEF KeysetGives
<1>4. \A results, next : HybridGives(results, cursor, next, r)'
  BY <1>1 DEF HybridGives
<1>5. \A done : KeysetShown(cursor, r, done) => KeysetShown(cursor, r, done)'
  BY <1>1, <1>2, ChangedTerms DEF KeysetShown
<1>6. \A done : HybridShown(cursor, r, done)'
  BY <1>1 DEF HybridShown
<1> QED
  BY <1>3, <1>4, <1>5, <1>6

-----------------------------------------------------------------------------
(* A page of the engine's list. *)

\* It gives what is between its cursor and the next page's.
LEMMA SearchGives ==
  ASSUME PageInv, WalkInv, Search PROVE EngineHolds'
<1> DEFINE ranked == Ranked(page.cursor)
           order == Rids(First(page.limit, ranked))
           after == IF Len(ranked) > page.limit THEN ranked[page.limit] ELSE NoKey
<1>1. /\ page.pc = "search" /\ page.limit \in Nat \ {0} /\ Types /\ page.relaxed \in BOOLEAN
  BY PagingAssumption DEF PageInv, Accepted, UnderWay, Search, Types
<1>2. /\ page' = [page EXCEPT !.pc = "read", !.order = order, !.after = after]
      /\ docs' = docs /\ moved' = moved
  BY DEF Search
<1>3. /\ Len(order) <= page.limit
      /\ after # NoKey => after \in SortKeys
      /\ page.words => \A i, j \in DOMAIN order : Title[order[i]] = Title[order[j]] => i = j
      /\ \A d : d \in Range(order) <=>
           /\ d \in FoundHere /\ After(SortKey(d), page.cursor)
           /\ after = NoKey \/ ~Earlier(after, SortKey(d))
  BY <1>1, EngineFinds
<1> HIDE DEF order, after
<1>4. /\ page'.order = order /\ page'.after = after /\ page'.limit = page.limit
      /\ page'.words = page.words /\ page'.now = page.now /\ page'.cursor = page.cursor
      /\ page'.relaxed = page.relaxed
  BY <1>1, <1>2 DEF Types, PageFields
<1>5. /\ NextOf'.k = "none" <=> after = NoKey
      /\ after # NoKey => NextOf'.key = after
  BY <1>4 DEF NextOf, Cursor, NoCursor
<1> DEFINE next == NextOf'
<1>6. ASSUME NEW d \in Docs, Steady(d, page.relaxed)
      PROVE  /\ FoundHere \subseteq MatchingOf(page.relaxed)
             /\ SortKey(d) = KeyOf(d, page.relaxed)
             /\ Best(d, page.relaxed) => d \in FoundHere
  <2>1. page.relaxed => page.weights = Weights
    BY <1>1, <1>6 DEF WalkInv, WeightsHold, UnderWay, Steady
  <2>2. Matching = MatchingOf(page.relaxed) /\ \A e : SortKey(e) = KeyOf(e, page.relaxed)
    BY <2>1, KeysAgree
  <2>3. \A e \in Matching : e \in Docs
    BY DEF Matching
  <2> QED
    BY <2>2, <2>3 DEF FoundHere, Best
<1> HIDE DEF next
<1>7. KeysetGives(Range(order), page.cursor, next, page.relaxed)
  BY <1>3, <1>5, <1>6 DEF KeysetGives, Upto, next
<1>8. \A results, c, n, r : KeysetGives(results, c, n, r)' <=> KeysetGives(results, c, n, r)
  BY <1>2, <1>4, SameGives DEF SameWalk
<1>9. KeysetGives(Range(page.order), page.cursor, NextOf, page.relaxed)'
  BY <1>4, <1>7, <1>8 DEF next
<1> QED
  BY <1>3, <1>4, <1>9 DEF EngineHolds

\* A page that holds no more than may be shown shows all of it that may be seen.
LEMMA WholePage ==
  ASSUME Lists, page.limit \in Nat, Len(page.order) <= page.limit
  PROVE  Results(0) = {page.order[i] : i \in {j \in 1 .. Len(page.order) : Shows(j, 0)}}
<1> DEFINE n == Len(page.order)
           shows == {i \in 0 + 1 .. n : Shows(i, 0)}
           last == {i \in shows : Cardinality({j \in shows : j <= i}) = page.limit}
<1>1. n \in Nat
  BY ListHasLength DEF Lists
<1>2. ASSUME NEW i \in last PROVE i = n
  <2>1. i \in 1 .. n /\ Cardinality({j \in shows : j <= i}) = page.limit
    OBVIOUS
  <2>2. {j \in shows : j <= i} \in SUBSET (1 .. i)
    BY <1>1
  <2>3. IsFiniteSet(1 .. i) /\ Cardinality(1 .. i) = i
    BY <1>1, <2>1, FS_Interval
  <2> HIDE DEF shows, n, last
  <2>4. Cardinality({j \in shows : j <= i}) <= i
    BY <2>2, <2>3, FS_Subset
  <2> QED
    BY <1>1, <2>1, <2>4 DEF n
<1>3. Stop(0) = IF last = {} THEN n ELSE CHOOSE i \in last : TRUE
  BY DEF Stop
<1> HIDE DEF last
<1>4. Stop(0) = n
  BY <1>2, <1>3
<1> QED
  BY <1>4 DEF Results

\* The page that is made of it gives the same, and a cursor that goes on.
LEMMA KeysetPageGives ==
  ASSUME PageInv, WalkInv, page.pc = "ordered", page.ranking = "keyword"
  PROVE  /\ KeysetGives(KeysetPage.results, page.cursor, KeysetPage.next, page.relaxed)
         /\ GoesOn(KeysetPage.next, page.relaxed)
<1> DEFINE order == page.order
<1>1. /\ Types /\ Lists /\ page.limit \in Nat /\ Found
  BY PagingAssumption DEF PageInv, Accepted, UnderWay, Found
<1>2. /\ Len(order) <= page.limit
      /\ page.words => \A i, j \in DOMAIN order : Title[order[i]] = Title[order[j]] => i = j
      /\ page.after # NoKey => page.after \in SortKeys
      /\ KeysetGives(Range(order), page.cursor, NextOf, page.relaxed)
  BY DEF WalkInv, EngineHolds
<1>3. /\ DOMAIN order = 1 .. Len(order) /\ Len(order) \in Nat
      /\ Range(order) \subseteq DOMAIN page.rows
  BY <1>1, ListHasLength DEF Lists, WalkInv, AllRead
<1>4. /\ KeysetPage.results = {order[i] : i \in {j \in 1 .. Len(order) : Shows(j, 0)}}
      /\ KeysetPage.next = NextOf
  BY <1>1, <1>2, WholePage DEF KeysetPage, NextOf
<1>5. KeysetPage.results \subseteq Range(order)
  BY <1>3, <1>4 DEF Range
<1>6. ASSUME NEW d \in Range(order), d \in MatchingOf(page.relaxed), d \notin moved
      PROVE  d \in KeysetPage.results
  <2>1. PICK i \in 1 .. Len(order) : order[i] = d
    BY <1>3 DEF Range
  <2>2. page.rows[d] = docs[d]
    BY <1>1, <1>3, <1>6 DEF WalkInv, RowsHold, UnderWay, MatchingOf
  <2>3. Visible(i)
    BY <1>6, <2>1, <2>2 DEF Visible, MatchingOf
  <2>4. ASSUME page.words, NEW j \in 0 + 1 .. i - 1 PROVE Title[order[j]] # Title[order[i]]
    BY <1>2, <1>3, <2>1, <2>4
  <2>5. Shows(i, 0)
    BY <2>3, <2>4 DEF Shows
  <2> QED
    BY <1>4, <2>1, <2>5
<1>7. KeysetGives(KeysetPage.results, page.cursor, NextOf, page.relaxed)
  <2>1. \A d : Best(d, page.relaxed) => d \in MatchingOf(page.relaxed)
    BY DEF Best
  <2>2. \A d : Steady(d, page.relaxed) => d \notin moved
    BY DEF Steady
  <2> HIDE DEF order
  <2> QED
    BY <1>2, <1>5, <1>6, <2>1, <2>2 DEF KeysetGives
<1>8. GoesOn(NextOf, page.relaxed)
  BY <1>2 DEF NextOf, GoesOn, Cursor, CursorNow, NoCursor
<1> QED
  BY <1>4, <1>7, <1>8

-----------------------------------------------------------------------------
(* The fused list of an index that does not change. *)

\* The nearest are those of an index that does not change.
LEMMA NearestIs ==
  ASSUME Types
  PROVE  Nearest = NearestOf /\ ListOfDocs(NearestOf) /\ Range(NearestOf) \subseteq Near
<1>1. /\ IsFiniteSet(Near) /\ StrictTotalOrder(NearOrder, Near)
      /\ ListsInOrder(NearestOfAll, Near, NearOrder)
  BY NearestInOrder
<1>2. NearestOfAll = [i \in DOMAIN NearestOfAll |-> NearestOfAll[i]]
  <2>1. NearestOfAll \in [1 .. Cardinality(Near) -> Range(NearestOfAll)]
    BY Zenon DEF NearestOfAll, Sorted, Range
  <2> QED
    BY <2>1
<1>3. NearestOfAll = Arranged(Near, NearOrder)
  BY <1>1, <1>2, OneList
<1>4. Nearest = First(Candidates, NearestOfAll)
  BY DEF Nearest, NearestOfAll, Near
<1>5. Nearest = NearestOf
  BY <1>3, <1>4 DEF NearestOf
<1>6. \A i \in DOMAIN First(Candidates, NearestOfAll) :
        First(Candidates, NearestOfAll)[i] = NearestOfAll[i] /\ i \in DOMAIN NearestOfAll
  BY <1>1, <1>2, FirstInOrder, PagingAssumption
<1>7. Range(Nearest) \subseteq Near
  BY <1>1, <1>4, <1>6 DEF Range, ListsInOrder
<1> QED
  BY <1>5, <1>7, NearestListOfDocs

\* The keys of what an index that does not change holds.
LEMMA KeysOfType ==
  ASSUME Types, NEW r
  PROVE  /\ KeysOf(r) \in SUBSET SortKeys /\ IsFiniteSet(KeysOf(r))
         /\ Cardinality(KeysOf(r)) <= Cardinality(Docs)
         /\ \A k \in KeysOf(r) : k.rid \in FoundOf(r)
<1>1. FoundOf(r) \subseteq Docs
  BY DEF FoundOf, MatchingOf
<1>2. \A k \in KeysOf(r) : k \in SortKeys /\ k.rid \in FoundOf(r) /\ k = KeyOf(k.rid, r)
  BY <1>1, KeyOfType DEF KeysOf
<1> DEFINE rid == [k \in KeysOf(r) |-> k.rid]
<1>3. rid \in Injection(KeysOf(r), Docs)
  <2>1. rid \in [KeysOf(r) -> Docs]
    BY <1>1, <1>2
  <2>2. \A a, b \in KeysOf(r) : rid[a] = rid[b] => a = b
    BY <1>2
  <2> HIDE DEF rid
  <2> QED
    BY <2>1, <2>2 DEF Injection, IsInjective
<1> HIDE DEF rid
<1>4. IsFiniteSet(KeysOf(r)) /\ Cardinality(KeysOf(r)) <= Cardinality(Docs)
  BY <1>3, PagingAssumption, FS_Injection
<1> QED
  BY <1>2, <1>4

\* Two lists with the same places are equally long.
LEMMA SameLength ==
  ASSUME NEW a \in Nat, NEW b \in Nat, 1 .. a = 1 .. b PROVE a = b
<1>1. a > 0 => a \in 1 .. b
  OBVIOUS
<1>2. b > 0 => b \in 1 .. a
  OBVIOUS
<1> QED
  BY <1>1, <1>2

\* The keyword candidates of such an index are documents that it finds,
LEMMA KeywordListed ==
  ASSUME Types, NEW r
  PROVE  ListOfDocs(KeywordOf(r)) /\ Range(KeywordOf(r)) \subseteq FoundOf(r)
<1> DEFINE K == KeysOf(r)
           s == Arranged(K, EarlierIn(K))
           first == First(Candidates, s)
<1>1. K \in SUBSET SortKeys /\ IsFiniteSet(K) /\ Cardinality(K) <= Cardinality(Docs)
  BY KeysOfType
<1>2. \A k \in K : k.rid \in FoundOf(r) /\ k.rid \in Docs
  BY KeysOfType DEF FoundOf, MatchingOf
<1>3. KeywordOf(r) = Rids(first)
  BY DEF KeywordOf, KeysOf
<1> HIDE DEF K
<1>4. StrictTotalOrder(EarlierIn(K), K) /\ ListsInOrder(s, K, EarlierIn(K))
  BY <1>1, KeysInOrder, OneList
<1>5. s = [i \in DOMAIN s |-> s[i]]
  BY DEF Arranged
<1> HIDE DEF s
<1>6. /\ Len(s) = Cardinality(K) /\ IsList(s) /\ IsList(first)
      /\ Len(first) = Smaller(Candidates, Len(s))
      /\ DOMAIN first = 1 .. Smaller(Candidates, Len(s))
      /\ \A i \in DOMAIN first : first[i] = s[i] /\ i \in DOMAIN s
  BY <1>1, <1>4, <1>5, FirstInOrder, FirstIsList, PagingAssumption
<1>7. \A i \in DOMAIN first : first[i] \in K
  BY <1>4, <1>6 DEF ListsInOrder
<1> HIDE DEF first
<1>8. IsList(Rids(first)) /\ DOMAIN Rids(first) = DOMAIN first
  BY <1>6, RidsIsList DEF Rids
<1>9. Range(Rids(first)) \subseteq FoundOf(r) /\ Range(Rids(first)) \subseteq Docs
  BY <1>2, <1>7 DEF Rids, Range
<1>10. Len(Rids(first)) <= Cardinality(Docs)
  <2>1. /\ Len(Rids(first)) \in Nat /\ DOMAIN Rids(first) = 1 .. Len(Rids(first))
        /\ Len(first) \in Nat /\ DOMAIN first = 1 .. Len(first)
    BY <1>6, <1>8, ListHasLength
  <2>2. Len(Rids(first)) = Len(first)
    <3>1. 1 .. Len(Rids(first)) = 1 .. Len(first)
      BY <1>8, <2>1
    <3> QED
      BY <2>1, <3>1, SameLength
  <2>3. /\ Cardinality(K) \in Nat /\ Cardinality(Docs) \in Nat
        /\ Len(first) <= Cardinality(K)
    BY <1>1, <1>6, FS_CardinalityType, PagingAssumption DEF Smaller
  <2> QED
    BY <1>1, <2>1, <2>2, <2>3
<1> QED
  BY <1>3, <1>8, <1>9, <1>10 DEF ListOfDocs

\* and what the engine returns is these.
LEMMA KeywordIs ==
  ASSUME Types, page.relaxed => page.weights = Weights
  PROVE  Rids(First(Candidates, Ranked(NoCursor))) = KeywordOf(page.relaxed)
<1> DEFINE K == KeysOf(page.relaxed)
<1>1. /\ Matching = MatchingOf(page.relaxed)
      /\ \A d : SortKey(d) = KeyOf(d, page.relaxed)
  BY KeysAgree
<1>2. FoundHere = FoundOf(page.relaxed)
  BY <1>1 DEF FoundHere, FoundOf
<1>3. KeysHere(NoCursor) = K
  BY <1>1, <1>2 DEF KeysHere, KeysOf, After, NoCursor
<1>4. /\ K \in SUBSET SortKeys /\ IsFiniteSet(K) /\ StrictTotalOrder(EarlierIn(K), K)
      /\ ListsInOrder(Ranked(NoCursor), K, EarlierIn(K))
      /\ Ranked(NoCursor) = [i \in DOMAIN Ranked(NoCursor) |-> Ranked(NoCursor)[i]]
  BY <1>3, RankedInOrder
<1>5. KeywordOf(page.relaxed) = Rids(First(Candidates, Arranged(K, EarlierIn(K))))
  BY DEF KeywordOf, KeysOf
<1> HIDE DEF K
<1>6. Ranked(NoCursor) = Arranged(K, EarlierIn(K))
  BY <1>4, OneList
<1> QED
  BY <1>5, <1>6

\* Coverage, tier and the place in the list make an order.
LEMMA OrderOfIsTotal ==
  ASSUME Types, NEW r, NEW list, ListOfDocs(list)
  PROVE  /\ StrictTotalOrder(OrderOf(list, r), DOMAIN list)
         /\ IsFiniteSet(DOMAIN list) /\ Cardinality(DOMAIN list) = Len(list)
         /\ DOMAIN list = 1 .. Len(list) /\ Len(list) \in Nat
<1>1. DOMAIN list = 1 .. Len(list) /\ Len(list) \in Nat
  BY ListHasLength DEF ListOfDocs
<1>2. ASSUME NEW i \in DOMAIN list
      PROVE  i \in Nat /\ CoverIn(docs[list[i]], r) \in Nat /\ docs[list[i]].tier \in Nat
  <2>1. list[i] \in Docs
    BY DEF ListOfDocs, Range
  <2>2. CoverIn(docs[list[i]], r) \in Nat
    BY <2>1, KeyOfType
  <2>3. docs[list[i]] \in Version
    BY <2>1 DEF Types
  <2> QED
    BY <1>1, <2>2, <2>3 DEF Version
<1>3. StrictTotalOrder(OrderOf(list, r), DOMAIN list)
  <2> DEFINE R == OrderOf(list, r)
             c(i) == CoverIn(docs[list[i]], r)
             t(i) == docs[list[i]].tier
  <2>1. \A i, j \in DOMAIN list : <<i, j>> \in R <=>
          c(i) > c(j) \/ (c(i) = c(j) /\ (t(i) > t(j) \/ (t(i) = t(j) /\ i < j)))
    BY DEF OrderOf
  <2>2. \A i \in DOMAIN list : i \in Nat /\ c(i) \in Nat /\ t(i) \in Nat
    BY <1>2
  <2> HIDE DEF R, c, t
  <2>3. \A i \in DOMAIN list : <<i, i>> \notin R
    BY <2>1, <2>2
  <2>4. \A i, j, k \in DOMAIN list : <<i, j>> \in R /\ <<j, k>> \in R => <<i, k>> \in R
    BY <2>1, <2>2
  <2>5. ASSUME NEW i \in DOMAIN list, NEW j \in DOMAIN list
        PROVE  i = j \/ <<i, j>> \in R \/ <<j, i>> \in R
    <3>1. c(i) > c(j) \/ c(j) > c(i) \/ c(i) = c(j)
      BY <2>2
    <3>2. t(i) > t(j) \/ t(j) > t(i) \/ t(i) = t(j)
      BY <2>2
    <3>3. i < j \/ j < i \/ i = j
      BY <2>2
    <3> QED
      BY <2>1, <3>1, <3>2, <3>3
  <2> QED
    BY <2>3, <2>4, <2>5 DEF StrictTotalOrder, R
<1>4. \A n \in Nat : IsFiniteSet(1 .. n) /\ Cardinality(1 .. n) = n
  BY FS_Interval
<1> QED
  BY <1>1, <1>3, <1>4

\* The fusion of both lists holds every candidate once.
LEMMA FusedCandidates ==
  ASSUME Types, NEW r
  PROVE  LET rids == Range(KeywordOf(r)) \cup Range(NearestOf)
             fused == Fused(KeywordOf(r), NearestOf)
         IN /\ \A i, j \in DOMAIN fused : fused[i] = fused[j] => i = j
            /\ \A d \in rids : \E i \in DOMAIN fused : fused[i] = d
            /\ \A i \in DOMAIN fused : fused[i] \in rids
            /\ \A d \in rids : d \in Docs /\ docs[d].seen # "nobody"
            /\ ListOfDocs(fused) /\ Range(fused) = rids
<1> DEFINE rids == Range(KeywordOf(r)) \cup Range(NearestOf)
           fused == Fused(KeywordOf(r), NearestOf)
           R == FusedOrder(KeywordOf(r), NearestOf)
<1>1. /\ ListOfDocs(KeywordOf(r)) /\ Range(KeywordOf(r)) \subseteq FoundOf(r)
      /\ ListOfDocs(NearestOf) /\ Range(NearestOf) \subseteq Near
  BY KeywordListed, NearestIs
<1>2. IsFiniteSet(rids) /\ StrictTotalOrder(R, rids) /\ ListsInOrder(fused, rids, R)
  BY <1>1, FusedInOrder, FusedOrderIsTotal
<1>3. IsList(fused)
  BY <1>1, FusedIsList DEF ListOfDocs
<1>4. \A d \in rids : d \in Docs /\ docs[d].seen # "nobody"
  BY <1>1 DEF FoundOf, MatchingOf, Near
<1> HIDE DEF rids, R, fused
<1>5. /\ \A i, j \in DOMAIN fused : fused[i] = fused[j] => i = j
      /\ \A d \in rids : \E i \in DOMAIN fused : fused[i] = d
      /\ \A i \in DOMAIN fused : fused[i] \in rids
      /\ DOMAIN fused = 1 .. Cardinality(rids) /\ Cardinality(rids) \in Nat
  <2>1. \A i \in DOMAIN fused : fused[i] \in rids
    BY <1>2 DEF ListsInOrder
  <2> QED
    BY <1>2, <2>1, PlacesInOrder
<1>6. ListOfDocs(fused)
  <2>1. Range(fused) \subseteq Docs
    BY <1>4, <1>5 DEF Range
  <2>2. Cardinality(rids) <= Cardinality(Docs)
    BY <1>4, PagingAssumption, FS_Subset
  <2>3. Len(fused) = Cardinality(rids)
    BY <1>3, <1>5, ListHasLength, SameLength
  <2> QED
    BY <1>3, <2>1, <2>2, <2>3 DEF ListOfDocs
<1>7. Range(fused) = rids
  BY <1>5 DEF Range
<1> QED
  BY <1>4, <1>5, <1>6, <1>7 DEF rids, fused

\* The list holds the candidates, each at one place, and whoever searches may see them.
LEMMA ListOfCandidates ==
  ASSUME Types, NEW r
  PROVE  LET list == ListOf(r)
         IN /\ DOMAIN list = 1 .. Len(list) /\ Len(list) \in Nat
            /\ \A i, j \in DOMAIN list : list[i] = list[j] => i = j
            /\ Range(list) = Range(KeywordOf(r)) \cup Range(NearestOf)
            /\ \A i \in DOMAIN list : list[i] \in Docs /\ docs[list[i]].seen # "nobody"
<1> DEFINE rids == Range(KeywordOf(r)) \cup Range(NearestOf)
           fused == Fused(KeywordOf(r), NearestOf)
           order == Arranged(DOMAIN fused, OrderOf(fused, r))
           list == ListOf(r)
<1>1. ListOf(r) = [i \in DOMAIN fused |-> fused[order[i]]]
  BY DEF ListOf
<1>2. /\ \A i, j \in DOMAIN fused : fused[i] = fused[j] => i = j
      /\ \A d \in rids : \E i \in DOMAIN fused : fused[i] = d
      /\ \A i \in DOMAIN fused : fused[i] \in rids
      /\ \A d \in rids : d \in Docs /\ docs[d].seen # "nobody"
      /\ ListOfDocs(fused)
  BY FusedCandidates
<1> HIDE DEF rids, fused
<1>3. /\ StrictTotalOrder(OrderOf(fused, r), DOMAIN fused) /\ IsFiniteSet(DOMAIN fused)
      /\ DOMAIN fused = 1 .. Len(fused) /\ Len(fused) \in Nat
  BY <1>2, OrderOfIsTotal
<1>4. ListsInOrder(order, DOMAIN fused, OrderOf(fused, r))
  BY <1>3, OneList
<1> HIDE DEF order
<1>5. /\ \A i, j \in DOMAIN order : order[i] = order[j] => i = j
      /\ \A k \in DOMAIN fused : \E i \in DOMAIN order : order[i] = k
      /\ \A i \in DOMAIN order : order[i] \in DOMAIN fused
      /\ DOMAIN order = DOMAIN fused
  <2>1. /\ \A i \in DOMAIN order : order[i] \in DOMAIN fused
        /\ DOMAIN order = 1 .. Cardinality(DOMAIN fused)
    BY <1>4 DEF ListsInOrder
  <2>2. Cardinality(DOMAIN fused) = Len(fused)
    BY <1>2, OrderOfIsTotal
  <2> QED
    BY <1>3, <1>4, <2>1, <2>2, PlacesInOrder
<1>6. DOMAIN list = DOMAIN fused /\ \A i \in DOMAIN fused : list[i] = fused[order[i]]
  BY <1>1
<1>7. Len(list) = Len(fused)
  BY <1>1, <1>3
<1> HIDE DEF list
<1>8. \A i, j \in DOMAIN list : list[i] = list[j] => i = j
  BY <1>2, <1>5, <1>6
<1>9. Range(list) = rids
  BY <1>2, <1>5, <1>6 DEF Range
<1>10. \A i \in DOMAIN list : list[i] \in rids
  BY <1>2, <1>5, <1>6
<1> QED
  BY <1>2, <1>3, <1>6, <1>7, <1>8, <1>9, <1>10 DEF list, rids

\* Ordering the documents as they were read orders them as they are.
LEMMA RankOrderIs ==
  ASSUME Types, NEW list, ListOfDocs(list), page.relaxed => page.weights = Weights,
         \A d \in Range(list) : page.rows[d] = docs[d]
  PROVE  RankOrder(list) =
           [i \in DOMAIN list |->
              list[Arranged(DOMAIN list, OrderOf(list, page.relaxed))[i]]]
<1> DEFINE S == DOMAIN list
           R == OrderOf(list, page.relaxed)
           Before(i, j) ==
             LET v == page.rows[list[i]]  u == page.rows[list[j]]
             IN \/ Coverage(v) > Coverage(u)
                \/ Coverage(v) = Coverage(u) /\ (v.tier > u.tier \/ (v.tier = u.tier /\ i < j))
           order == [i \in 1 .. Cardinality(S) |->
                       CHOOSE x \in S : Cardinality({y \in S : Before(y, x)}) = i - 1]
<1>1. RankOrder(list) = [i \in DOMAIN list |-> list[order[i]]]
  BY DEF RankOrder, Sorted
<1>2. StrictTotalOrder(R, S) /\ IsFiniteSet(S)
  BY OrderOfIsTotal
<1>3. \A i, j \in S : Before(i, j) <=> <<i, j>> \in R
  <2>1. \A v : Coverage(v) = CoverIn(v, page.relaxed)
    BY KeysAgree
  <2>2. \A i \in S : page.rows[list[i]] = docs[list[i]]
    BY DEF Range
  <2> QED
    BY <2>1, <2>2 DEF OrderOf
<1>4. order \in [1 .. Cardinality(S) -> Range(order)]
  BY Zenon DEF Range
<1>5. order = [i \in DOMAIN order |-> order[i]] /\ DOMAIN order = 1 .. Cardinality(S)
  <2> HIDE DEF order
  <2> QED
    BY <1>4
<1> HIDE DEF S, R, Before
<1>6. \A x \in S : {y \in S : Before(y, x)} = Predecessors(R, S, x)
  BY <1>3 DEF Predecessors
<1>7. ASSUME NEW i \in 1 .. Cardinality(S)
      PROVE  order[i] \in S /\ Cardinality(Predecessors(R, S, order[i])) = i - 1
  <2>1. PICK x \in S : Cardinality(Predecessors(R, S, x)) = i - 1
    BY <1>2, EveryPlaceTaken
  <2>2. order[i] \in S /\ Cardinality({y \in S : Before(y, order[i])}) = i - 1
    BY <1>6, <2>1
  <2> QED
    BY <1>6, <2>2
<1> HIDE DEF order
<1>8. ListsInOrder(order, S, R)
  BY <1>5, <1>7 DEF ListsInOrder
<1>9. order = Arranged(S, R)
  BY <1>2, <1>5, <1>8, OneList
<1> QED
  BY <1>1, <1>9 DEF S, R

\* A page of the fused list gives each title between where it begins and where it stops.
LEMMA HybridPageGives ==
  ASSUME PageInv, WalkInv, page.pc = "ordered", page.ranking = "hybrid"
  PROVE  /\ HybridGives(HybridPage.results, page.cursor, HybridPage.next, page.relaxed)
         /\ GoesOn(HybridPage.next, page.relaxed)
<1> DEFINE from == page.cursor.offset
           list == ListOf(page.relaxed)
           to == Stop(from)
           next == HybridPage.next
<1>1. from \in Nat /\ Types /\ Lists /\ Found
  BY DEF PageInv, Cursors, CursorOk, Found
<1>2. next = IF to < Len(page.order) THEN Cursor("f", NoKey, to) ELSE NoCursor
  BY DEF HybridPage
<1>3. HybridPage.results = {page.order[i] : i \in {j \in from + 1 .. to : Shows(j, from)}}
  BY DEF HybridPage, Results
<1>4. to \in Nat /\ Len(page.order) \in Nat /\ to <= Len(page.order)
  <2> DEFINE shows == {i \in from + 1 .. Len(page.order) : Shows(i, from)}
             last == {i \in shows : Cardinality({j \in shows : j <= i}) = page.limit}
  <2>1. \A i \in last : i \in from + 1 .. Len(page.order)
    OBVIOUS
  <2>2. to = IF last = {} THEN Len(page.order) ELSE CHOOSE i \in last : TRUE
    BY DEF Stop
  <2>3. to \in Nat /\ Len(page.order) \in Nat
    <3> HIDE DEF from
    <3> QED
      BY <1>1, StopsLater
  <2> HIDE DEF last, to
  <2> QED
    BY <1>1, <2>1, <2>2, <2>3
<1> HIDE DEF to, next
<1>5. GoesOn(next, page.relaxed)
  BY <1>2 DEF GoesOn, Cursor, CursorNow, NoCursor
<1>6. ASSUME moved = {}
      PROVE  LET here == {i \in DOMAIN list : from < i /\ (next.k = "none" \/ i <= next.offset)}
             IN /\ \A d \in HybridPage.results : \E i \in here : list[i] = d
                /\ \A i \in here : \E j \in here :
                     list[j] \in HybridPage.results /\ Title[list[j]] = Title[list[i]]
  <2> DEFINE here == {i \in DOMAIN list : from < i /\ (next.k = "none" \/ i <= next.offset)}
  <2>1. page.order = list
    BY <1>6 DEF WalkInv, CandidatesHold
  <2>2. /\ DOMAIN list = 1 .. Len(list) /\ Len(list) \in Nat
        /\ \A i \in DOMAIN list : list[i] \in Docs /\ docs[list[i]].seen # "nobody"
    BY <1>1, ListOfCandidates
  <2>3. \A i \in DOMAIN list : Visible(i)
    <3>1. \A i \in DOMAIN list : list[i] \in DOMAIN page.rows
      BY <1>6, <2>1 DEF WalkInv, AllRead, Range
    <3>2. \A i \in DOMAIN list : page.rows[list[i]] = docs[list[i]]
      BY <1>1, <1>6, <2>2, <3>1 DEF WalkInv, RowsHold, UnderWay
    <3> HIDE DEF list
    <3> QED
      BY <2>1, <2>2, <3>2 DEF Visible
  <2> HIDE DEF list
  <2>4. here = from + 1 .. to
    <3>1. to < Len(list) => next.k = "f" /\ next.offset = to
      BY <1>2, <2>1 DEF Cursor
    <3>2. ~(to < Len(list)) => next.k = "none" /\ to = Len(list)
      BY <1>2, <1>4, <2>1 DEF NoCursor
    <3>3. \A i \in DOMAIN list : (next.k = "none" \/ i <= next.offset) <=> i <= to
      <4>1. \A i \in DOMAIN list : i \in Nat /\ i <= Len(list)
        BY <2>2
      <4>2. CASE to < Len(list)
        BY <3>1, <4>2
      <4>3. CASE ~(to < Len(list))
        BY <3>2, <4>1, <4>3
      <4> QED
        BY <4>2, <4>3
    <3>4. here = {i \in DOMAIN list : from < i /\ i <= to}
      BY <3>3
    <3> HIDE DEF here, from
    <3>5. \A i \in Nat : i \in from + 1 .. to <=> from < i /\ i <= to
      BY <1>1, <1>4
    <3>6. \A i \in from + 1 .. to : i \in DOMAIN list
      BY <1>1, <1>4, <2>1, <2>2
    <3>7. \A i \in DOMAIN list : i \in Nat
      BY <2>2
    <3>8. \A i \in from + 1 .. to : i \in Nat
      BY <1>1
    <3> QED
      BY <3>4, <3>5, <3>6, <3>7, <3>8
  <2>5. ASSUME NEW i \in here
        PROVE  \E j \in here : list[j] \in HybridPage.results /\ Title[list[j]] = Title[list[i]]
    <3> DEFINE same == {j \in from + 1 .. i : Title[list[j]] = Title[list[i]]}
    <3>1. i \in from + 1 .. to /\ i \in Nat
      BY <1>1, <1>4, <2>4
    <3>2. IsFiniteSet(same) /\ same \in SUBSET Nat /\ i \in same
      <4>1. same \in SUBSET (from + 1 .. i)
        OBVIOUS
      <4>2. \A j \in from + 1 .. i : j \in Nat
        BY <1>1
      <4>3. i \in same
        BY <1>1, <3>1
      <4> HIDE DEF same, from
      <4>4. IsFiniteSet(from + 1 .. i)
        BY <1>1, <3>1, FS_Interval
      <4> QED
        BY <4>1, <4>2, <4>3, <4>4, FS_Subset
    <3> HIDE DEF same
    <3>3. PICK j \in same : \A k \in same : j <= k
      BY <3>2, FirstNumber
    <3>4. j \in from + 1 .. i /\ Title[list[j]] = Title[list[i]]
      BY DEF same
    <3>5. j \in from + 1 .. to /\ j \in DOMAIN list
      BY <1>1, <1>4, <2>1, <2>2, <3>1, <3>4
    <3>6. ASSUME NEW k \in from + 1 .. j - 1 PROVE Title[list[k]] # Title[list[j]]
      <4>1. k \in from + 1 .. i /\ ~(j <= k)
        BY <1>1, <3>1, <3>4
      <4> QED
        BY <3>3, <3>4, <4>1 DEF same
    <3>7. Shows(j, from)
      BY <2>1, <2>3, <3>5, <3>6 DEF Shows
    <3>8. list[j] \in HybridPage.results
      BY <1>3, <2>1, <3>5, <3>7
    <3> QED
      BY <2>4, <3>4, <3>5, <3>8
  <2>6. \A d \in HybridPage.results : \E i \in here : list[i] = d
    BY <1>3, <2>1, <2>4
  <2> QED
    BY <2>5, <2>6
<1> QED
  BY <1>5, <1>6 DEF HybridGives, next

-----------------------------------------------------------------------------
(* A page goes out. *)

GoesOut(results) == shown' = [d \in Docs |-> Smaller(2, shown[d] + IF d \in results THEN 1 ELSE 0)]

\* What a page of the engine's list adds to the walk ends where the next page begins.
LEMMA KeysetAnswer ==
  ASSUME Types, SameWalk, shown \in [Docs -> 0 .. 2], NEW results, NEW c, NEW n, NEW r, NEW done,
         done <=> n.k = "none",
         c.k = "none" \/ c.key \in SortKeys, n.k = "none" \/ n.key \in SortKeys,
         c.k # "none" /\ n.k # "none" => Earlier(c.key, n.key),
         KeysetGives(results, c, n, r), KeysetShown(c, r, FALSE), GoesOut(results)
  PROVE  KeysetShown(n, r, done)'
<1>1. ASSUME NEW d \in Docs, Steady(d, r)
      PROVE  LET passed == done \/ Passed(KeyOf(d, r), n)
             IN /\ shown'[d] <= 1
                /\ shown'[d] # 0 => d \in MatchingOf(r) /\ passed
                /\ Best(d, r) /\ passed => shown'[d] = 1
  <2> DEFINE key == KeyOf(d, r)
             before == Passed(key, c)
             after == done \/ Passed(key, n)
  <2>1. key \in SortKeys
    BY KeyOfType
  <2>2. /\ d \in results => d \in MatchingOf(r) /\ After(key, c) /\ Upto(key, n)
        /\ Best(d, r) /\ After(key, c) /\ Upto(key, n) => d \in results
    BY <1>1 DEF KeysetGives
  <2>3. /\ shown[d] <= 1
        /\ shown[d] # 0 => d \in MatchingOf(r) /\ before
        /\ Best(d, r) /\ before => shown[d] = 1
    BY <1>1 DEF KeysetShown
  <2>4. shown[d] \in 0 .. 2
    OBVIOUS
  <2>5. shown'[d] = Smaller(2, shown[d] + IF d \in results THEN 1 ELSE 0)
    BY DEF GoesOut
  <2> HIDE DEF key
  <2>6. before <=> ~After(key, c)
    BY DEF Passed, After
  <2>7. after <=> Upto(key, n)
    BY DEF Passed, Upto
  <2>8. before => after
    <3> SUFFICES ASSUME c.k # "none", n.k # "none", ~Earlier(c.key, key) PROVE ~Earlier(n.key, key)
      BY DEF Passed
    <3> DEFINE K == {c.key, n.key, key}
    <3>1. K \in SUBSET SortKeys
      BY <2>1
    <3>2. \A x, y, z \in K : Earlier(x, y) /\ Earlier(y, z) => Earlier(x, z)
      BY <3>1, EarlierIsStrictTotal
    <3> QED
      BY <3>2
  <2> HIDE DEF before, after
  <2>9. CASE d \in results
    <3>1. shown[d] = 0 /\ d \in MatchingOf(r) /\ after
      BY <2>2, <2>3, <2>6, <2>7, <2>9
    <3>2. shown'[d] = 1
      BY <2>5, <2>9, <3>1 DEF Smaller
    <3> QED
      BY <3>1, <3>2 DEF after, key
  <2>10. CASE d \notin results
    <3>1. shown'[d] = shown[d]
      BY <2>4, <2>5, <2>10 DEF Smaller
    <3>2. Best(d, r) /\ after => before
      BY <2>2, <2>6, <2>7, <2>10
    <3> QED
      BY <2>3, <2>8, <3>1, <3>2 DEF after, key
  <2> QED
    BY <2>9, <2>10
<1>2. /\ \A key : Passed(key, n)' <=> Passed(key, n)
      /\ \A d : (Steady(d, r)' <=> Steady(d, r)) /\ (Best(d, r)' <=> Best(d, r))
      /\ \A d : KeyOf(d, r)' = KeyOf(d, r) /\ MatchingOf(r)' = MatchingOf(r)
  BY SameTerms, SameKeys DEF SameWalk
<1> QED
  BY <1>1, <1>2 DEF KeysetShown

\* So does a page of the fused list.
LEMMA HybridAnswer ==
  ASSUME Types, SameWalk, shown \in [Docs -> 0 .. 2], NEW results, NEW c, NEW n, NEW r, NEW done,
         done <=> n.k = "none", c.offset \in Nat, n.offset \in Nat,
         c.k = "none" => c.offset = 0, n.k # "none" => c.offset <= n.offset,
         HybridGives(results, c, n, r), HybridShown(c, r, FALSE), GoesOut(results)
  PROVE  HybridShown(n, r, done)'
<1> DEFINE list == ListOf(r)
           here == {i \in DOMAIN list : c.offset < i /\ (n.k = "none" \/ i <= n.offset)}
           before == {i \in DOMAIN list : FALSE \/ (c.k # "none" /\ i <= c.offset)}
           after == {i \in DOMAIN list : done \/ (n.k # "none" /\ i <= n.offset)}
<1>1. /\ DOMAIN list = 1 .. Len(list) /\ Len(list) \in Nat
      /\ \A i, j \in DOMAIN list : list[i] = list[j] => i = j
      /\ \A i \in DOMAIN list : list[i] \in Docs
  BY ListOfCandidates
<1>2. list' = list
  BY SameKeys DEF SameWalk
<1>3. ASSUME moved = {}
      PROVE  /\ \A d \in Docs : shown'[d] <= 1 /\ (shown'[d] # 0 => \E i \in after : list[i] = d)
             /\ \A i \in after : \E j \in after :
                  shown'[list[j]] = 1 /\ Title[list[j]] = Title[list[i]]
  <2>1. /\ \A d \in results : \E i \in here : list[i] = d
        /\ \A i \in here : \E j \in here : list[j] \in results /\ Title[list[j]] = Title[list[i]]
    BY <1>3 DEF HybridGives
  <2>2. /\ \A d \in Docs : shown[d] <= 1 /\ (shown[d] # 0 => \E i \in before : list[i] = d)
        /\ \A i \in before : \E j \in before :
             shown[list[j]] = 1 /\ Title[list[j]] = Title[list[i]]
    BY <1>3 DEF HybridShown
  <2>3. /\ here \subseteq DOMAIN list /\ before \subseteq DOMAIN list /\ after \subseteq DOMAIN list
        /\ \A i \in DOMAIN list : i \in after <=> i \in here \/ i \in before
        /\ \A i \in DOMAIN list : ~(i \in here /\ i \in before)
    <3>1. \A i \in DOMAIN list : i \in Nat /\ i > 0
      BY <1>1
    <3> HIDE DEF list
    <3> QED
      BY <3>1
  <2> HIDE DEF list, here, before, after
  <2>4. \A d \in Docs : shown[d] \in 0 .. 2
                        /\ shown'[d] = Smaller(2, shown[d] + IF d \in results THEN 1 ELSE 0)
    BY DEF GoesOut
  <2>5. ASSUME NEW d \in Docs, d \in results
        PROVE  shown'[d] = 1 /\ \E i \in after : list[i] = d
    <3>1. PICK i \in here : list[i] = d
      BY <2>1, <2>5
    <3>2. shown[d] = 0
      BY <1>1, <2>2, <2>3, <3>1
    <3>3. shown'[d] = 1
      BY <2>4, <2>5, <3>2 DEF Smaller
    <3> QED
      BY <2>3, <3>1, <3>3
  <2>6. ASSUME NEW d \in Docs, d \notin results
        PROVE  shown'[d] = shown[d] /\ shown[d] <= 1
               /\ (shown[d] # 0 => \E i \in after : list[i] = d)
    <3>1. shown'[d] = shown[d]
      BY <2>4, <2>6 DEF Smaller
    <3> QED
      BY <2>2, <2>3, <3>1
  <2>7. ASSUME NEW i \in after
        PROVE  \E j \in after : shown'[list[j]] = 1 /\ Title[list[j]] = Title[list[i]]
    <3>1. CASE i \in here
      <4>1. PICK j \in here : list[j] \in results /\ Title[list[j]] = Title[list[i]]
        BY <2>1, <3>1
      <4> QED
        BY <1>1, <2>3, <2>5, <4>1
    <3>2. CASE i \in before
      <4>1. PICK j \in before : shown[list[j]] = 1 /\ Title[list[j]] = Title[list[i]]
        BY <2>2, <3>2
      <4>2. list[j] \notin results
        BY <1>1, <2>1, <2>3, <4>1
      <4> QED
        BY <1>1, <2>3, <2>6, <4>1, <4>2
    <3> QED
      BY <2>3, <3>1, <3>2
  <2> QED
    BY <2>5, <2>6, <2>7
<1> HIDE DEF list
<1>4. moved' = moved
  BY DEF SameWalk
<1> QED
  BY <1>2, <1>3, <1>4 DEF HybridShown, list

\* Before the first page nothing has been shown.
LEMMA NothingShown ==
  ASSUME \A d \in Docs : shown'[d] = 0, NEW c, c.k = "none", NEW r
  PROVE  KeysetShown(c, r, FALSE)' /\ HybridShown(c, r, FALSE)'
BY DEF KeysetShown, HybridShown, Passed

-----------------------------------------------------------------------------
(* The invariant of a walk. *)

\* The parts of the invariant depend on nothing else either.
LEMMA SameParts ==
  ASSUME SameWalk, page'.ranking = "hybrid" <=> page.ranking = "hybrid"
  PROVE  /\ \A results, c, n, r : Gives(results, c, n, r)' <=> Gives(results, c, n, r)
         /\ \A n, r : GoesOn(n, r)' <=> GoesOn(n, r)
         /\ shown' = shown =>
              \A c, r, done : HasShown(c, r, done)' <=> HasShown(c, r, done)
<1>1. \A results, c, n, r : Gives(results, c, n, r)' <=> Gives(results, c, n, r)
  BY SameGives DEF Gives
<1>2. \A n, r : GoesOn(n, r)' <=> GoesOn(n, r)
  BY DEF GoesOn, SameWalk
<1>3. ASSUME shown' = shown
      PROVE  \A c, r, done : HasShown(c, r, done)' <=> HasShown(c, r, done)
  BY <1>3, SameShown DEF HasShown
<1> QED
  BY <1>1, <1>2, <1>3

\* What a step of a request leaves as it is.
LEMMA RequestKeeps ==
  ASSUME WalkInv, SameRequest, moved' = moved, shown' = shown
  PROVE  /\ SameWalk
         /\ (shown \in [Docs -> 0 .. 2])'
         /\ NothingYet' /\ CursorGoesOn' /\ WalkShown' /\ KeptGives'
<1>1. /\ SameWalk /\ page'.ranking = page.ranking /\ page'.cursor = page.cursor
      /\ page'.relaxed = page.relaxed /\ page'.kept = page.kept
      /\ UnderWay /\ UnderWay'
      /\ page.pc \notin {"done", "refused"} /\ page'.pc \notin {"done", "refused"}
      /\ (page.pc = "done") = FALSE /\ (page'.pc = "done") = FALSE
  BY DEF SameWalk, SameRequest, UnderWay, Found
<1>2. NothingYet'
  BY <1>1 DEF WalkInv, NothingYet
<1>3. CursorGoesOn'
  BY <1>1, SameParts DEF WalkInv, CursorGoesOn
<1>4. WalkShown'
  BY <1>1, SameParts DEF WalkInv, WalkShown
<1>5. KeptGives'
  BY <1>1, SameParts DEF WalkInv, KeptGives
<1> QED
  BY <1>1, <1>2, <1>3, <1>4, <1>5 DEF WalkInv

\* While a page and its list are as they were, they hold what they held.
LEMMA EngineKeeps ==
  ASSUME SameWalk, page'.order = page.order, page'.after = page.after, page'.limit = page.limit,
         page'.cursor = page.cursor, page'.relaxed = page.relaxed, page'.ranking = page.ranking,
         page.pc \in {"read", "ordered"} \/ page'.pc \notin {"read", "ordered"},
         EngineHolds
  PROVE  EngineHolds'
<1>1. page'.words = page.words /\ page'.now = page.now
  BY DEF SameWalk
<1>2. NextOf' = NextOf
  BY <1>1 DEF NextOf, Cursor, CursorNow, CursorX
<1>3. \A results, c, n, r : KeysetGives(results, c, n, r)' <=> KeysetGives(results, c, n, r)
  BY SameGives
<1> QED
  BY <1>1, <1>2, <1>3 DEF EngineHolds

\* The words are weighed by the index as it is.
LEMMA WeighWalk ==
  ASSUME PageInv, WalkInv, Weigh PROVE WalkInv'
<1>1. /\ SameRequest /\ moved' = moved /\ shown' = shown /\ page.pc = "weigh"
      /\ page'.pc = "search" /\ page'.weights = Weights /\ page'.rows = page.rows
      /\ page'.waits = page.waits /\ page'.keyword = page.keyword /\ page'.near = page.near
  BY DEF Weigh, PageInv, Types, PageFields, SameRequest, UnderWay
<1>2. /\ page'.ranking = page.ranking /\ page'.words = page.words /\ page'.now = page.now
      /\ page'.relaxed = page.relaxed /\ docs' = docs
  BY <1>1 DEF SameRequest
<1>3. WeightsHold'
  BY <1>1, <1>2, SameKeys DEF WalkInv, WeightsHold, UnderWay
<1>4. RowsHold'
  BY <1>1, <1>2 DEF WalkInv, RowsHold, UnderWay
<1>5. CandidatesHold'
  BY <1>1, <1>2, SameKeys DEF WalkInv, CandidatesHold
<1>6. AllRead' /\ EngineHolds' /\ AnswerGives'
  BY <1>1 DEF AllRead, EngineHolds, AnswerGives
<1> QED
  BY <1>1, <1>3, <1>4, <1>5, <1>6, RequestKeeps DEF WalkInv

\* The engine's page.
LEMMA SearchWalk ==
  ASSUME PageInv, WalkInv, Search PROVE WalkInv'
<1>1. /\ SameRequest /\ moved' = moved /\ shown' = shown /\ page.pc = "search"
      /\ page'.pc = "read" /\ page'.weights = page.weights /\ page'.rows = page.rows
      /\ page'.ranking = "keyword"
  BY DEF Search, PageInv, Types, PageFields, SameRequest, UnderWay, Found
<1>2. /\ page'.ranking = page.ranking /\ page'.words = page.words /\ page'.now = page.now
      /\ page'.relaxed = page.relaxed /\ docs' = docs
  BY <1>1 DEF SameRequest
<1>3. WeightsHold'
  BY <1>1, <1>2, SameKeys DEF WalkInv, WeightsHold, UnderWay
<1>4. RowsHold'
  BY <1>1, <1>2 DEF WalkInv, RowsHold, UnderWay
<1>5. CandidatesHold' /\ AllRead' /\ AnswerGives'
  BY <1>1 DEF CandidatesHold, AllRead, AnswerGives
<1> QED
  BY <1>1, <1>3, <1>4, <1>5, SearchGives, RequestKeeps DEF WalkInv

\* The lists of candidates and their fusion.
LEMMA CandidatesWalk ==
  ASSUME PageInv, WalkInv, KeywordList \/ NearList \/ Fuse PROVE WalkInv'
<1>1. /\ SameRequest /\ moved' = moved /\ shown' = shown /\ page.pc = "search"
      /\ page'.weights = page.weights /\ page'.rows = page.rows
      /\ page'.pc \in {"search", "read"} /\ page'.ranking = "hybrid"
      /\ Types
  BY DEF KeywordList, NearList, Fuse, PageInv, Types, PageFields, SameRequest, UnderWay, Found
<1>2. /\ page'.ranking = page.ranking /\ page'.words = page.words /\ page'.now = page.now
      /\ page'.relaxed = page.relaxed /\ docs' = docs
  BY <1>1 DEF SameRequest
<1>3. WeightsHold'
  BY <1>1, <1>2, SameKeys DEF WalkInv, WeightsHold, UnderWay
<1>4. RowsHold'
  BY <1>1, <1>2 DEF WalkInv, RowsHold, UnderWay
<1>5. EngineHolds' /\ AllRead' /\ AnswerGives'
  BY <1>1 DEF EngineHolds, AllRead, AnswerGives
<1>6. ASSUME moved = {}
      PROVE  /\ page.relaxed => page.weights = Weights
             /\ "keyword" \notin page.waits => page.keyword = KeywordOf(page.relaxed)
             /\ "near" \notin page.waits => page.near = NearestOf
  BY <1>1, <1>2, <1>6 DEF WalkInv, WeightsHold, CandidatesHold, UnderWay
<1>7. CASE KeywordList
  <2>1. /\ page'.keyword = Rids(First(Candidates, Ranked(NoCursor))) /\ page'.near = page.near
        /\ page'.waits = page.waits \ {"keyword"} /\ page'.pc = "search"
    BY <1>7 DEF KeywordList, PageInv, Types, PageFields
  <2>2. moved = {} => page'.keyword = KeywordOf(page.relaxed)
    BY <1>1, <1>6, <2>1, KeywordIs
  <2>3. CandidatesHold'
    BY <1>1, <1>2, <1>6, <2>1, <2>2, SameKeys DEF CandidatesHold
  <2> QED
    BY <1>1, <1>3, <1>4, <1>5, <2>3, RequestKeeps DEF WalkInv
<1>8. CASE NearList
  <2>1. /\ page'.keyword = page.keyword /\ page'.near = Nearest
        /\ page'.waits = page.waits \ {"near"} /\ page'.pc = "search"
    BY <1>8 DEF NearList, PageInv, Types, PageFields
  <2>2. page'.near = NearestOf
    BY <1>1, <2>1, NearestIs
  <2>3. CandidatesHold'
    BY <1>1, <1>2, <1>6, <2>1, <2>2, SameKeys DEF CandidatesHold
  <2> QED
    BY <1>1, <1>3, <1>4, <1>5, <2>3, RequestKeeps DEF WalkInv
<1>9. CASE Fuse
  <2>1. /\ page'.order = Fused(page.keyword, page.near) /\ page.waits = {} /\ page'.pc = "read"
    BY <1>9 DEF Fuse, PageInv, Types, PageFields
  <2>2. moved = {} => page'.order = Fused(KeywordOf(page.relaxed), NearestOf)
    BY <1>6, <2>1
  <2>3. CandidatesHold'
    BY <1>1, <1>2, <2>1, <2>2, SameKeys DEF CandidatesHold
  <2> QED
    BY <1>1, <1>3, <1>4, <1>5, <2>3, RequestKeeps DEF WalkInv
<1> QED
  BY <1>7, <1>8, <1>9

\* A document is read as it is now.
LEMMA ReadWalk ==
  ASSUME PageInv, WalkInv, ReadRow PROVE WalkInv'
<1> DEFINE d == page.order[CHOOSE i \in Unread : \A j \in Unread : i <= j]
<1>1. /\ SameRequest /\ moved' = moved /\ shown' = shown /\ page.pc = "read" /\ page'.pc = "read"
      /\ page'.weights = page.weights /\ page'.order = page.order /\ page'.after = page.after
      /\ page'.rows = [e \in DOMAIN page.rows \cup {d} |-> IF e = d THEN docs[d] ELSE page.rows[e]]
  BY DEF ReadRow, PageInv, Types, PageFields, SameRequest, UnderWay, Found
<1> HIDE DEF d
<1>2. /\ page'.ranking = page.ranking /\ page'.words = page.words /\ page'.now = page.now
      /\ page'.relaxed = page.relaxed /\ docs' = docs /\ page'.limit = page.limit
      /\ page'.cursor = page.cursor
  BY <1>1 DEF SameRequest
<1>3. WeightsHold'
  BY <1>1, <1>2, SameKeys DEF WalkInv, WeightsHold, UnderWay, Found
<1>4. RowsHold'
  BY <1>1, <1>2 DEF WalkInv, RowsHold, UnderWay, Found
<1>5. CandidatesHold'
  BY <1>1, <1>2, SameKeys DEF WalkInv, CandidatesHold
<1>6. EngineHolds'
  BY <1>1, <1>2, RequestKeeps, EngineKeeps DEF WalkInv
<1>7. AllRead' /\ AnswerGives'
  BY <1>1 DEF AllRead, AnswerGives
<1> QED
  BY <1>1, <1>3, <1>4, <1>5, <1>6, <1>7, RequestKeeps DEF WalkInv

\* The fused list, of documents as they were read, is that of the index.
LEMMA OrderWalk ==
  ASSUME PageInv, WalkInv, Order PROVE WalkInv'
<1>1. /\ SameRequest /\ moved' = moved /\ shown' = shown /\ page.pc = "read" /\ page'.pc = "ordered"
      /\ page'.weights = page.weights /\ page'.after = page.after /\ page'.rows = page.rows
      /\ page'.order = IF page.ranking = "hybrid" THEN RankOrder(page.order) ELSE page.order
      /\ Unread = {} /\ Types
  BY DEF Order, PageInv, Types, PageFields, SameRequest, UnderWay, Found
<1>2. /\ page'.ranking = page.ranking /\ page'.words = page.words /\ page'.now = page.now
      /\ page'.relaxed = page.relaxed /\ docs' = docs /\ page'.limit = page.limit
      /\ page'.cursor = page.cursor /\ page.ranking \in {"hybrid", "keyword"}
  BY <1>1 DEF SameRequest, PageInv, Accepted, UnderWay, Found
<1>3. WeightsHold'
  BY <1>1, <1>2, SameKeys DEF WalkInv, WeightsHold, UnderWay, Found
<1>4. RowsHold'
  BY <1>1, <1>2 DEF WalkInv, RowsHold, UnderWay, Found
<1>5. Range(page.order) \subseteq DOMAIN page.rows
  BY <1>1 DEF Unread, Range
<1>6. ASSUME page.ranking = "hybrid", moved = {}
      PROVE  page'.order = ListOf(page.relaxed) /\ Range(page'.order) \subseteq DOMAIN page.rows
  <2> DEFINE fused == Fused(KeywordOf(page.relaxed), NearestOf)
  <2>1. page.order = fused
    BY <1>1, <1>6 DEF WalkInv, CandidatesHold
  <2>2. ListOfDocs(fused) /\ Range(fused) = Range(ListOf(page.relaxed))
    BY <1>1, FusedCandidates, ListOfCandidates
  <2>3. page.relaxed => page.weights = Weights
    BY <1>1, <1>6 DEF WalkInv, WeightsHold, UnderWay, Found
  <2>4. \A d \in Range(fused) : page.rows[d] = docs[d]
    BY <1>1, <1>5, <1>6, <2>1, <2>2 DEF WalkInv, RowsHold, UnderWay, Found, ListOfDocs
  <2>5. RankOrder(fused) = ListOf(page.relaxed)
    <3>1. ListOf(page.relaxed) =
            [i \in DOMAIN fused |->
               fused[Arranged(DOMAIN fused, OrderOf(fused, page.relaxed))[i]]]
      BY DEF ListOf
    <3> HIDE DEF fused
    <3> QED
      BY <1>1, <2>2, <2>3, <2>4, <3>1, RankOrderIs
  <2> QED
    BY <1>1, <1>5, <1>6, <2>1, <2>2, <2>5
<1>7. CandidatesHold'
  BY <1>1, <1>2, <1>6, SameKeys DEF CandidatesHold
<1>8. AllRead'
  BY <1>1, <1>2, <1>5, <1>6 DEF AllRead
<1>9. EngineHolds'
  <2>1. CASE page.ranking = "keyword"
    BY <1>1, <1>2, <2>1, RequestKeeps, EngineKeeps DEF WalkInv
  <2>2. CASE page.ranking = "hybrid"
    BY <1>2, <2>2 DEF EngineHolds
  <2> QED
    BY <1>2, <2>1, <2>2
<1>10. AnswerGives'
  BY <1>1 DEF AnswerGives
<1> QED
  BY <1>1, <1>3, <1>4, <1>7, <1>8, <1>9, <1>10, RequestKeeps DEF WalkInv

\* The page is made of it.
LEMMA ComposeWalk ==
  ASSUME PageInv, WalkInv, Compose PROVE WalkInv'
<1> DEFINE answer == IF page.ranking = "hybrid" THEN HybridPage ELSE KeysetPage
<1>1. /\ SameRequest /\ moved' = moved /\ shown' = shown
      /\ page.pc = "ordered" /\ page'.pc = "composed"
      /\ page'.weights = page.weights /\ page'.rows = page.rows /\ page'.answer = answer
  BY DEF Compose, PageInv, Types, PageFields, SameRequest, UnderWay, Found
<1> HIDE DEF answer
<1>2. /\ page'.ranking = page.ranking /\ page'.words = page.words /\ page'.now = page.now
      /\ page'.relaxed = page.relaxed /\ docs' = docs /\ page'.cursor = page.cursor
      /\ page.ranking \in {"hybrid", "keyword"}
  BY <1>1 DEF SameRequest, PageInv, Accepted, UnderWay, Found
<1>3. WeightsHold'
  BY <1>1, <1>2, SameKeys DEF WalkInv, WeightsHold, UnderWay, Found
<1>4. RowsHold'
  BY <1>1, <1>2 DEF WalkInv, RowsHold, UnderWay, Found
<1>5. CandidatesHold' /\ EngineHolds' /\ AllRead'
  BY <1>1 DEF CandidatesHold, EngineHolds, AllRead
<1>6. /\ Gives(answer.results, page.cursor, answer.next, page.relaxed)
      /\ GoesOn(answer.next, page.relaxed)
  BY <1>1, <1>2, KeysetPageGives, HybridPageGives DEF answer, Gives
<1>7. AnswerGives'
  BY <1>1, <1>2, <1>6, RequestKeeps, SameParts DEF AnswerGives
<1> QED
  BY <1>1, <1>3, <1>4, <1>5, <1>7, RequestKeeps DEF WalkInv

\* Before a first page, nothing has been shown.
LEMMA FirstPage ==
  ASSUME \A d \in Docs : shown'[d] = 0, page'.cursor.k = "none", page'.pc # "done"
  PROVE  NothingYet' /\ WalkShown'
<1>1. (page'.pc = "done") = FALSE
  OBVIOUS
<1>2. \A c, r : c.k = "none" => KeysetShown(c, r, FALSE)' /\ HybridShown(c, r, FALSE)'
  BY NothingShown
<1>3. \A c, r : c.k = "none" => HasShown(c, r, FALSE)'
  BY <1>2 DEF HasShown
<1> QED
  BY <1>1, <1>3 DEF NothingYet, WalkShown

\* A walk begins.
LEMMA StartWalk ==
  ASSUME PageInv, WalkInv, NEW words, NEW limit, Start(words, limit) PROVE WalkInv'
<1>1. /\ page'.pc = "ask" /\ page'.cursor = NoCursor
      /\ shown' = [d \in Docs |-> 0]
  BY NoPageShape DEF Start, PageFields
<1>2. \A d \in Docs : shown'[d] = 0
  BY <1>1
<1>3. NothingYet' /\ WalkShown'
  BY <1>1, <1>2, NoCursorOk, FirstPage
<1>4. CursorGoesOn'
  BY <1>1, NoCursorOk DEF CursorGoesOn, GoesOn
<1> QED
  BY <1>1, <1>3, <1>4
  DEF WalkInv, WeightsHold, RowsHold, AllRead, CandidatesHold, EngineHolds, AnswerGives,
      KeptGives, UnderWay, Found

\* A request begins with nothing found.
LEMMA RequestBegins ==
  ASSUME shown' \in [Docs -> 0 .. 2], page'.pc \in {"weigh", "search"},
         page'.relaxed => page'.pc = "weigh", page'.ranking = "hybrid" => page'.words,
         page'.rows = NoPage.rows, page'.waits = NoPage.waits,
         NothingYet', CursorGoesOn', WalkShown', KeptGives'
  PROVE  WalkInv'
<1>1. NoPage.waits = {"keyword", "near"} /\ DOMAIN NoPage.rows = {}
  BY DEF NoPage
<1>2. WeightsHold' /\ RowsHold' /\ CandidatesHold'
  BY <1>1 DEF WeightsHold, RowsHold, CandidatesHold, UnderWay, Found
<1>3. AllRead' /\ EngineHolds' /\ AnswerGives'
  BY DEF AllRead, EngineHolds, AnswerGives
<1> QED
  BY <1>2, <1>3 DEF WalkInv

\* A page is asked for, with the cursor the one before has ended with, and with its ranking.
LEMMA AskWalk ==
  ASSUME PageInv, WalkInv, NEW ranking \in {"hybrid", "keyword"}, Ask(ranking) PROVE WalkInv'
<1> DEFINE cursor == page.cursor
           relaxed == Relaxable /\ cursor.x
           kind == IF ranking = "hybrid" THEN "f" ELSE IF page.words THEN "r" ELSE "t"
           now == IF cursor.k = "none" THEN clock ELSE cursor.now
<1>1. /\ page.pc = "ask" /\ docs' = docs /\ shown' = shown /\ moved' = moved
      /\ ranking = "hybrid" => page.words
      /\ page' = IF cursor.k # "none" /\ (cursor.h # relaxed \/ cursor.k # kind)
                 THEN [page EXCEPT !.pc = "refused", !.ranking = ranking]
                 ELSE [NoPage EXCEPT !.pc = IF relaxed THEN "weigh" ELSE "search",
                                     !.words = page.words, !.limit = page.limit, !.cursor = cursor,
                                     !.ranking = ranking, !.relaxed = relaxed, !.now = now]
  BY DEF Ask
<1>2. (kind = "f") <=> (ranking = "hybrid")
  OBVIOUS
<1>3. cursor = NoCursor => ~relaxed
  BY DEF NoCursor
<1>4. /\ HasShown(cursor, page.relaxed, FALSE) /\ GoesOn(cursor, page.relaxed)
      /\ cursor.k = "none" => \A d \in Docs : shown[d] = 0
      /\ shown \in [Docs -> 0 .. 2]
  <2>1. (page.pc = "done") = FALSE
    BY <1>1
  <2> QED
    BY <1>1, <2>1 DEF WalkInv, NothingYet, CursorGoesOn, WalkShown
<1>5. /\ page.words \in BOOLEAN /\ DOMAIN page = PageFields /\ relaxed \in BOOLEAN
      /\ cursor.h \in BOOLEAN
  BY Zenon DEF PageInv, Types, Cursors, CursorOk
<1>6. cursor.k # "none" /\ cursor.k = kind => now = cursor.now
  OBVIOUS
<1> HIDE DEF cursor, relaxed, kind, now
<1>7. CASE cursor.k # "none" /\ (cursor.h # relaxed \/ cursor.k # kind)
  <2>1. page'.pc = "refused"
    BY <1>1, <1>5, <1>7 DEF PageFields
  <2> QED
    BY <1>1, <1>4, <2>1
    DEF WalkInv, NothingYet, CursorGoesOn, WalkShown, WeightsHold, RowsHold, AllRead,
        CandidatesHold, EngineHolds, AnswerGives, KeptGives, UnderWay, Found
<1>8. CASE cursor.k = "none" \/ (cursor.h = relaxed /\ cursor.k = kind)
  <2>1. page' = [NoPage EXCEPT !.pc = IF relaxed THEN "weigh" ELSE "search",
                               !.words = page.words, !.limit = page.limit, !.cursor = cursor,
                               !.ranking = ranking, !.relaxed = relaxed, !.now = now]
    BY <1>1, <1>8
  <2>2. /\ page'.pc = (IF relaxed THEN "weigh" ELSE "search")
        /\ page'.words = page.words /\ page'.cursor = cursor /\ page'.ranking = ranking
        /\ page'.relaxed = relaxed /\ page'.now = now /\ page'.waits = NoPage.waits
        /\ page'.rows = NoPage.rows
    BY <2>1, NoPageShape DEF PageFields
  <2>3. page'.pc \in {"weigh", "search"} /\ page'.pc # "done" /\ (page'.pc = "done") = FALSE
    BY <2>2
  <2>4. CASE cursor.k = "none"
    <3>1. cursor = NoCursor /\ ~relaxed
      BY <1>3, <1>4, <2>4 DEF GoesOn
    <3>2. CursorGoesOn'
      BY <2>2, <2>4, <3>1 DEF CursorGoesOn, GoesOn
    <3>3. NothingYet' /\ WalkShown'
      BY <1>1, <1>4, <2>2, <2>3, <2>4, FirstPage
    <3>4. KeptGives'
      BY <2>2, <3>1 DEF KeptGives
    <3> QED
      BY <1>1, <1>4, <2>2, <2>3, <3>1, <3>2, <3>3, <3>4, RequestBegins
  <2>5. CASE cursor.k # "none"
    <3>1. /\ cursor.now = page.now /\ cursor.h = page.relaxed /\ relaxed = page.relaxed
          /\ now = page.now /\ (ranking = "hybrid" <=> page.ranking = "hybrid")
      BY <1>2, <1>4, <1>6, <1>8, <2>5 DEF GoesOn
    <3>2. SameWalk
      BY <1>1, <2>2, <3>1 DEF SameWalk
    <3>3. CursorGoesOn' /\ WalkShown'
      BY <1>1, <1>4, <2>2, <2>3, <3>1, <3>2, SameParts DEF CursorGoesOn, WalkShown
    <3>4. NothingYet' /\ KeptGives'
      BY <2>2, <2>5 DEF NothingYet, KeptGives
    <3> QED
      BY <1>1, <1>4, <2>2, <2>3, <3>3, <3>4, RequestBegins
  <2> QED
    BY <2>4, <2>5
<1> QED
  BY <1>7, <1>8

\* The query of any word, and the page that may go out in the place of its answer.
LEMMA RelaxWalk ==
  ASSUME PageInv, WalkInv, Relax PROVE WalkInv'
<1>1. /\ page.pc = "composed" /\ page.words /\ ~page.relaxed /\ page.cursor.k = "none"
      /\ docs' = docs /\ moved' = moved /\ shown' = shown
      /\ page' = [NoPage EXCEPT !.pc = "weigh", !.words = TRUE, !.limit = page.limit,
                            !.ranking = page.ranking, !.now = page.now, !.relaxed = TRUE,
                            !.kept = page.answer]
  BY DEF Relax, TooFew
<1>2. /\ page'.pc = "weigh" /\ page'.words = TRUE /\ page'.ranking = page.ranking
      /\ page'.now = page.now /\ page'.relaxed = TRUE /\ page'.kept = page.answer
      /\ page'.cursor = NoCursor /\ page'.waits = NoPage.waits /\ page'.rows = NoPage.rows
  BY <1>1, NoPageShape DEF PageFields
<1>3. page.words = TRUE /\ page.relaxed = FALSE
  BY <1>1 DEF PageInv, Types
<1>4. SameWalk
  BY <1>1, <1>2, <1>3 DEF SameWalk
<1>5. page.cursor = NoCursor
  BY <1>1 DEF WalkInv, CursorGoesOn, GoesOn, UnderWay, Found
<1>6. NothingYet' /\ WalkShown'
  <2>1. \A d \in Docs : shown'[d] = 0
    BY <1>1 DEF WalkInv, NothingYet
  <2> QED
    BY <1>2, <2>1, NoCursorOk, FirstPage
<1>7. CursorGoesOn'
  BY <1>2, NoCursorOk DEF CursorGoesOn, GoesOn
<1>8. /\ Gives(page.answer.results, NoCursor, page.answer.next, FALSE)
      /\ GoesOn(page.answer.next, FALSE)
  BY <1>1, <1>3, <1>5 DEF WalkInv, AnswerGives
<1>9. KeptGives'
  BY <1>2, <1>4, <1>8, SameParts DEF KeptGives
<1> QED
  BY <1>1, <1>2, <1>6, <1>7, <1>9, RequestBegins DEF WalkInv

\* What a page that goes out gives: what is between its cursor and the next one.
LEMMA OutGives ==
  ASSUME PageInv, WalkInv, page.pc = "composed", ~TooFew,
         NEW exact \in BOOLEAN,
         exact => page.relaxed /\ page.cursor.k = "none",
         NEW out, out = IF exact THEN page.kept ELSE page.answer,
         NEW r, r = (page.relaxed /\ ~exact)
  PROVE  /\ Gives(out.results, page.cursor, out.next, r) /\ GoesOn(out.next, r)
         /\ HasShown(page.cursor, r, FALSE)
         /\ GoesOn(page.cursor, page.relaxed) /\ EndsAfter(out.next)
         /\ CursorOk(page.cursor) /\ CursorOk(out.next)
<1>1. UnderWay /\ page.relaxed \in BOOLEAN /\ (page.pc = "done") = FALSE /\ page.pc # "refused"
  BY DEF UnderWay, Found, PageInv, Types
<1>2. GoesOn(page.cursor, page.relaxed) /\ HasShown(page.cursor, page.relaxed, FALSE)
  BY <1>1 DEF WalkInv, CursorGoesOn, WalkShown
<1>3. CursorOk(page.cursor) /\ CursorOk(out.next)
  BY DEF PageInv, Cursors
<1>4. CASE exact
  <2>1. page.cursor = NoCursor /\ r = FALSE /\ out = page.kept
    BY <1>2, <1>4 DEF GoesOn
  <2>2. Gives(out.results, page.cursor, out.next, r) /\ GoesOn(out.next, r)
    BY <1>1, <1>4, <2>1, NoCursorOk DEF WalkInv, KeptGives
  <2>3. \A d \in Docs : shown[d] = 0
    BY <1>1, <1>4 DEF WalkInv, NothingYet
  <2>4. HasShown(page.cursor, r, FALSE)
    BY <1>4, <2>3 DEF HasShown, KeysetShown, HybridShown, Passed
  <2>5. EndsAfter(out.next)
    BY <1>4 DEF EndsAfter
  <2> QED
    BY <1>2, <1>3, <2>2, <2>4, <2>5
<1>5. CASE ~exact
  <2>1. r = page.relaxed /\ out = page.answer
    BY <1>1, <1>5
  <2>2. EndsAfter(out.next) /\ Gives(out.results, page.cursor, out.next, r) /\ GoesOn(out.next, r)
    BY <2>1 DEF PageInv, WalkInv, AnswerGives
  <2> QED
    BY <1>2, <1>3, <2>1, <2>2
<1> QED
  BY <1>4, <1>5

\* The page goes out, and the walk goes on where it ends.
LEMMA AnswerWalk ==
  ASSUME PageInv, WalkInv, Answer PROVE WalkInv'
<1> DEFINE exact == /\ page.relaxed /\ page.cursor.k = "none"
                    /\ Cardinality(page.answer.results) <= Cardinality(page.kept.results)
           out == IF exact THEN page.kept ELSE page.answer
<1>1. exact \in BOOLEAN /\ (exact => page.relaxed /\ page.cursor.k = "none")
  BY DEF PageInv, Types
<1>2. /\ page.pc = "composed" /\ ~TooFew /\ docs' = docs /\ moved' = moved
      /\ shown' = [d \in Docs |-> Smaller(2, shown[d] + IF d \in out.results THEN 1 ELSE 0)]
      /\ page' = [NoPage EXCEPT !.pc = IF out.next.k = "none" THEN "done" ELSE "ask",
                               !.words = page.words, !.limit = page.limit,
                               !.ranking = page.ranking, !.now = page.now,
                               !.relaxed = page.relaxed /\ ~exact, !.weights = page.weights,
                               !.cursor = out.next]
  BY DEF Answer
<1>3. \E s, n, x : s = out.results /\ n = out.next /\ x = (page.relaxed /\ ~exact)
  OBVIOUS
<1> HIDE DEF exact
<1>4. PICK results, next, r :
        results = out.results /\ next = out.next /\ r = (page.relaxed /\ ~exact)
  BY <1>3
<1>5. /\ Gives(results, page.cursor, next, r) /\ GoesOn(next, r) /\ (r => page.relaxed)
      /\ HasShown(page.cursor, r, FALSE)
      /\ GoesOn(page.cursor, page.relaxed) /\ EndsAfter(next)
      /\ CursorOk(page.cursor) /\ CursorOk(next)
  BY <1>1, <1>2, <1>4, OutGives
<1> HIDE DEF out
<1>6. PICK done \in BOOLEAN : done <=> next.k = "none"
  BY Zenon
<1>7. /\ page'.pc = (IF next.k = "none" THEN "done" ELSE "ask")
      /\ page'.words = page.words /\ page'.ranking = page.ranking /\ page'.now = page.now
      /\ page'.relaxed = r /\ page'.weights = page.weights /\ page'.cursor = next
  BY <1>2, <1>4, NoPageShape DEF PageFields
<1>8. SameWalk /\ GoesOut(results)
  BY <1>2, <1>4, <1>7 DEF SameWalk, GoesOut
<1>9. shown \in [Docs -> 0 .. 2] /\ Types
  BY DEF WalkInv, PageInv
<1>10. shown' \in [Docs -> 0 .. 2]
  <2>1. \A d \in Docs : Smaller(2, shown[d] + IF d \in results THEN 1 ELSE 0) \in 0 .. 2
    BY <1>9 DEF Smaller
  <2> QED
    BY <1>8, <2>1 DEF GoesOut
<1>11. /\ page.cursor.offset \in Nat /\ next.offset \in Nat
       /\ page.cursor.k = "none" => page.cursor.offset = 0
  BY <1>5 DEF CursorOk, GoesOn, NoCursor
<1>12. HasShown(next, r, done)'
  <2>1. CASE page.ranking = "hybrid"
    <3>1. next.k # "none" => page.cursor.offset <= next.offset
      <4>1. next.k # "none" => next.k = "f"
        BY <1>5, <2>1 DEF GoesOn
      <4> QED
        BY <1>5, <1>11, <4>1 DEF EndsAfter
    <3>2. HybridGives(results, page.cursor, next, r) /\ HybridShown(page.cursor, r, FALSE)
      BY <1>5, <2>1 DEF Gives, HasShown
    <3>3. HybridShown(next, r, done)'
      BY <1>6, <1>8, <1>9, <1>11, <3>1, <3>2, HybridAnswer
    <3> QED
      BY <1>7, <2>1, <3>3 DEF HasShown
  <2>2. CASE page.ranking # "hybrid"
    <3>1. /\ page.cursor.k = "none" \/ page.cursor.key \in SortKeys
          /\ next.k = "none" \/ next.key \in SortKeys
          /\ page.cursor.k # "none" /\ next.k # "none" => Earlier(page.cursor.key, next.key)
      BY <1>5, <2>2 DEF GoesOn, EndsAfter
    <3>2. KeysetGives(results, page.cursor, next, r) /\ KeysetShown(page.cursor, r, FALSE)
      BY <1>5, <2>2 DEF Gives, HasShown
    <3>3. KeysetShown(next, r, done)'
      BY <1>6, <1>8, <1>9, <3>1, <3>2, KeysetAnswer
    <3> QED
      BY <1>7, <2>2, <3>3 DEF HasShown
  <2> QED
    BY <2>1, <2>2
<1>13. WalkShown'
  <2>1. (page'.pc = "done") = done
    BY <1>6, <1>7
  <2> QED
    BY <1>7, <1>12, <2>1 DEF WalkShown
<1>14. NothingYet'
  BY <1>7 DEF NothingYet
<1>15. CursorGoesOn'
  <2>1. GoesOn(next, r)'
    BY <1>5, <1>7, <1>8, SameParts
  <2> QED
    BY <1>7, <2>1 DEF CursorGoesOn
<1>16. WeightsHold'
  BY <1>2, <1>5, <1>7, SameKeys DEF WalkInv, WeightsHold, UnderWay, Found
<1>17. RowsHold' /\ AllRead' /\ CandidatesHold' /\ EngineHolds' /\ AnswerGives' /\ KeptGives'
  BY <1>7
  DEF RowsHold, AllRead, CandidatesHold, EngineHolds, AnswerGives, KeptGives, UnderWay, Found
<1> QED
  BY <1>10, <1>13, <1>14, <1>15, <1>16, <1>17 DEF WalkInv

\* A change leaves what is said of the documents that have not changed,
LEMMA ChangeWalk ==
  ASSUME PageInv, WalkInv, NEW c \in Docs, NEW v, Change(c, v) PROVE WalkInv'
<1>1. /\ docs' = [docs EXCEPT ![c] = v] /\ moved' = moved \cup {c} /\ moved' # {}
      /\ page' = page /\ shown' = shown
      /\ Types /\ docs \in [Docs -> Version]
  BY DEF Change, PageInv, Types
<1>2. \A n, r : GoesOn(n, r)' <=> GoesOn(n, r)
  BY <1>1 DEF GoesOn
<1>3. /\ \A results, cursor, n, r : Gives(results, cursor, n, r) => Gives(results, cursor, n, r)'
      /\ \A results, cursor, n, r :
           KeysetGives(results, cursor, n, r) => KeysetGives(results, cursor, n, r)'
      /\ \A cursor, r, done : HasShown(cursor, r, done) => HasShown(cursor, r, done)'
  BY <1>1, ChangeKeeps DEF Gives, HasShown
<1>4. NextOf' = NextOf
  BY <1>1 DEF NextOf, Cursor, CursorNow, CursorX
<1>5. NothingYet' /\ CursorGoesOn' /\ WalkShown'
  BY <1>1, <1>2, <1>3 DEF WalkInv, NothingYet, CursorGoesOn, WalkShown, UnderWay, Found
<1>6. WeightsHold' /\ CandidatesHold' /\ AllRead'
  BY <1>1 DEF WalkInv, WeightsHold, CandidatesHold, AllRead, UnderWay, Found
<1>7. RowsHold'
  BY <1>1 DEF WalkInv, RowsHold, UnderWay, Found
<1>8. EngineHolds'
  BY <1>1, <1>3, <1>4 DEF WalkInv, EngineHolds
<1>9. AnswerGives' /\ KeptGives'
  BY <1>1, <1>2, <1>3 DEF WalkInv, AnswerGives, KeptGives, UnderWay, Found
<1> QED
  BY <1>1, <1>5, <1>6, <1>7, <1>8, <1>9 DEF WalkInv

\* and time none of it.
LEMMA QuietWalk ==
  ASSUME WalkInv, docs' = docs, page' = page, shown' = shown, moved' = moved PROVE WalkInv'
<1>1. SameWalk /\ (page'.ranking = "hybrid" <=> page.ranking = "hybrid")
  BY DEF SameWalk
<1>2. NothingYet' /\ CursorGoesOn' /\ WalkShown'
  BY <1>1, SameParts DEF WalkInv, NothingYet, CursorGoesOn, WalkShown, UnderWay, Found
<1>3. WeightsHold' /\ CandidatesHold' /\ AllRead'
  BY <1>1, SameKeys DEF WalkInv, WeightsHold, CandidatesHold, AllRead, UnderWay, Found
<1>4. RowsHold'
  BY <1>1 DEF WalkInv, RowsHold, UnderWay, Found
<1>5. EngineHolds'
  BY <1>1, EngineKeeps DEF WalkInv
<1>6. AnswerGives' /\ KeptGives'
  BY <1>1, SameParts DEF WalkInv, AnswerGives, KeptGives, UnderWay, Found
<1> QED
  BY <1>2, <1>3, <1>4, <1>5, <1>6 DEF WalkInv

LEMMA WalkInvariant == Spec => []WalkInv
<1>1. Init => WalkInv
  <2> SUFFICES ASSUME Init PROVE WalkInv
    OBVIOUS
  <2>1. page = NoPage /\ shown = [d \in Docs |-> 0]
    BY DEF Init
  <2>2. /\ page.pc = "idle" /\ (page.pc = "done") = FALSE
        /\ page.cursor = NoCursor /\ NoCursor.k = "none"
    BY <2>1, NoPageShape, NoCursorOk
  <2>3. WalkShown /\ NothingYet
    BY <2>1, <2>2
    DEF WalkShown, NothingYet, HasShown, KeysetShown, HybridShown, Passed
  <2>4. CursorGoesOn
    BY <2>2 DEF CursorGoesOn, GoesOn
  <2> QED
    BY <2>1, <2>2, <2>3, <2>4
    DEF WalkInv, WeightsHold, RowsHold, AllRead, CandidatesHold, EngineHolds, AnswerGives,
        KeptGives, UnderWay, Found
<1>2. PageInv /\ WalkInv /\ [Next]_vars => WalkInv'
  <2> SUFFICES ASSUME PageInv, WalkInv, [Next]_vars PROVE WalkInv'
    OBVIOUS
  <2>1. CASE Pass \/ UNCHANGED vars
    BY <2>1, QuietWalk DEF Pass, vars
  <2>2. CASE \E d \in Docs, v \in Versions : Change(d, v)
    BY <2>2, ChangeWalk
  <2>3. CASE \E words \in BOOLEAN, limit \in Limits : Start(words, limit)
    BY <2>3, StartWalk
  <2>4. CASE Serve
    BY <2>4, AskWalk, WeighWalk, SearchWalk, CandidatesWalk, ReadWalk, OrderWalk, ComposeWalk,
       RelaxWalk, AnswerWalk DEF Serve
  <2> QED
    BY <2>1, <2>2, <2>3, <2>4 DEF Next
<1> QED
  BY <1>1, <1>2, PageInvariant, PTL DEF Spec

-----------------------------------------------------------------------------
\* A walk to the last page has shown the best of each title that has not changed.
LEMMA EngineWalkShows ==
  ASSUME PageInv, WalkInv, page.pc = "done", page.ranking # "hybrid"
  PROVE  StaysShownOnce
<1> DEFINE r == page.relaxed
           key == [d \in Docs |-> KeyOf(d, r)]
<1>1. Types /\ KeysetShown(page.cursor, r, TRUE)
  <2>1. (page.pc = "done") = TRUE
    OBVIOUS
  <2> QED
    BY <2>1 DEF PageInv, WalkInv, WalkShown, HasShown
<1>2. InWalk = MatchingOf(r) /\ \A d : Undisturbed(d) <=> Steady(d, r)
  BY DEF InWalk, Matching, MatchingOf, Undisturbed, Steady
<1>3. \A d \in Docs : Undisturbed(d) => shown[d] <= 1
  BY <1>1, <1>2 DEF KeysetShown
<1>4. ASSUME NEW d \in MatchingOf(r), \A e \in Docs : Title[e] = Title[d] => Steady(e, r)
      PROVE  \E e \in MatchingOf(r) :
               shown[e] = 1 /\ (IF page.words THEN Title[e] = Title[d] ELSE e = d)
  <2>1. d \in Docs /\ MatchingOf(r) \subseteq Docs
    BY DEF MatchingOf
  <2>2. CASE ~page.words
    <3>1. Best(d, r)
      BY <1>4, <2>1, <2>2 DEF Best
    <3> QED
      BY <1>1, <1>4, <2>1, <2>2, <3>1 DEF KeysetShown
  <2>3. CASE page.words
    <3> DEFINE S == {e \in MatchingOf(r) : Title[e] = Title[d]}
               R == {p \in S \X S : Earlier(key[p[1]], key[p[2]])}
               K == {key[e] : e \in Docs}
    <3>1. \A e \in Docs : key[e] = KeyOf(e, r) /\ key[e] \in SortKeys /\ key[e].rid = e
      BY <1>1, KeyOfType
    <3> HIDE DEF r, key
    <3>2. S \subseteq Docs /\ IsFiniteSet(S) /\ d \in S
      BY <2>1, PagingAssumption, FS_Subset
    <3>3. StrictTotalOrder(R, S)
      <4>1. \A a, b \in S : <<a, b>> \in R <=> Earlier(key[a], key[b])
        OBVIOUS
      <4>2. \A a, b \in S : key[a] \in K /\ (key[a] = key[b] => a = b)
        BY <3>1, <3>2
      <4>3. K \in SUBSET SortKeys
        BY <3>1
      <4> HIDE DEF R, S, K
      <4> QED
        BY <4>1, <4>2, <4>3, EarlierIsStrictTotal DEF StrictTotalOrder
    <3>4. PICK e \in S : \A f \in S : f = e \/ <<e, f>> \in R
      BY <3>2, <3>3, FirstOne
    <3>5. ASSUME NEW f \in Docs \ {e}, Title[f] = Title[e]
          PROVE  Steady(f, r) /\ (f \in MatchingOf(r) => Earlier(KeyOf(e, r), KeyOf(f, r)))
      <4>1. Title[f] = Title[d]
        BY <3>5
      <4>2. f \in MatchingOf(r) => Earlier(key[e], key[f])
        BY <3>4, <3>5, <4>1
      <4> QED
        BY <1>4, <3>1, <3>2, <4>1, <4>2
    <3>6. e \in MatchingOf(r) /\ e \in Docs /\ Steady(e, r) /\ Title[e] = Title[d]
      BY <1>4, <3>2
    <3>7. Best(e, r)
      BY <3>5, <3>6 DEF Best
    <3>8. shown[e] = 1
      BY <1>1, <3>6, <3>7 DEF KeysetShown
    <3> QED
      BY <2>3, <3>6, <3>8
  <2> QED
    BY <2>2, <2>3
<1> HIDE DEF r
<1> QED
  BY <1>2, <1>3, <1>4 DEF StaysShownOnce

\* So has a walk through the fused list, if nothing has changed.
LEMMA HybridWalkShows ==
  ASSUME PageInv, WalkInv, page.pc = "done", page.ranking = "hybrid"
  PROVE  StaysShownOnce
<1> DEFINE list == ListOf(page.relaxed)
<1>1. Types /\ page.words /\ HybridShown(page.cursor, page.relaxed, TRUE)
  <2>1. (page.pc = "done") = TRUE
    OBVIOUS
  <2> QED
    BY <2>1 DEF PageInv, WalkInv, WalkShown, HasShown, WeightsHold
<1>2. InWalk = Range(Rids(First(Candidates, Ranked(NoCursor)))) \cup Range(Nearest)
  BY DEF InWalk
<1>3. InWalk \subseteq Docs
  BY <1>1, <1>2, KeywordListOfDocs, NearestListOfDocs DEF ListOfDocs
<1>4. \A d : Undisturbed(d) => moved = {}
  BY DEF Undisturbed
<1>5. CASE moved # {}
  BY <1>3, <1>4, <1>5 DEF StaysShownOnce
<1>6. CASE moved = {}
  <2>1. page.relaxed => page.weights = Weights
    BY <1>6 DEF WalkInv, WeightsHold
  <2>2. InWalk = Range(list)
    BY <1>1, <1>2, <2>1, KeywordIs, NearestIs, ListOfCandidates
  <2>3. /\ \A d \in Docs : shown[d] <= 1
        /\ \A i \in DOMAIN list : \E j \in DOMAIN list :
             shown[list[j]] = 1 /\ Title[list[j]] = Title[list[i]]
    BY <1>1, <1>6 DEF HybridShown
  <2> HIDE DEF list
  <2>4. ASSUME NEW d \in InWalk
        PROVE  \E e \in InWalk : shown[e] = 1 /\ Title[e] = Title[d]
    <3>1. PICK i \in DOMAIN list : list[i] = d
      BY <2>2 DEF Range
    <3>2. PICK j \in DOMAIN list : shown[list[j]] = 1 /\ Title[list[j]] = Title[list[i]]
      BY <2>3
    <3>3. list[j] \in InWalk
      BY <2>2 DEF Range
    <3> QED
      BY <3>1, <3>2, <3>3
  <2> QED
    BY <1>1, <2>3, <2>4 DEF StaysShownOnce
<1> QED
  BY <1>5, <1>6

\* A walk to the last page shows each undisturbed document once, or another of its title, and
\* none twice (server/api/query.js run and matchedPage, engine/pg.js matchedSet, search and
\* browse, fabric/rrf.js). On a browse or a keyword walk of the exact words a document is
\* undisturbed as long as it does not change itself, whatever happens to the others; on a fused
\* or relaxed walk, only as long as no document changes.
THEOREM EachIsShownOnce == Spec => []StaysShownOnce
<1>1. PageInv /\ WalkInv => StaysShownOnce
  BY EngineWalkShows, HybridWalkShows DEF StaysShownOnce
<1> QED
  BY <1>1, PageInvariant, WalkInvariant, PTL
=============================================================================
