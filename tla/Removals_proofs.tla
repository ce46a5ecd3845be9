------------------------- MODULE Removals_proofs -------------------------
(***************************************************************************)
(* Proofs about what follows a removal, for any bounds.                    *)
(*                                                                         *)
(* PurgeQueue, for any zones, URLs, limits and faults: the queue keeps its *)
(* types and its calls their limits, no row is given up for the company it *)
(* was sent in, and once the row of a URL's last removal is marked purged  *)
(* the edge holds no copy from before it, but for a removal that found its *)
(* row purged and not marked yet.                                          *)
(*                                                                         *)
(* RemovalFeed, for any documents, limits and faults: below its saved      *)
(* cursor the product has been given every removal, but for those whose    *)
(* transaction was open when a page passed their number.                   *)
(***************************************************************************)
EXTENDS PurgeQueue, RemovalFeed, FiniteSetTheorems, SequenceTheorems, WellFoundedInduction, TLAPS

-----------------------------------------------------------------------------
(* The purge queue's inductive invariant. *)

\* A pending row has attempts left and a zone, and is the one that stands for its URL.
Rows ==
  /\ Len(rows) <= MaxRows
  /\ \A i \in DOMAIN rows : rows[i].state = "pending" =>
       /\ rows[i].attempts < MaxAttempts
       /\ ZoneOf[rows[i].url] # NoZone
       /\ cover[rows[i].url] = i
  /\ \A u \in Urls : cover[u] # 0 => rows[cover[u]].url = u

\* What the flush under way has read is still pending, and its call is answered for rows it
\* has read, of one zone and within the limit.
Pending(S) == \A i \in S : rows[i].state = "pending"
Flush ==
  /\ flush.pc # "idle" => Pending(flush.picked) /\ Pending(flush.alone)
  /\ flush.pc = "call" => flush.picked \cup flush.alone # {} /\ flush.answer = "none"
  /\ flush.pc = "idle" => flush.answer = "none" /\ flush.alone = {}
  /\ flush.pc # "mark" => flush.batch = {}
  /\ flush.pc = "mark" =>
       /\ Cardinality(flush.batch) \in 1 .. FilesPerCall
       /\ \A i, j \in flush.batch : ZoneOf[rows[i].url] = ZoneOf[rows[j].url]
       /\ flush.batch \subseteq flush.picked \cup flush.alone
       /\ Cardinality(flush.batch) > 1 => flush.alone = {}
       /\ flush.answer # "refused" => \A i \in flush.batch : refusal[i] = "none"
       /\ flush.answer = "refused" /\ Cardinality(flush.batch) = 1 =>
            \A i \in flush.batch : refusal[i] = "own"

\* Nor does the edge hold a copy of what Cloudflare has just been told to drop.
Dropped ==
  flush.answer = "purged" => \A i \in flush.batch : rows[i].url \in late \/ rows[i].url \notin stale

PurgeInv == QueueTypeOK /\ Rows /\ Flush /\ FailedForItsOwnSake /\ PurgedUnlessLate /\ Dropped

-----------------------------------------------------------------------------
(* The rows a call takes. *)

\* The oldest of some rows is one of them.
LEMMA SmallestIsOne ==
  ASSUME NEW S \in SUBSET Nat, S # {}
  PROVE  Smallest(S) \in S /\ \A j \in S : Smallest(S) <= j
<1>1. PICK i \in S : \A j \in S : <<j, i>> \notin OpToRel(<, Nat)
  BY NatLessThanWellFounded, WFMin, Zenon
<1>2. \A j \in S : ~(j < i)
  BY <1>1 DEF OpToRel
<1>3. \A j \in S : j \in Nat /\ i \in Nat
  OBVIOUS
<1>4. \A j \in S : i <= j
  BY <1>2, <1>3
<1> QED
  BY <1>4 DEF Smallest

\* FirstOf takes at most n rows, and one if there is any.
LEMMA FirstOfBounds ==
  ASSUME NEW S \in SUBSET Nat, IsFiniteSet(S), NEW n \in Nat \ {0}
  PROVE  /\ FirstOf(n, S) \subseteq S
         /\ Cardinality(FirstOf(n, S)) \in 0 .. n
         /\ S # {} => FirstOf(n, S) # {} /\ Cardinality(FirstOf(n, S)) # 0
<1> DEFINE B(i) == {j \in S : j < i}
           F == FirstOf(n, S)
           f == [i \in F |-> Cardinality(B(i))]
<1>1. F \subseteq S
  BY DEF FirstOf
<1>2. \A i \in S : IsFiniteSet(B(i)) /\ Cardinality(B(i)) \in Nat
  BY FS_Subset, FS_CardinalityType
<1>3. ASSUME NEW i \in S, NEW j \in S, j < i
      PROVE  Cardinality(B(j)) < Cardinality(B(i))
  <2>1. B(j) \cup {j} \subseteq B(i) /\ j \notin B(j)
    <3>1. ASSUME NEW x \in S, x < j PROVE x < i
      <4>1. x \in Nat /\ i \in Nat /\ j \in Nat
        OBVIOUS
      <4> QED
        BY <1>3, <3>1, <4>1
    <3>2. ~(j < j)
      <4>1. j \in Nat
        OBVIOUS
      <4> QED
        BY <4>1
    <3>3. B(j) \subseteq B(i)
      BY <3>1
    <3>4. j \in B(i) /\ j \notin B(j)
      BY <1>3, <3>2
    <3> QED
      BY <3>3, <3>4
  <2>2. Cardinality(B(j) \cup {j}) = Cardinality(B(j)) + 1
    BY <1>2, <2>1, FS_AddElement
  <2>3. Cardinality(B(j) \cup {j}) <= Cardinality(B(i))
    BY <1>2, <2>1, FS_Subset
  <2> HIDE DEF B
  <2> QED
    BY <1>2, <2>2, <2>3
<1>4. IsFiniteSet(0 .. n - 1) /\ Cardinality(0 .. n - 1) = n
  BY FS_Interval
<1>5. \A i \in F : Cardinality(B(i)) < n
  BY DEF FirstOf
<1>6. f \in Injection(F, 0 .. n - 1)
  <2> HIDE DEF B, F
  <2>1. f \in [F -> 0 .. n - 1]
    BY <1>1, <1>2, <1>5
  <2>2. ASSUME NEW i \in F, NEW j \in F, f[i] = f[j] PROVE i = j
    <3>1. i \in Nat /\ j \in Nat /\ Cardinality(B(i)) \in Nat /\ Cardinality(B(j)) \in Nat
      BY <1>1, <1>2
    <3>2. Cardinality(B(i)) = Cardinality(B(j))
      BY <2>2
    <3>3. ~(i < j) /\ ~(j < i)
      BY <1>1, <1>3, <3>1, <3>2
    <3> QED
      BY <3>1, <3>3
  <2> QED
    BY <2>1, <2>2 DEF Injection, IsInjective
<1>7. IsFiniteSet(F) /\ Cardinality(F) <= n
  <2> HIDE DEF F, f
  <2> QED
    BY <1>4, <1>6, FS_Injection
<1>8. Cardinality(F) \in Nat
  BY <1>7, FS_CardinalityType
<1>9. ASSUME S # {} PROVE F # {} /\ Cardinality(F) # 0
  <2>1. Smallest(S) \in S /\ \A j \in S : Smallest(S) <= j
    BY <1>9, SmallestIsOne
  <2>2. B(Smallest(S)) = {}
    <3>1. ASSUME NEW j \in S PROVE ~(j < Smallest(S))
      <4>1. j \in Nat /\ Smallest(S) \in Nat /\ Smallest(S) <= j
        BY <2>1
      <4> QED
        BY <4>1
    <3> QED
      BY <3>1
  <2>3. Smallest(S) \in F
    <3>1. Cardinality(B(Smallest(S))) = 0
      BY <2>2, FS_EmptySet
    <3> QED
      BY <2>1, <3>1 DEF FirstOf
  <2> HIDE DEF F
  <2> QED
    BY <1>7, <2>3, FS_EmptySet
<1> HIDE DEF F
<1>10. Cardinality(F) \in 0 .. n
  BY <1>7, <1>8
<1> QED
  BY <1>1, <1>9, <1>10 DEF F

\* The rows are finitely many, and numbered.
LEMMA RowNumbers ==
  ASSUME QueueTypeOK, NEW S \in SUBSET DOMAIN rows
  PROVE  S \in SUBSET Nat /\ IsFiniteSet(S)
<1>1. Len(rows) \in Nat /\ DOMAIN rows = 1 .. Len(rows)
  BY DEF QueueTypeOK
<1>2. IsFiniteSet(1 .. Len(rows)) /\ 1 .. Len(rows) \subseteq Nat
  BY <1>1, FS_Interval
<1> QED
  BY <1>1, <1>2, FS_Subset

\* The next call takes rows the flush has read, of one zone and within the limit.
LEMMA NextBatchShape ==
  ASSUME QueueTypeOK, Flush, flush.pc = "call"
  PROVE  /\ NextBatch \subseteq flush.picked \cup flush.alone
         /\ Cardinality(NextBatch) \in 1 .. FilesPerCall
         /\ \A i, j \in NextBatch : ZoneOf[rows[i].url] = ZoneOf[rows[j].url]
         /\ Cardinality(NextBatch) > 1 => flush.alone = {}
<1>1. /\ flush.picked \subseteq DOMAIN rows /\ flush.alone \subseteq DOMAIN rows
      /\ flush.picked \cup flush.alone # {}
      /\ FilesPerCall \in Nat \ {0}
  BY QueueAssumption DEF QueueTypeOK, Flush
<1>2. CASE flush.alone # {}
  <2>1. NextBatch = {Smallest(flush.alone)}
    BY <1>2 DEF NextBatch
  <2>2. Smallest(flush.alone) \in flush.alone
    BY <1>1, <1>2, RowNumbers, SmallestIsOne
  <2>3. Cardinality(NextBatch) = 1
    BY <2>1, FS_Singleton
  <2> QED
    BY <1>1, <2>1, <2>2, <2>3
<1>3. CASE flush.alone = {}
  <2> DEFINE same == InZone(flush.picked, flush.zone)
             oldest == ZoneOf[rows[Smallest(flush.picked)].url]
             zone == IF same # {} THEN flush.zone ELSE oldest
             S == InZone(flush.picked, zone)
  <2>1. NextBatch = FirstOf(FilesPerCall, S)
    BY <1>3 DEF NextBatch
  <2>2. Smallest(flush.picked) \in flush.picked
    BY <1>1, <1>3, RowNumbers, SmallestIsOne
  <2>3. S \subseteq flush.picked /\ \A i \in S : ZoneOf[rows[i].url] = zone
    BY DEF InZone
  <2>4. S # {}
    BY <2>2 DEF InZone
  <2>5. S \in SUBSET Nat /\ IsFiniteSet(S)
    BY <1>1, <2>3, RowNumbers
  <2> HIDE DEF S, zone
  <2>6. /\ NextBatch \subseteq S
        /\ Cardinality(NextBatch) \in 0 .. FilesPerCall
        /\ Cardinality(NextBatch) # 0
    BY <1>1, <2>1, <2>4, <2>5, FirstOfBounds
  <2> QED
    BY <1>1, <1>3, <2>3, <2>6
<1> QED
  BY <1>2, <1>3

-----------------------------------------------------------------------------
(* The steps. *)

FlushOver(D) ==
  [pc : {"idle", "call", "mark"}, zone : Zones \cup {NoZone},
   picked : SUBSET D, alone : SUBSET D, batch : SUBSET D,
   answer : {"none", "purged", "refused", "retry"}]

\* What the steps that touch one row or one flush at a time rest on.
LEMMA RowFacts ==
  ASSUME QueueTypeOK
  PROVE  /\ Len(rows) \in Nat /\ DOMAIN rows = 1 .. Len(rows)
         /\ \A i \in DOMAIN rows : rows[i] \in Row /\ ZoneOf[rows[i].url] \in Zones \cup {NoZone}
         /\ flush \in FlushOver(DOMAIN rows)
         /\ NotFlushing \in FlushOver(DOMAIN rows)
<1>1. Len(rows) \in Nat /\ DOMAIN rows = 1 .. Len(rows) /\ \A i \in DOMAIN rows : rows[i] \in Row
  BY DEF QueueTypeOK
<1>2. \A i \in DOMAIN rows : ZoneOf[rows[i].url] \in Zones \cup {NoZone}
  BY <1>1, QueueAssumption DEF Row
<1>3. flush \in FlushOver(DOMAIN rows)
  BY DEF QueueTypeOK, FlushOver
<1>4. NotFlushing \in FlushOver(DOMAIN rows)
  BY DEF NotFlushing, FlushOver
<1> QED
  BY <1>1, <1>2, <1>3, <1>4

Refusals == [1 .. MaxRows -> {"none", "shared", "own"}]

\* Every row has a number that refusals are kept by.
LEMMA RowsAreNumbered ==
  ASSUME QueueTypeOK, Rows
  PROVE  DOMAIN rows \subseteq 1 .. MaxRows
<1>1. Len(rows) \in Nat /\ DOMAIN rows = 1 .. Len(rows) /\ MaxRows \in Nat /\ Len(rows) <= MaxRows
  BY RowFacts, QueueAssumption DEF Rows
<1> QED
  BY <1>1

\* A step that leaves the rows, their cover and what the edge may hold alone keeps the
\* invariant when the flush it leaves is well formed.
LEMMA FlushStep ==
  ASSUME PurgeInv, UNCHANGED <<rows, served, stale, cover, late>>,
         faults' \in Nat, flush' \in FlushOver(DOMAIN rows),
         flush'.answer = "none", flush'.batch = {},
         refusal' \in Refusals,
         \A i \in 1 .. MaxRows : /\ refusal[i] = "own" => refusal'[i] = "own"
                                 /\ refusal'[i] = "shared" => i \in flush'.alone,
         \/ flush'.pc = "idle" /\ flush'.alone = {}
         \/ /\ flush'.pc = "call"
            /\ flush'.picked \cup flush'.alone # {}
            /\ Pending(flush'.picked) /\ Pending(flush'.alone)
  PROVE  PurgeInv'
<1>1. QueueTypeOK'
  BY DEF PurgeInv, QueueTypeOK, FlushOver, Refusals
<1>2. Rows' /\ PurgedUnlessLate'
  BY DEF PurgeInv, Rows, PurgedUnlessLate
<1>3. FailedForItsOwnSake'
  <2>1. DOMAIN rows \subseteq 1 .. MaxRows
    BY RowsAreNumbered DEF PurgeInv
  <2> QED
    BY <2>1 DEF PurgeInv, FailedForItsOwnSake, Pending
<1>4. Flush' /\ Dropped'
  BY DEF Flush, Dropped, Pending
<1> QED
  BY <1>1, <1>2, <1>3, <1>4 DEF PurgeInv

\* No refusal is forgotten, and none is still to be followed by a call, while no flush is
\* under way and when one has nothing left.
LEMMA SharedAreAlone ==
  ASSUME PurgeInv, flush.pc # "mark", NEW i \in 1 .. MaxRows, refusal[i] = "shared"
  PROVE  i \in flush.alone
BY DEF PurgeInv, Flush, FailedForItsOwnSake

LEMMA SelectStep ==
  ASSUME PurgeInv, Select
  PROVE  PurgeInv'
<1> DEFINE due == {i \in DOMAIN rows : rows[i].state = "pending" /\ rows[i].due}
           f == [NotFlushing EXCEPT !.pc = "call", !.picked = FirstOf(DueLimit, due)]
<1>1. /\ due # {} /\ flush' = f /\ flush.pc = "idle"
      /\ UNCHANGED <<rows, served, stale, cover, late, refusal, faults>>
  BY DEF Select
<1>2. QueueTypeOK /\ due \subseteq DOMAIN rows /\ DueLimit \in Nat \ {0}
  BY QueueAssumption DEF PurgeInv
<1>3. due \in SUBSET Nat /\ IsFiniteSet(due)
  BY <1>2, RowNumbers
<1>4. Pending(due)
  BY DEF Pending
<1> HIDE DEF due
<1>5. FirstOf(DueLimit, due) \subseteq due /\ FirstOf(DueLimit, due) # {}
  BY <1>1, <1>2, <1>3, FirstOfBounds
<1>6. /\ f \in FlushOver(DOMAIN rows) /\ f.pc = "call" /\ f.answer = "none"
      /\ f.picked = FirstOf(DueLimit, due) /\ f.alone = {} /\ f.batch = {}
  BY <1>2, <1>5 DEF NotFlushing, FlushOver
<1> HIDE DEF f
<1>7. Pending(f.picked) /\ Pending(f.alone)
  BY <1>4, <1>5, <1>6 DEF Pending
<1>8. faults' \in Nat
  BY <1>1, <1>2 DEF QueueTypeOK
<1>9. refusal \in Refusals /\ \A i \in 1 .. MaxRows : refusal[i] # "shared"
  BY <1>1, SharedAreAlone DEF PurgeInv, QueueTypeOK, Refusals, Flush
<1> QED
  BY <1>1, <1>5, <1>6, <1>7, <1>8, <1>9, FlushStep

LEMMA AbandonStep ==
  ASSUME PurgeInv, Abandon
  PROVE  PurgeInv'
<1>1. QueueTypeOK /\ flush' = NotFlushing /\ UNCHANGED <<rows, served, stale, cover, late>>
      /\ faults' = faults + 1
      /\ refusal' = [i \in 1 .. MaxRows |-> IF refusal[i] = "shared" THEN "none" ELSE refusal[i]]
  BY DEF PurgeInv, Abandon
<1>2. faults' \in Nat
  BY <1>1 DEF QueueTypeOK
<1>3. flush'.pc = "idle" /\ flush'.answer = "none" /\ flush'.alone = {} /\ flush'.batch = {}
  BY <1>1 DEF NotFlushing
<1>4. /\ refusal' \in Refusals
      /\ \A i \in 1 .. MaxRows : /\ refusal[i] = "own" => refusal'[i] = "own"
                                /\ refusal'[i] # "shared"
  BY <1>1 DEF QueueTypeOK, Refusals
<1> QED
  BY <1>1, <1>2, <1>3, <1>4, RowFacts, FlushStep

\* After a batch the flush goes on with what is left of what it read.
LEMMA ProceedShape ==
  ASSUME QueueTypeOK, Flush, flush.pc = "mark", NEW alone \in SUBSET flush.batch, Proceed(alone)
  PROVE  /\ flush' \in FlushOver(DOMAIN rows) /\ flush'.answer = "none" /\ flush'.batch = {}
         /\ flush'.picked \subseteq flush.picked \ flush.batch
         /\ flush'.alone = IF alone # {} THEN alone ELSE flush.alone \ flush.batch
         /\ \/ flush'.pc = "idle"
            \/ flush'.pc = "call" /\ flush'.picked \cup flush'.alone # {}
<1> DEFINE left == flush.picked \ flush.batch
           single == IF alone # {} THEN alone ELSE flush.alone \ flush.batch
           zone == ZoneOf[rows[Smallest(flush.batch)].url]
           f == [NotFlushing EXCEPT !.pc = "call", !.picked = left, !.alone = single,
                   !.zone = zone]
<1>1. flush' = IF left = {} /\ single = {} THEN NotFlushing ELSE f
  BY DEF Proceed
<1>2. /\ flush.picked \subseteq DOMAIN rows /\ flush.alone \subseteq DOMAIN rows
      /\ flush.batch \subseteq DOMAIN rows /\ Cardinality(flush.batch) # 0
  BY DEF QueueTypeOK, Flush
<1>3. zone \in Zones \cup {NoZone}
  <2>1. flush.batch \in SUBSET Nat /\ IsFiniteSet(flush.batch)
    BY <1>2, RowNumbers
  <2>2. flush.batch # {}
    BY <1>2, FS_EmptySet
  <2>3. Smallest(flush.batch) \in DOMAIN rows
    BY <1>2, <2>1, <2>2, SmallestIsOne
  <2> QED
    BY <2>3, RowFacts
<1>4. single = IF alone # {} THEN alone ELSE flush.alone \ flush.batch
  OBVIOUS
<1>5. left \subseteq DOMAIN rows /\ single \subseteq DOMAIN rows
  BY <1>2
<1> HIDE DEF left, single, zone
<1>6. /\ f \in FlushOver(DOMAIN rows) /\ f.pc = "call" /\ f.answer = "none"
      /\ f.picked = left /\ f.alone = single /\ f.batch = {}
  BY <1>3, <1>5 DEF NotFlushing, FlushOver
<1> HIDE DEF f
<1>7. CASE left = {} /\ single = {}
  <2>1. flush' = NotFlushing
    BY <1>1, <1>7
  <2> QED
    BY <1>4, <1>7, <2>1, RowFacts DEF NotFlushing
<1>8. CASE ~(left = {} /\ single = {})
  <2>1. flush' = f
    BY <1>1, <1>8
  <2>2. left = flush.picked \ flush.batch
    BY DEF left
  <2>3. left \cup single # {}
    BY <1>8
  <2> QED
    BY <1>4, <1>6, <2>1, <2>2, <2>3
<1> QED
  BY <1>7, <1>8

LEMMA SplitStep ==
  ASSUME PurgeInv, Split
  PROVE  PurgeInv'
<1>1. /\ QueueTypeOK /\ Flush /\ flush.pc = "mark" /\ Proceed(flush.batch)
      /\ Cardinality(flush.batch) > 1 /\ flush.answer = "refused"
      /\ UNCHANGED <<rows, served, stale, cover, late, refusal, faults>>
  BY DEF PurgeInv, Split
<1>2. Pending(flush.picked) /\ Pending(flush.alone) /\ Pending(flush.batch)
  BY <1>1 DEF Flush, Pending
<1>3. flush.batch # {} /\ flush.alone = {}
  BY <1>1, FS_EmptySet DEF Flush
<1>4. /\ flush' \in FlushOver(DOMAIN rows) /\ flush'.answer = "none" /\ flush'.batch = {}
      /\ flush'.picked \subseteq flush.picked \ flush.batch
      /\ flush'.alone = flush.batch
      /\ \/ flush'.pc = "idle"
         \/ flush'.pc = "call" /\ flush'.picked \cup flush'.alone # {}
  <2>1. flush.batch \in SUBSET flush.batch
    OBVIOUS
  <2> QED
    BY <1>1, <1>3, <2>1, ProceedShape
<1>5. flush'.pc = "call" /\ Pending(flush'.picked) /\ Pending(flush'.alone)
  <2>1. flush'.pc # "idle"
    BY <1>1, <1>3 DEF Proceed
  <2> QED
    BY <1>2, <1>4, <2>1 DEF Pending
<1>6. faults' \in Nat /\ refusal' \in Refusals
  BY <1>1 DEF QueueTypeOK, Refusals
<1>7. \A i \in 1 .. MaxRows : refusal'[i] = "shared" => i \in flush'.alone
  BY <1>1, <1>3, <1>4 DEF PurgeInv, FailedForItsOwnSake
<1> QED
  BY <1>1, <1>4, <1>5, <1>6, <1>7, FlushStep

\* Time passes, and the product publishes: the queue has not changed but for one due row.
LEMMA ElapseStep ==
  ASSUME PurgeInv, NEW i, Elapse(i)
  PROVE  PurgeInv'
<1> DEFINE r == [rows[i] EXCEPT !.due = TRUE]
<1>1. /\ QueueTypeOK /\ i \in 1 .. Len(rows) /\ rows' = [rows EXCEPT ![i] = r]
      /\ UNCHANGED <<flush, served, stale, cover, late, refusal, faults>>
  BY RowFacts DEF PurgeInv, Elapse
<1>2. /\ r \in Row /\ r.url = rows[i].url /\ r.state = rows[i].state
      /\ r.attempts = rows[i].attempts
  BY <1>1, RowFacts DEF Row
<1> HIDE DEF r
<1>3. /\ rows' \in Seq(Row) /\ Len(rows') = Len(rows)
      /\ \A j \in 1 .. Len(rows) : rows'[j] = IF j = i THEN r ELSE rows[j]
  BY <1>1, <1>2, ExceptSeq DEF QueueTypeOK
<1>4. /\ DOMAIN rows' = DOMAIN rows
      /\ \A j \in DOMAIN rows : /\ rows'[j].url = rows[j].url /\ rows'[j].state = rows[j].state
                                /\ rows'[j].attempts = rows[j].attempts
  BY <1>1, <1>2, <1>3, RowFacts
<1>5. QueueTypeOK'
  BY <1>1, <1>3, <1>4 DEF QueueTypeOK
<1>6. \A u \in Urls : cover[u] # 0 => cover[u] \in DOMAIN rows
  BY <1>1, RowFacts DEF QueueTypeOK
<1>7. Rows' /\ PurgedUnlessLate'
  BY <1>1, <1>3, <1>4, <1>6 DEF PurgeInv, Rows, PurgedUnlessLate
<1>8. flush.picked \subseteq DOMAIN rows /\ flush.alone \subseteq DOMAIN rows
      /\ flush.batch \subseteq DOMAIN rows
  BY <1>1 DEF QueueTypeOK
<1>9. Flush' /\ Dropped'
  BY <1>1, <1>4, <1>8 DEF PurgeInv, Flush, Pending, Dropped
<1>10. FailedForItsOwnSake'
  BY <1>1, <1>4, <1>8 DEF PurgeInv, FailedForItsOwnSake
<1> QED
  BY <1>5, <1>7, <1>9, <1>10 DEF PurgeInv

LEMMA PublishStep ==
  ASSUME PurgeInv, NEW u \in Pages, Publish(u)
  PROVE  PurgeInv'
BY DEF PurgeInv, Publish, QueueTypeOK, Rows, Flush, Pending, FailedForItsOwnSake, PurgedUnlessLate,
       Dropped

\* Cloudflare answers: what it was told to drop is gone, or the flush does not say so.
LEMMA CallStep ==
  ASSUME PurgeInv, NEW answer \in {"purged", "refused", "retry"}, NEW dropped \in BOOLEAN,
         Call(answer, dropped),
         answer = "purged" => dropped
  PROVE  PurgeInv'
<1> DEFINE f == [flush EXCEPT !.pc = "mark", !.batch = NextBatch, !.answer = answer]
<1>1. /\ QueueTypeOK /\ Flush /\ flush.pc = "call" /\ flush' = f
      /\ stale' = (IF dropped THEN stale \ UrlsOf(NextBatch) ELSE stale)
      /\ refusal' = [i \in 1 .. MaxRows |->
                       IF i \notin NextBatch THEN refusal[i]
                       ELSE IF answer # "refused" THEN "none"
                       ELSE IF Cardinality(NextBatch) = 1 THEN "own" ELSE "shared"]
      /\ UNCHANGED <<rows, served, cover, late, faults>>
  BY DEF PurgeInv, Call
<1>2. /\ NextBatch \subseteq flush.picked \cup flush.alone
      /\ Cardinality(NextBatch) \in 1 .. FilesPerCall
      /\ \A i, j \in NextBatch : ZoneOf[rows[i].url] = ZoneOf[rows[j].url]
      /\ Cardinality(NextBatch) > 1 => flush.alone = {}
  BY <1>1, NextBatchShape
<1>3. NextBatch \subseteq DOMAIN rows /\ NextBatch \subseteq 1 .. MaxRows
  BY <1>1, <1>2, RowsAreNumbered DEF PurgeInv, QueueTypeOK
<1>4. UrlsOf(NextBatch) = {rows[i].url : i \in NextBatch}
  BY DEF UrlsOf
<1> DEFINE B == NextBatch
           U == UrlsOf(NextBatch)
<1> HIDE DEF B, U
<1>5. /\ f \in FlushOver(DOMAIN rows) /\ f.pc = "mark" /\ f.answer = answer /\ f.batch = B
      /\ f.picked = flush.picked /\ f.alone = flush.alone
  BY <1>1, <1>3, RowFacts DEF FlushOver, B
<1> HIDE DEF f
<1>6. stale' \subseteq stale /\ (answer = "purged" => stale' \cap U = {})
  BY <1>1 DEF U
<1>7. /\ refusal' \in Refusals
      /\ \A i \in B : refusal'[i] = IF answer # "refused" THEN "none"
                                    ELSE IF Cardinality(B) = 1 THEN "own" ELSE "shared"
      /\ \A i \in 1 .. MaxRows : i \notin B => refusal'[i] = refusal[i]
  BY <1>1, <1>3 DEF B, Refusals, QueueTypeOK
<1>8. QueueTypeOK'
  BY <1>1, <1>5, <1>6, <1>7 DEF QueueTypeOK, FlushOver, Refusals
<1>9. Rows' /\ PurgedUnlessLate'
  BY <1>1, <1>6 DEF PurgeInv, Rows, PurgedUnlessLate
<1>10. \A i \in B : rows[i].url \in U
  BY <1>4 DEF B, U
<1>11. /\ B \subseteq flush.picked \cup flush.alone /\ B \subseteq DOMAIN rows
       /\ Cardinality(B) \in 1 .. FilesPerCall
       /\ \A i, j \in B : ZoneOf[rows[i].url] = ZoneOf[rows[j].url]
       /\ Cardinality(B) > 1 => flush.alone = {}
  BY <1>2, <1>3 DEF B
<1>12. \A i \in B : rows[i].state = "pending"
  BY <1>1, <1>11 DEF Flush, Pending
<1>13. Flush'
  BY <1>1, <1>5, <1>7, <1>11 DEF Flush, Pending
<1>14. FailedForItsOwnSake'
  <2>1. ASSUME NEW i \in DOMAIN rows, rows[i].state = "failed", rows[i].attempts < MaxAttempts
        PROVE  refusal'[i] = "own"
    <3>1. i \notin B /\ i \in 1 .. MaxRows /\ refusal[i] = "own"
      BY <1>1, <1>12, <2>1, RowsAreNumbered DEF PurgeInv, FailedForItsOwnSake
    <3> QED
      BY <1>7, <3>1
  <2>2. ASSUME NEW i \in 1 .. MaxRows, refusal'[i] = "shared"
        PROVE  i \in B \cup flush.alone /\ rows[i].state = "pending"
    <3>1. CASE i \in B
      BY <1>12, <3>1
    <3>2. CASE i \notin B
      BY <1>1, <1>7, <2>2, <3>2, SharedAreAlone DEF PurgeInv, FailedForItsOwnSake
    <3> QED
      BY <3>1, <3>2
  <2> QED
    BY <1>1, <1>5, <2>1, <2>2 DEF FailedForItsOwnSake
<1>15. Dropped'
  BY <1>1, <1>5, <1>6, <1>10 DEF Dropped
<1> QED
  BY <1>8, <1>9, <1>13, <1>14, <1>15 DEF PurgeInv

\* The rows of the batch are marked: each has had one more attempt, and is still pending
\* only with attempts left.
LEMMA MarkStep ==
  ASSUME PurgeInv, Mark
  PROVE  PurgeInv'
<1>1. /\ QueueTypeOK /\ Rows /\ Flush /\ FailedForItsOwnSake /\ PurgedUnlessLate /\ Dropped
      /\ flush.pc = "mark"
      /\ flush.answer = "refused" => Cardinality(flush.batch) = 1
      /\ rows' = [i \in DOMAIN rows |-> IF i \in flush.batch THEN Marked(rows[i]) ELSE rows[i]]
      /\ Proceed({})
      /\ UNCHANGED <<served, stale, cover, late, refusal, faults>>
  BY DEF PurgeInv, Mark
<1>2. /\ flush' \in FlushOver(DOMAIN rows) /\ flush'.answer = "none" /\ flush'.batch = {}
      /\ flush'.picked \subseteq flush.picked \ flush.batch
      /\ flush'.alone = flush.alone \ flush.batch
      /\ \/ flush'.pc = "idle"
         \/ flush'.pc = "call" /\ flush'.picked \cup flush'.alone # {}
  <2>1. {} \in SUBSET flush.batch
    OBVIOUS
  <2> QED
    BY <1>1, <2>1, ProceedShape
<1>3. /\ Len(rows) \in Nat /\ DOMAIN rows = 1 .. Len(rows)
      /\ \A i \in DOMAIN rows : rows[i] \in Row /\ rows[i].url \in Urls
                                /\ rows[i].attempts \in Nat
  BY <1>1, RowFacts, QueueAssumption DEF Row
<1>4. flush.batch \subseteq DOMAIN rows /\ \A i \in flush.batch : rows[i].state = "pending"
  BY <1>1 DEF QueueTypeOK, Flush, Pending
<1>5. ASSUME NEW i \in flush.batch
      PROVE  /\ Marked(rows[i]) \in Row
             /\ Marked(rows[i]).url = rows[i].url
             /\ Marked(rows[i]).state = "pending" => Marked(rows[i]).attempts < MaxAttempts
             /\ Marked(rows[i]).state = "purged" => flush.answer = "purged"
             /\ Marked(rows[i]).state = "failed" /\ Marked(rows[i]).attempts < MaxAttempts =>
                  flush.answer = "refused"
  <2> DEFINE r == rows[i]
             done(s) == [r EXCEPT !.state = s, !.attempts = r.attempts + 1]
             again == [r EXCEPT !.attempts = r.attempts + 1, !.due = FALSE]
  <2>1. /\ r \in Row /\ r.state = "pending" /\ r.attempts \in Nat /\ r.attempts < MaxAttempts
        /\ MaxAttempts \in Nat
    BY <1>1, <1>3, <1>4, QueueAssumption DEF Rows
  <2>2. r.attempts + 1 \in 0 .. MaxAttempts
    BY <2>1
  <2>3. \A s \in {"purged", "failed"} :
          done(s) \in Row /\ done(s).url = r.url /\ done(s).state = s
          /\ done(s).attempts = r.attempts + 1
    BY <2>1, <2>2 DEF Row
  <2>4. again \in Row /\ again.url = r.url /\ again.state = "pending"
        /\ again.attempts = r.attempts + 1
    BY <2>1, <2>2 DEF Row
  <2>5. Marked(r) = IF flush.answer = "purged" THEN done("purged")
                    ELSE IF flush.answer = "refused" \/ r.attempts + 1 >= MaxAttempts
                    THEN done("failed") ELSE again
    BY DEF Marked
  <2> HIDE DEF r, done, again
  <2>6. CASE flush.answer = "purged"
    <3>1. Marked(r) = done("purged")
      BY <2>5, <2>6
    <3> QED
      BY <2>3, <2>6, <3>1 DEF r
  <2>7. CASE flush.answer = "refused"
    <3>1. Marked(r) = done("failed")
      BY <2>5, <2>7
    <3> QED
      BY <2>3, <2>7, <3>1 DEF r
  <2>8. CASE flush.answer \notin {"purged", "refused"} /\ r.attempts + 1 >= MaxAttempts
    <3>1. Marked(r) = done("failed")
      BY <2>5, <2>8
    <3>2. ~(done("failed").attempts < MaxAttempts)
      BY <2>1, <2>3, <2>8
    <3> QED
      BY <2>3, <3>1, <3>2 DEF r
  <2>9. CASE flush.answer \notin {"purged", "refused"} /\ ~(r.attempts + 1 >= MaxAttempts)
    <3>1. Marked(r) = again
      BY <2>5, <2>9
    <3>2. again.attempts < MaxAttempts
      BY <2>1, <2>4, <2>9
    <3> QED
      BY <2>4, <3>1, <3>2 DEF r
  <2> QED
    BY <2>6, <2>7, <2>8, <2>9
<1>6. /\ DOMAIN rows' = DOMAIN rows
      /\ \A i \in DOMAIN rows : rows'[i] = IF i \in flush.batch THEN Marked(rows[i]) ELSE rows[i]
  BY <1>1
<1>7. \A i \in DOMAIN rows : rows'[i] \in Row /\ rows'[i].url = rows[i].url
  BY <1>3, <1>5, <1>6
<1>8. rows' \in Seq(Row) /\ Len(rows') = Len(rows)
  BY <1>1, <1>3, <1>6, <1>7
<1>9. QueueTypeOK'
  BY <1>1, <1>2, <1>6, <1>8 DEF QueueTypeOK, FlushOver
<1>10. \A u \in Urls : cover[u] # 0 => cover[u] \in DOMAIN rows
  BY <1>1, <1>3 DEF QueueTypeOK
<1>11. Rows'
  BY <1>1, <1>3, <1>4, <1>5, <1>6, <1>7, <1>8, <1>10 DEF Rows
<1>12. Flush'
  <2>1. flush.picked \subseteq DOMAIN rows /\ flush.alone \subseteq DOMAIN rows
        /\ Pending(flush.picked) /\ Pending(flush.alone)
    BY <1>1 DEF QueueTypeOK, Flush
  <2>2. Pending(flush.picked)' /\ Pending(flush.alone)'
    BY <1>2, <1>6, <2>1 DEF Pending
  <2>3. flush'.pc = "idle" => flush'.alone = {}
    BY <1>1, <1>2 DEF Proceed, NotFlushing
  <2> QED
    BY <1>2, <2>2, <2>3 DEF Flush, Pending
<1>13. FailedForItsOwnSake'
  <2>1. \A i \in flush.batch : flush.answer = "refused" => refusal[i] = "own"
    BY <1>1 DEF Flush
  <2>2. \A i \in flush.batch : refusal[i] # "shared"
    BY <1>1, <2>1 DEF Flush
  <2>3. ASSUME NEW i \in DOMAIN rows, rows'[i].state = "failed", rows'[i].attempts < MaxAttempts
        PROVE  refusal[i] = "own"
    BY <1>1, <1>5, <1>6, <2>1, <2>3 DEF FailedForItsOwnSake
  <2>4. ASSUME NEW i \in 1 .. MaxRows, refusal[i] = "shared"
        PROVE  i \in flush'.batch \cup flush'.alone /\ rows'[i].state = "pending"
    <3>1. i \in flush.alone \ flush.batch /\ rows[i].state = "pending" /\ i \in DOMAIN rows
      BY <1>1, <2>2, <2>4 DEF FailedForItsOwnSake, QueueTypeOK
    <3> QED
      BY <1>2, <1>6, <3>1
  <2> QED
    BY <1>1, <1>6, <2>3, <2>4 DEF FailedForItsOwnSake
<1>14. PurgedUnlessLate'
  <2> SUFFICES ASSUME NEW u \in Urls, u \notin late, cover[u] # 0,
                      rows'[cover[u]].state = "purged"
               PROVE  u \notin stale
    BY <1>1 DEF PurgedUnlessLate
  <2>1. cover[u] \in DOMAIN rows /\ rows[cover[u]].url = u
    BY <1>1, <1>10 DEF Rows
  <2>2. CASE cover[u] \in flush.batch
    <3>1. flush.answer = "purged"
      BY <1>5, <1>6, <2>1, <2>2
    <3> QED
      BY <1>1, <2>1, <2>2, <3>1 DEF Dropped
  <2>3. CASE cover[u] \notin flush.batch
    BY <1>1, <1>6, <2>1, <2>3 DEF PurgedUnlessLate
  <2> QED
    BY <2>2, <2>3
<1>15. Dropped'
  BY <1>2 DEF Dropped
<1> QED
  BY <1>9, <1>11, <1>12, <1>13, <1>14, <1>15 DEF PurgeInv

\* A removal queues the URLs that have no pending row, each once, and stands for the others
\* by the row that waits already.
LEMMA RemoveStep ==
  ASSUME PurgeInv, NEW u \in Pages, Remove(u)
  PROVE  PurgeInv'
<1> DEFINE N == NewUrls(u)
           P == PurgeUrls(u)
           C == Cardinality(N)
<1>1. QueueTypeOK /\ Rows /\ Flush /\ FailedForItsOwnSake /\ PurgedUnlessLate /\ Dropped
  BY DEF PurgeInv
<1>2. PICK new \in [1 .. C -> N] :
        /\ \A x \in N : \E i \in DOMAIN new : new[i] = x
        /\ Len(rows) + Len(new) <= MaxRows
        /\ rows' = rows \o [i \in DOMAIN new |-> NewRow(new[i])]
        /\ cover' = [x \in Urls |->
                       IF x \in N THEN Len(rows) + CHOOSE i \in DOMAIN new : new[i] = x
                       ELSE IF x \in P THEN Smallest(PendingOf(x)) ELSE cover[x]]
  BY DEF Remove
<1>3. /\ served' = served \ {u} /\ stale' = stale \cup P
      /\ late' = (late \ P) \cup
                 {x \in P \ N : flush.answer = "purged" /\ PendingOf(x) \subseteq flush.batch}
      /\ UNCHANGED <<flush, refusal, faults>>
  BY DEF Remove
<1>4. /\ P \subseteq Urls /\ IsFiniteSet(P)
      /\ N = {x \in P : ZoneOf[x] = NoZone \/ PendingOf(x) = {}}
  <2>1. Related[u] \subseteq RelatedUrls /\ IsFiniteSet(Related[u])
    BY QueueAssumption
  <2>2. IsFiniteSet(Related[u] \cup {u})
    BY <2>1, FS_AddElement
  <2>3. P = Related[u] \cup {u}
    BY DEF PurgeUrls
  <2> QED
    BY <2>1, <2>2, <2>3 DEF NewUrls, Urls
<1> HIDE DEF P, N
<1>5. N \subseteq P /\ IsFiniteSet(N) /\ C \in Nat
  BY <1>4, FS_Subset, FS_CardinalityType
<1> HIDE DEF C
<1>6. DOMAIN new = 1 .. C /\ \A i, j \in 1 .. C : new[i] = new[j] => i = j
  <2>1. new \in Surjection(1 .. C, N)
    BY <1>2 DEF Surjection
  <2>2. IsFiniteSet(1 .. C) /\ Cardinality(1 .. C) = Cardinality(N)
    BY <1>5, FS_Interval DEF C
  <2>3. new \in Injection(1 .. C, N)
    BY <2>1, <2>2, FS_SurjSameCardinalityImpliesInj
  <2> QED
    BY <2>3 DEF Injection, IsInjective
<1> DEFINE added == [i \in 1 .. C |-> NewRow(new[i])]
           L == Len(rows)
<1>7. \A x \in Urls : /\ NewRow(x) \in Row /\ NewRow(x).url = x /\ NewRow(x).attempts = 0
                      /\ NewRow(x).state = IF ZoneOf[x] = NoZone THEN "skipped" ELSE "pending"
  BY QueueAssumption DEF NewRow, Row
<1>8. /\ L \in Nat /\ DOMAIN rows = 1 .. L /\ rows \in Seq(Row)
      /\ \A i \in DOMAIN rows : rows[i] \in Row /\ rows[i].url \in Urls
  BY <1>1, RowFacts DEF QueueTypeOK, Row
<1>9. /\ added \in Seq(Row) /\ Len(added) = C
      /\ \A i \in 1 .. C : added[i] = NewRow(new[i]) /\ new[i] \in N /\ new[i] \in Urls
  <2>1. \A i \in 1 .. C : new[i] \in N /\ new[i] \in Urls
    BY <1>4, <1>5
  <2>2. \A i \in 1 .. C : added[i] = NewRow(new[i])
    OBVIOUS
  <2>3. added \in [1 .. C -> Row] /\ DOMAIN added = 1 .. C
    BY <1>7, <2>1
  <2> HIDE DEF added
  <2> QED
    BY <1>5, <2>1, <2>2, <2>3
<1>10. rows' = rows \o added
  BY <1>2, <1>6
<1> HIDE DEF added, L
<1>11. /\ rows' \in Seq(Row) /\ Len(rows') = L + C /\ DOMAIN rows' = 1 .. L + C
       /\ \A i \in 1 .. L : rows'[i] = rows[i] /\ i \in DOMAIN rows'
       /\ \A k \in 1 .. C : rows'[L + k] = NewRow(new[k]) /\ L + k \in DOMAIN rows'
       /\ \A i \in DOMAIN rows' : i \in 1 .. L \/ \E k \in 1 .. C : i = L + k
  <2>1. /\ rows' \in Seq(Row) /\ Len(rows') = L + C
        /\ \A i \in 1 .. L + C : rows'[i] = IF i <= L THEN rows[i] ELSE added[i - L]
    BY <1>8, <1>9, <1>10, ConcatProperties DEF L
  <2>2. DOMAIN rows' = 1 .. L + C
    BY <2>1
  <2>3. \A i \in 1 .. L : rows'[i] = rows[i] /\ i \in 1 .. L + C
    BY <1>5, <1>8, <2>1
  <2>4. ASSUME NEW k \in 1 .. C PROVE rows'[L + k] = NewRow(new[k]) /\ L + k \in 1 .. L + C
    <3>1. L + k \in 1 .. L + C /\ ~(L + k <= L) /\ (L + k) - L = k
      BY <1>5, <1>8
    <3> QED
      BY <1>9, <2>1, <3>1
  <2>5. ASSUME NEW i \in 1 .. L + C PROVE i \in 1 .. L \/ \E k \in 1 .. C : i = L + k
    <3>1. i <= L \/ (i - L \in 1 .. C /\ i = L + (i - L))
      BY <1>5, <1>8
    <3> QED
      BY <1>8, <3>1
  <2> QED
    BY <2>1, <2>2, <2>3, <2>4, <2>5
\* Where a URL's row stands.
<1>12. \A k \in 1 .. C : cover'[new[k]] = L + k
  <2> SUFFICES ASSUME NEW k \in 1 .. C PROVE cover'[new[k]] = L + k
    OBVIOUS
  <2>1. (CHOOSE i \in DOMAIN new : new[i] = new[k]) = k
    BY <1>6
  <2> QED
    BY <1>2, <1>9, <2>1 DEF L
<1>13. \A x \in N : \E k \in 1 .. C : x = new[k] /\ cover'[x] = L + k
  BY <1>2, <1>6, <1>12
<1>14. ASSUME NEW i \in DOMAIN rows, rows[i].state = "pending"
       PROVE  /\ PendingOf(rows[i].url) = {i} /\ rows[i].url \notin N
              /\ cover'[rows[i].url] = i
  <2> DEFINE x == rows[i].url
  <2>1. \A j \in DOMAIN rows : rows[j].state = "pending" => cover[rows[j].url] = j
    BY <1>1 DEF Rows
  <2>2. PendingOf(x) = {i}
    BY <1>14, <2>1 DEF PendingOf
  <2>3. x \notin N
    BY <1>1, <1>4, <1>14, <2>2 DEF Rows
  <2>4. i \in Nat /\ Smallest({i}) = i
    <3>1. i \in Nat /\ {i} \in SUBSET Nat /\ {i} # {}
      BY <1>8
    <3> QED
      BY <3>1, SmallestIsOne
  <2>5. x \in Urls /\ cover[x] = i
    BY <1>8, <1>14, <2>1
  <2> QED
    BY <1>2, <2>2, <2>3, <2>4, <2>5
\* A URL queued already has its one pending row.
<1>15. ASSUME NEW x \in P \ N
       PROVE  \E i \in DOMAIN rows : /\ rows[i].state = "pending" /\ rows[i].url = x
                                     /\ PendingOf(x) = {i} /\ cover'[x] = i
  <2>1. PICK i \in PendingOf(x) : TRUE
    BY <1>4, <1>15
  <2>2. i \in DOMAIN rows /\ rows[i].state = "pending" /\ rows[i].url = x
    BY <2>1 DEF PendingOf
  <2> QED
    BY <1>14, <2>2
<1>16. \A x \in Urls \ P : cover'[x] = cover[x] /\ (x \in late' <=> x \in late)
  BY <1>2, <1>3, <1>5
<1>17. QueueTypeOK'
  <2>1. cover' \in [Urls -> 0 .. L + C]
    <3>1. cover' = [x \in Urls |-> cover'[x]]
      BY <1>2
    <3>2. ASSUME NEW x \in Urls PROVE cover'[x] \in 0 .. L + C
      <4>1. CASE x \in N
        BY <1>5, <1>8, <1>13, <4>1
      <4>2. CASE x \in P \ N
        BY <1>5, <1>8, <1>15, <4>2
      <4>3. CASE x \notin P
        <5>1. cover[x] \in 0 .. L
          BY <1>1 DEF QueueTypeOK, L
        <5> QED
          BY <1>5, <1>8, <1>16, <4>3, <5>1
      <4> QED
        BY <4>1, <4>2, <4>3
    <3> QED
      BY <3>1, <3>2
  <2>2. DOMAIN rows \subseteq DOMAIN rows'
    BY <1>8, <1>11
  <2>3. flush' \in FlushOver(DOMAIN rows')
    BY <1>1, <1>3, <2>2, RowFacts DEF FlushOver
  <2>4. served' \subseteq Pages /\ stale' \subseteq Urls /\ late' \subseteq Urls
        /\ refusal' \in Refusals /\ faults' \in Nat
    BY <1>1, <1>3, <1>4 DEF QueueTypeOK, Refusals
  <2> QED
    BY <1>11, <2>1, <2>3, <2>4 DEF QueueTypeOK, FlushOver, Refusals
<1>18. Rows'
  <2>1. ASSUME NEW i \in DOMAIN rows', rows'[i].state = "pending"
        PROVE  /\ rows'[i].attempts < MaxAttempts /\ ZoneOf[rows'[i].url] # NoZone
               /\ cover'[rows'[i].url] = i
    <3>1. CASE i \in 1 .. L
      BY <1>1, <1>8, <1>11, <1>14, <2>1, <3>1 DEF Rows
    <3>2. ASSUME NEW k \in 1 .. C, i = L + k
          PROVE  /\ rows'[i].attempts < MaxAttempts /\ ZoneOf[rows'[i].url] # NoZone
                 /\ cover'[rows'[i].url] = i
      <4>1. rows'[i] = NewRow(new[k]) /\ new[k] \in Urls
        BY <1>9, <1>11, <3>2
      <4>2. MaxAttempts \in Nat \ {0}
        BY QueueAssumption
      <4> QED
        BY <1>7, <1>12, <2>1, <3>2, <4>1, <4>2
    <3> QED
      BY <1>11, <3>1, <3>2
  <2>2. ASSUME NEW x \in Urls, cover'[x] # 0
        PROVE  rows'[cover'[x]].url = x
    <3>1. CASE x \in N
      BY <1>7, <1>9, <1>11, <1>13, <3>1
    <3>2. CASE x \in P \ N
      BY <1>8, <1>11, <1>15, <3>2
    <3>3. CASE x \notin P
      <4>1. cover'[x] = cover[x] /\ cover[x] \in 0 .. L /\ cover[x] # 0
        BY <1>1, <1>16, <2>2, <3>3 DEF QueueTypeOK, L
      <4>2. cover[x] \in 1 .. L /\ rows[cover[x]].url = x
        BY <1>1, <1>8, <4>1 DEF Rows
      <4> QED
        BY <1>11, <4>1, <4>2
    <3> QED
      BY <3>1, <3>2, <3>3
  <2>3. Len(rows') <= MaxRows
    <3>1. Len(new) = C
      BY <1>5, <1>6
    <3> QED
      BY <1>2, <1>11, <3>1 DEF L
  <2> QED
    BY <2>1, <2>2, <2>3 DEF Rows
<1>19. /\ flush.picked \subseteq 1 .. L /\ flush.alone \subseteq 1 .. L
       /\ flush.batch \subseteq 1 .. L
  BY <1>1, <1>8 DEF QueueTypeOK
<1>20. Flush'
  <2>1. flush.pc # "idle" => Pending(flush.picked)' /\ Pending(flush.alone)'
    BY <1>1, <1>3, <1>11, <1>19 DEF Flush, Pending
  <2> QED
    BY <1>1, <1>3, <1>11, <1>19, <2>1 DEF Flush
<1>21. FailedForItsOwnSake'
  <2>1. ASSUME NEW i \in DOMAIN rows', rows'[i].state = "failed", rows'[i].attempts < MaxAttempts
        PROVE  refusal[i] = "own"
    <3>1. CASE i \in 1 .. L
      BY <1>1, <1>8, <1>11, <2>1, <3>1 DEF FailedForItsOwnSake
    <3>2. ~(\E k \in 1 .. C : i = L + k)
      BY <1>7, <1>9, <1>11, <2>1
    <3> QED
      BY <1>11, <2>1, <3>1, <3>2
  <2>2. ASSUME NEW i \in 1 .. MaxRows, refusal[i] = "shared"
        PROVE  i \in flush.batch \cup flush.alone /\ rows'[i].state = "pending"
    <3>1. i \in flush.batch \cup flush.alone /\ rows[i].state = "pending" /\ i \in 1 .. L
      BY <1>1, <1>19, <2>2 DEF FailedForItsOwnSake
    <3> QED
      BY <1>11, <3>1
  <2> QED
    BY <1>3, <2>1, <2>2 DEF FailedForItsOwnSake
<1>22. PurgedUnlessLate'
  <2> SUFFICES ASSUME NEW x \in Urls, x \notin late', cover'[x] # 0,
                      rows'[cover'[x]].state = "purged"
               PROVE  x \notin stale'
    BY DEF PurgedUnlessLate
  <2>1. x \notin N
    BY <1>7, <1>9, <1>11, <1>13
  <2>2. x \notin P \ N
    BY <1>8, <1>11, <1>15
  <2>3. cover'[x] = cover[x] /\ cover[x] \in 1 .. L /\ x \notin late /\ x \notin P
    <3>1. cover'[x] = cover[x] /\ x \notin late /\ cover[x] \in 0 .. L
      BY <1>1, <1>16, <2>1, <2>2 DEF QueueTypeOK, L
    <3> QED
      BY <1>8, <2>1, <2>2, <3>1
  <2>4. x \notin stale
    BY <1>1, <1>11, <2>3 DEF PurgedUnlessLate
  <2> QED
    BY <1>3, <2>3, <2>4
<1>23. Dropped'
  <2> SUFFICES ASSUME flush.answer = "purged", NEW i \in flush.batch
               PROVE  rows'[i].url \in late' \/ rows'[i].url \notin stale'
    BY <1>3 DEF Dropped
  <2>1. i \in 1 .. L /\ rows'[i] = rows[i] /\ rows[i].url \in Urls
    BY <1>8, <1>11, <1>19
  <2>2. CASE rows[i].url \in P
    <3>1. rows[i].state = "pending"
      BY <1>1, <1>19 DEF Flush, Pending, QueueTypeOK
    <3>2. PendingOf(rows[i].url) = {i} /\ rows[i].url \notin N
      BY <1>8, <1>14, <2>1, <3>1
    <3> QED
      BY <1>3, <2>1, <2>2, <3>2
  <2>3. CASE rows[i].url \notin P
    BY <1>1, <1>3, <2>1, <2>3 DEF Dropped
  <2> QED
    BY <2>2, <2>3
<1> QED
  BY <1>17, <1>18, <1>20, <1>21, <1>22, <1>23 DEF PurgeInv

-----------------------------------------------------------------------------
(* The theorems. *)

\* What holds of the queue, the flush and the edge at every step.
LEMMA QueueInvariant == Spec => []PurgeInv
<1>1. Init => PurgeInv
  <2> SUFFICES ASSUME Init PROVE PurgeInv
    OBVIOUS
  <2>1. rows \in Seq(Row) /\ Len(rows) = 0 /\ DOMAIN rows = {}
    BY DEF Init
  <2>2. QueueTypeOK
    BY <2>1, QueueAssumption DEF Init, QueueTypeOK, NotFlushing
  <2>3. Rows /\ FailedForItsOwnSake /\ PurgedUnlessLate
    BY <2>1, QueueAssumption DEF Init, Rows, FailedForItsOwnSake, PurgedUnlessLate
  <2>4. Flush /\ Dropped
    BY DEF Init, Flush, Dropped, NotFlushing
  <2> QED
    BY <2>2, <2>3, <2>4 DEF PurgeInv
<1>2. PurgeInv /\ [Next]_vars => PurgeInv'
  <2> SUFFICES ASSUME PurgeInv, [Next]_vars PROVE PurgeInv'
    OBVIOUS
  <2>1. CASE Work
    <3>1. CASE Accepted
      BY <3>1, CallStep DEF Accepted
    <3>2. ASSUME NEW dropped \in BOOLEAN, Unanswered(dropped) \/ Refused(dropped) PROVE PurgeInv'
      BY <3>2, CallStep DEF Unanswered, Refused
    <3> QED
      BY <2>1, <3>1, <3>2, SelectStep, SplitStep, MarkStep DEF Work
  <2>2. CASE UNCHANGED vars
    BY <2>2 DEF vars, PurgeInv, QueueTypeOK, Rows, Flush, Pending, FailedForItsOwnSake,
                PurgedUnlessLate, Dropped
  <2> QED
    BY <2>1, <2>2, AbandonStep, PublishStep, RemoveStep, ElapseStep DEF Next
<1> QED
  BY <1>1, <1>2, PTL DEF Spec

\* The queue keeps its types: no row is attempted more than MAX_ATTEMPTS times (server/
\* purge.js mark).
THEOREM QueueIsTyped == Spec => []QueueTypeOK
BY QueueInvariant, PTL DEF PurgeInv

\* A call names URLs of one zone that are still pending, at most FILES_PER_CALL of them
\* (server/purge.js doFlush, purgeBatch).
THEOREM CallsAreLimited == Spec => []CallsWithinLimits
<1>1. PurgeInv => CallsWithinLimits
  BY DEF PurgeInv, Flush, Pending, CallsWithinLimits
<1> QED
  BY <1>1, QueueInvariant, PTL

\* Whatever was wrong with a call, a row is given up before its attempts are used up only on
\* a refusal of its own, and one refused in company waits for that (server/purge.js
\* purgeBatch, mark).
THEOREM NoneSunkByOthers == Spec => []FailedForItsOwnSake
BY QueueInvariant, PTL DEF PurgeInv

\* Once the row that stands for a URL's last removal is marked purged, the edge holds no copy
\* from before it, unless that removal came between the answer and the mark (server/purge.js
\* record, doFlush, mark).
THEOREM PurgedIsGone == Spec => []PurgedUnlessLate
BY QueueInvariant, PTL DEF PurgeInv


-----------------------------------------------------------------------------
(* The removal feed's inductive invariant. *)

\* Numbers come from one sequence; what the cursor has passed and the page on its way will
\* pass is numbered already.
Numbers ==
  /\ nextSeq \in Nat \ {0}
  /\ open \in [Docs -> Nat] /\ \A d \in Docs : open[d] < nextSeq
  /\ IsFiniteSet(removals)
  /\ \A r \in removals : r.seq \in Nat \ {0} /\ r.seq < nextSeq
  /\ after \in Nat /\ after < nextSeq
  /\ feed.there => feed.next \in Nat /\ feed.next < nextSeq

\* What the page on its way passes it holds, or knows to be open; what the saved cursor has
\* passed while it was open is known to be overtaken; one connection leaves nothing open.
Passing ==
  feed.there =>
    /\ \A r \in removals : r.doc \in Owned /\ r.seq <= feed.next =>
         r.seq <= after \/ r \in feed.rows \/ r.seq \in feed.passing
    /\ \A d \in Owned : open[d] \in 1 .. feed.next => open[d] \in feed.passing
    /\ handle = "serial" => feed.passing = {}
Overtaken == \A d \in Owned : open[d] \in 1 .. after => open[d] \in overtaken

FeedInv == Numbers /\ Passing /\ Overtaken /\ OnlyOvertakenSkipped

-----------------------------------------------------------------------------
(* Pages of the feed. *)

\* The last of some numbers below a bound is one of them.
LEMMA MaxIsOne ==
  ASSUME NEW S \in SUBSET Nat, S # {}, NEW n \in Nat, \A x \in S : x <= n
  PROVE  Max(S) \in S /\ \A x \in S : x <= Max(S)
<1> DEFINE U == {m \in Nat : \A x \in S : x <= m}
<1>1. U \subseteq Nat /\ U # {}
  BY DEF U
<1>2. PICK m \in U : \A k \in U : <<k, m>> \notin OpToRel(<, Nat)
  BY <1>1, NatLessThanWellFounded, WFMin, Zenon
<1>3. m \in Nat /\ \A x \in S : x \in Nat /\ x <= m
  BY <1>2
<1>4. \A k \in U : k \in Nat /\ ~(k < m)
  BY <1>2, <1>3 DEF OpToRel
<1>5. m \in S
  <2> SUFFICES ASSUME m \notin S PROVE FALSE
    OBVIOUS
  <2>1. PICK y \in S : TRUE
    OBVIOUS
  <2>2. y \in Nat /\ y < m
    BY <1>3
  <2>3. m - 1 \in Nat /\ m - 1 < m
    BY <1>3, <2>2
  <2>4. \A x \in S : x <= m - 1
    <3> SUFFICES ASSUME NEW x \in S PROVE x <= m - 1
      OBVIOUS
    <3>1. x \in Nat /\ x <= m /\ x # m
      BY <1>3
    <3> QED
      BY <1>3, <3>1
  <2>5. m - 1 \in U
    BY <2>3, <2>4
  <2> QED
    BY <1>4, <2>3, <2>5
<1>6. \E x \in S : \A y \in S : x >= y
  <2>1. \A y \in S : m >= y
    BY <1>3
  <2> QED
    BY <1>5, <2>1
<1>7. Max(S) \in S /\ \A y \in S : Max(S) >= y
  BY <1>6 DEF Max
<1>8. ASSUME NEW y \in S PROVE y <= Max(S)
  <2>1. y \in Nat /\ Max(S) \in Nat /\ Max(S) >= y
    BY <1>7
  <2> QED
    BY <2>1
<1> QED
  BY <1>7, <1>8

\* A page has no gap: it holds every row up to its last.
LEMMA PageHasNoGap ==
  ASSUME NEW shown, IsFiniteSet(shown), \A r \in shown : r.seq \in Nat, NEW n \in Nat,
         NEW s \in Page(shown, n), NEW r \in shown, r.seq <= s.seq
  PROVE  r \in Page(shown, n)
<1> DEFINE Below(x) == {y \in shown : y.seq < x.seq}
<1>1. s \in shown /\ Cardinality(Below(s)) < n
  BY DEF Page
<1>2. r.seq \in Nat /\ s.seq \in Nat
  BY <1>1
<1>3. Below(r) \subseteq Below(s)
  <2> SUFFICES ASSUME NEW y \in shown, y.seq < r.seq PROVE y.seq < s.seq
    OBVIOUS
  <2>1. y.seq \in Nat
    OBVIOUS
  <2> QED
    BY <1>2, <2>1
<1>4. IsFiniteSet(Below(s))
  BY FS_Subset
<1> HIDE DEF Below
<1>5. /\ Cardinality(Below(r)) <= Cardinality(Below(s))
      /\ Cardinality(Below(r)) \in Nat /\ Cardinality(Below(s)) \in Nat
  BY <1>3, <1>4, FS_Subset, FS_CardinalityType
<1>6. Cardinality(Below(r)) < n
  BY <1>1, <1>5
<1> QED
  BY <1>6 DEF Page, Below

\* next_after is 0, or the number of a row of the page.
LEMMA NextAfterIsLast ==
  ASSUME NEW shown, NEW n \in Nat, \A r \in shown : r.seq \in Nat /\ r.seq < n
  PROVE  /\ shown = {} => NextAfter(shown) = 0
         /\ shown # {} => \E s \in shown : NextAfter(shown) = s.seq
<1>1. CASE shown = {}
  BY <1>1 DEF NextAfter
<1>2. CASE shown # {}
  <2> DEFINE S == {r.seq : r \in shown}
  <2>1. S \in SUBSET Nat /\ S # {}
    BY <1>2
  <2>2. \A x \in S : x <= n
    OBVIOUS
  <2>3. NextAfter(shown) = Max(S)
    BY <1>2 DEF NextAfter, LastOf
  <2> HIDE DEF S
  <2>4. Max(S) \in S
    BY <2>1, <2>2, MaxIsOne
  <2> QED
    BY <1>2, <2>3, <2>4 DEF S
<1> QED
  BY <1>1, <1>2

-----------------------------------------------------------------------------
(* The steps. *)

\* The page passes what it holds and what is open.
LEMMA ReadFeedStep ==
  ASSUME FeedInv, ReadFeed
  PROVE  FeedInv'
<1> DEFINE shown == FeedRows
           next == NextAfter(shown)
           all == {r \in removals : r.doc \in Owned /\ r.seq > after}
           passing == {open[d] : d \in {e \in Owned : open[e] \in 1 .. next}}
<1>1. /\ feed' = [there |-> TRUE, rows |-> shown, next |-> next, passing |-> passing]
      /\ Free
      /\ UNCHANGED <<handle, removals, nextSeq, open, after, given, overtaken>>
  BY DEF ReadFeed
<1>2. /\ shown = Page(all, FeedLimit) /\ FeedLimit \in Nat /\ IsFiniteSet(all)
      /\ \A r \in all : r \in removals /\ r.seq \in Nat \ {0} /\ r.seq < nextSeq
      /\ nextSeq \in Nat \ {0} /\ after \in Nat
  BY FeedAssumption, FS_Subset DEF FeedInv, Numbers, FeedRows
<1>3. shown \subseteq all
  BY <1>2 DEF Page
<1> HIDE DEF shown
<1>4. next = 0 \/ \E s \in shown : next = s.seq
  <2>1. \A r \in shown : r.seq \in Nat /\ r.seq < nextSeq
    BY <1>2, <1>3
  <2> QED
    BY <1>2, <2>1, NextAfterIsLast
<1>5. next \in Nat /\ next < nextSeq
  BY <1>2, <1>3, <1>4
<1> HIDE DEF next
<1>6. \A r \in all : r.seq <= next => r \in shown
  <2> SUFFICES ASSUME NEW r \in all, r.seq <= next PROVE r \in shown
    OBVIOUS
  <2>1. PICK s \in shown : next = s.seq
    BY <1>2, <1>4
  <2> HIDE DEF all
  <2> QED
    BY <1>2, <2>1, PageHasNoGap
<1>7. \A r \in removals : r.doc \in Owned /\ r.seq <= next => r.seq <= after \/ r \in shown
  <2> SUFFICES ASSUME NEW r \in removals, r.doc \in Owned, r.seq <= next, ~(r.seq <= after)
               PROVE  r \in shown
    OBVIOUS
  <2>1. r.seq \in Nat
    BY DEF FeedInv, Numbers
  <2>2. r \in all
    BY <1>2, <2>1
  <2> QED
    BY <1>6, <2>2
<1>8. \A d \in Owned : open[d] \in 1 .. next => open[d] \in passing
  OBVIOUS
<1>9. handle = "serial" => passing = {}
  <2> SUFFICES ASSUME handle = "serial", NEW d \in Owned, open[d] \in 1 .. next PROVE FALSE
    OBVIOUS
  <2>1. open[d] = 0
    BY <1>1, FeedAssumption DEF Free
  <2> QED
    BY <1>5, <2>1
<1> HIDE DEF passing
<1>10. Numbers'
  BY <1>1, <1>5 DEF FeedInv, Numbers
<1>11. Passing'
  BY <1>1, <1>7, <1>8, <1>9 DEF Passing
<1> QED
  BY <1>1, <1>10, <1>11 DEF FeedInv, Overtaken, OnlyOvertakenSkipped

\* A number is taken beyond all that was passed.
LEMMA RecordStep ==
  ASSUME FeedInv, NEW d \in Docs, Record(d)
  PROVE  FeedInv'
<1>1. /\ open' = [open EXCEPT ![d] = nextSeq] /\ nextSeq' = nextSeq + 1
      /\ UNCHANGED <<handle, removals, after, feed, given, overtaken>>
  BY DEF Record
<1>2. /\ nextSeq \in Nat \ {0} /\ open \in [Docs -> Nat] /\ after \in Nat /\ after < nextSeq
      /\ \A e \in Docs : open[e] < nextSeq
      /\ \A r \in removals : r.seq \in Nat \ {0} /\ r.seq < nextSeq
      /\ feed.there => feed.next \in Nat /\ feed.next < nextSeq
      /\ IsFiniteSet(removals)
  BY DEF FeedInv, Numbers
<1>3. open' \in [Docs -> Nat] /\ \A e \in Docs : open'[e] = IF e = d THEN nextSeq ELSE open[e]
  BY <1>1, <1>2
<1>4. \A e \in Docs : open'[e] < nextSeq'
  <2> SUFFICES ASSUME NEW e \in Docs PROVE open'[e] < nextSeq'
    OBVIOUS
  <2>1. open[e] \in Nat /\ open[e] < nextSeq /\ (open'[e] = nextSeq \/ open'[e] = open[e])
    BY <1>2, <1>3
  <2> QED
    BY <1>1, <1>2, <2>1
<1>5. \A r \in removals : r.seq < nextSeq'
  <2> SUFFICES ASSUME NEW r \in removals PROVE r.seq < nextSeq'
    OBVIOUS
  <2>1. r.seq \in Nat /\ r.seq < nextSeq
    BY <1>2
  <2> QED
    BY <1>1, <1>2, <2>1
<1>6. Numbers'
  BY <1>1, <1>2, <1>3, <1>4, <1>5 DEF Numbers
<1>7. Passing'
  <2>1. \A e \in Owned : feed.there /\ open'[e] \in 1 .. feed.next => open'[e] = open[e]
    BY <1>2, <1>3, FeedAssumption
  <2> QED
    BY <1>1, <2>1 DEF FeedInv, Passing
<1>8. Overtaken'
  <2>1. \A e \in Owned : open'[e] \in 1 .. after => open'[e] = open[e]
    BY <1>2, <1>3, FeedAssumption
  <2> QED
    BY <1>1, <2>1 DEF FeedInv, Overtaken
<1> QED
  BY <1>1, <1>6, <1>7, <1>8 DEF FeedInv, OnlyOvertakenSkipped

\* What commits was open, and so is known to be passed if it is.
LEMMA CommitStep ==
  ASSUME FeedInv, NEW d \in Docs, Commit(d)
  PROVE  FeedInv'
<1> DEFINE new == [seq |-> open[d], doc |-> d, revision |-> documents[d].revision]
<1>1. /\ open[d] # 0 /\ open' = [open EXCEPT ![d] = 0]
      /\ removals' = removals \cup {new}
      /\ UNCHANGED <<handle, nextSeq, after, feed, given, overtaken>>
  BY DEF Commit
<1>2. new.seq = open[d] /\ new.doc = d
  OBVIOUS
<1> HIDE DEF new
<1>3. /\ nextSeq \in Nat \ {0} /\ open \in [Docs -> Nat] /\ open[d] \in Nat \ {0}
      /\ open[d] < nextSeq
  BY <1>1 DEF FeedInv, Numbers
<1>4. open' \in [Docs -> Nat] /\ \A e \in Docs : open'[e] = IF e = d THEN 0 ELSE open[e]
  BY <1>1, <1>3
<1>5. IsFiniteSet(removals')
  BY <1>1, FS_AddElement DEF FeedInv, Numbers
<1>6. Numbers'
  BY <1>1, <1>2, <1>3, <1>4, <1>5 DEF FeedInv, Numbers
<1>7. Passing'
  <2>1. \A e \in Owned : open'[e] \in 1 .. feed.next => open'[e] = open[e]
    BY <1>4, FeedAssumption
  <2>2. ASSUME feed.there, d \in Owned, open[d] <= feed.next PROVE open[d] \in feed.passing
    <3>1. open[d] \in 1 .. feed.next
      BY <1>3, <2>2 DEF FeedInv, Numbers
    <3> QED
      BY <2>2, <3>1 DEF FeedInv, Passing
  <2> QED
    BY <1>1, <1>2, <2>1, <2>2 DEF FeedInv, Passing
<1>8. Overtaken'
  <2>1. \A e \in Owned : open'[e] \in 1 .. after => open'[e] = open[e]
    BY <1>4, FeedAssumption
  <2> QED
    BY <1>1, <2>1 DEF FeedInv, Overtaken
<1>9. OnlyOvertakenSkipped'
  <2>1. ASSUME d \in Owned, open[d] <= after PROVE open[d] \in overtaken
    <3>1. open[d] \in 1 .. after
      BY <1>3, <2>1 DEF FeedInv, Numbers
    <3> QED
      BY <2>1, <3>1 DEF FeedInv, Overtaken
  <2> QED
    BY <1>1, <1>2, <2>1 DEF FeedInv, OnlyOvertakenSkipped
<1> QED
  BY <1>6, <1>7, <1>8, <1>9 DEF FeedInv

LEMMA RollbackStep ==
  ASSUME FeedInv, NEW d \in Docs, Rollback(d)
  PROVE  FeedInv'
<1>1. /\ open' = [open EXCEPT ![d] = 0]
      /\ UNCHANGED <<handle, removals, nextSeq, after, feed, given, overtaken>>
  BY DEF Rollback
<1>2. open' \in [Docs -> Nat] /\ \A e \in Docs : open'[e] = IF e = d THEN 0 ELSE open[e]
  BY <1>1 DEF FeedInv, Numbers
<1>3. Numbers'
  BY <1>1, <1>2 DEF FeedInv, Numbers
<1>4. \A e \in Owned : \A n : open'[e] \in 1 .. n => open'[e] = open[e]
  BY <1>2, FeedAssumption
<1> QED
  BY <1>1, <1>3, <1>4 DEF FeedInv, Passing, Overtaken, OnlyOvertakenSkipped

\* The product takes the page in: it has been given what the page holds, and what the page
\* passes without holding it was open.
LEMMA TakeFeedStep ==
  ASSUME FeedInv, NEW saved \in BOOLEAN, TakeFeed(saved)
  PROVE  FeedInv'
<1>1. /\ feed.there /\ feed'.there = FALSE
      /\ given' = given \cup {r.seq : r \in feed.rows}
      /\ UNCHANGED <<handle, removals, nextSeq, open>>
      /\ \/ UNCHANGED <<after, overtaken>>
         \/ /\ after' = IF feed.next = 0 THEN after ELSE feed.next
            /\ overtaken' = overtaken \cup feed.passing
  BY DEF TakeFeed, NoPage
<1>2. Numbers'
  BY <1>1 DEF FeedInv, Numbers
<1>3. Passing'
  BY <1>1 DEF Passing
<1>4. Overtaken'
  BY <1>1 DEF FeedInv, Overtaken, Passing
<1>5. OnlyOvertakenSkipped'
  <2> SUFFICES ASSUME TRUE
               PROVE  /\ \A r \in removals : r.doc \in Owned /\ r.seq <= after' =>
                           r.seq \in given' \cup overtaken'
                      /\ handle = "serial" => overtaken' = {}
    BY <1>1 DEF OnlyOvertakenSkipped
  <2>1. handle = "serial" => overtaken' = {}
    BY <1>1 DEF FeedInv, OnlyOvertakenSkipped, Passing
  <2>2. ASSUME NEW r \in removals, r.doc \in Owned, r.seq <= after'
        PROVE  r.seq \in given' \cup overtaken'
    <3>1. CASE r.seq <= after
      BY <1>1, <2>2, <3>1 DEF FeedInv, OnlyOvertakenSkipped
    <3>2. CASE ~(r.seq <= after)
      <4>1. r.seq <= feed.next /\ overtaken' = overtaken \cup feed.passing
        BY <1>1, <2>2, <3>2
      <4>2. r \in feed.rows \/ r.seq \in feed.passing
        BY <1>1, <2>2, <3>2, <4>1 DEF FeedInv, Passing
      <4> QED
        BY <1>1, <4>1, <4>2
    <3> QED
      BY <3>1, <3>2
  <2> QED
    BY <2>1, <2>2
<1> QED
  BY <1>2, <1>3, <1>4, <1>5 DEF FeedInv

LEMMA LoseFeedStep ==
  ASSUME FeedInv, LoseFeed
  PROVE  FeedInv'
<1>1. /\ feed'.there = FALSE
      /\ UNCHANGED <<handle, removals, nextSeq, open, after, given, overtaken>>
  BY DEF LoseFeed, NoPage
<1> QED
  BY <1>1 DEF FeedInv, Numbers, Passing, Overtaken, OnlyOvertakenSkipped

\* The other steps leave the feed, its cursor and what it is read from alone.
LEMMA AsideStep ==
  ASSUME FeedInv, UNCHANGED <<handle, removals, nextSeq, open, after, feed, given, overtaken>>
  PROVE  FeedInv'
BY DEF FeedInv, Numbers, Passing, Overtaken, OnlyOvertakenSkipped

-----------------------------------------------------------------------------
(* The theorem. *)

\* Every removal below the saved cursor was given to the product, or was open when a page
\* passed it, which on one connection never happens (server/purge.js ownerFeed).
THEOREM FeedSkipsOnlyOvertaken == FeedSpec => []OnlyOvertakenSkipped
<1>1. FeedInit => FeedInv
  <2> SUFFICES ASSUME FeedInit PROVE FeedInv
    OBVIOUS
  <2>1. Numbers
    BY FS_EmptySet DEF FeedInit, Numbers, NoPage
  <2>2. Passing /\ Overtaken /\ OnlyOvertakenSkipped
    BY FeedAssumption DEF FeedInit, Passing, NoPage, Overtaken, OnlyOvertakenSkipped
  <2> QED
    BY <2>1, <2>2 DEF FeedInv
<1>2. FeedInv /\ [FeedNext]_feedVars => FeedInv'
  <2> SUFFICES ASSUME FeedInv, [FeedNext]_feedVars PROVE FeedInv'
    OBVIOUS
  <2>1. ASSUME NEW d \in Docs, Record(d) \/ Commit(d) \/ Rollback(d) \/ PublishDocument(d)
        PROVE  FeedInv'
    BY <2>1, RecordStep, CommitStep, RollbackStep, AsideStep DEF PublishDocument
  <2>2. ASSUME NEW d \in Owned, Keep(d) PROVE FeedInv'
    BY <2>2, AsideStep DEF Keep
  <2>3. CASE ReadDocuments \/ TakeDocuments
    BY <2>3, AsideStep DEF ReadDocuments, TakeDocuments
  <2>4. CASE UNCHANGED feedVars
    BY <2>4, AsideStep DEF feedVars
  <2> QED
    BY <2>1, <2>2, <2>3, <2>4, ReadFeedStep, TakeFeedStep, LoseFeedStep DEF FeedNext
<1>3. FeedInv => OnlyOvertakenSkipped
  BY DEF FeedInv
<1> QED
  BY <1>1, <1>2, <1>3, PTL DEF FeedSpec
=============================================================================
