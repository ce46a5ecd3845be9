----------------------- MODULE SavedNotifier_proofs -----------------------
(***************************************************************************)
(* Proofs about SavedNotifier, for any number of saved searches, documents *)
(* openings and faults: a watermark never passes a match nobody was told   *)
(* of, only an opening that was overtaken moves one back, and a match is   *)
(* told of again only by a tick already under way.                         *)
(***************************************************************************)
EXTENDS SavedNotifier, FiniteSetTheorems, TLAPS

\* What is told is a tuple of variables like vars.
USE DEF told

-----------------------------------------------------------------------------
(* The inductive invariant. *)

Entry == [id : Searches, since : Nat]
Opening == [pc : {"idle", "run", "marking"}, search : Searches \cup {0}, known : SUBSET Docs,
            page : SUBSET Docs, at : Nat, overtaken : BOOLEAN]

\* The variables keep their types.
TypeOK ==
  /\ clock \in Nat
  /\ stamp \in [Docs -> Int]
  /\ committed \subseteq Docs
  /\ saved \in [Searches -> [there : BOOLEAN, created : Int, last : Int]]
  /\ tick \in [pc : {"idle", "run", "push", "advance"}, at : Nat, queue : Seq(Entry),
               hits : SUBSET Docs, known : SUBSET Docs]
  /\ open \in [Openings -> Opening]
  /\ announced \in [Searches -> [Docs -> Nat]]
  /\ seen \in [Searches -> SUBSET Docs]
  /\ late \in [Searches -> SUBSET Docs]
  /\ missed \in [Searches -> SUBSET Docs]
  /\ unshown \in [Searches -> SUBSET Docs]
  /\ uncovered \in [Searches -> SUBSET Docs]
  /\ faults \in Nat

\* Nothing is stamped or saved, and no watermark stands, after now; what is committed has
\* its stamp, and what is announced or seen was committed.
Times ==
  /\ \A d \in Docs : -1 <= stamp[d] /\ stamp[d] <= clock
  /\ \A d \in committed : stamp[d] >= 0
  /\ \A s \in Searches :
       /\ -1 <= saved[s].created /\ saved[s].created <= clock
       /\ -1 <= saved[s].last /\ saved[s].last <= clock
       /\ saved[s].there => saved[s].created >= 0
       /\ saved[s].created = -1 => saved[s].last = -1
       /\ saved[s].last # -1 => saved[s].last >= saved[s].created
       /\ seen[s] \subseteq committed
       /\ \A d \in Docs : announced[s][d] > 0 => d \in committed
  /\ tick.at <= clock
  /\ IsFiniteSet(There)

\* A search waits in the tick's queue once, and was there when the tick began.
Waits(q) == saved[q.id].created >= 0 /\ saved[q.id].created <= tick.at
Queued ==
  /\ tick.pc # "idle" => tick.queue # <<>>
  /\ \A i \in DOMAIN tick.queue : Waits(tick.queue[i])
  /\ \A i, j \in DOMAIN tick.queue : tick.queue[i].id = tick.queue[j].id => i = j

\* What the query could see and what it found; past the push, all of that was told.
Found ==
  tick.pc \in {"push", "advance"} =>
    /\ tick.known \subseteq committed /\ tick.hits \subseteq committed
    /\ \A d \in tick.hits : stamp[d] > tick.queue[1].since
    /\ \A d \in (tick.known \cap Matches[Current]) \ hidden :
         stamp[d] > tick.queue[1].since => d \in tick.hits
    /\ tick.pc = "advance" =>
         \A d \in tick.hits : announced[Current][d] > 0 \/ d \in missed[Current]

\* An opening under way shows what is committed, of a search that was saved; the time it
\* writes is later than all it shows, and than the watermark unless it was overtaken.
Opened ==
  \A o \in Openings : open[o].pc # "idle" =>
    LET s == open[o].search IN
    /\ s \in Searches /\ saved[s].created >= 0
    /\ open[o].page \subseteq committed
    /\ open[o].pc = "marking" =>
         /\ saved[s].created <= open[o].at /\ open[o].at <= clock
         /\ \A d \in open[o].page : stamp[d] <= open[o].at
         /\ ~open[o].overtaken => saved[s].last <= open[o].at

WatermarkInv == TypeOK /\ Times /\ Queued /\ Found /\ Opened /\ NothingPassedOver

\* Without a fault the watermark has passed what was announced in time, or is about to, and
\* so had it when any search still waiting was read; and it has passed what an opening has
\* shown - unless an opening has moved it back over it.
ToldBefore(s, d) ==
  announced[s][d] > 0 /\ d \notin late[s] \cup uncovered[s] =>
    /\ \/ stamp[d] <= Watermark(s)
       \/ tick.pc = "advance" /\ Current = s /\ stamp[d] <= tick.at
    /\ \A i \in DOMAIN tick.queue :
         tick.queue[i].id = s => \/ stamp[d] <= tick.queue[i].since
                                 \/ i = 1 /\ tick.pc = "advance"
SeenBefore(s, d) ==
  d \in seen[s] \ uncovered[s] => stamp[d] <= Watermark(s)
ToldInv ==
  /\ \A s \in Searches : saved[s].created = -1 =>
       seen[s] = {} /\ \A d \in Docs : announced[s][d] = 0
  /\ faults = 0 => \A s \in Searches, d \in Docs :
       saved[s].there => ToldBefore(s, d) /\ SeenBefore(s, d)

-----------------------------------------------------------------------------
(* The searches that are due. *)

\* A watermark is a time, of a search that is there it is not negative.
LEMMA WatermarkType ==
  ASSUME TypeOK, Times, NEW s \in Searches
  PROVE  /\ Watermark(s) \in Int /\ Watermark(s) <= clock
         /\ saved[s].created >= 0 => Watermark(s) \in Nat
         /\ saved[s].last <= Watermark(s)
BY DEF TypeOK, Times, Watermark

RankOf(s) == Cardinality({r \in There : Before(r, s)}) + 1

\* The order of due is total, so a search's rank is below that of whatever comes after it.
LEMMA RankGrows ==
  ASSUME TypeOK, Times, NEW r \in There, NEW s \in There, Before(r, s)
  PROVE  RankOf(r) \in Nat /\ RankOf(s) \in Nat /\ RankOf(r) < RankOf(s)
<1> DEFINE P(x) == {y \in There : Before(y, x)}
<1>1. IsFiniteSet(There) /\ P(r) \subseteq There /\ P(s) \subseteq There
  BY DEF Times
<1>2. IsFiniteSet(P(r)) /\ IsFiniteSet(P(s))
  BY <1>1, FS_Subset
<1>3. \A x \in There : x \in Nat /\ Watermark(x) \in Int
  BY NotifierAssumption, WatermarkType DEF There
<1>4. r \notin P(r)
  BY <1>3 DEF Before
<1>5. P(r) \cup {r} \subseteq P(s)
  BY <1>3 DEF Before
<1>6. Cardinality(P(r) \cup {r}) = Cardinality(P(r)) + 1
  BY <1>2, <1>4, FS_AddElement
<1>7. Cardinality(P(r) \cup {r}) <= Cardinality(P(s))
  BY <1>2, <1>5, FS_Subset
<1>8. Cardinality(P(r)) \in Nat /\ Cardinality(P(s)) \in Nat
  BY <1>2, FS_CardinalityType
<1>9. RankOf(r) = Cardinality(P(r)) + 1 /\ RankOf(s) = Cardinality(P(s)) + 1
  BY DEF RankOf
<1> HIDE DEF P
<1> QED
  BY <1>6, <1>7, <1>8, <1>9

\* Hence every place up to the number of searches is one search's.
LEMMA EveryRankTaken ==
  ASSUME TypeOK, Times, NEW i \in 1 .. Cardinality(There)
  PROVE  \E s \in There : RankOf(s) = i
<1> DEFINE n == Cardinality(There)
           f == [s \in There |-> RankOf(s)]
<1>1. IsFiniteSet(There) /\ n \in Nat
  BY FS_CardinalityType DEF Times
<1>2. ASSUME NEW s \in There PROVE RankOf(s) \in 1 .. n
  <2> DEFINE P == {y \in There : Before(y, s)}
  <2>1. s \notin P
    <3>1. Watermark(s) \in Int /\ s \in Nat
      BY NotifierAssumption, WatermarkType DEF There
    <3> QED
      BY <3>1 DEF Before
  <2>2. P \subseteq There /\ IsFiniteSet(P)
    BY <1>1, FS_Subset
  <2>3. P \cup {s} \subseteq There
    BY <2>2
  <2>4. Cardinality(P) \in Nat /\ Cardinality(P \cup {s}) = Cardinality(P) + 1
    BY <2>1, <2>2, FS_AddElement, FS_CardinalityType
  <2>5. Cardinality(P \cup {s}) <= n
    BY <1>1, <2>3, FS_Subset
  <2>6. RankOf(s) = Cardinality(P) + 1
    BY DEF RankOf
  <2> HIDE DEF P, n
  <2> QED
    BY <1>1, <2>4, <2>5, <2>6
<1>3. ASSUME NEW r \in There, NEW s \in There, RankOf(r) = RankOf(s) PROVE r = s
  <2>1. ~Before(r, s) /\ ~Before(s, r)
    BY <1>3, RankGrows
  <2>2. r \in Nat /\ s \in Nat /\ Watermark(r) \in Int /\ Watermark(s) \in Int
    BY NotifierAssumption, WatermarkType DEF There
  <2> QED
    BY <2>1, <2>2 DEF Before
<1>4. IsFiniteSet(1 .. n) /\ Cardinality(1 .. n) = n
  <2> HIDE DEF n
  <2> QED
    BY <1>1, FS_Interval
<1>5. f \in Injection(There, 1 .. n)
  <2>1. f \in [There -> 1 .. n]
    BY <1>2
  <2>2. \A r, s \in There : f[r] = f[s] => r = s
    BY <1>3
  <2> HIDE DEF f, n
  <2> QED
    BY <2>1, <2>2 DEF Injection, IsInjective
<1>6. f \in Surjection(There, 1 .. n)
  <2> HIDE DEF f
  <2> QED
    BY <1>1, <1>4, <1>5, FS_Injection
<1>7. \E s \in There : f[s] = i
  <2> HIDE DEF f
  <2> QED
    BY <1>6 DEF Surjection
<1> QED
  BY <1>7

\* due: searches that are there, each once, with its watermark; none only if none is saved.
LEMMA DueQueue ==
  ASSUME TypeOK, Times
  PROVE  /\ Due \in Seq(Entry)
         /\ There # {} => Due # <<>>
         /\ \A i \in DOMAIN Due : /\ Due[i].id \in There
                                  /\ Due[i].since = Watermark(Due[i].id)
         /\ \A i, j \in DOMAIN Due : Due[i].id = Due[j].id => i = j
<1> DEFINE n == IF Cardinality(There) < NotifyBatch THEN Cardinality(There) ELSE NotifyBatch
           At(i) == CHOOSE x \in There : RankOf(x) = i
<1>1. IsFiniteSet(There) /\ Cardinality(There) \in Nat
  BY FS_CardinalityType DEF Times
<1>2. n \in Nat /\ n <= Cardinality(There) /\ (There # {} => n # 0)
  BY <1>1, NotifierAssumption, FS_EmptySet
<1>3. Due = [i \in 1 .. n |-> [id |-> At(i), since |-> Watermark(At(i))]]
  BY DEF Due, RankOf
<1>4. \A i \in 1 .. n : At(i) \in There /\ RankOf(At(i)) = i
  <2> HIDE DEF n
  <2> QED
    BY <1>1, <1>2, EveryRankTaken
<1> HIDE DEF n, At
<1>5. \A i \in 1 .. n : Watermark(At(i)) \in Nat /\ At(i) \in Searches
  BY <1>4, WatermarkType DEF There, Times
<1>6. Due \in Seq(Entry) /\ DOMAIN Due = 1 .. n
  <2>1. Due \in [1 .. n -> Entry]
    BY <1>3, <1>5 DEF Entry
  <2> HIDE DEF Due
  <2> QED
    BY <1>2, <2>1
<1>7. There # {} => Due # <<>>
  BY <1>2, <1>6
<1> QED
  BY <1>3, <1>4, <1>6, <1>7

-----------------------------------------------------------------------------
(* Types and times. *)

\* The tick after its first search: what still waits, and nothing else, or nothing at all.
LEMMA NextSearchShape ==
  ASSUME TypeOK, tick.queue # <<>>
  PROVE  /\ NextSearch \in [pc : {"idle", "run"}, at : Nat, queue : Seq(Entry),
                            hits : SUBSET Docs, known : SUBSET Docs]
         /\ NextSearch.pc = "run" => NextSearch.queue # <<>> /\ NextSearch.at = tick.at
         /\ NextSearch.at \in {0, tick.at}
         /\ \A i \in DOMAIN NextSearch.queue :
              /\ NextSearch.at = tick.at
              /\ i + 1 \in DOMAIN tick.queue
              /\ NextSearch.queue[i] = tick.queue[i + 1]
<1>1. tick.queue \in Seq(Entry) /\ tick.at \in Nat /\ Len(tick.queue) \in Nat \ {0}
  BY DEF TypeOK
<1>2. CASE Len(tick.queue) = 1
  BY <1>2 DEF NextSearch, NotTicking
<1>3. CASE Len(tick.queue) # 1
  <2>1. /\ Tail(tick.queue) \in Seq(Entry) /\ Len(Tail(tick.queue)) = Len(tick.queue) - 1
        /\ \A i \in 1 .. Len(tick.queue) - 1 : Tail(tick.queue)[i] = tick.queue[i + 1]
    BY <1>1
  <2>2. Tail(tick.queue) # <<>>
    <3>1. Len(Tail(tick.queue)) # 0 /\ Len(<<>>) = 0
      BY <1>1, <1>3, <2>1
    <3> QED
      BY <3>1
  <2>3. NextSearch = [pc |-> "run", at |-> tick.at, queue |-> Tail(tick.queue),
                      hits |-> {}, known |-> {}]
    BY <1>3 DEF NextSearch, NotTicking
  <2> HIDE DEF NextSearch
  <2> QED
    BY <1>1, <2>1, <2>2, <2>3
<1> QED
  BY <1>2, <1>3

\* The search that is next, its entry and its watermark.
LEMMA CurrentType ==
  ASSUME TypeOK, Queued, tick.pc # "idle"
  PROVE  /\ Current \in Searches /\ tick.queue[1].since \in Nat
         /\ 1 \in DOMAIN tick.queue /\ tick.queue # <<>>
         /\ tick.queue[1].id = Current
<1>1. tick.queue \in Seq(Entry) /\ tick.queue # <<>>
  BY DEF TypeOK, Queued
<1>2. 1 \in DOMAIN tick.queue /\ tick.queue[1] \in Entry
  BY <1>1
<1> QED
  BY <1>1, <1>2 DEF Entry, Current

\* Announcing adds to what was announced, and what was found is announced then.
LEMMA ArrivedAdds ==
  ASSUME TypeOK, Queued, tick.pc # "idle"
  PROVE  /\ Arrived \in [Searches -> [Docs -> Nat]]
         /\ \A s \in Searches, d \in Docs :
              /\ Arrived[s][d] >= announced[s][d]
              /\ Arrived[s][d] > announced[s][d] => s = Current /\ d \in tick.hits
         /\ \A d \in tick.hits : Arrived[Current][d] > 0
<1>1. Current \in Searches /\ announced \in [Searches -> [Docs -> Nat]]
      /\ tick.hits \subseteq Docs
  BY CurrentType DEF TypeOK
<1> DEFINE row == [d \in Docs |-> IF d \in tick.hits /\ announced[Current][d] < 2
                                  THEN announced[Current][d] + 1 ELSE announced[Current][d]]
<1>2. \A d \in Docs : announced[Current][d] \in Nat
  BY <1>1
<1>3. /\ row \in [Docs -> Nat]
      /\ \A d \in Docs : /\ row[d] >= announced[Current][d]
                         /\ row[d] > announced[Current][d] => d \in tick.hits
                         /\ d \in tick.hits => row[d] > 0
  BY <1>2
<1>4. Arrived = [announced EXCEPT ![Current] = row]
  BY DEF Arrived
<1> HIDE DEF row
<1>5. \A s \in Searches : Arrived[s] = IF s = Current THEN row ELSE announced[s]
  BY <1>1, <1>4
<1>6. \A s \in Searches, d \in Docs : announced[s][d] \in Nat
  BY <1>1
<1>7. Arrived \in [Searches -> [Docs -> Nat]]
  BY <1>1, <1>3, <1>4
<1> QED
  BY <1>1, <1>3, <1>5, <1>6, <1>7

\* Overtaking marks openings and changes nothing else of them.
LEMMA OvertakeType ==
  ASSUME TypeOK, NEW s \in Searches
  PROVE  /\ Overtake(s) \in [Openings -> Opening]
         /\ \A o \in Openings :
              \/ Overtake(s)[o] = open[o] /\ ~(open[o].pc = "marking" /\ open[o].search = s)
              \/ Overtake(s)[o] = [open[o] EXCEPT !.overtaken = TRUE]
<1>1. \A o \in Openings : open[o] \in Opening
  BY DEF TypeOK
<1>2. \A o \in Openings : [open[o] EXCEPT !.overtaken = TRUE] \in Opening
  BY <1>1 DEF Opening
<1> QED
  BY <1>1, <1>2 DEF Overtake

\* Every step keeps the types.
LEMMA TypeStep ==
  ASSUME TypeOK, Times, Queued, Opened, [Next]_vars
  PROVE  TypeOK'
<1> USE NotifierAssumption
<1>1. CASE Wait
  BY <1>1 DEF Wait, TypeOK
<1>2. ASSUME NEW d \in Docs, Stamp(d) \/ CommitDoc(d) \/ Hide(d) PROVE TypeOK'
  <2>1. CASE Stamp(d)
    BY <2>1 DEF Stamp, TypeOK
  <2>2. CASE CommitDoc(d)
    <3>1. missed' \in [Searches -> SUBSET Docs]
      <4>1. \A s \in Searches : missed[s] \subseteq Docs
        BY DEF TypeOK
      <4> QED
        BY <2>2, <4>1 DEF CommitDoc
    <3> QED
      BY <2>2, <3>1 DEF CommitDoc, TypeOK
  <2>3. CASE Hide(d)
    BY <2>3 DEF Hide, TypeOK
  <2> QED
    BY <1>2, <2>1, <2>2, <2>3
<1>3. ASSUME NEW s \in Searches, Save(s) \/ Remove(s) PROVE TypeOK'
  <2>1. CASE Save(s)
    <3>1. [there |-> TRUE, created |-> clock, last |-> -1]
            \in [there : BOOLEAN, created : Int, last : Int]
      BY DEF TypeOK
    <3> QED
      BY <2>1, <3>1 DEF Save, TypeOK
  <2>2. CASE Remove(s)
    <3>1. saved[s] \in [there : BOOLEAN, created : Int, last : Int]
      BY DEF TypeOK
    <3>2. [saved[s] EXCEPT !.there = FALSE] \in [there : BOOLEAN, created : Int, last : Int]
      BY <3>1
    <3>3. saved' = [saved EXCEPT ![s] = [saved[s] EXCEPT !.there = FALSE]]
      BY <2>2 DEF Remove
    <3> QED
      BY <2>2, <3>2, <3>3 DEF Remove, TypeOK
  <2> QED
    BY <1>3, <2>1, <2>2
<1>4. ASSUME NEW o \in Openings, NEW s \in Searches, OpenRun(o, s) PROVE TypeOK'
  <2>1. PICK page \in SUBSET Hits(s, -1) :
          open' = [open EXCEPT ![o] = [NotOpen EXCEPT !.pc = "run", !.search = s,
                                                      !.known = committed, !.page = page]]
    BY <1>4 DEF OpenRun
  <2>2. page \subseteq Docs /\ committed \subseteq Docs
    BY DEF TypeOK, Hits
  <2>3. [NotOpen EXCEPT !.pc = "run", !.search = s, !.known = committed, !.page = page]
          \in Opening
    BY <2>2 DEF NotOpen, Opening
  <2>4. open' \in [Openings -> Opening]
    BY <2>1, <2>3 DEF TypeOK
  <2> QED
    BY <1>4, <2>4 DEF OpenRun, TypeOK
<1>5. ASSUME NEW o \in Openings, OpenClock(o) \/ \E arrives \in BOOLEAN : OpenMark(o, arrives)
      PROVE  TypeOK'
  <2>1. CASE OpenClock(o)
    <3>1. open' = [open EXCEPT ![o] = [open[o] EXCEPT !.pc = "marking", !.at = clock]]
      BY <2>1 DEF OpenClock
    <3>2. open[o] \in Opening /\ clock \in Nat
      BY DEF TypeOK
    <3>3. [open[o] EXCEPT !.pc = "marking", !.at = clock] \in Opening
      BY <3>2 DEF Opening
    <3>4. open' \in [Openings -> Opening]
      BY <3>1, <3>3 DEF TypeOK
    <3> QED
      BY <2>1, <3>4 DEF OpenClock, TypeOK
  <2>2. ASSUME NEW arrives \in BOOLEAN, OpenMark(o, arrives) PROVE TypeOK'
    <3> DEFINE s == open[o].search
               shown == IF arrives THEN open[o].page ELSE {}
               skipped == {d \in open[o].known \ shown : stamp[d] > Watermark(s)}
               bared == {d \in Docs : open[o].at < stamp[d] /\ stamp[d] <= Watermark(s)}
    <3>1. /\ open[o] \in Opening /\ open[o].pc = "marking" /\ s \in Searches
          /\ open[o].at \in Nat /\ open[o].page \subseteq Docs /\ open[o].known \subseteq Docs
      BY <2>2 DEF OpenMark, TypeOK, Opened, Opening
    <3>2. NotOpen \in Opening
      BY DEF NotOpen, Opening
    <3>3. open' \in [Openings -> Opening]
      <4>1. Overtake(s) \in [Openings -> Opening] /\ open \in [Openings -> Opening]
        BY <3>1, OvertakeType DEF TypeOK
      <4>2. CASE saved[s].there
        BY <2>2, <3>2, <4>1, <4>2 DEF OpenMark
      <4>3. CASE ~saved[s].there
        BY <2>2, <3>2, <4>1, <4>3 DEF OpenMark
      <4> QED
        BY <4>2, <4>3
    <3>4. faults' \in Nat
      <4>1. faults' = faults \/ faults' = faults + 1
        BY <2>2 DEF OpenMark
      <4>2. faults \in Nat
        BY DEF TypeOK
      <4> QED
        BY <4>1, <4>2
    <3>5. seen' \in [Searches -> SUBSET Docs]
      <4>1. seen' = [seen EXCEPT ![s] = seen[s] \cup shown]
        BY <2>2 DEF OpenMark
      <4>2. seen[s] \cup shown \in SUBSET Docs
        BY <3>1 DEF TypeOK
      <4> QED
        BY <4>1, <4>2 DEF TypeOK
    <3>6. CASE saved[s].there
      <4>1. /\ saved' = [saved EXCEPT ![s] = [saved[s] EXCEPT !.last = open[o].at]]
            /\ missed' = [missed EXCEPT ![s] =
                            missed[s] \cup Passed(s, open[o].at, open[o].known)]
            /\ unshown' = [unshown EXCEPT ![s] = unshown[s] \cup skipped]
            /\ uncovered' = [uncovered EXCEPT ![s] = uncovered[s] \cup bared]
        BY <2>2, <3>6 DEF OpenMark
      <4>2. [saved[s] EXCEPT !.last = open[o].at] \in [there : BOOLEAN, created : Int, last : Int]
        <5>1. saved[s] \in [there : BOOLEAN, created : Int, last : Int]
          BY <3>1 DEF TypeOK
        <5> QED
          BY <3>1, <5>1
      <4>3. /\ missed[s] \cup Passed(s, open[o].at, open[o].known) \in SUBSET Docs
            /\ unshown[s] \cup skipped \in SUBSET Docs
            /\ uncovered[s] \cup bared \in SUBSET Docs
        BY <3>1 DEF TypeOK, Passed
      <4> HIDE DEF skipped, bared, shown, s
      <4>4. /\ saved' \in [Searches -> [there : BOOLEAN, created : Int, last : Int]]
            /\ missed' \in [Searches -> SUBSET Docs]
            /\ unshown' \in [Searches -> SUBSET Docs]
            /\ uncovered' \in [Searches -> SUBSET Docs]
        BY <4>1, <4>2, <4>3 DEF TypeOK
      <4> QED
        BY <2>2, <3>3, <3>4, <3>5, <4>4 DEF OpenMark, TypeOK
    <3>7. CASE ~saved[s].there
      <4>1. UNCHANGED <<saved, missed, unshown, uncovered>>
        BY <2>2, <3>7 DEF OpenMark
      <4> QED
        BY <2>2, <3>3, <3>4, <3>5, <4>1 DEF OpenMark, TypeOK
    <3> QED
      BY <3>6, <3>7
  <2> QED
    BY <1>5, <2>1, <2>2
<1>6. CASE StartTick
  <2>1. Due \in Seq(Entry) /\ clock \in Nat
    BY DueQueue DEF TypeOK
  <2>2. tick' = [pc |-> "run", at |-> clock, queue |-> Due, hits |-> {}, known |-> {}]
    BY <1>6 DEF StartTick, NotTicking
  <2> QED
    BY <1>6, <2>1, <2>2 DEF StartTick, TypeOK
<1>7. CASE RunSearch
  <2> DEFINE hits == Hits(Current, tick.queue[1].since)
             t == [tick EXCEPT !.pc = IF hits = {} THEN "advance" ELSE "push",
                               !.hits = hits, !.known = committed]
  <2>1. hits \subseteq Docs
    BY DEF Hits, TypeOK
  <2> HIDE DEF hits
  <2>2. t \in [pc : {"idle", "run", "push", "advance"}, at : Nat, queue : Seq(Entry),
               hits : SUBSET Docs, known : SUBSET Docs]
    BY <2>1 DEF TypeOK
  <2> HIDE DEF t
  <2>3. tick' = t
    BY <1>7 DEF RunSearch, t, hits
  <2> QED
    BY <1>7, <2>2, <2>3 DEF RunSearch, TypeOK
<1>8. CASE Sent \/ UnknownPerson
  <2>1. Current \in Searches
    BY <1>8, CurrentType DEF Sent, UnknownPerson
  <2>2. tick' \in [pc : {"idle", "run", "push", "advance"}, at : Nat, queue : Seq(Entry),
                   hits : SUBSET Docs, known : SUBSET Docs]
    <3>1. tick' = [tick EXCEPT !.pc = "advance"]
      BY <1>8 DEF Sent, UnknownPerson
    <3> QED
      BY <3>1 DEF TypeOK
  <2>3. CASE Sent
    <3>1. announced' \in [Searches -> [Docs -> Nat]]
      BY <2>3, ArrivedAdds DEF Sent
    <3>2. late' \in [Searches -> SUBSET Docs]
      <4> DEFINE row == late[Current] \cup {d \in tick.hits : stamp[d] > tick.at}
      <4>1. row \in SUBSET Docs
        BY <2>1 DEF TypeOK
      <4>2. late' = [late EXCEPT ![Current] = row]
        BY <2>3 DEF Sent
      <4> HIDE DEF row
      <4> QED
        BY <4>1, <4>2 DEF TypeOK
    <3> QED
      BY <2>2, <2>3, <3>1, <3>2 DEF Sent, TypeOK
  <2>4. CASE UnknownPerson
    <3>1. missed' \in [Searches -> SUBSET Docs]
      <4> DEFINE row == missed[Current] \cup tick.hits
      <4>1. row \in SUBSET Docs
        BY <2>1 DEF TypeOK
      <4>2. missed' = [missed EXCEPT ![Current] = row]
        BY <2>4 DEF UnknownPerson
      <4> HIDE DEF row
      <4> QED
        BY <4>1, <4>2 DEF TypeOK
    <3>2. /\ UNCHANGED <<clock, stamp, committed, hidden, saved, open, announced, seen, late,
                         unshown, uncovered>>
          /\ faults' \in Nat
      BY <2>4 DEF UnknownPerson, TypeOK
    <3> QED
      BY <2>2, <3>1, <3>2 DEF TypeOK
  <2> QED
    BY <1>8, <2>3, <2>4
<1>9. CASE Failed \/ Advance
  <2>1. Current \in Searches /\ tick.queue # <<>>
    BY <1>9, CurrentType DEF Failed, Advance
  <2>2. tick' \in [pc : {"idle", "run", "push", "advance"}, at : Nat, queue : Seq(Entry),
                   hits : SUBSET Docs, known : SUBSET Docs]
    <3>1. tick' = NextSearch
      BY <1>9 DEF Failed, Advance
    <3> QED
      BY <2>1, <3>1, NextSearchShape
  <2>3. CASE Failed
    <3>1. announced' \in [Searches -> [Docs -> Nat]]
      BY <2>3, ArrivedAdds DEF Failed, TypeOK
    <3>2. faults' \in Nat
      BY <2>3 DEF Failed, TypeOK
    <3> QED
      BY <2>2, <2>3, <3>1, <3>2 DEF Failed, TypeOK
  <2>4. CASE Advance
    <3>1. CASE saved[Current].there
      <4> DEFINE row == missed[Current] \cup Passed(Current, tick.at, tick.known)
                          \cup {d \in Docs : /\ Watermark(Current) < stamp[d]
                                             /\ stamp[d] <= tick.queue[1].since}
                 entry == [saved[Current] EXCEPT !.last = Advanced(Current)]
      <4>1. row \in SUBSET Docs
        BY <2>1 DEF TypeOK, Passed
      <4>2. Advanced(Current) \in Int
        BY <2>1 DEF TypeOK, Advanced
      <4>3. entry \in [there : BOOLEAN, created : Int, last : Int]
        <5>1. saved[Current] \in [there : BOOLEAN, created : Int, last : Int]
          BY <2>1 DEF TypeOK
        <5> QED
          BY <4>2, <5>1
      <4>4. missed' = [missed EXCEPT ![Current] = row]
            /\ saved' = [saved EXCEPT ![Current] = entry]
            /\ open' = Overtake(Current)
        BY <2>4, <3>1 DEF Advance
      <4>5. open' \in [Openings -> Opening]
        BY <2>1, <4>4, OvertakeType
      <4> HIDE DEF row, entry
      <4> QED
        BY <2>2, <2>4, <4>1, <4>3, <4>4, <4>5 DEF Advance, TypeOK
    <3>2. CASE ~saved[Current].there
      BY <2>2, <2>4, <3>2 DEF Advance, TypeOK
    <3> QED
      BY <3>1, <3>2
  <2> QED
    BY <1>9, <2>3, <2>4
<1>10. CASE Restart
  <2>1. /\ NotTicking \in [pc : {"idle", "run", "push", "advance"}, at : Nat,
                           queue : Seq(Entry), hits : SUBSET Docs, known : SUBSET Docs]
        /\ NotOpen \in Opening
    BY DEF NotTicking, NotOpen, Opening
  <2> QED
    BY <1>10, <2>1 DEF Restart, TypeOK
<1>11. CASE UNCHANGED vars
  BY <1>11 DEF vars, TypeOK
<1> QED
  BY <1>1, <1>2, <1>3, <1>4, <1>5, <1>6, <1>7, <1>8, <1>9, <1>10, <1>11
     DEF Next, Work, NothingSaved

-----------------------------------------------------------------------------
(* How the variables move. *)

\* The opening that is about to write: whose it is, and the time it read.
LEMMA MarkType ==
  ASSUME TypeOK, Opened, NEW o \in Openings, open[o].pc = "marking"
  PROVE  /\ open[o].search \in Searches /\ open[o].at \in Nat /\ open[o].at <= clock
         /\ open[o].overtaken \in BOOLEAN
         /\ saved[open[o].search].created >= 0
         /\ saved[open[o].search].created <= open[o].at
         /\ open[o].page \subseteq committed /\ open[o].page \subseteq Docs
         /\ \A d \in open[o].page : stamp[d] <= open[o].at
         /\ ~open[o].overtaken => saved[open[o].search].last <= open[o].at
BY DEF TypeOK, Opened, Opening

\* An opening that writes the watermark of a search.
Marks(s) == \E o \in Openings, arrives \in BOOLEAN :
              OpenMark(o, arrives) /\ open[o].search = s /\ saved[s].there

\* What an opening writes, and what it leaves as it was.
LEMMA MarkWrites ==
  ASSUME TypeOK, Opened, NEW o \in Openings, NEW arrives \in BOOLEAN, OpenMark(o, arrives),
         NEW s \in Searches
  PROVE  /\ open[o].pc = "marking" /\ UNCHANGED <<clock, stamp, committed, hidden, tick>>
         /\ s # open[o].search \/ ~saved[s].there => saved'[s] = saved[s]
         /\ s = open[o].search /\ saved[s].there =>
              saved'[s] = [saved[s] EXCEPT !.last = open[o].at]
         /\ saved'[s].there = saved[s].there /\ saved'[s].created = saved[s].created
         /\ open'[o].pc = "idle"
<1>1. /\ open[o].pc = "marking" /\ UNCHANGED <<clock, stamp, committed, hidden, tick>>
      /\ open[o].search \in Searches /\ open \in [Openings -> Opening]
      /\ saved \in [Searches -> [there : BOOLEAN, created : Int, last : Int]]
  BY MarkType DEF OpenMark, TypeOK
<1>2. CASE saved[open[o].search].there
  <2>1. /\ saved' = [saved EXCEPT ![open[o].search] =
                       [saved[open[o].search] EXCEPT !.last = open[o].at]]
        /\ open' = [Overtake(open[o].search) EXCEPT ![o] = NotOpen]
    BY <1>2 DEF OpenMark
  <2>2. open'[o] = NotOpen
    BY <1>1, <2>1, OvertakeType
  <2>3. saved[open[o].search] \in [there : BOOLEAN, created : Int, last : Int]
    BY <1>1
  <2> QED
    BY <1>1, <1>2, <2>1, <2>2, <2>3 DEF NotOpen
<1>3. CASE ~saved[open[o].search].there
  <2>1. saved' = saved /\ open' = [open EXCEPT ![o] = NotOpen]
    BY <1>3 DEF OpenMark
  <2> QED
    BY <1>1, <1>3, <2>1 DEF NotOpen
<1> QED
  BY <1>2, <1>3

\* A saved search changes by being saved once, removed, having its watermark moved on, or
\* set to the time of an opening.
LEMMA SavedMoves ==
  ASSUME TypeOK, Times, Queued, Opened, [Next]_vars, NEW s \in Searches, saved'[s] # saved[s]
  PROVE  \/ /\ saved[s].created = -1 /\ saved'[s].created = clock /\ saved'[s].last = -1
            /\ clock' = clock
         \/ /\ saved[s].there /\ saved'[s].created = saved[s].created
            /\ saved'[s].last >= saved[s].last \/ Marks(s)
            /\ -1 <= saved'[s].last /\ saved'[s].last <= clock
            /\ saved'[s].last # -1 => saved'[s].last >= saved[s].created
            /\ clock' = clock
<1>0. /\ saved[s] \in [there : BOOLEAN, created : Int, last : Int] /\ clock \in Nat
      /\ -1 <= saved[s].created /\ saved[s].created <= clock
      /\ -1 <= saved[s].last /\ saved[s].last <= clock
      /\ saved \in [Searches -> [there : BOOLEAN, created : Int, last : Int]]
  BY DEF TypeOK, Times
<1>1. ASSUME NEW r \in Searches, Save(r)
      PROVE  /\ saved[s].created = -1 /\ saved'[s].created = clock /\ saved'[s].last = -1
             /\ clock' = clock
  BY <1>0, <1>1 DEF Save
<1>2. ASSUME NEW r \in Searches, Remove(r)
      PROVE  /\ saved[s].there /\ saved'[s].created = saved[s].created
             /\ saved'[s].last >= saved[s].last /\ saved'[s].last <= clock
             /\ -1 <= saved'[s].last
             /\ saved'[s].last # -1 => saved'[s].last >= saved[s].created
             /\ clock' = clock
  <2>1. /\ saved[r].there /\ r = s /\ clock' = clock
        /\ saved'[s] = [saved[s] EXCEPT !.there = FALSE]
    BY <1>0, <1>2 DEF Remove
  <2>2. saved[s].last # -1 => saved[s].last >= saved[s].created
    BY <2>1 DEF Times
  <2> QED
    BY <1>0, <2>1, <2>2
<1>3. ASSUME NEW o \in Openings, NEW arrives \in BOOLEAN, OpenMark(o, arrives)
      PROVE  /\ saved[s].there /\ saved'[s].created = saved[s].created
             /\ Marks(s) /\ saved'[s].last <= clock
             /\ -1 <= saved'[s].last
             /\ saved'[s].last # -1 => saved'[s].last >= saved[s].created
             /\ clock' = clock
  <2>1. /\ open[o].pc = "marking" /\ clock' = clock
        /\ s = open[o].search /\ saved[s].there
        /\ saved'[s] = [saved[s] EXCEPT !.last = open[o].at]
    BY <1>3, MarkWrites
  <2>2. open[o].at \in Nat /\ open[o].at <= clock /\ saved[s].created <= open[o].at
    BY <2>1, MarkType
  <2>3. Marks(s)
    BY <1>3, <2>1 DEF Marks
  <2> QED
    BY <1>0, <2>1, <2>2, <2>3
<1>4. ASSUME Advance
      PROVE  /\ saved[s].there /\ saved'[s].created = saved[s].created
             /\ saved'[s].last >= saved[s].last /\ saved'[s].last <= clock
             /\ -1 <= saved'[s].last
             /\ saved'[s].last # -1 => saved'[s].last >= saved[s].created
             /\ clock' = clock
  <2>1. /\ saved[s].there /\ s = Current /\ clock' = clock
        /\ saved'[s] = [saved[s] EXCEPT !.last = Advanced(s)]
    BY <1>0, <1>4 DEF Advance
  <2>2. tick.at \in Nat /\ tick.at <= clock /\ saved[s].created <= tick.at
    BY <1>4, <2>1, CurrentType DEF Queued, Waits, TypeOK, Times, Advance
  <2> QED
    BY <1>0, <2>1, <2>2 DEF Advanced
<1>5. ASSUME ~Advance, ~\E r \in Searches : Save(r) \/ Remove(r),
             ~\E o \in Openings, arrives \in BOOLEAN : OpenMark(o, arrives)
      PROVE  saved' = saved
  BY <1>5 DEF Next, Work, NothingSaved, Wait, Stamp, CommitDoc, Hide, OpenRun, OpenClock,
              StartTick, RunSearch, Sent, Failed, UnknownPerson, Restart, vars
<1> QED
  BY <1>1, <1>2, <1>3, <1>4, <1>5

\* The watermark of a saved search moves forward, but for the openings that set it.
LEMMA WatermarkMoves ==
  ASSUME TypeOK, Times, Queued, Opened, [Next]_vars, NEW s \in Searches, saved[s].created >= 0
  PROVE  /\ saved'[s].created = saved[s].created
         /\ Watermark(s)' >= Watermark(s) \/ Marks(s)
         /\ saved'[s].there => saved[s].there
<1>1. /\ saved[s] \in [there : BOOLEAN, created : Int, last : Int]
      /\ saved[s].last # -1 => saved[s].last >= saved[s].created
  BY DEF TypeOK, Times
<1>2. CASE saved'[s] = saved[s]
  BY <1>1, <1>2 DEF Watermark
<1>3. CASE saved'[s] # saved[s]
  BY <1>1, <1>3, SavedMoves DEF Watermark, Times
<1> QED
  BY <1>2, <1>3

\* A stamp is set once, what is committed stays committed, and the clock does not go back.
LEMMA IndexMoves ==
  ASSUME TypeOK, Times, [Next]_vars
  PROVE  /\ clock' \in Nat /\ clock <= clock'
         /\ \A d \in Docs : stamp'[d] = stamp[d] \/ (stamp[d] = -1 /\ stamp'[d] = clock)
         /\ committed \subseteq committed'
         /\ \A d \in committed' \ committed : stamp'[d] = stamp[d] /\ stamp[d] >= 0
         /\ hidden \subseteq hidden'
<1>1. CASE Wait
  BY <1>1 DEF Wait, TypeOK
<1>2. CASE \E d \in Docs : Stamp(d)
  BY <1>2 DEF Stamp, TypeOK
<1>3. CASE \E d \in Docs : CommitDoc(d)
  BY <1>3 DEF CommitDoc, TypeOK, Times
<1>4. CASE \E d \in Docs : Hide(d)
  BY <1>4 DEF Hide, TypeOK
<1>5. CASE UNCHANGED <<clock, stamp, committed, hidden>>
  BY <1>5 DEF TypeOK
<1> QED
  BY <1>1, <1>2, <1>3, <1>4, <1>5
     DEF Next, Work, NothingSaved, Save, Remove, OpenRun, OpenClock, OpenMark, StartTick, RunSearch,
         Sent, Failed, Advance, UnknownPerson, Restart, vars

\* The steps that tell, or leave something behind.
LEMMA ToldBy ==
  ASSUME [Next]_vars
  PROVE  \/ UNCHANGED <<announced, seen, late, missed, unshown, uncovered>>
         \/ \E d \in Docs : CommitDoc(d)
         \/ \E o \in Openings, arrives \in BOOLEAN : OpenMark(o, arrives)
         \/ Sent \/ Failed \/ UnknownPerson \/ Advance
BY DEF Next, Work, NothingSaved, Wait, Stamp, Hide, Save, Remove, OpenRun, OpenClock, StartTick,
       RunSearch, Restart, vars

\* What was told stays told; what is told now was committed, and found or on a page.
LEMMA ToldMoves ==
  ASSUME TypeOK, Queued, Found, Opened, [Next]_vars, NEW s \in Searches
  PROVE  /\ seen[s] \subseteq seen'[s] /\ seen'[s] \subseteq seen[s] \cup committed
         /\ missed[s] \subseteq missed'[s] /\ unshown[s] \subseteq unshown'[s]
         /\ uncovered[s] \subseteq uncovered'[s]
         /\ \A d \in Docs : /\ announced'[s][d] >= announced[s][d]
                            /\ announced'[s][d] > announced[s][d] => d \in committed
<1>1. \A d \in Docs : announced[s][d] \in Nat
  BY DEF TypeOK
<1>2. ASSUME NEW r, NEW S, missed' = [missed EXCEPT ![r] = missed[r] \cup S]
      PROVE  missed[s] \subseteq missed'[s]
  BY <1>2 DEF TypeOK
<1>3. ASSUME NEW o \in Openings, NEW arrives \in BOOLEAN, OpenMark(o, arrives)
      PROVE  /\ announced' = announced
             /\ seen[s] \subseteq seen'[s] /\ seen'[s] \subseteq seen[s] \cup committed
             /\ missed[s] \subseteq missed'[s] /\ unshown[s] \subseteq unshown'[s]
             /\ uncovered[s] \subseteq uncovered'[s]
  <2>1. open[o].pc = "marking" /\ announced' = announced
    BY <1>3 DEF OpenMark
  <2>2. open[o].search \in Searches /\ open[o].page \subseteq committed
    BY <2>1, MarkType
  <2>3. seen[s] \subseteq seen'[s] /\ seen'[s] \subseteq seen[s] \cup committed
    <3> DEFINE shown == IF arrives THEN open[o].page ELSE {}
    <3>1. shown \subseteq committed
      BY <2>2
    <3>2. seen' = [seen EXCEPT ![open[o].search] = seen[open[o].search] \cup shown]
      BY <1>3 DEF OpenMark
    <3> HIDE DEF shown
    <3> QED
      BY <3>1, <3>2 DEF TypeOK
  <2>4. CASE saved[open[o].search].there
    <3>1. missed[s] \subseteq missed'[s]
      BY <1>2, <1>3, <2>4 DEF OpenMark
    <3>2. ASSUME NEW r, NEW S, unshown' = [unshown EXCEPT ![r] = unshown[r] \cup S]
          PROVE  unshown[s] \subseteq unshown'[s]
      BY <3>2 DEF TypeOK
    <3>3. ASSUME NEW r, NEW S, uncovered' = [uncovered EXCEPT ![r] = uncovered[r] \cup S]
          PROVE  uncovered[s] \subseteq uncovered'[s]
      BY <3>3 DEF TypeOK
    <3>4. unshown[s] \subseteq unshown'[s] /\ uncovered[s] \subseteq uncovered'[s]
      BY <1>3, <2>4, <3>2, <3>3 DEF OpenMark
    <3> QED
      BY <2>1, <2>3, <3>1, <3>4
  <2>5. CASE ~saved[open[o].search].there
    BY <1>3, <2>1, <2>3, <2>5 DEF OpenMark
  <2> QED
    BY <2>4, <2>5
<1>4. CASE Sent \/ Failed
  <2>1. Current \in Searches /\ tick.hits \subseteq committed
    BY <1>4, CurrentType DEF Sent, Failed, Found
  <2>2. announced' \in {announced, Arrived} /\ UNCHANGED <<seen, missed, unshown, uncovered>>
    BY <1>4 DEF Sent, Failed
  <2> QED
    BY <1>1, <1>4, <2>1, <2>2, ArrivedAdds DEF Sent, Failed
<1>5. CASE \/ \E d \in Docs : CommitDoc(d)
           \/ Advance \/ UnknownPerson
  <2>1. UNCHANGED <<seen, announced, unshown, uncovered>>
    BY <1>5 DEF CommitDoc, Advance, UnknownPerson
  <2>2. missed[s] \subseteq missed'[s]
    <3>1. ASSUME NEW d \in Docs, CommitDoc(d) PROVE missed[s] \subseteq missed'[s]
      BY <3>1 DEF CommitDoc
    <3>2. CASE UNCHANGED missed
      BY <3>2
    <3>3. CASE Advance /\ saved[Current].there
      <4> DEFINE late1 == Passed(Current, tick.at, tick.known)
                 late2 == {d \in Docs : /\ Watermark(Current) < stamp[d]
                                        /\ stamp[d] <= tick.queue[1].since}
      <4>1. missed' = [missed EXCEPT ![Current] = missed[Current] \cup (late1 \cup late2)]
        <5>1. missed' = [missed EXCEPT ![Current] = (missed[Current] \cup late1) \cup late2]
          BY <3>3 DEF Advance
        <5>2. (missed[Current] \cup late1) \cup late2 = missed[Current] \cup (late1 \cup late2)
          OBVIOUS
        <5> QED
          BY <5>1, <5>2
      <4> QED
        BY <1>2, <4>1
    <3>4. CASE UnknownPerson
      BY <1>2, <3>4 DEF UnknownPerson
    <3> QED
      BY <1>5, <3>1, <3>2, <3>3, <3>4 DEF Advance
  <2> QED
    BY <1>1, <2>1, <2>2
<1>6. CASE UNCHANGED <<announced, seen, late, missed, unshown, uncovered>>
  BY <1>1, <1>6
<1> QED
  BY <1>1, <1>3, <1>4, <1>5, <1>6, ToldBy

\* The tick starts now, goes on with its entries, or drops the first of them or all.
LEMMA TickMoves ==
  ASSUME TypeOK, Times, Queued, [Next]_vars
  PROVE  \/ StartTick
         \/ tick'.queue = tick.queue /\ tick'.at = tick.at /\ (tick.pc = "idle" => tick'.pc = "idle")
         \/ tick' = NextSearch /\ tick.pc # "idle" /\ tick.queue # <<>>
         \/ tick' = NotTicking
<1>1. CASE RunSearch \/ Sent \/ UnknownPerson
  BY <1>1 DEF RunSearch, Sent, UnknownPerson, TypeOK
<1>2. CASE Failed \/ Advance
  BY <1>2, CurrentType DEF Failed, Advance
<1>3. CASE Restart
  BY <1>3 DEF Restart
<1>4. CASE UNCHANGED tick
  BY <1>4
<1> QED
  BY <1>1, <1>2, <1>3, <1>4
     DEF Next, Work, NothingSaved, Wait, Stamp, CommitDoc, Hide, Save, Remove, OpenRun,
         OpenClock, OpenMark, vars

-----------------------------------------------------------------------------
(* The invariant is inductive. *)

\* Times.
LEMMA TimesStep ==
  ASSUME TypeOK, Times, Queued, Found, Opened, [Next]_vars
  PROVE  Times'
<1>0. TypeOK'
  BY TypeStep
<1>1. ASSUME NEW d \in Docs
      PROVE  /\ -1 <= stamp'[d] /\ stamp'[d] <= clock'
             /\ d \in committed' => stamp'[d] >= 0
  <2>1. /\ stamp[d] \in Int /\ -1 <= stamp[d] /\ stamp[d] <= clock /\ clock \in Nat
        /\ d \in committed => stamp[d] >= 0
    BY DEF TypeOK, Times
  <2>2. /\ clock' \in Nat /\ clock <= clock'
        /\ stamp'[d] = stamp[d] \/ (stamp[d] = -1 /\ stamp'[d] = clock)
        /\ d \in committed' \ committed => stamp'[d] = stamp[d] /\ stamp[d] >= 0
    BY IndexMoves
  <2> QED
    BY <2>1, <2>2
<1>2. committed' \subseteq Docs
  BY <1>0 DEF TypeOK
<1>3. ASSUME NEW s \in Searches
      PROVE  /\ -1 <= saved'[s].created /\ saved'[s].created <= clock'
             /\ -1 <= saved'[s].last /\ saved'[s].last <= clock'
             /\ saved'[s].there => saved'[s].created >= 0
             /\ saved'[s].created = -1 => saved'[s].last = -1
             /\ saved'[s].last # -1 => saved'[s].last >= saved'[s].created
  <2>1. /\ saved[s] \in [there : BOOLEAN, created : Int, last : Int]
        /\ saved'[s] \in [there : BOOLEAN, created : Int, last : Int]
        /\ clock \in Nat /\ clock' \in Nat /\ clock <= clock'
    BY <1>0, IndexMoves DEF TypeOK
  <2>2. /\ -1 <= saved[s].created /\ saved[s].created <= clock
        /\ -1 <= saved[s].last /\ saved[s].last <= clock
        /\ saved[s].there => saved[s].created >= 0
        /\ saved[s].created = -1 => saved[s].last = -1
        /\ saved[s].last # -1 => saved[s].last >= saved[s].created
    BY DEF Times
  <2>3. CASE saved'[s] = saved[s]
    BY <2>1, <2>2, <2>3
  <2>4. CASE saved'[s] # saved[s]
    BY <2>1, <2>2, <2>4, SavedMoves
  <2> QED
    BY <2>3, <2>4
<1>4. ASSUME NEW s \in Searches
      PROVE  /\ seen'[s] \subseteq committed'
             /\ \A d \in Docs : announced'[s][d] > 0 => d \in committed'
  <2>1. committed \subseteq committed' /\ seen[s] \subseteq committed
    BY IndexMoves DEF Times
  <2>2. \A d \in Docs : announced[s][d] \in Nat /\ announced'[s][d] \in Nat
    BY <1>0 DEF TypeOK
  <2> QED
    BY <2>1, <2>2, ToldMoves DEF Times
<1>5. tick'.at <= clock'
  <2>1. tick.at <= clock /\ clock <= clock' /\ clock \in Nat /\ tick.at \in Nat /\ clock' \in Nat
    BY IndexMoves DEF Times, TypeOK
  <2>2. CASE StartTick
    BY <2>1, <2>2 DEF StartTick, NotTicking
  <2>3. CASE tick'.at = tick.at
    BY <2>1, <2>3
  <2>4. CASE tick' = NextSearch /\ tick.queue # <<>>
    BY <2>1, <2>4, NextSearchShape
  <2>5. CASE tick' = NotTicking
    BY <2>1, <2>5 DEF NotTicking
  <2> QED
    BY <2>2, <2>3, <2>4, <2>5, TickMoves
<1>6. IsFiniteSet(There)'
  <2>1. IsFiniteSet(There)
    BY DEF Times
  <2>2. CASE \E s \in Searches : Save(s)
    <3>1. PICK s \in Searches : Save(s)
      BY <2>2
    <3>2. There' \subseteq There \cup {s}
      BY <3>1 DEF There, Save, TypeOK
    <3>3. IsFiniteSet(There \cup {s})
      BY <2>1, FS_AddElement
    <3> QED
      BY <3>2, <3>3, FS_Subset
  <2>3. CASE ~\E s \in Searches : Save(s)
    <3>1. \A s \in Searches : saved'[s].there => saved[s].there
      <4>1. ASSUME NEW s \in Searches, Remove(s) \/ Advance,
                   NEW r \in Searches, saved'[r].there
            PROVE  saved[r].there
        <5>1. \A q \in Searches : saved[q] \in [there : BOOLEAN, created : Int, last : Int]
          BY DEF TypeOK
        <5> QED
          BY <4>1, <5>1 DEF Remove, Advance, TypeOK
      <4>2. ASSUME NEW o \in Openings, NEW arrives \in BOOLEAN, OpenMark(o, arrives),
                   NEW r \in Searches, saved'[r].there
            PROVE  saved[r].there
        BY <4>2, MarkWrites
      <4>3. ASSUME ~Advance, ~\E s \in Searches : Remove(s),
                   ~\E o \in Openings, arrives \in BOOLEAN : OpenMark(o, arrives)
            PROVE  saved' = saved
        BY <2>3, <4>3 DEF Next, Work, NothingSaved, Wait, Stamp, CommitDoc, Hide, OpenRun,
                          OpenClock, StartTick, RunSearch, Sent, Failed, UnknownPerson, Restart,
                          vars
      <4>4. CASE \E s \in Searches : Remove(s) \/ Advance
        BY <4>1, <4>4
      <4>5. CASE Searches = {}
        BY <4>5
      <4> QED
        BY <4>2, <4>3, <4>4, <4>5
    <3>2. There' \subseteq There
      BY <3>1 DEF There
    <3> QED
      BY <2>1, <3>2, FS_Subset
  <2> QED
    BY <2>2, <2>3
<1> QED
  BY <1>1, <1>2, <1>3, <1>4, <1>5, <1>6 DEF Times

\* What waits in the queue keeps waiting there.
LEMMA WaitsStays ==
  ASSUME TypeOK, Times, Queued, Opened, [Next]_vars,
         NEW q \in Entry, Waits(q), tick'.at = tick.at
  PROVE  Waits(q)'
<1>1. q.id \in Searches /\ saved[q.id].created >= 0
  BY DEF Entry, Waits
<1>2. saved'[q.id].created = saved[q.id].created
  BY <1>1, WatermarkMoves
<1> QED
  BY <1>1, <1>2 DEF Waits

\* The queue of the tick.
LEMMA QueuedStep ==
  ASSUME TypeOK, Times, Queued, Opened, [Next]_vars
  PROVE  Queued'
<1>0. \A i \in DOMAIN tick.queue : tick.queue[i] \in Entry
  BY DEF TypeOK
<1>1. CASE StartTick
  <2>1. /\ tick'.queue = Due /\ tick'.at = clock /\ Due # <<>>
        /\ saved' = saved
    BY <1>1, DueQueue DEF StartTick, NotTicking
  <2>2. PICK queue : queue = Due
    OBVIOUS
  <2>3. ASSUME NEW i \in DOMAIN queue PROVE Waits(queue[i])'
    <3> DEFINE q == queue[i]
    <3>1. q.id \in Searches /\ saved[q.id].there
      BY <2>2, DueQueue DEF There
    <3> HIDE DEF q
    <3>2. saved[q.id].created >= 0 /\ saved[q.id].created <= clock
      BY <3>1 DEF Times
    <3>3. Waits(q)'
      BY <2>1, <3>1, <3>2 DEF Waits
    <3> QED
      BY <3>3 DEF q
  <2>4. /\ \A i, j \in DOMAIN queue : queue[i].id = queue[j].id => i = j
        /\ tick'.queue = queue /\ queue # <<>>
    BY <2>1, <2>2, DueQueue
  <2> QED
    BY <2>3, <2>4 DEF Queued
<1>2. CASE tick'.queue = tick.queue /\ tick'.at = tick.at /\ (tick.pc = "idle" => tick'.pc = "idle")
  <2>1. ASSUME NEW i \in DOMAIN tick.queue PROVE Waits(tick.queue[i])'
    <3>1. PICK q \in Entry : q = tick.queue[i]
      BY <1>0
    <3>2. q = tick'.queue[i] /\ Waits(q)
      BY <1>2, <3>1 DEF Queued
    <3>3. Waits(q)'
      BY <1>2, <3>2, WaitsStays
    <3> QED
      BY <3>2, <3>3
  <2> QED
    BY <1>2, <2>1 DEF Queued
<1>3. CASE tick' = NextSearch /\ tick.queue # <<>>
  <2>1. /\ tick'.pc # "idle" => tick'.queue # <<>>
        /\ \A i \in DOMAIN tick'.queue : /\ i + 1 \in DOMAIN tick.queue
                                         /\ tick'.queue[i] = tick.queue[i + 1]
                                         /\ tick'.at = tick.at
    BY <1>3, NextSearchShape
  <2>2. ASSUME NEW i \in DOMAIN tick'.queue PROVE Waits(tick.queue[i])'
    <3>1. PICK q \in Entry : q = tick.queue[i + 1]
      BY <1>0, <2>1
    <3>2. q = tick'.queue[i] /\ Waits(q) /\ tick'.at = tick.at
      BY <2>1, <3>1 DEF Queued
    <3>3. Waits(q)'
      BY <3>2, WaitsStays
    <3> QED
      BY <3>2, <3>3
  <2>3. tick'.queue \in Seq(Entry)
    BY <1>3, NextSearchShape
  <2>4. \A i \in DOMAIN tick'.queue : i \in Nat
    BY <2>3
  <2>5. \A i, j \in DOMAIN tick'.queue : tick'.queue[i].id = tick'.queue[j].id => i = j
    <3> SUFFICES ASSUME NEW i \in DOMAIN tick'.queue, NEW j \in DOMAIN tick'.queue,
                        tick'.queue[i].id = tick'.queue[j].id
                 PROVE  i = j
      OBVIOUS
    <3>1. i + 1 = j + 1
      BY <2>1 DEF Queued
    <3> QED
      BY <2>4, <3>1
  <2> QED
    BY <2>1, <2>2, <2>5 DEF Queued
<1>4. CASE tick' = NotTicking
  BY <1>4 DEF NotTicking, Queued
<1> QED
  BY <1>1, <1>2, <1>3, <1>4, TickMoves

\* An opening that is overtaken stays as it is; the others begin, go on, or end.
LEMMA OpenMoves ==
  ASSUME TypeOK, Queued, Opened, [Next]_vars, NEW o \in Openings
  PROVE  \/ open'[o] = open[o]
         \/ open'[o] = [open[o] EXCEPT !.overtaken = TRUE]
         \/ open'[o] = NotOpen
         \/ \E s \in Searches : OpenRun(o, s)
         \/ OpenClock(o)
<1>0. open \in [Openings -> Opening]
  BY DEF TypeOK
<1>1. ASSUME NEW x \in Openings, NEW s \in Searches, OpenRun(x, s) \/ OpenClock(x)
      PROVE  open'[o] = open[o] \/ x = o
  BY <1>0, <1>1 DEF OpenRun, OpenClock
<1>2. ASSUME NEW s \in Searches, NEW x \in Openings,
             \/ open' = Overtake(s)
             \/ open' = [Overtake(s) EXCEPT ![x] = NotOpen]
             \/ open' = [open EXCEPT ![x] = NotOpen]
      PROVE  \/ open'[o] = open[o]
             \/ open'[o] = [open[o] EXCEPT !.overtaken = TRUE]
             \/ open'[o] = NotOpen
  BY <1>0, <1>2, OvertakeType
<1>3. ASSUME NEW x \in Openings, NEW arrives \in BOOLEAN, OpenMark(x, arrives)
      PROVE  \/ open'[o] = open[o]
             \/ open'[o] = [open[o] EXCEPT !.overtaken = TRUE]
             \/ open'[o] = NotOpen
  <2>1. open[x].search \in Searches
    BY <1>3, MarkType DEF OpenMark
  <2>2. \/ open' = [Overtake(open[x].search) EXCEPT ![x] = NotOpen]
        \/ open' = [open EXCEPT ![x] = NotOpen]
    BY <1>3 DEF OpenMark
  <2> QED
    BY <1>2, <2>1, <2>2
<1>4. CASE Advance
  <2>1. Current \in Searches
    BY <1>4, CurrentType DEF Advance
  <2>2. open' = Overtake(Current) \/ open' = open
    BY <1>4 DEF Advance
  <2> QED
    BY <1>2, <2>1, <2>2
<1>5. CASE Restart
  BY <1>5 DEF Restart
<1>6. CASE UNCHANGED open
  BY <1>6
<1>7. ASSUME NEW x \in Openings, OpenClock(x) PROVE open'[o] = open[o] \/ x = o
  BY <1>0, <1>7 DEF OpenClock
<1> QED
  BY <1>1, <1>3, <1>4, <1>5, <1>6, <1>7
     DEF Next, Work, NothingSaved, Wait, Stamp, CommitDoc, Hide, Save, Remove, StartTick,
         RunSearch, Sent, Failed, UnknownPerson, vars

\* The watermark a marking opening has read against stays below, or it is overtaken.
LEMMA NotOvertaken ==
  ASSUME TypeOK, Times, Queued, Opened, [Next]_vars, NEW o \in Openings,
         open[o].pc = "marking", open'[o] = open[o], ~open[o].overtaken
  PROVE  saved'[open[o].search].last <= open[o].at
<1> DEFINE s == open[o].search
<1>1. /\ s \in Searches /\ open[o].at \in Nat /\ saved[s].created >= 0
      /\ saved[s].last <= open[o].at
      /\ saved \in [Searches -> [there : BOOLEAN, created : Int, last : Int]]
      /\ open[o].overtaken # TRUE
  BY MarkType DEF TypeOK
<1>2. Overtake(s)[o].overtaken = TRUE
  BY <1>1 DEF Overtake, TypeOK, Opening
<1> HIDE DEF s
<1>3. ASSUME NEW x \in Openings, NEW arrives \in BOOLEAN, OpenMark(x, arrives)
      PROVE  saved'[s] = saved[s]
  <2>1. CASE open[x].search = s /\ saved[s].there
    <3>1. open' = [Overtake(s) EXCEPT ![x] = NotOpen]
      BY <1>3, <2>1 DEF OpenMark
    <3>2. Overtake(s) \in [Openings -> Opening]
      BY <1>1, OvertakeType
    <3>3. open'[o] = NotOpen \/ open'[o] = Overtake(s)[o]
      BY <3>1, <3>2
    <3> QED
      BY <1>1, <1>2, <3>3 DEF NotOpen
  <2>2. CASE ~(open[x].search = s /\ saved[s].there)
    BY <1>1, <1>3, <2>2, MarkWrites
  <2> QED
    BY <2>1, <2>2
<1>4. CASE Advance
  <2>1. CASE Current = s /\ saved[s].there
    <3>1. open' = Overtake(s)
      BY <1>4, <2>1 DEF Advance
    <3> QED
      BY <1>1, <1>2, <3>1
  <2>2. CASE ~(Current = s /\ saved[s].there)
    <3>1. saved'[s] = saved[s]
      BY <1>1, <1>4, <2>2 DEF Advance
    <3> QED
      BY <1>1, <3>1 DEF s
  <2> QED
    BY <2>1, <2>2
<1>5. ASSUME NEW r \in Searches, Save(r) \/ Remove(r) PROVE saved'[s].last <= open[o].at
  <2>1. CASE Save(r)
    <3>1. r # s
      BY <1>1, <2>1 DEF Save
    <3> QED
      BY <1>1, <2>1, <3>1 DEF Save
  <2>2. CASE Remove(r)
    <3>1. saved' = [saved EXCEPT ![r] = [saved[r] EXCEPT !.there = FALSE]]
          /\ saved[r] \in [there : BOOLEAN, created : Int, last : Int]
      BY <1>1, <2>2 DEF Remove
    <3>2. saved'[s].last = saved[s].last
      BY <1>1, <3>1
    <3> QED
      BY <1>1, <3>2
  <2> QED
    BY <1>5, <2>1, <2>2
<1>6. CASE UNCHANGED saved
  BY <1>1, <1>6 DEF s
<1> QED
  BY <1>1, <1>3, <1>4, <1>5, <1>6
     DEF s, Next, Work, NothingSaved, Wait, Stamp, CommitDoc, Hide, OpenRun, OpenClock,
         StartTick, RunSearch, Sent, Failed, UnknownPerson, Restart, vars

\* What an opening under way has found.
LEMMA OpenedStep ==
  ASSUME TypeOK, Times, Queued, Found, Opened, [Next]_vars
  PROVE  Opened'
<1> SUFFICES ASSUME NEW o \in Openings, open'[o].pc # "idle"
             PROVE  /\ open'[o].search \in Searches /\ saved'[open'[o].search].created >= 0
                    /\ open'[o].page \subseteq committed'
                    /\ open'[o].pc = "marking" =>
                         /\ saved'[open'[o].search].created <= open'[o].at
                         /\ open'[o].at <= clock'
                         /\ \A d \in open'[o].page : stamp'[d] <= open'[o].at
                         /\ ~open'[o].overtaken => saved'[open'[o].search].last <= open'[o].at
  BY DEF Opened
<1>1. /\ committed \subseteq committed' /\ clock <= clock' /\ clock \in Nat /\ clock' \in Nat
      /\ committed \subseteq Docs
      /\ \A d \in committed : stamp'[d] = stamp[d] /\ stamp[d] <= clock /\ stamp[d] \in Int
  <2>1. /\ \A d \in committed : stamp[d] >= 0 /\ stamp[d] <= clock /\ stamp[d] \in Int
        /\ committed \subseteq Docs /\ clock \in Nat
    BY DEF Times, TypeOK
  <2> QED
    BY <2>1, IndexMoves
<1>2. open[o] \in Opening
  BY DEF TypeOK
<1>3. ASSUME open[o].pc # "idle"
      PROVE  /\ open[o].search \in Searches /\ saved[open[o].search].created >= 0
             /\ open[o].page \subseteq committed
             /\ saved'[open[o].search].created = saved[open[o].search].created
  <2>1. /\ open[o].search \in Searches /\ saved[open[o].search].created >= 0
        /\ open[o].page \subseteq committed
    BY <1>3 DEF Opened
  <2> QED
    BY <2>1, WatermarkMoves
<1>4. CASE open'[o] = open[o]
  <2>1. CASE open[o].pc = "marking"
    <3>1. ~open[o].overtaken => saved'[open[o].search].last <= open[o].at
      BY <1>4, <2>1, NotOvertaken
    <3>2. open[o].at \in Nat /\ open[o].at <= clock
      BY <2>1, MarkType
    <3> QED
      BY <1>1, <1>3, <1>4, <2>1, <3>1, <3>2, MarkType
  <2>2. CASE open[o].pc # "marking"
    BY <1>1, <1>3, <1>4, <2>2
  <2> QED
    BY <2>1, <2>2
<1>5. CASE open'[o] = [open[o] EXCEPT !.overtaken = TRUE]
  <2>1. /\ open'[o].pc = open[o].pc /\ open'[o].search = open[o].search
        /\ open'[o].page = open[o].page /\ open'[o].at = open[o].at /\ open'[o].overtaken = TRUE
    BY <1>2, <1>5 DEF Opening
  <2>2. CASE open[o].pc = "marking"
    <3>1. open[o].at \in Nat /\ open[o].at <= clock
      BY <2>2, MarkType
    <3> QED
      BY <1>1, <1>3, <2>1, <2>2, <3>1, MarkType
  <2>3. CASE open[o].pc # "marking"
    BY <1>1, <1>3, <2>1, <2>3
  <2> QED
    BY <2>2, <2>3
<1>6. CASE open'[o] = NotOpen
  BY <1>6 DEF NotOpen
<1>7. ASSUME NEW s \in Searches, OpenRun(o, s) PROVE
                    /\ open'[o].search \in Searches /\ saved'[open'[o].search].created >= 0
                    /\ open'[o].page \subseteq committed'
                    /\ open'[o].pc # "marking"
  <2>1. PICK page \in SUBSET Hits(s, -1) :
          open' = [open EXCEPT ![o] = [NotOpen EXCEPT !.pc = "run", !.search = s,
                                                      !.known = committed, !.page = page]]
    BY <1>7 DEF OpenRun
  <2>2. /\ open'[o] = [NotOpen EXCEPT !.pc = "run", !.search = s, !.known = committed, !.page = page]
        /\ page \subseteq committed
    BY <2>1 DEF TypeOK, Hits
  <2>3. open'[o].pc = "run" /\ open'[o].search = s /\ open'[o].page = page
    BY <2>2 DEF NotOpen
  <2>4. saved' = saved /\ saved[s].there
    BY <1>7 DEF OpenRun
  <2> QED
    BY <1>1, <2>2, <2>3, <2>4 DEF Times
<1>8. CASE OpenClock(o)
  <2>1. /\ open[o].pc = "run" /\ UNCHANGED <<clock, stamp, committed, saved>>
        /\ open' = [open EXCEPT ![o] = [open[o] EXCEPT !.pc = "marking", !.at = clock]]
    BY <1>8 DEF OpenClock
  <2>2. open'[o] = [open[o] EXCEPT !.pc = "marking", !.at = clock]
    BY <2>1 DEF TypeOK
  <2>3. /\ open'[o].search = open[o].search /\ open'[o].page = open[o].page
        /\ open'[o].at = clock
    BY <1>2, <2>2 DEF Opening
  <2>4. saved[open[o].search].created <= clock /\ saved[open[o].search].last <= clock
    BY <1>3, <2>1 DEF Times
  <2> QED
    BY <1>1, <1>3, <2>1, <2>3, <2>4
<1> QED
  BY <1>4, <1>5, <1>6, <1>7, <1>8, OpenMoves

\* What the notifier's query has found.
LEMMA FoundStep ==
  ASSUME TypeOK, Times, Queued, Found, Opened, [Next]_vars
  PROVE  Found'
<1> SUFFICES ASSUME tick'.pc \in {"push", "advance"}
             PROVE  /\ tick'.known \subseteq committed' /\ tick'.hits \subseteq committed'
                    /\ \A d \in tick'.hits : stamp'[d] > tick'.queue[1].since
                    /\ \A d \in (tick'.known \cap Matches[Current']) \ hidden' :
                         stamp'[d] > tick'.queue[1].since => d \in tick'.hits
                    /\ tick'.pc = "advance" =>
                         \A d \in tick'.hits : announced'[Current'][d] > 0 \/ d \in missed'[Current']
  BY DEF Found
<1>1. /\ committed \subseteq committed' /\ hidden \subseteq hidden'
      /\ \A d \in committed : stamp'[d] = stamp[d]
  BY IndexMoves DEF TypeOK, Times
<1>2. CASE RunSearch
  <2> DEFINE hits == Hits(Current, tick.queue[1].since)
  <2>1. /\ tick'.hits = hits /\ tick'.known = committed /\ tick'.queue = tick.queue
        /\ tick'.pc = IF hits = {} THEN "advance" ELSE "push"
        /\ UNCHANGED <<stamp, committed, hidden>>
    BY <1>2 DEF RunSearch, TypeOK
  <2>2. Current' = Current
    BY <2>1 DEF Current
  <2> QED
    BY <2>1, <2>2 DEF Hits
<1>3. CASE tick.pc \in {"push", "advance"} /\ UNCHANGED <<tick>>
  <2>1. /\ tick.known \subseteq committed /\ tick.hits \subseteq committed
        /\ Current' = Current /\ Current \in Searches
        /\ tick.hits \subseteq Docs
    BY <1>3, CurrentType DEF Found, Current, TypeOK
  <2>2. ASSUME NEW d \in Docs
        PROVE  /\ announced[Current][d] > 0 => announced'[Current][d] > 0
               /\ d \in missed[Current] => d \in missed'[Current]
    <3>1. announced[Current][d] \in Nat /\ announced'[Current][d] \in Nat
      <4>1. TypeOK'
        BY TypeStep
      <4> QED
        BY <2>1, <4>1 DEF TypeOK
    <3> QED
      BY <2>1, <3>1, ToldMoves
  <2> QED
    BY <1>1, <1>3, <2>1, <2>2 DEF Found
<1>4. CASE Sent \/ UnknownPerson
  <2>1. /\ tick'.pc = "advance" /\ tick'.hits = tick.hits /\ tick'.known = tick.known
        /\ tick'.queue = tick.queue /\ tick.pc = "push"
        /\ UNCHANGED <<stamp, committed, hidden>>
    BY <1>4 DEF Sent, UnknownPerson, TypeOK
  <2>2. Current' = Current /\ Current \in Searches /\ tick.hits \subseteq Docs
    BY <2>1, CurrentType DEF Current, TypeOK
  <2>3. \A d \in tick.hits : announced'[Current][d] > 0 \/ d \in missed'[Current]
    <3>1. CASE Sent
      BY <2>1, <3>1, ArrivedAdds DEF Sent
    <3>2. CASE UnknownPerson
      BY <2>2, <3>2 DEF UnknownPerson, TypeOK
    <3> QED
      BY <1>4, <3>1, <3>2
  <2> QED
    BY <2>1, <2>2, <2>3 DEF Found
<1>5. CASE Failed \/ Advance
  <2>1. tick' = NextSearch /\ tick.queue # <<>>
    BY <1>5, CurrentType DEF Failed, Advance
  <2> QED
    BY <2>1, NextSearchShape
<1>6. CASE StartTick \/ Restart
  <2>1. tick'.pc \in {"run", "idle"}
    <3>1. CASE StartTick
      BY <3>1 DEF StartTick, NotTicking
    <3>2. CASE Restart
      BY <3>2 DEF Restart, NotTicking
    <3> QED
      BY <1>6, <3>1, <3>2
  <2> QED
    BY <2>1
<1>7. CASE UNCHANGED tick
  BY <1>3, <1>7
<1> QED
  BY <1>2, <1>4, <1>5, <1>6, <1>7
     DEF Next, Work, NothingSaved, Wait, Stamp, CommitDoc, Hide, Save, Remove, OpenRun,
         OpenClock, OpenMark, vars

\* A search and a match of it: the watermark has not passed it untold.
Informed(s, d) == announced[s][d] > 0 \/ d \in seen[s] \cup missed[s] \cup unshown[s]
Passing(s, d) ==
  /\ saved[s].there /\ d \in (committed \cap Matches[s]) \ hidden
  /\ stamp[d] > saved[s].created /\ stamp[d] <= Watermark(s)

\* NothingPassedOver, for one search and one match.
LEMMA PassedStep ==
  ASSUME TypeOK, Times, Queued, Found, Opened, NothingPassedOver, [Next]_vars,
         NEW s \in Searches, NEW d \in Docs, Passing(s, d)'
  PROVE  Informed(s, d)'
<1> USE NotifierAssumption
<1>0. /\ Informed(s, d) => Informed(s, d)'
      /\ Passing(s, d) => Informed(s, d)
  <2>1. announced[s][d] \in Nat /\ announced'[s][d] \in Nat
    BY TypeStep DEF TypeOK
  <2> QED
    BY <2>1, ToldMoves DEF Informed, Passing, NothingPassedOver
<1>1. /\ saved'[s].there /\ d \in committed' /\ d \in Matches[s] /\ d \notin hidden
      /\ stamp'[d] > saved'[s].created /\ stamp'[d] <= Watermark(s)'
      /\ stamp[d] \in Int /\ clock \in Nat
  BY IndexMoves DEF Passing, TypeOK
<1>2. stamp'[d] = stamp[d]
  <2>1. d \in committed => stamp[d] >= 0
    BY DEF Times
  <2> QED
    BY <1>1, <2>1, IndexMoves
<1>3. CASE saved' = saved /\ committed' = committed
  BY <1>0, <1>1, <1>2, <1>3 DEF Passing, Watermark
<1>4. ASSUME NEW e \in Docs, CommitDoc(e) PROVE Informed(s, d)'
  <2>1. saved' = saved /\ committed' = committed \cup {e}
        /\ missed' = [r \in Searches |->
                        IF saved[r].created # -1 /\ stamp[e] <= Watermark(r)
                        THEN missed[r] \cup {e} ELSE missed[r]]
    BY <1>4 DEF CommitDoc
  <2>2. CASE d \in committed
    BY <1>0, <1>1, <1>2, <2>1, <2>2 DEF Passing, Watermark
  <2>3. CASE d \notin committed
    <3>1. d = e /\ saved[s].created >= 0 /\ saved[s].created \in Int
      BY <1>1, <2>1, <2>3 DEF Times, TypeOK
    <3>2. Watermark(s)' = Watermark(s)
      BY <2>1 DEF Watermark
    <3>3. d \in missed'[s]
      BY <1>1, <1>2, <2>1, <3>1, <3>2
    <3> QED
      BY <3>3 DEF Informed
  <2> QED
    BY <2>2, <2>3
<1>5. ASSUME saved'[s] = saved[s], committed' = committed PROVE Informed(s, d)'
  BY <1>0, <1>1, <1>2, <1>5 DEF Passing, Watermark
<1>6. ASSUME NEW r \in Searches, Save(r) PROVE Informed(s, d)'
  <2>1. /\ committed' = committed
        /\ \/ saved'[s] = saved[s]
           \/ saved'[s].created = clock /\ saved'[s].last = -1
    BY <1>6 DEF Save, TypeOK
  <2>2. CASE saved'[s].created = clock /\ saved'[s].last = -1
    BY <1>1, <1>2, <2>2 DEF Watermark
  <2> QED
    BY <1>5, <2>1, <2>2
<1>7. ASSUME NEW r \in Searches, Remove(r) PROVE Informed(s, d)'
  <2>1. committed' = committed
        /\ saved' = [saved EXCEPT ![r] = [saved[r] EXCEPT !.there = FALSE]]
    BY <1>7 DEF Remove
  <2>2. \A q \in Searches : saved[q] \in [there : BOOLEAN, created : Int, last : Int]
    BY DEF TypeOK
  <2>3. s # r
    BY <1>1, <2>1, <2>2 DEF TypeOK
  <2>4. saved'[s] = saved[s]
    BY <2>1, <2>3 DEF TypeOK
  <2> QED
    BY <1>5, <2>1, <2>4
<1>8. ASSUME NEW o \in Openings, NEW arrives \in BOOLEAN, OpenMark(o, arrives)
      PROVE  Informed(s, d)'
  <2>1. committed' = committed /\ stamp' = stamp /\ open[o].pc = "marking"
    BY <1>8, MarkWrites
  <2>2. CASE open[o].search = s /\ saved[s].there
    <3> DEFINE shown == IF arrives THEN open[o].page ELSE {}
               skipped == {e \in open[o].known \ shown : stamp[e] > Watermark(s)}
               known == open[o].known
               at == open[o].at
    <3>1. /\ missed'[s] = missed[s] \cup Passed(s, at, known)
          /\ unshown'[s] = unshown[s] \cup skipped
          /\ seen'[s] = seen[s] \cup shown
      BY <1>8, <2>2 DEF OpenMark, TypeOK
    <3>2. /\ saved'[s] = [saved[s] EXCEPT !.last = at] /\ at \in Nat
          /\ saved[s] \in [there : BOOLEAN, created : Int, last : Int]
      BY <1>8, <2>1, <2>2, MarkWrites, MarkType DEF TypeOK
    <3>3. Watermark(s)' = at /\ saved'[s].created = saved[s].created
      BY <3>2 DEF Watermark
    <3>4. stamp[d] >= 0 /\ stamp[d] <= at
      BY <1>1, <2>1, <3>3 DEF Times
    <3>5. CASE d \notin known
      <4>1. d \in Passed(s, at, known)
        BY <3>2, <3>4, <3>5, <1>1 DEF Passed
      <4> QED
        BY <3>1, <4>1 DEF Informed
    <3>6. CASE d \in shown
      BY <3>1, <3>6 DEF Informed
    <3>7. CASE d \in known \ shown /\ stamp[d] > Watermark(s)
      BY <3>1, <3>7 DEF Informed
    <3>8. CASE stamp[d] <= Watermark(s)
      <4>1. Passing(s, d)
        BY <1>1, <2>1, <2>2, <3>3, <3>8 DEF Passing
      <4> QED
        BY <1>0, <4>1
    <3>9. stamp[d] <= Watermark(s) \/ stamp[d] > Watermark(s)
      BY <1>1, WatermarkType
    <3> HIDE DEF shown, known
    <3> QED
      BY <3>5, <3>6, <3>7, <3>8, <3>9
  <2>3. CASE ~(open[o].search = s /\ saved[s].there)
    <3>1. saved'[s] = saved[s]
      BY <1>8, <2>3, MarkWrites
    <3> QED
      BY <1>5, <2>1, <3>1
  <2> QED
    BY <2>2, <2>3
<1>9. ASSUME Advance PROVE Informed(s, d)'
  <2>1. committed' = committed /\ tick.pc = "advance"
    BY <1>9 DEF Advance
  <2>2. CASE s = Current /\ saved[s].there
    <3>1. /\ saved' = [saved EXCEPT ![s] = [saved[s] EXCEPT !.last = Advanced(s)]]
          /\ missed'[s] = missed[s] \cup Passed(s, tick.at, tick.known)
                            \cup {e \in Docs : /\ Watermark(s) < stamp[e]
                                              /\ stamp[e] <= tick.queue[1].since}
      BY <1>9, <2>2 DEF Advance, TypeOK
    <3>2. /\ saved[s] \in [there : BOOLEAN, created : Int, last : Int]
          /\ tick.at \in Nat /\ saved \in [Searches -> [there : BOOLEAN, created : Int, last : Int]]
      BY DEF TypeOK
    <3>3. saved'[s].last = Advanced(s) /\ saved'[s].created = saved[s].created
      BY <3>1, <3>2
    <3>4. /\ tick.queue[1].since \in Nat
          /\ saved[s].created <= tick.at /\ Watermark(s) \in Int
      BY <2>1, <2>2, CurrentType, WatermarkType DEF Queued, Waits
    <3>5. stamp[d] >= 0
      BY <1>1, <2>1 DEF Times
    <3>6. CASE stamp[d] <= Watermark(s)
      <4>1. Passing(s, d)
        BY <1>1, <1>2, <2>1, <2>2, <3>3, <3>6 DEF Passing
      <4> QED
        BY <1>0, <4>1
    <3>7. CASE stamp[d] > Watermark(s)
      <4>1. stamp[d] <= tick.at
        BY <1>1, <1>2, <3>2, <3>3, <3>7 DEF Watermark, Advanced
      <4>2. CASE stamp[d] <= tick.queue[1].since
        BY <3>1, <3>7, <4>2 DEF Informed
      <4>3. CASE d \in tick.known /\ stamp[d] > tick.queue[1].since
        BY <1>0, <1>1, <2>1, <2>2, <4>3 DEF Found, Informed
      <4>4. CASE d \notin tick.known
        <5>1. d \in Passed(s, tick.at, tick.known)
          BY <1>1, <3>2, <3>5, <4>1, <4>4 DEF Passed
        <5> QED
          BY <3>1, <5>1 DEF Informed
      <4> QED
        BY <1>1, <3>4, <4>2, <4>3, <4>4
    <3> QED
      BY <1>1, <3>4, <3>6, <3>7
  <2>3. CASE ~(s = Current /\ saved[s].there)
    <3>1. saved'[s] = saved[s]
      BY <1>9, <2>3 DEF Advance, TypeOK
    <3> QED
      BY <1>5, <2>1, <3>1
  <2> QED
    BY <2>2, <2>3
<1> QED
  BY <1>3, <1>4, <1>6, <1>7, <1>8, <1>9
     DEF Next, Work, NothingSaved, Wait, Stamp, Hide, OpenRun, OpenClock, StartTick, RunSearch,
         Sent, Failed, UnknownPerson, Restart, vars

\* The invariant of watermarks, in every reachable state.
LEMMA WatermarkInvariant == Spec => []WatermarkInv
<1>1. Init => WatermarkInv
  <2> SUFFICES ASSUME Init PROVE WatermarkInv
    OBVIOUS
  <2>1. TypeOK
    BY DEF Init, TypeOK, NotTicking, NotOpen, Opening
  <2>2. Times
    <3>1. There = {}
      BY DEF Init, There
    <3> QED
      BY <3>1, FS_EmptySet DEF Init, Times, NotTicking
  <2>3. Queued /\ Found /\ Opened /\ NothingPassedOver
    BY DEF Init, Queued, Found, Opened, NothingPassedOver, NotTicking, NotOpen
  <2> QED
    BY <2>1, <2>2, <2>3 DEF WatermarkInv
<1>2. WatermarkInv /\ [Next]_vars => WatermarkInv'
  <2> SUFFICES ASSUME WatermarkInv, [Next]_vars PROVE WatermarkInv'
    OBVIOUS
  <2>1. TypeOK' /\ Times' /\ Queued' /\ Found' /\ Opened'
    BY TypeStep, TimesStep, QueuedStep, FoundStep, OpenedStep DEF WatermarkInv
  <2>2. NothingPassedOver'
    <3>1. \A s \in Searches, d \in Docs : Passing(s, d)' => Informed(s, d)'
      BY PassedStep DEF WatermarkInv
    <3> QED
      BY <2>1, <3>1 DEF NothingPassedOver, Passing, Informed, TypeOK
  <2> QED
    BY <2>1, <2>2 DEF WatermarkInv
<1> QED
  BY <1>1, <1>2, PTL DEF Spec

\* No watermark passes a match of a saved search that was neither announced nor on a page its
\* owner was shown, but for what the query could not see, what was found for a person Network
\* no longer knows, and what an opening found and did not show (server/saved-notifier.js tick,
\* server/saved.js markRun, server/api/saved.js results): for any number of searches, of
\* openings beside the tick and beside each other, of failed or lost pushes and of restarts.
THEOREM NothingIsPassedOver == Spec => []NothingPassedOver
<1>1. WatermarkInv => NothingPassedOver
  BY DEF WatermarkInv
<1> QED
  BY <1>1, WatermarkInvariant, PTL

\* And a watermark moves back only when an opening writes the time it had read before
\* somebody else wrote a later one: the tick never does it (server/saved.js markRun, whose
\* update has no GREATEST, beside the one of server/saved-notifier.js, which has).
THEOREM WatermarksFall == Spec => FallsOnlyByOvertakenOpening
<1>1. WatermarkInv /\ [Next]_vars
        => [\A s \in Searches : saved'[s].last < saved[s].last =>
              \E o \in Openings :
                /\ open[o].pc = "marking" /\ open[o].search = s /\ open[o].overtaken
                /\ open'[o].pc = "idle" /\ saved'[s].last = open[o].at]_vars
  <2> SUFFICES ASSUME WatermarkInv, [Next]_vars, NEW s \in Searches,
                      saved'[s].last < saved[s].last
               PROVE  \E o \in Openings :
                        /\ open[o].pc = "marking" /\ open[o].search = s /\ open[o].overtaken
                        /\ open'[o].pc = "idle" /\ saved'[s].last = open[o].at
    OBVIOUS
  <2>0. TypeOK /\ Times /\ Queued /\ Opened
    BY DEF WatermarkInv
  <2>1. /\ saved[s] \in [there : BOOLEAN, created : Int, last : Int]
        /\ saved[s].created = -1 => saved[s].last = -1
        /\ -1 <= saved[s].last
    BY <2>0 DEF TypeOK, Times
  <2>2. saved'[s] # saved[s]
    BY <2>1
  <2>3. Marks(s)
    <3>1. saved'[s].last \in Int
      BY <2>0, TypeStep DEF TypeOK
    <3> QED
      BY <2>0, <2>1, <2>2, <3>1, SavedMoves
  <2>4. PICK o \in Openings, arrives \in BOOLEAN :
          OpenMark(o, arrives) /\ open[o].search = s /\ saved[s].there
    BY <2>3 DEF Marks
  <2>5. /\ open[o].pc = "marking" /\ open'[o].pc = "idle"
        /\ saved'[s] = [saved[s] EXCEPT !.last = open[o].at]
    BY <2>0, <2>4, MarkWrites
  <2>6. /\ saved'[s].last = open[o].at /\ open[o].at \in Nat
        /\ open[o].overtaken \/ saved[s].last <= open[o].at
    BY <2>0, <2>1, <2>4, <2>5, MarkType
  <2>7. open[o].overtaken
    BY <2>1, <2>6
  <2> QED
    BY <2>4, <2>5, <2>6, <2>7
<1> QED
  BY <1>1, WatermarkInvariant, PTL DEF Spec, FallsOnlyByOvertakenOpening

-----------------------------------------------------------------------------
(* Told again. *)

\* Nobody was told of a search that was not saved yet.
LEMMA OnlySavedAreTold ==
  ASSUME WatermarkInv, ToldInv, [Next]_vars, NEW s \in Searches, saved[s].created = -1
  PROVE  seen'[s] = {} /\ \A d \in Docs : announced'[s][d] = 0
<1>0. TypeOK /\ Times /\ Queued /\ Found /\ Opened /\ TypeOK'
  BY TypeStep DEF WatermarkInv
<1>1. ~saved[s].there
  BY <1>0 DEF Times
<1>2. seen[s] = {} /\ \A d \in Docs : announced[s][d] = 0
  BY DEF ToldInv
<1>3. seen'[s] = seen[s]
  <2>1. ASSUME NEW o \in Openings, NEW arrives \in BOOLEAN, OpenMark(o, arrives)
        PROVE  seen'[s] = seen[s]
    <3>1. open[o].search # s
      BY <1>0, <2>1, MarkType DEF OpenMark
    <3> QED
      BY <1>0, <2>1, <3>1 DEF OpenMark, TypeOK
  <2>2. CASE UNCHANGED seen
    BY <2>2
  <2> QED
    BY <2>1, <2>2
       DEF Next, Work, NothingSaved, Wait, Stamp, CommitDoc, Hide, Save, Remove, OpenRun,
           OpenClock, StartTick, RunSearch, Sent, Failed, Advance, UnknownPerson, Restart, vars
<1>4. announced'[s] = announced[s]
  <2>1. CASE Sent \/ Failed
    <3>1. tick.pc = "push" /\ announced' \in {announced, Arrived}
      BY <2>1 DEF Sent, Failed
    <3>2. Current \in Searches /\ saved[Current].created >= 0
      BY <1>0, <3>1, CurrentType DEF Queued, Waits
    <3>3. Arrived[s] = announced[s]
      BY <1>0, <1>1, <3>2 DEF Arrived, TypeOK
    <3> QED
      BY <3>1, <3>3
  <2>2. CASE UNCHANGED announced
    BY <2>2
  <2> QED
    BY <2>1, <2>2
       DEF Next, Work, NothingSaved, Wait, Stamp, CommitDoc, Hide, Save, Remove, OpenRun,
           OpenClock, OpenMark, StartTick, RunSearch, Advance, UnknownPerson, Restart, vars
<1> QED
  BY <1>2, <1>3, <1>4

\* A step without a fault leaves what was told before behind the watermark.
LEMMA ToldStep ==
  ASSUME WatermarkInv, ToldInv, [Next]_vars, faults' = 0,
         NEW s \in Searches, NEW d \in Docs, saved'[s].there
  PROVE  ToldBefore(s, d)' /\ SeenBefore(s, d)'
<1>0. TypeOK /\ Times /\ Queued /\ Found /\ Opened /\ TypeOK' /\ faults \in Nat
  BY TypeStep DEF WatermarkInv, TypeOK
<1>1. CASE ~saved[s].there
  <2>1. saved[s].created = -1
    BY <1>0, <1>1, SavedMoves
  <2>2. seen'[s] = {} /\ announced'[s][d] = 0
    BY <2>1, OnlySavedAreTold
  <2> QED
    BY <2>2 DEF ToldBefore, SeenBefore
<1>2. CASE saved[s].there
  <2>0. /\ saved[s].created >= 0 /\ (Watermark(s)' >= Watermark(s) \/ Marks(s))
        /\ Watermark(s) \in Int /\ Watermark(s)' \in Int /\ stamp[d] \in Int
    BY <1>0, <1>2, WatermarkMoves DEF Times, TypeOK, Watermark
  <2>1. faults = 0 => ToldBefore(s, d) /\ SeenBefore(s, d)
    BY <1>2 DEF ToldInv
  <2>2. d \in committed => stamp'[d] = stamp[d] /\ stamp[d] >= 0
    BY <1>0, IndexMoves DEF Times
  <2>3. faults = 0
    <3>1. CASE \/ \E o \in Openings, arrives \in BOOLEAN : OpenMark(o, arrives)
               \/ Failed \/ UnknownPerson \/ Restart
      <4>1. faults' = faults \/ faults' = faults + 1
        BY <3>1 DEF OpenMark, Failed, UnknownPerson, Restart
      <4> QED
        BY <1>0, <4>1
    <3>2. CASE UNCHANGED faults
      BY <3>2
    <3> QED
      BY <3>1, <3>2
         DEF Next, Work, NothingSaved, Wait, Stamp, CommitDoc, Hide, Save, Remove, OpenRun,
             OpenClock, StartTick, RunSearch, Sent, Advance, vars
  <2>4. ASSUME NEW o \in Openings, NEW arrives \in BOOLEAN, OpenMark(o, arrives),
               open[o].search = s
        PROVE  /\ stamp' = stamp /\ tick' = tick /\ announced' = announced /\ late' = late
               /\ Watermark(s)' = open[o].at
               /\ seen'[s] \subseteq seen[s] \cup open[o].page
               /\ stamp[d] <= open[o].at \/ stamp[d] > Watermark(s) \/ d \in uncovered'[s]
               /\ uncovered[s] \subseteq uncovered'[s]
    <3> DEFINE bared == {e \in Docs : open[o].at < stamp[e] /\ stamp[e] <= Watermark(s)}
    <3>1. /\ stamp' = stamp /\ tick' = tick /\ announced' = announced /\ late' = late
          /\ open[o].pc = "marking" /\ saved'[s] = [saved[s] EXCEPT !.last = open[o].at]
          /\ open[o].at \in Nat /\ saved[s] \in [there : BOOLEAN, created : Int, last : Int]
      BY <1>0, <1>2, <2>4, MarkWrites, MarkType DEF OpenMark, TypeOK
    <3>2. Watermark(s)' = open[o].at
      BY <3>1 DEF Watermark
    <3>3. seen'[s] \subseteq seen[s] \cup open[o].page
      BY <1>0, <2>4 DEF OpenMark, TypeOK
    <3>4. uncovered'[s] = uncovered[s] \cup bared
      BY <1>0, <1>2, <2>4 DEF OpenMark, TypeOK
    <3>5. stamp[d] <= open[o].at \/ stamp[d] > Watermark(s) \/ d \in bared
      BY <2>0, <3>1
    <3> QED
      BY <3>1, <3>2, <3>3, <3>4, <3>5
  <2>5. ASSUME ~Marks(s)
        PROVE  /\ Watermark(s)' >= Watermark(s) /\ uncovered[s] \subseteq uncovered'[s]
               /\ seen'[s] = seen[s]
    <3>1. uncovered[s] \subseteq uncovered'[s]
      BY <1>0, ToldMoves
    <3>2. ASSUME NEW o \in Openings, NEW arrives \in BOOLEAN, OpenMark(o, arrives)
          PROVE  seen'[s] = seen[s]
      <4>1. open[o].search # s
        BY <1>2, <2>5, <3>2 DEF Marks
      <4> QED
        BY <1>0, <3>2, <4>1 DEF OpenMark, TypeOK
    <3>3. seen'[s] = seen[s]
      BY <3>2, ToldBy DEF CommitDoc, Sent, Failed, Advance, UnknownPerson
    <3> QED
      BY <2>0, <2>5, <3>1, <3>3
  <2>6. SeenBefore(s, d)'
    <3>1. CASE Marks(s)
      <4>1. PICK o \in Openings, arrives \in BOOLEAN :
              OpenMark(o, arrives) /\ open[o].search = s
        BY <3>1 DEF Marks
      <4>2. open[o].at \in Nat /\ \A e \in open[o].page : stamp[e] <= open[o].at
        BY <1>0, <4>1, MarkType DEF OpenMark
      <4> SUFFICES ASSUME d \in seen'[s] \ uncovered'[s] PROVE stamp'[d] <= Watermark(s)'
        BY DEF SeenBefore
      <4>3. CASE d \in open[o].page
        BY <2>4, <4>1, <4>2, <4>3
      <4>4. CASE d \in seen[s]
        <5>1. stamp[d] <= Watermark(s)
          BY <2>1, <2>3, <2>4, <4>1, <4>4 DEF SeenBefore
        <5> QED
          BY <2>0, <2>4, <4>1, <4>2, <5>1
      <4> QED
        BY <2>4, <4>1, <4>3, <4>4
    <3>2. CASE ~Marks(s)
      <4> SUFFICES ASSUME d \in seen'[s] \ uncovered'[s] PROVE stamp'[d] <= Watermark(s)'
        BY DEF SeenBefore
      <4>1. d \in committed /\ stamp[d] <= Watermark(s)
        BY <1>0, <2>1, <2>3, <2>5, <3>2 DEF SeenBefore, Times
      <4> QED
        BY <2>0, <2>2, <2>5, <3>2, <4>1
    <3> QED
      BY <3>1, <3>2
  <2>7. ToldBefore(s, d)'
    <3> SUFFICES ASSUME announced'[s][d] > 0, d \notin late'[s] \cup uncovered'[s]
                 PROVE  /\ \/ stamp'[d] <= Watermark(s)'
                           \/ tick'.pc = "advance" /\ Current' = s /\ stamp'[d] <= tick'.at
                        /\ \A i \in DOMAIN tick'.queue :
                             tick'.queue[i].id = s => \/ stamp'[d] <= tick'.queue[i].since
                                                      \/ i = 1 /\ tick'.pc = "advance"
      BY DEF ToldBefore
    <3> DEFINE Old == announced[s][d] > 0 /\ d \notin late[s] \cup uncovered[s]
    <3>1. ASSUME Old
          PROVE  /\ d \in committed /\ stamp'[d] = stamp[d]
                 /\ \/ stamp[d] <= Watermark(s)
                    \/ tick.pc = "advance" /\ Current = s /\ stamp[d] <= tick.at
                 /\ \A i \in DOMAIN tick.queue :
                      tick.queue[i].id = s => \/ stamp[d] <= tick.queue[i].since
                                              \/ i = 1 /\ tick.pc = "advance"
      BY <1>0, <2>1, <2>2, <2>3, <3>1 DEF Times, ToldBefore
    <3>0. uncovered[s] \subseteq uncovered'[s]
      BY <1>0, ToldMoves
    <3>2. CASE UNCHANGED <<tick, announced, late>>
      <4>1. Current' = Current /\ Old
        BY <3>0, <3>2 DEF Current
      <4>2. CASE Marks(s)
        <5>1. PICK o \in Openings, arrives \in BOOLEAN :
                OpenMark(o, arrives) /\ open[o].search = s
          BY <4>2 DEF Marks
        <5>2. open[o].at \in Nat
          BY <1>0, <5>1, MarkType DEF OpenMark
        <5>3. stamp[d] <= Watermark(s) => stamp[d] <= Watermark(s)'
          BY <2>0, <2>4, <5>1, <5>2
        <5> QED
          BY <3>1, <3>2, <4>1, <5>3
      <4>3. CASE ~Marks(s)
        BY <2>0, <2>5, <3>1, <3>2, <4>1, <4>3
      <4> QED
        BY <4>2, <4>3
    <3>3. CASE RunSearch
      <4>1. Old /\ tick.pc = "run" /\ tick'.queue = tick.queue /\ saved' = saved
        BY <1>0, <3>3 DEF RunSearch, TypeOK
      <4>2. Watermark(s)' = Watermark(s)
        BY <4>1 DEF Watermark
      <4> QED
        BY <2>0, <3>1, <4>1, <4>2
    <3>4. CASE StartTick
      <4>1. Old /\ tick.pc = "idle" /\ tick'.queue = Due /\ Watermark(s)' = Watermark(s)
        BY <3>4 DEF StartTick, NotTicking, Watermark
      <4>2. stamp[d] <= Watermark(s)
        BY <3>1, <4>1
      <4>3. \A i \in DOMAIN Due : Due[i].since = Watermark(Due[i].id)
        BY <1>0, DueQueue
      <4>4. \A i \in DOMAIN tick'.queue :
              tick'.queue[i].id = s => stamp[d] <= tick'.queue[i].since
        BY <4>1, <4>2, <4>3
      <4> QED
        BY <2>0, <3>1, <4>1, <4>2, <4>4
    <3>5. CASE Failed \/ Advance
      <4>1. Old /\ tick' = NextSearch /\ tick.pc \in {"push", "advance"} /\ tick.queue # <<>>
        <5>1. Old
          BY <2>3, <3>5 DEF Failed, Advance
        <5> QED
          BY <1>0, <3>5, <5>1, CurrentType DEF Failed, Advance
      <4>2. stamp[d] <= Watermark(s)'
        <5>0. ~Marks(s)
          <6>1. tick' # tick
            <7>1. tick.queue \in Seq(Entry) /\ tick.queue # <<>>
              BY <1>0, <4>1 DEF TypeOK
            <7>2. tick'.pc # tick.pc
              BY <1>0, <4>1, NextSearchShape
            <7> QED
              BY <7>2
          <6> QED
            BY <1>0, <6>1, MarkWrites DEF Marks
        <5>1. CASE stamp[d] <= Watermark(s)
          BY <2>0, <2>5, <5>0, <5>1
        <5>2. CASE tick.pc = "advance" /\ Current = s /\ stamp[d] <= tick.at
          <6>1. Advance /\ saved' = [saved EXCEPT ![s] = [saved[s] EXCEPT !.last = Advanced(s)]]
            BY <1>2, <3>5, <5>2 DEF Failed, Advance
          <6>2. /\ saved[s] \in [there : BOOLEAN, created : Int, last : Int]
                /\ tick.at \in Nat
            BY <1>0 DEF TypeOK
          <6>3. saved'[s].last = Advanced(s)
            BY <1>0, <6>1, <6>2 DEF TypeOK
          <6> QED
            BY <2>0, <5>2, <6>2, <6>3 DEF Watermark, Advanced
        <5> QED
          BY <3>1, <4>1, <5>1, <5>2
      <4>3. \A i \in DOMAIN tick'.queue : i + 1 \in DOMAIN tick.queue
                                          /\ tick'.queue[i] = tick.queue[i + 1] /\ i + 1 # 1
        <5>1. tick'.queue \in Seq(Entry)
          BY <1>0 DEF TypeOK
        <5>2. \A i \in DOMAIN tick'.queue : i \in Nat \ {0}
          BY <5>1
        <5> QED
          BY <1>0, <4>1, <5>2, NextSearchShape
      <4> QED
        BY <3>1, <4>1, <4>2, <4>3
    <3>6. CASE Sent
      <4>1. /\ tick.pc = "push" /\ tick'.pc = "advance" /\ tick'.queue = tick.queue
            /\ tick'.at = tick.at /\ Current' = Current /\ stamp' = stamp
            /\ Current \in Searches /\ 1 \in DOMAIN tick.queue /\ tick.queue[1].id = Current
            /\ announced' = Arrived
            /\ late' = [late EXCEPT ![Current] = late[Current]
                                       \cup {x \in tick.hits : stamp[x] > tick.at}]
        BY <1>0, <3>6, CurrentType DEF Sent, TypeOK, Current
      <4>2. CASE s = Current /\ d \in tick.hits
        <5>1. stamp[d] <= tick.at
          <6>1. late'[s] = late[s] \cup {x \in tick.hits : stamp[x] > tick.at}
            BY <1>0, <4>1, <4>2 DEF TypeOK
          <6> QED
            BY <1>0, <2>0, <4>2, <6>1 DEF TypeOK
        <5>2. \A i \in DOMAIN tick.queue : tick.queue[i].id = s => i = 1
          BY <1>0, <4>1, <4>2 DEF Queued
        <5> QED
          BY <4>1, <4>2, <5>1, <5>2
      <4>3. CASE ~(s = Current /\ d \in tick.hits)
        <5>1. announced[s][d] \in Nat /\ announced'[s][d] \in Nat
          BY <1>0 DEF TypeOK
        <5>2. announced'[s][d] = announced[s][d]
          <6>1. Arrived[s][d] >= announced[s][d]
            BY <1>0, <4>1, ArrivedAdds
          <6>2. ~(Arrived[s][d] > announced[s][d])
            BY <1>0, <4>1, <4>3, ArrivedAdds
          <6>3. Arrived[s][d] = announced'[s][d]
            BY <4>1
          <6> QED
            BY <5>1, <6>1, <6>2, <6>3
        <5>3. late[s] \subseteq late'[s]
          BY <1>0, <4>1 DEF TypeOK
        <5>4. Old
          BY <3>0, <5>2, <5>3
        <5>5. Watermark(s)' = Watermark(s)
          BY <3>6 DEF Sent, Watermark
        <5> QED
          BY <2>0, <3>1, <4>1, <5>4, <5>5
      <4> QED
        BY <4>2, <4>3
    <3> HIDE DEF Old
    <3>7. CASE Restart
      <4>1. faults' = faults + 1
        BY <3>7 DEF Restart
      <4> QED
        BY <1>0, <2>3, <4>1
    <3>8. CASE UnknownPerson
      <4>1. faults' = faults + 1
        BY <3>8 DEF UnknownPerson
      <4> QED
        BY <1>0, <2>3, <4>1
    <3> QED
      BY <3>2, <3>3, <3>4, <3>5, <3>6, <3>7, <3>8
         DEF Next, Work, NothingSaved, Wait, Stamp, CommitDoc, Hide, Save, Remove, OpenRun,
             OpenClock, OpenMark, vars
  <2> QED
    BY <2>6, <2>7
<1> QED
  BY <1>1, <1>2

\* So a match that its owner was told of, or shown, is announced again only by a tick that was
\* under way: one that began before it was indexed, or had read the watermark before the
\* opening moved it (server/saved-notifier.js tick) - or when an opening that was overtaken
\* has moved the watermark back over it (server/saved.js markRun).
THEOREM ToldAgainUnderWay == Spec => ToldAgainOnlyUnderWay
<1>1. Init => ToldInv
  BY DEF Init, ToldInv
<1>2. WatermarkInv /\ ToldInv /\ [Next]_vars => ToldInv'
  <2> SUFFICES ASSUME WatermarkInv, ToldInv, [Next]_vars PROVE ToldInv'
    OBVIOUS
  <2>1. ASSUME NEW s \in Searches, saved'[s].created = -1
        PROVE  seen'[s] = {} /\ \A d \in Docs : announced'[s][d] = 0
    <3>1. saved[s].created = -1 \/ saved[s].created >= 0
      BY DEF WatermarkInv, TypeOK, Times
    <3>2. saved[s].created = -1
      BY <2>1, <3>1, WatermarkMoves DEF WatermarkInv
    <3> QED
      BY <3>2, OnlySavedAreTold
  <2> QED
    BY <2>1, ToldStep DEF ToldInv
<1>3. WatermarkInv /\ ToldInv /\ [Next]_vars
        => [\A s \in Searches, d \in Docs :
              announced'[s][d] > announced[s][d] /\ faults = 0 /\ saved[s].there
                  /\ d \notin uncovered[s] =>
                /\ announced[s][d] > 0 => d \in late[s]
                /\ d \in seen[s] => tick.queue[1].since < Watermark(s)]_vars
  <2> SUFFICES ASSUME WatermarkInv, ToldInv, [Next]_vars, NEW s \in Searches, NEW d \in Docs,
                      announced'[s][d] > announced[s][d], faults = 0, saved[s].there,
                      d \notin uncovered[s]
               PROVE  /\ announced[s][d] > 0 => d \in late[s]
                      /\ d \in seen[s] => tick.queue[1].since < Watermark(s)
    OBVIOUS
  <2>0. TypeOK /\ Times /\ Queued /\ Found
    BY DEF WatermarkInv
  <2>1. announced[s][d] \in Nat
    BY <2>0 DEF TypeOK
  <2>2. tick.pc = "push" /\ announced' = Arrived
    <3>1. CASE Sent \/ Failed
      BY <2>1, <3>1 DEF Sent, Failed
    <3>2. CASE UNCHANGED announced
      BY <2>1, <3>2
    <3> QED
      BY <3>1, <3>2
         DEF Next, Work, NothingSaved, Wait, Stamp, CommitDoc, Hide, Save, Remove, OpenRun,
             OpenClock, OpenMark, StartTick, RunSearch, Advance, UnknownPerson, Restart, vars
  <2>3. /\ s = Current /\ d \in tick.hits
        /\ tick.queue[1].since \in Nat /\ 1 \in DOMAIN tick.queue
        /\ tick.queue[1].id = s
    BY <2>0, <2>2, ArrivedAdds, CurrentType
  <2>4. stamp[d] > tick.queue[1].since /\ stamp[d] \in Int /\ Watermark(s) \in Int
    BY <2>0, <2>2, <2>3, WatermarkType DEF Found, TypeOK
  <2>5. ToldBefore(s, d) /\ SeenBefore(s, d)
    BY DEF ToldInv
  <2>6. announced[s][d] > 0 => d \in late[s]
    BY <2>2, <2>3, <2>4, <2>5 DEF ToldBefore
  <2>7. d \in seen[s] => tick.queue[1].since < Watermark(s)
    BY <2>3, <2>4, <2>5 DEF SeenBefore
  <2> QED
    BY <2>6, <2>7
<1> QED
  BY <1>1, <1>2, <1>3, WatermarkInvariant, PTL DEF Spec, ToldAgainOnlyUnderWay
=============================================================================
