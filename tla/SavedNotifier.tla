--------------------------- MODULE SavedNotifier ---------------------------
(***************************************************************************)
(* Saved searches and their notifier: the watermark of each saved search   *)
(* (server/saved.js), the tick that runs the due ones as their owner and   *)
(* pushes what is new (server/saved-notifier.js, server/network-push.js),  *)
(* and the person who opens pages of the results meanwhile                 *)
(* (server/api/saved.js).                                                  *)
(*                                                                         *)
(* A Doc is one revision of a document as the query sees it: stamped with  *)
(* indexed_at when store.apply builds its row, visible once its transaction *)
(* commits, and hidden for good when a later revision or a removal takes   *)
(* it away. The clock is that of the process, in milliseconds; several     *)
(* steps may share one.                                                    *)
(***************************************************************************)
EXTENDS Integers, Sequences, FiniteSets

CONSTANTS
  Searches,     \* ids of saved searches: ULIDs, which sort by the millisecond of creation
  Docs,         \* document revisions
  Openings,     \* requests for results that may be under way at once
  Matches,      \* [Searches -> SUBSET Docs]: the query, its filters and its owner's ACL
  NotifyBatch,  \* SEARCH_SAVED_NOTIFY_BATCH
  Unpushable,   \* searches whose push Network always refuses
  MaxTime,      \* bound: the clock
  MaxFaults     \* bound: failed pushes and restarts

ASSUME NotifierAssumption ==
  /\ Searches \subseteq Nat
  /\ Matches \in [Searches -> SUBSET Docs]
  /\ NotifyBatch \in Nat \ {0}
  /\ Unpushable \subseteq Searches
  /\ MaxTime \in Nat
  /\ MaxFaults \in Nat

VARIABLES
  clock,
  stamp,      \* indexed_at of each revision, -1 before it is built
  committed,  \* revisions whose transaction has committed
  hidden,     \* revisions replaced or removed since
  saved,      \* saved_searches: created_at, last_run_at (-1 for null), and if it is there
  tick,       \* the tick under way
  open,       \* the requests for results under way
  announced,  \* how often a revision was in a notification that arrived, up to 2
  seen,       \* revisions in results its owner opened
  late,       \* revisions announced by a tick that began before they were indexed
  missed,     \* revisions no query looked for before the watermark passed them, or for nobody
  unshown,    \* revisions an opening passed that were not on the page its owner was shown
  uncovered,  \* revisions a watermark had passed when an opening wrote an earlier one
  faults

told == <<announced, seen, late, missed, unshown, uncovered>>
vars == <<clock, stamp, committed, hidden, saved, tick, open, told, faults>>

NotTicking == [pc |-> "idle", at |-> 0, queue |-> <<>>, hits |-> {}, known |-> {}]
NotOpen ==
  [pc |-> "idle", search |-> 0, known |-> {}, page |-> {}, at |-> 0, overtaken |-> FALSE]

Init ==
  /\ clock = 0
  /\ stamp = [d \in Docs |-> -1]
  /\ committed = {}
  /\ hidden = {}
  /\ saved = [s \in Searches |-> [there |-> FALSE, created |-> -1, last |-> -1]]
  /\ tick = NotTicking
  /\ open = [o \in Openings |-> NotOpen]
  /\ announced = [s \in Searches |-> [d \in Docs |-> 0]]
  /\ seen = [s \in Searches |-> {}]
  /\ late = [s \in Searches |-> {}]
  /\ missed = [s \in Searches |-> {}]
  /\ unshown = [s \in Searches |-> {}]
  /\ uncovered = [s \in Searches |-> {}]
  /\ faults = 0

\* last_run_at, else created_at.
Watermark(s) == IF saved[s].last = -1 THEN saved[s].created ELSE saved[s].last

\* What the query of a search finds that was indexed after `since`.
Hits(s, since) == {d \in (committed \cap Matches[s]) \ hidden : stamp[d] > since}

-----------------------------------------------------------------------------
(* The index underneath. *)

Wait ==
  /\ clock < MaxTime
  /\ clock' = clock + 1
  /\ UNCHANGED <<stamp, committed, hidden, saved, tick, open, told, faults>>

\* rowValues takes indexed_at from the clock inside the transaction.
Stamp(d) ==
  /\ stamp[d] = -1
  /\ stamp' = [stamp EXCEPT ![d] = clock]
  /\ UNCHANGED <<clock, committed, hidden, saved, tick, open, told, faults>>

CommitDoc(d) ==
  /\ stamp[d] # -1 /\ d \notin committed
  /\ committed' = committed \cup {d}
  /\ missed' = [s \in Searches |->
                  IF saved[s].created # -1 /\ stamp[d] <= Watermark(s)
                  THEN missed[s] \cup {d} ELSE missed[s]]
  /\ UNCHANGED <<clock, stamp, hidden, saved, tick, open, announced, seen, late,
                 unshown, uncovered, faults>>

Hide(d) ==
  /\ d \in committed \ hidden
  /\ hidden' = hidden \cup {d}
  /\ UNCHANGED <<clock, stamp, committed, saved, tick, open, told, faults>>

-----------------------------------------------------------------------------
(* The person. *)

\* The id of a search saved later is higher, but within a millisecond they fall as they may.
Save(s) ==
  /\ saved[s].created = -1
  /\ \A r \in Searches : r > s => saved[r].created \in {-1, clock}
  /\ saved' = [saved EXCEPT ![s] = [there |-> TRUE, created |-> clock, last |-> -1]]
  /\ UNCHANGED <<clock, stamp, committed, hidden, tick, open, told, faults>>

Remove(s) ==
  /\ saved[s].there
  /\ saved' = [saved EXCEPT ![s].there = FALSE]
  /\ UNCHANGED <<clock, stamp, committed, hidden, tick, open, told, faults>>

\* GET .../results runs the query, whatever the watermark, for one page of what it finds,
\* by the limit and the cursor of the request. Several requests may be under way at once.
OpenRun(o, s) ==
  /\ open[o].pc = "idle" /\ saved[s].there
  /\ \E page \in SUBSET Hits(s, -1) :
       open' = [open EXCEPT ![o] =
                  [NotOpen EXCEPT !.pc = "run", !.search = s, !.known = committed, !.page = page]]
  /\ UNCHANGED <<clock, stamp, committed, hidden, saved, tick, told, faults>>

\* Then markRun reads the clock ...
OpenClock(o) ==
  /\ open[o].pc = "run"
  /\ open' = [open EXCEPT ![o].pc = "marking", ![o].at = clock]
  /\ UNCHANGED <<clock, stamp, committed, hidden, saved, tick, told, faults>>

\* What passing the watermark to `at` leaves behind: revisions the query could not know.
Passed(s, at, known) == {d \in Docs \ known : stamp[d] \in 0 .. at}

\* The requests about to write a watermark that is written now.
Overtake(s) ==
  [x \in Openings |->
     IF open[x].pc = "marking" /\ open[x].search = s
     THEN [open[x] EXCEPT !.overtaken = TRUE] ELSE open[x]]

\* ... and writes what it read, whatever has been written since. Then the page is sent, which
\* may not arrive.
OpenMark(o, arrives) ==
  LET s == open[o].search
      at == open[o].at
      shown == IF arrives THEN open[o].page ELSE {}
  IN /\ open[o].pc = "marking"
     /\ IF arrives THEN UNCHANGED faults ELSE faults < MaxFaults /\ faults' = faults + 1
     /\ seen' = [seen EXCEPT ![s] = @ \cup shown]
     /\ IF saved[s].there
        THEN /\ saved' = [saved EXCEPT ![s].last = at]
             /\ open' = [Overtake(s) EXCEPT ![o] = NotOpen]
             /\ missed' = [missed EXCEPT ![s] = @ \cup Passed(s, at, open[o].known)]
             /\ unshown' = [unshown EXCEPT ![s] =
                  @ \cup {d \in open[o].known \ shown : stamp[d] > Watermark(s)}]
             /\ uncovered' = [uncovered EXCEPT ![s] =
                  @ \cup {d \in Docs : at < stamp[d] /\ stamp[d] <= Watermark(s)}]
        ELSE open' = [open EXCEPT ![o] = NotOpen] /\ UNCHANGED <<saved, missed, unshown, uncovered>>
     /\ UNCHANGED <<clock, stamp, committed, hidden, tick, announced, late>>

-----------------------------------------------------------------------------
(* The notifier. *)

Before(r, s) == Watermark(r) < Watermark(s) \/ (Watermark(r) = Watermark(s) /\ r < s)
There == {s \in Searches : saved[s].there}

\* due: the searches longest without a run, at most NotifyBatch, each with its watermark.
Due ==
  LET Rank(s) == Cardinality({r \in There : Before(r, s)}) + 1
      n == IF Cardinality(There) < NotifyBatch THEN Cardinality(There) ELSE NotifyBatch
  IN [i \in 1 .. n |-> LET s == CHOOSE x \in There : Rank(x) = i
                       IN [id |-> s, since |-> Watermark(s)]]

\* A tick starts; overlapping calls share the one under way.
StartTick ==
  /\ tick.pc = "idle"
  /\ There # {}
  /\ tick' = [NotTicking EXCEPT !.pc = "run", !.at = clock, !.queue = Due]
  /\ UNCHANGED <<clock, stamp, committed, hidden, saved, open, told, faults>>

\* A tick that finds no saved search is over at once.
NothingSaved == tick.pc = "idle" /\ There = {} /\ UNCHANGED vars

Current == tick.queue[1].id

\* Run the next search as its owner, for what was indexed after the watermark it was read with.
RunSearch ==
  LET hits == Hits(Current, tick.queue[1].since)
  IN /\ tick.pc = "run"
     /\ tick' = [tick EXCEPT !.pc = IF hits = {} THEN "advance" ELSE "push",
                             !.hits = hits, !.known = committed]
     /\ UNCHANGED <<clock, stamp, committed, hidden, saved, open, told, faults>>

NextSearch ==
  IF Len(tick.queue) = 1
  THEN NotTicking
  ELSE [NotTicking EXCEPT !.pc = "run", !.at = tick.at, !.queue = Tail(tick.queue)]

Arrived ==
  [announced EXCEPT ![Current] =
     [d \in Docs |-> IF d \in tick.hits /\ @[d] < 2 THEN @[d] + 1 ELSE @[d]]]

\* Network takes the push.
Sent ==
  /\ tick.pc = "push"
  /\ Current \notin Unpushable
  /\ announced' = Arrived
  /\ late' = [late EXCEPT ![Current] = @ \cup {d \in tick.hits : stamp[d] > tick.at}]
  /\ tick' = [tick EXCEPT !.pc = "advance"]
  /\ UNCHANGED <<clock, stamp, committed, hidden, saved, open, seen, missed, unshown,
                 uncovered, faults>>

\* Network no longer knows the person: nothing is sent, and the watermark moves on.
UnknownPerson ==
  /\ tick.pc = "push"
  /\ faults < MaxFaults
  /\ faults' = faults + 1
  /\ missed' = [missed EXCEPT ![Current] = @ \cup tick.hits]
  /\ tick' = [tick EXCEPT !.pc = "advance"]
  /\ UNCHANGED <<clock, stamp, committed, hidden, saved, open, announced, seen, late,
                 unshown, uncovered>>

FailedAdvances ==
  /\ tick.pc = "push"
  /\ Current \in Unpushable \/ faults < MaxFaults
  /\ faults' = IF Current \in Unpushable THEN faults ELSE faults + 1
  /\ tick' = [tick EXCEPT !.pc = "advance"]
  /\ UNCHANGED <<clock, stamp, committed, hidden, saved, open, told>>
FailedStopsTick ==
  /\ tick.pc = "push"
  /\ Current \in Unpushable \/ faults < MaxFaults
  /\ faults' = IF Current \in Unpushable THEN faults ELSE faults + 1
  /\ tick' = NotTicking
  /\ UNCHANGED <<clock, stamp, committed, hidden, saved, open, told>>

\* The push fails, or only its answer is lost: the next search, this watermark as it was.
Failed ==
  /\ tick.pc = "push"
  /\ \/ Current \in Unpushable /\ UNCHANGED <<announced, faults>>
     \/ /\ faults < MaxFaults
        /\ faults' = faults + 1
        /\ announced' \in {announced, Arrived}
  /\ tick' = NextSearch
  /\ UNCHANGED <<clock, stamp, committed, hidden, saved, open, seen, late, missed, unshown,
                 uncovered>>

AdvancedBackwards(s) == tick.at
\* GREATEST(COALESCE(last_run_at, 0), at)
Advanced(s) == IF saved[s].last > tick.at THEN saved[s].last ELSE tick.at

\* The watermark moves to the tick's start. If an opening has moved it back since the tick
\* read it, the query did not look for what lies between.
Advance ==
  LET s == Current
      overlooked == {d \in Docs : Watermark(s) < stamp[d] /\ stamp[d] <= tick.queue[1].since}
  IN /\ tick.pc = "advance"
     /\ IF saved[s].there
        THEN /\ saved' = [saved EXCEPT ![s].last = Advanced(s)]
             /\ open' = Overtake(s)
             /\ missed' = [missed EXCEPT ![s] =
                             @ \cup Passed(s, tick.at, tick.known) \cup overlooked]
        ELSE UNCHANGED <<saved, open, missed>>
     /\ tick' = NextSearch
     /\ UNCHANGED <<clock, stamp, committed, hidden, announced, seen, late, unshown, uncovered,
                    faults>>

\* The process dies and starts again: the tick is forgotten, and the requests with it.
Restart ==
  /\ tick.pc # "idle" \/ \E o \in Openings : open[o].pc # "idle"
  /\ faults < MaxFaults
  /\ faults' = faults + 1
  /\ tick' = NotTicking
  /\ open' = [o \in Openings |-> NotOpen]
  /\ UNCHANGED <<clock, stamp, committed, hidden, saved, told>>

Work == StartTick \/ RunSearch \/ Sent \/ Failed \/ Advance

Next ==
  \/ Wait
  \/ \E d \in Docs : Stamp(d) \/ CommitDoc(d) \/ Hide(d)
  \/ \E s \in Searches : Save(s) \/ Remove(s) \/ \E o \in Openings : OpenRun(o, s)
  \/ \E o \in Openings : OpenClock(o) \/ \E arrives \in BOOLEAN : OpenMark(o, arrives)
  \/ Work \/ NothingSaved \/ UnknownPerson \/ Restart

Spec == Init /\ [][Next]_vars

\* The interval timer ticks for ever, time passes, and Network answers in the end.
FairSpec == Spec /\ WF_vars(Wait) /\ WF_vars(Work)

-----------------------------------------------------------------------------
\* A watermark never passes a match nobody was told of, however pushes fail, answers are lost,
\* the process restarts and the person opens or deletes the search meanwhile: what it has
\* passed was in a notification that arrived, on a page the person was shown, or - the three
\* ways the code does leave a match behind - could not be found by the query that passed it,
\* was found for a person Network no longer knows, or was found by an opening but not on the
\* page it showed.
NothingPassedOver ==
  \A s \in Searches : saved[s].there =>
    \A d \in (committed \cap Matches[s]) \ hidden :
      stamp[d] > saved[s].created /\ stamp[d] <= Watermark(s)
        => announced[s][d] > 0 \/ d \in seen[s] \cup missed[s] \cup unshown[s]

\* The tick never moves a watermark back: a person who opens the results meanwhile keeps the
\* later time. Only an opening can, to the time it had read before the value it overwrites
\* was written by the tick or by another opening of the same search.
FallsOnlyByOvertakenOpening ==
  [][\A s \in Searches : saved'[s].last < saved[s].last =>
       \E o \in Openings :
         /\ open[o].pc = "marking" /\ open[o].search = s /\ open[o].overtaken
         /\ open'[o].pc = "idle" /\ saved'[s].last = open[o].at]_vars

\* Every match is told of in the end, or left behind in one of those ways, in spite of
\* searches whose push always fails, as long as there are fewer of them than a tick takes.
Told(s, d) ==
  \/ announced[s][d] > 0
  \/ d \in seen[s] \cup missed[s] \cup unshown[s] \cup hidden
  \/ ~saved[s].there
EveryMatchTold ==
  \A s \in Searches \ Unpushable, d \in Docs :
    (d \in committed \cap Matches[s] /\ saved[s].there /\ stamp[d] > saved[s].created)
      ~> Told(s, d)

\* A match is told of again only by a tick that was under way already: without a fault, while
\* the search is there and no opening has moved its watermark back over the match, what is
\* announced a second time was indexed after the tick that announced it had begun, and what
\* the person has been shown is announced only by a tick that had read the watermark before
\* that opening moved it.
ToldAgainOnlyUnderWay ==
  [][\A s \in Searches, d \in Docs :
       announced'[s][d] > announced[s][d] /\ faults = 0 /\ saved[s].there /\ d \notin uncovered[s] =>
         /\ announced[s][d] > 0 => d \in late[s]
         /\ d \in seen[s] => tick.queue[1].since < Watermark(s)]_vars
=============================================================================
