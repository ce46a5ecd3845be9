------------------------------- MODULE Fabric -------------------------------
(***************************************************************************)
(* A whole request of the Search Fabric (server/fabric/index.js query):    *)
(* its scopes run in parallel, the web scope being the ladder of           *)
(* WebLadder and every other one a search of the index, and are put        *)
(* together when all of them have answered. A scope that throws refuses    *)
(* the request at once (Promise.all); the others are not stopped, so its   *)
(* ladder goes on, an orphan, and may still make its paid call.            *)
(*                                                                         *)
(* Web pages are their URLs, in the order they were merged; the results of *)
(* the other scopes are counted. The next_cursor and the citations of an   *)
(* answer are left out, and so is a service that speaks for nobody: it may *)
(* pay, but has no documents of its own.                                   *)
(***************************************************************************)
EXTENDS WebLadder, Sequences, SequencesExt

CONSTANTS
  Requests,   \* what each caller may ask
  Lets,       \* [Questions -> SUBSET Urls]: the pages the question's site and freshness let through
  MaxResults, \* MAX_RESULTS
  MaxRead     \* bound: results of one search of the index

Scope == {"network", "mine", "web", "news", "images"}
Body ==
  [scopes : Seq(Scope), q : Questions, person : BOOLEAN, depth : {"quick", "standard", "deep"},
   limit : Limits, badCursor : BOOLEAN]

ASSUME FabricAssumption ==
  /\ Requests \in [Callers -> SUBSET Body]
  /\ \A c \in Callers : \A r \in Requests[c] : r.scopes # <<>> /\ IsInjective(r.scopes)
  /\ Lets \in [Questions -> SUBSET Urls]
  /\ MaxResults \in Nat \ {0}
  /\ MaxRead \in Nat

VARIABLES
  fab,   \* the request of each caller around its ladder
  bill   \* paid answers the ladder of each caller has bought, less those reported to it

fabricVars == <<vars, fab, bill>>

Running == -1
\* merged: the web pages found so far; open: how many of them the open index found; bought:
\* what the paid answer brought that the ladder bought; cost: the sum of the rows so far.
NoFab == [pc |-> "idle", scopes |-> <<>>, badCursor |-> FALSE, read |-> <<>>,
          merged |-> <<>>, open |-> 0, bought |-> {}, cost |-> 0]

FabricInit == Init /\ fab = [c \in Callers |-> NoFab] /\ bill = [c \in Callers |-> 0]

HasWeb(c) == Contains(fab[c].scopes, "web")
Ladder(c) == req[c].pc \notin {"idle", "done"}

-----------------------------------------------------------------------------
\* Nothing is indexed for images, and nobody signed out has documents of their own: such a
\* scope is empty at once.
Searches(r, s) == s # "images" /\ (s = "mine" => r.person)

\* A request comes in, every scope of it is started.
Query(c, r) ==
  /\ fab[c].pc = "idle" /\ req[c].pc = "idle"
  /\ fab' = [fab EXCEPT ![c] =
               [NoFab EXCEPT !.pc = "running", !.scopes = r.scopes, !.badCursor = r.badCursor,
                             !.read = [s \in Range(r.scopes) \ {"web"} |->
                                         IF Searches(r, s) THEN Running ELSE 0]]]
  /\ IF Contains(r.scopes, "web")
     THEN Ask(c, r.q, r.person, r.depth, r.limit) ELSE UNCHANGED vars
  /\ UNCHANGED bill

\* runNetwork, runMine, runVertical: some results, as many as the freshness filter lets through.
ReadIndex(c, s, n) ==
  /\ fab[c].pc = "running" /\ s # "web"
  /\ fab[c].read[s] = Running
  /\ ~(fab[c].badCursor /\ s \in {"network", "mine"})
  /\ fab' = [fab EXCEPT ![c].read[s] = n]
  /\ UNCHANGED <<vars, bill>>

\* The request is refused: it is over, or waits for nobody while its ladder goes on.
Refuse(c) ==
  /\ IF req[c].pc = "done" THEN Finish(c) ELSE UNCHANGED vars
  /\ fab' = [fab EXCEPT ![c] = IF Ladder(c) THEN [@ EXCEPT !.pc = "refused"] ELSE NoFab]
  /\ bill' = IF Ladder(c) THEN bill ELSE [bill EXCEPT ![c] = 0]

\* The cursor is of another query.
RefuseCursor(c) ==
  /\ fab[c].pc = "running" /\ fab[c].badCursor
  /\ \E s \in DOMAIN fab[c].read : s \in {"network", "mine"} /\ fab[c].read[s] = Running
  /\ Refuse(c)

\* The database fails a scope's search.
RefuseFault(c) ==
  /\ fab[c].pc = "running"
  /\ \E s \in DOMAIN fab[c].read : fab[c].read[s] = Running
  /\ Refuse(c)

\* ... or one of the ladder's: the orphan of a refused request just ends.
LadderFails(c) ==
  /\ Fail(c)
  /\ fab' = [fab EXCEPT ![c] = NoFab]
  /\ bill' = [bill EXCEPT ![c] = 0]

-----------------------------------------------------------------------------
(* What the ladder's explain rows say. *)

Bought(c) == Paid(req[c].step) /\ req[c].answer \notin {NoAnswer, {}}

\* A variant with a plausible fault: the properties have to notice it.
RowCostAlsoCached(c) == IF Paid(req[c].step) /\ req'[c].found # req[c].found THEN 1 ELSE 0

\* cost_usd of a step's row: 0 for a cached answer, none for a failed call.
RowCost(c) == IF req[c].pc = "store" /\ Bought(c) THEN 1 ELSE 0

\* A step of the ladder is over: what it found and nobody had found before it (`add`) is put
\* behind the pages found so far, in the order it came, and its row says what it cost.
Ends(c) == req[c].pc = "open" \/ req'[c].step # req[c].step \/ req'[c].pc = "done"
Merged(c) ==
  LET new == req'[c].found \ req[c].found
  IN \E pages \in Bijection(1 .. Cardinality(new), new) :
       fab' = [fab EXCEPT ![c].merged = @ \o pages,
                          ![c].open = IF req[c].pc = "open" THEN Cardinality(new) ELSE @,
                          ![c].bought = IF RowCost(c) > 0 THEN req[c].answer ELSE @,
                          ![c].cost = @ + RowCost(c)]

\* The ladder takes a step.
ClimbOn(c) ==
  /\ Climb(c)
  /\ IF Ends(c) THEN Merged(c) ELSE UNCHANGED fab
  /\ bill' = IF req[c].pc = "call" /\ Paid(req[c].step) /\ req'[c].answer \notin {NoAnswer, {}}
             THEN [bill EXCEPT ![c] = @ + 1] ELSE bill

\* The cache cannot be read: a step that may not go on is over, and has found nothing.
ClimbUnread(c) ==
  /\ CacheUnread(c)
  /\ UNCHANGED <<fab, bill>>
ClimbUnstored(c) ==
  /\ StoreFails(c)
  /\ Merged(c)
  /\ UNCHANGED bill

-----------------------------------------------------------------------------
(* The answer. *)

\* runWeb's merged.slice(0, limit), and what the freshness and site filters leave of it.
Kept(c) == {i \in DOMAIN fab[c].merged : i <= req[c].limit}
Passes(c) == {i \in Kept(c) : fab[c].merged[i] \in Lets[req[c].q]}

\* What the scopes asked for before the web put in front of its pages, of each of them
\* MaxResults at most.
Position(c) == CHOOSE i \in DOMAIN fab[c].scopes : fab[c].scopes[i] = "web"
InFront(c) ==
  Cardinality({nth \in (1 .. Position(c) - 1) \X (1 .. MaxResults) :
                 nth[2] <= fab[c].read[fab[c].scopes[nth[1]]]})

\* The web pages of the answer: results.slice(0, MAX_RESULTS), the filters' work done.
Shown(c) ==
  {i \in Passes(c) : InFront(c) + Cardinality({j \in Passes(c) : j < i}) < MaxResults}

Ready(c) ==
  /\ fab[c].pc = "running"
  /\ \A s \in DOMAIN fab[c].read : fab[c].read[s] # Running
  /\ HasWeb(c) => req[c].pc = "done"

\* route.cost_usd is the sum of the rows.
Reply(c) ==
  /\ Ready(c)
  /\ bill' = [bill EXCEPT ![c] = @ - fab[c].cost]
  /\ fab' = [fab EXCEPT ![c] = NoFab]
  /\ IF HasWeb(c) THEN Finish(c) ELSE UNCHANGED vars

\* The ladder of a refused request ends; nobody hears what it cost.
OrphanEnds(c) ==
  /\ fab[c].pc = "refused"
  /\ Finish(c)
  /\ fab' = [fab EXCEPT ![c] = NoFab]
  /\ bill' = [bill EXCEPT ![c] = 0]

FabricCrash ==
  /\ Crash
  /\ fab' = [c \in Callers |-> NoFab]
  /\ bill' = [c \in Callers |-> 0]

Elsewhere == (Midnight \/ \E k \in Key : Expire(k)) /\ UNCHANGED <<fab, bill>>

FabricNext ==
  \/ \E c \in Callers :
       \/ \E r \in Requests[c] : Query(c, r)
       \/ \E s \in DOMAIN fab[c].read, n \in 0 .. MaxRead : ReadIndex(c, s, n)
       \/ RefuseCursor(c) \/ RefuseFault(c)
       \/ LadderFails(c) \/ ClimbOn(c) \/ ClimbUnread(c) \/ ClimbUnstored(c)
       \/ Reply(c) \/ OrphanEnds(c)
  \/ Elsewhere \/ FabricCrash

FabricSpec == FabricInit /\ [][FabricNext]_fabricVars

-----------------------------------------------------------------------------
\* Every paid answer is reported in the cost of the very request that bought it, once; an
\* answer of the cache costs nothing. Only a request that was refused, or cut off, buys without
\* saying so: the sum of an answer's rows is what its own ladder bought.
CostReported ==
  \A c \in Callers :
    /\ bill[c] = fab[c].cost + IF req[c].pc \in {"record", "store"} /\ Bought(c) THEN 1 ELSE 0
    /\ fab[c].pc = "idle" => bill[c] = 0

\* A request pays only while its answer has room, unless it is deep; and of what it paid for
\* a page is then in its answer, unless the filters drop all of it that the limit had kept, or
\* the scopes asked for before the web leave no room for what it asked of the web. Only a deep
\* request may pay for pages that its limit cuts off.
PaidIsShown ==
  \A c \in Callers :
    LET full == fab[c].open >= req[c].limit
        paidFor == {i \in Kept(c) : fab[c].merged[i] \in fab[c].bought}
    IN (Ready(c) /\ HasWeb(c) /\ fab[c].cost > 0) =>
         /\ full => req[c].depth = "deep"
         /\ ~full => /\ paidFor # {}
                     /\ \/ paidFor \cap Shown(c) # {}
                        \/ paidFor \cap Passes(c) = {}
                        \/ InFront(c) + req[c].limit > MaxResults
=============================================================================
