-------------------------------- MODULE Mcp --------------------------------
(***************************************************************************)
(* POST /mcp (server/api/mcp.js): one JSON-RPC message or a batch of them, *)
(* handled one after the other, every tool call taking one unit of the     *)
(* caller's search.fabric budget, which POST and GET /api/v1/query take    *)
(* from as well. The first message that may not go on ends the whole       *)
(* batch: the answers it already has are dropped, the units they took stay *)
(* taken. A 401 answers the request that was refused, a 429 none of them.  *)
(* A tool that throws rejects a handler whose promise nobody waits for:    *)
(* its caller has no answer at all, and Node may end the process.          *)
(*                                                                         *)
(* The limiter (openvibe-sdk/limits) is external: a count an actor and     *)
(* minute, in the memory of the process; its hourly window is left out.    *)
(* Malformed bodies, protocol versions, and tokens that do not verify are  *)
(* answered before anything here begins.                                   *)
(***************************************************************************)
EXTENDS Naturals, FiniteSets, Sequences, Functions

CONSTANTS
  Clients,    \* connections
  Actors,     \* who is counted: a person, or the address of somebody signed out
  Nobody,     \* the actor of a service that speaks for its signed-out visitors
  ActorOf,    \* [Clients -> Actors \cup {Nobody}]
  SignedOut,  \* the clients whose viewer is anonymous
  Rest,       \* the clients that use the query route as well
  Batches,    \* [Clients -> SUBSET Seq(Kind)]: what each client may post
  Minute,     \* SEARCH_LIMITS.minute
  MaxFaults   \* bound: tools that throw, and restarts of the process

\* What a message is. A "labelled" one is a notification that carries an id all the same;
\* "plain" answers without a tool: initialize, ping, tools/list, an unknown method or tool.
Kind == {"invalid", "notification", "labelled", "plain", "mine", "search", "providers"}

ASSUME McpAssumption ==
  /\ Nobody \notin Actors
  /\ ActorOf \in [Clients -> Actors \cup {Nobody}]
  /\ SignedOut \subseteq Clients /\ Rest \subseteq Clients
  /\ Batches \in [Clients -> SUBSET (Seq(Kind) \ {<<>>})]
  /\ Minute \in Nat \ {0}
  /\ MaxFaults \in Nat

VARIABLES
  post,    \* [Clients -> the request under way, or the last one's answer]
  used,    \* [Actors -> units taken this minute]
  runs,    \* [Actors -> fabric runs this process began this minute], for the properties
  faults

vars == <<post, used, runs, faults>>

NoPost == [pc |-> "idle", batch |-> <<>>, at |-> 1, responses |-> <<>>, status |-> 0]

Init ==
  /\ post = [c \in Clients |-> NoPost]
  /\ used = [a \in Actors |-> 0]
  /\ runs = [a \in Actors |-> 0]
  /\ faults = 0

Message(c) == post[c].batch[post[c].at]

-----------------------------------------------------------------------------
\* A 429 says when to send the batch again.
TryAgain == {429}

\* A client that has its answer, or has given up waiting for one, posts another batch.
Post(c, batch) ==
  /\ post[c].pc \in {"idle", "answered", "unanswered"} /\ post[c].status \notin TryAgain
  /\ post' = [post EXCEPT ![c] = [NoPost EXCEPT !.pc = "handling", !.batch = batch]]
  /\ UNCHANGED <<used, runs, faults>>

\* The HTTP answer: a 200 carries the responses so far, a 401 an error for the request at
\* hand, anything else no response.
Answered(p, status) ==
  [p EXCEPT !.pc = "answered", !.status = status,
            !.responses = CASE status = 200 -> p.responses
                            [] status = 401 -> <<p.at>>
                            [] OTHER -> <<>>]

\* The next message, or the answer: 202 when there is nothing to say.
Onward(p) ==
  CASE p.at < Len(p.batch) -> [p EXCEPT !.pc = "handling", !.at = @ + 1]
    [] p.at = Len(p.batch) /\ p.responses = <<>> -> Answered(p, 202)
    [] OTHER -> Answered(p, 200)

\* responses.push: a request is known by its place in the batch.
WithResponse(p) == [p EXCEPT !.responses = Append(p.responses, p.at)]

Handling(c, kinds) == post[c].pc = "handling" /\ Message(c) \in kinds
Tool == {"mine", "search", "providers"}

\* A variant with a plausible fault: the properties have to notice it.
UnlabelledNotification == {"notification"}
\* A message without an id, or whose method is notifications/...: it has no response.
Notification == {"notification", "labelled"}

Note(c) ==
  /\ Handling(c, Notification)
  /\ post' = [post EXCEPT ![c] = Onward(@)]
  /\ UNCHANGED <<used, runs, faults>>

\* An answer that takes no unit: a result, or a JSON-RPC error.
Plain(c) ==
  /\ Handling(c, Kind \ (Tool \cup Notification))
  /\ post' = [post EXCEPT ![c] = Onward(WithResponse(@))]
  /\ UNCHANGED <<used, runs, faults>>

\* Somebody signed out asks for their own documents: 401 and an error that carries the id of
\* that request, before a unit is taken.
Unauthorized(c) ==
  /\ Handling(c, {"mine"}) /\ c \in SignedOut
  /\ post' = [post EXCEPT ![c] = Answered(@, 401)]
  /\ UNCHANGED <<used, runs, faults>>

MayCall(c) == Handling(c, Tool) /\ ~(Message(c) = "mine" /\ c \in SignedOut)

OverLimit(c) == ActorOf[c] # Nobody /\ used[ActorOf[c]] >= Minute
Unit(c) == used' = IF ActorOf[c] = Nobody THEN used ELSE [used EXCEPT ![ActorOf[c]] = @ + 1]
Runs(c) == runs' = IF ActorOf[c] = Nobody THEN runs ELSE [runs EXCEPT ![ActorOf[c]] = @ + 1]

FirstCallTakes(c) == \A i \in 1 .. post[c].at - 1 : post[c].batch[i] \notin Tool
\* Every call of a batch takes a unit of its own.
Takes(c) == TRUE

\* takeBudget lets the call through, and the tool runs.
TakeBudget(c) ==
  /\ MayCall(c)
  /\ Takes(c) => ~OverLimit(c)
  /\ IF Takes(c) THEN Unit(c) ELSE UNCHANGED used
  /\ Runs(c)
  /\ post' = [post EXCEPT ![c].pc = "running"]
  /\ UNCHANGED faults

\* A variant with a plausible fault: the limiter answers by itself and takeBudget never settles.
Unsettled(c) == [post[c] EXCEPT !.pc = "waiting"]
\* Its 429 becomes the answer of the whole batch.
Limited(c) == Answered(post[c], 429)
Refuse(c) ==
  /\ MayCall(c) /\ Takes(c) /\ OverLimit(c)
  /\ post' = [post EXCEPT ![c] = Limited(c)]
  /\ UNCHANGED <<used, runs, faults>>

\* The tool answers; a bad query is an answer too.
ToolAnswers(c) ==
  /\ post[c].pc = "running"
  /\ post' = [post EXCEPT ![c] = Onward(WithResponse(@))]
  /\ UNCHANGED <<used, runs, faults>>

\* No answer is ever written: the client waits until it or a proxy gives up.
Unanswered(p) == [p EXCEPT !.pc = "unanswered", !.responses = <<>>]

Fault == faults < MaxFaults /\ faults' = faults + 1

\* The fabric throws. The handler is asynchronous and its rejection is nobody's: withMcpViewer
\* returns the promise to Express 4, which does not look at it.
ToolThrows(c) ==
  /\ post[c].pc = "running"
  /\ Fault
  /\ post' = [post EXCEPT ![c] = Unanswered(@)]
  /\ UNCHANGED <<used, runs>>

\* The process ends, which is also what Node does about a rejection that is nobody's, and
\* systemd starts another: whatever was under way is lost, and so are the counters.
Restart ==
  /\ Fault
  /\ post' = [c \in Clients |->
                IF post[c].pc \in {"handling", "running"} THEN Unanswered(post[c]) ELSE post[c]]
  /\ used' = [a \in Actors |-> 0]
  /\ runs' = [a \in Actors |-> 0]

\* The query route of the same caller: one unit, one run; a 429 changes nothing.
RestQuery(c) ==
  /\ ~OverLimit(c)
  /\ Unit(c) /\ Runs(c)
  /\ UNCHANGED <<post, faults>>

\* After a 429 it waits for Retry-After: the minute in which its actor used up its units.
Retry(c) ==
  /\ post[c].status \in TryAgain
  /\ post[c].status = 429 => ~OverLimit(c)
  /\ post' = [post EXCEPT ![c] = [NoPost EXCEPT !.pc = "handling", !.batch = post[c].batch]]
  /\ UNCHANGED <<used, runs, faults>>

NextMinute(a) ==
  /\ used[a] > 0
  /\ used' = [used EXCEPT ![a] = 0]
  /\ runs' = [runs EXCEPT ![a] = 0]
  /\ UNCHANGED <<post, faults>>

Handle(c) ==
  Note(c) \/ Plain(c) \/ Unauthorized(c) \/ TakeBudget(c) \/ Refuse(c) \/ ToolAnswers(c)

Next ==
  \/ \E c \in Clients :
       \/ \E batch \in Batches[c] : Post(c, batch)
       \/ Handle(c) \/ ToolThrows(c) \/ Retry(c)
  \/ \E c \in Rest : RestQuery(c)
  \/ \E a \in Actors : NextMinute(a)
  \/ Restart

\* A message is handled and a tool answers in the end, minutes pass, and clients do retry.
Fairness ==
  /\ \A c \in Clients : WF_vars(Handle(c) \/ Retry(c))
  /\ \A a \in Actors : WF_vars(NextMinute(a))

Spec == Init /\ [][Next]_vars
FairSpec == Spec /\ Fairness

-----------------------------------------------------------------------------
\* No actor begins more fabric runs in a minute of one process's life than it is allowed,
\* however its calls are spread over batches, connections and the query route, and though a
\* batch that is refused or fails halfway takes nothing back. (A restart forgets the counters.)
WithinBudget == \A a \in Actors : runs[a] <= Minute

\* An answer of 200 answers every request of the batch, once, in their order, and no
\* notification; 202 says that the batch had none. Of a batch that is cut short a 401 answers
\* the one request that needs a person, a 429 none: no client takes a part of a batch for the
\* whole, nor one request's refusal for another's.
Asked(batch) == {i \in DOMAIN batch : batch[i] \notin {"notification", "labelled"}}
InOrder(responses, asked) ==
  /\ Range(responses) = asked
  /\ \A i, j \in DOMAIN responses : i < j => responses[i] < responses[j]
Right(p) ==
  CASE p.status = 200 -> Asked(p.batch) # {} /\ InOrder(p.responses, Asked(p.batch))
    [] p.status = 202 -> Asked(p.batch) = {}
    [] p.status = 401 -> \E i \in Asked(p.batch) : p.batch[i] = "mine" /\ p.responses = <<i>>
    [] OTHER -> p.responses = <<>>
AnswersMatch == \A c \in Clients : post[c].pc = "answered" => Right(post[c])

\* A client that shares its budget with nobody, and waits as a 429 tells it, gets an answer
\* to every batch that calls no more tools than a minute allows, unless a tool throws or the
\* process ends meanwhile: what an earlier try has spent on answers that were dropped does not
\* keep it from its answer. (Two clients of one actor may refuse each other for ever.)
Alone(c) ==
  \/ ActorOf[c] = Nobody
  \/ c \notin Rest /\ \A d \in Clients \ {c} : ActorOf[d] # ActorOf[c]
Fits(c) ==
  Cardinality({i \in DOMAIN post[c].batch : post[c].batch[i] \in Tool}) <= Minute
AnsweredInTheEnd ==
  \A c \in Clients : Alone(c) =>
    ((post[c].pc = "handling" /\ (Fits(c) \/ ActorOf[c] = Nobody)) ~>
       \/ post[c].pc = "answered" /\ post[c].status \notin TryAgain
       \/ post[c].pc = "unanswered")
=============================================================================
