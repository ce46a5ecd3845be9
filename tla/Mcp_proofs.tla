---------------------------- MODULE Mcp_proofs ----------------------------
(***************************************************************************)
(* Proofs about Mcp, for any clients, actors, batches and budget: nobody   *)
(* runs more tools in a minute of one process's life than allowed, and an  *)
(* answer of 200 or 202 is the whole answer to its batch, one of 401 the   *)
(* answer to the one request it refuses.                                   *)
(***************************************************************************)
EXTENDS Mcp, TLAPS

-----------------------------------------------------------------------------
(* The inductive invariant. *)

PostType ==
  [pc : {"idle", "handling", "running", "answered", "unanswered"}, batch : Seq(Kind), at : Nat,
   responses : Seq(Nat), status : Nat]

\* A unit is taken for each run, and only while there is one.
Budget ==
  /\ used \in [Actors -> Nat] /\ runs \in [Actors -> Nat]
  /\ \A a \in Actors : runs[a] <= used[a] /\ used[a] <= Minute

\* The requests of a batch that come before its message n.
Before(batch, n) == {i \in Asked(batch) : i < n}

\* While a batch is handled its requests so far have their answers; a tool runs for a request;
\* and what is posted is never empty.
Progress(p) ==
  /\ p.pc # "idle" => Len(p.batch) > 0
  /\ p.pc # "answered" => p.status = 0
  /\ p.pc \in {"handling", "running"} =>
       p.at \in 1 .. Len(p.batch) /\ InOrder(p.responses, Before(p.batch, p.at))
  /\ p.pc = "running" => p.batch[p.at] \in Tool
  /\ p.pc = "answered" => Right(p)

McpInv ==
  /\ Budget
  /\ post \in [Clients -> PostType]
  /\ \A c \in Clients : Progress(post[c])

-----------------------------------------------------------------------------
(* The answers of a batch. *)

\* The answer to the message at hand comes after those before it.
LEMMA AppendInOrder ==
  ASSUME NEW batch \in Seq(Kind), NEW at \in 1 .. Len(batch), NEW responses \in Seq(Nat),
         InOrder(responses, Before(batch, at)), at \in Asked(batch)
  PROVE  /\ Append(responses, at) \in Seq(Nat)
         /\ InOrder(Append(responses, at), Before(batch, at + 1))
<1> DEFINE r == Append(responses, at)
           n == Len(responses)
<1>1. /\ n \in Nat /\ DOMAIN responses = 1 .. n /\ r \in Seq(Nat) /\ DOMAIN r = 1 .. n + 1
      /\ r[n + 1] = at /\ \A i \in 1 .. n : r[i] = responses[i]
      /\ \A i \in 1 .. n + 1 : i \in 1 .. n \/ i = n + 1
  OBVIOUS
<1>2. /\ \A i \in 1 .. n : responses[i] \in Before(batch, at)
      /\ \A x \in Before(batch, at) : \E i \in 1 .. n : responses[i] = x
      /\ \A i, j \in 1 .. n : i < j => responses[i] < responses[j]
  BY <1>1 DEF InOrder, Range
<1>3. Before(batch, at + 1) = Before(batch, at) \cup {at}
  <2>1. \A i \in Asked(batch) : i \in Nat
    BY DEF Asked
  <2>2. ASSUME NEW i \in Asked(batch) PROVE i < at + 1 <=> i < at \/ i = at
    BY <2>1
  <2> QED
    BY <2>2 DEF Before
<1>4. \A x \in Before(batch, at) : x < at
  BY DEF Before
<1> HIDE DEF r, n
<1>5. \A i \in 1 .. n : i \in 1 .. n + 1
  BY <1>1
<1>6. n + 1 \in 1 .. n + 1
  BY <1>1
<1>7. Range(r) = Before(batch, at + 1)
  <2>1. \A i \in 1 .. n + 1 : r[i] \in Before(batch, at) \cup {at}
    BY <1>1, <1>2
  <2>2. ASSUME NEW x \in Before(batch, at) \cup {at}
        PROVE  \E i \in 1 .. n + 1 : r[i] = x
    BY <1>1, <1>2, <1>5, <1>6
  <2>3. Range(r) = {r[i] : i \in 1 .. n + 1}
    BY <1>1 DEF Range
  <2>4. Range(r) = Before(batch, at) \cup {at}
    BY <2>1, <2>2, <2>3
  <2> QED
    BY <1>3, <2>4
<1>8. ASSUME NEW i \in DOMAIN r, NEW j \in DOMAIN r, i < j PROVE r[i] < r[j]
  <2>1. i \in 1 .. n
    BY <1>1, <1>8
  <2>2. CASE j \in 1 .. n
    BY <1>1, <1>2, <1>8, <2>1, <2>2
  <2>3. CASE j = n + 1
    BY <1>1, <1>2, <1>4, <2>1, <2>3
  <2> QED
    BY <1>1, <2>2, <2>3
<1> QED
  BY <1>1, <1>7, <1>8 DEF InOrder, r

\* The request that goes on, and the one that is answered.
Moved(p, n) == [p EXCEPT !.pc = "handling", !.at = n]
Ended(p, status, responses) ==
  [p EXCEPT !.pc = "answered", !.status = status, !.responses = responses]

\* Once the message at hand is dealt with, Onward goes to the next, or gives the whole answer.
LEMMA OnwardKeeps ==
  ASSUME NEW p \in PostType
  PROVE  /\ p.at \in 1 .. Len(p.batch) /\ p.status = 0
         /\ InOrder(p.responses, Before(p.batch, p.at + 1))
         => Onward(p) \in PostType /\ Progress(Onward(p))
<1> DEFINE at == p.at + 1
           nothing == <<>>
           next == Moved(p, at)
           all == Ended(p, 200, p.responses)
           none == Ended(p, 202, nothing)
<1>2. Onward(p) = CASE p.at < Len(p.batch) -> next
                    [] p.at = Len(p.batch) /\ p.responses = <<>> -> none
                    [] OTHER -> all
  BY DEF Onward, Answered, Moved, Ended
<1>3. /\ next \in PostType /\ next.pc = "handling" /\ next.at = p.at + 1
      /\ next.batch = p.batch /\ next.responses = p.responses /\ next.status = p.status
  <2>1. at \in Nat
    BY DEF PostType
  <2>2. at = p.at + 1
    OBVIOUS
  <2> HIDE DEF at
  <2>3. next \in PostType
    BY <2>1 DEF Moved, PostType
  <2>4. /\ next.pc = "handling" /\ next.at = at
        /\ next.batch = p.batch /\ next.responses = p.responses /\ next.status = p.status
    BY DEF Moved, PostType
  <2> QED
    BY <2>2, <2>3, <2>4
<1>4. /\ all \in PostType /\ all.pc = "answered" /\ all.status = 200
      /\ all.batch = p.batch /\ all.responses = p.responses
  <2>1. all \in PostType
    BY DEF Ended, PostType
  <2>2. /\ all.pc = "answered" /\ all.status = 200 /\ all.batch = p.batch
        /\ all.responses = p.responses
    BY DEF Ended, PostType
  <2> QED
    BY <2>1, <2>2
<1>5. none \in PostType /\ none.pc = "answered" /\ none.status = 202 /\ none.batch = p.batch
  <2>1. nothing \in Seq(Nat)
    OBVIOUS
  <2> HIDE DEF nothing
  <2>2. none \in PostType
    BY <2>1 DEF Ended, PostType
  <2>3. none.pc = "answered" /\ none.status = 202 /\ none.batch = p.batch
    BY DEF Ended, PostType
  <2> QED
    BY <2>2, <2>3
<1> HIDE DEF at, nothing, next, all, none
<1>10. SUFFICES ASSUME p.at \in 1 .. Len(p.batch), p.status = 0,
                       InOrder(p.responses, Before(p.batch, p.at + 1))
                PROVE  Onward(p) \in PostType /\ Progress(Onward(p))
  OBVIOUS
<1>1. /\ p.at \in Nat /\ Len(p.batch) \in Nat /\ Len(p.batch) > 0
      /\ p.batch \in Seq(Kind) /\ p.responses \in Seq(Nat)
  BY <1>10 DEF PostType
<1>6. CASE p.at < Len(p.batch)
  <2>1. Onward(p) = next /\ p.at + 1 \in 1 .. Len(p.batch)
    BY <1>1, <1>2, <1>6
  <2>2. Progress(next)
    BY <1>1, <1>3, <1>10, <2>1 DEF Progress
  <2> QED
    BY <1>3, <2>1, <2>2
<1>7. ASSUME p.at = Len(p.batch)
      PROVE  InOrder(p.responses, Asked(p.batch))
  <2>1. ASSUME NEW i \in Asked(p.batch) PROVE i < p.at + 1
    BY <1>1, <1>7 DEF Asked
  <2>2. Before(p.batch, p.at + 1) = Asked(p.batch)
    BY <2>1 DEF Before
  <2> QED
    BY <1>10, <2>2
<1>8. CASE p.at = Len(p.batch) /\ p.responses = <<>>
  <2>1. Onward(p) = none
    BY <1>1, <1>2, <1>8
  <2>2. Asked(p.batch) = {}
    BY <1>7, <1>8 DEF InOrder, Range
  <2>3. Right(none)
    BY <1>5, <2>2 DEF Right
  <2>4. Progress(none)
    BY <1>1, <1>5, <2>3 DEF Progress
  <2> QED
    BY <1>5, <2>1, <2>4
<1>9. CASE p.at = Len(p.batch) /\ p.responses # <<>>
  <2>1. Onward(p) = all
    BY <1>1, <1>2, <1>9
  <2>2. 1 \in DOMAIN p.responses
    BY <1>1, <1>9
  <2>3. Asked(p.batch) # {}
    BY <1>7, <1>9, <2>2 DEF InOrder, Range
  <2>4. Right(all)
    BY <1>4, <1>7, <1>9, <2>3 DEF Right
  <2>5. Progress(all)
    BY <1>1, <1>4, <2>4 DEF Progress
  <2> QED
    BY <1>4, <2>1, <2>5
<1>11. p.at < Len(p.batch) \/ p.at = Len(p.batch)
  BY <1>1, <1>10
<1> QED
  BY <1>6, <1>8, <1>9, <1>11

\* An answer that cuts a batch short is right: a 401 names the request at hand, and no other
\* carries a response.
LEMMA CutShort ==
  ASSUME NEW p \in PostType, p.at \in 1 .. Len(p.batch), NEW status \in {401, 429},
         status = 401 => p.batch[p.at] = "mine"
  PROVE  Answered(p, status) \in PostType /\ Progress(Answered(p, status))
<1> DEFINE said == IF status = 401 THEN <<p.at>> ELSE <<>>
           f == Ended(p, status, said)
<1>1. status # 200 /\ status # 202 /\ status # 0 /\ status \in Nat
  OBVIOUS
<1>2. Answered(p, status) = f
  BY <1>1 DEF Answered, Ended
<1>3. said \in Seq(Nat) /\ p.at \in Nat /\ p.batch \in Seq(Kind)
  BY DEF PostType
<1>4. status = 401 => said = <<p.at>>
  OBVIOUS
<1>5. status # 401 => said = <<>>
  OBVIOUS
<1> HIDE DEF said
<1>6. f \in PostType
  BY <1>1, <1>3 DEF Ended, PostType
<1>7. f.pc = "answered" /\ f.status = status /\ f.batch = p.batch /\ f.responses = said
  BY DEF Ended, PostType
<1> HIDE DEF f
<1>8. ASSUME status = 401 PROVE p.at \in Asked(p.batch)
  BY <1>3, <1>8 DEF Asked
<1>9. Right(f)
  BY <1>1, <1>4, <1>5, <1>7, <1>8 DEF Right
<1>10. Len(f.batch) > 0
  BY <1>3, <1>7
<1> QED
  BY <1>2, <1>6, <1>7, <1>9, <1>10 DEF Progress

\* A request that is given up says nothing.
LEMMA GivenUp ==
  ASSUME NEW p \in PostType, p.status = 0, Len(p.batch) > 0
  PROVE  Unanswered(p) \in PostType /\ Progress(Unanswered(p))
<1> DEFINE nothing == <<>>
           f == [p EXCEPT !.pc = "unanswered", !.responses = nothing]
<1>1. Unanswered(p) = f /\ nothing \in Seq(Nat)
  BY DEF Unanswered
<1> HIDE DEF nothing
<1>2. f \in PostType
  BY <1>1 DEF PostType
<1>3. f.pc = "unanswered" /\ f.status = 0 /\ f.batch = p.batch
  BY DEF PostType
<1> HIDE DEF f
<1> QED
  BY <1>1, <1>2, <1>3 DEF Progress

\* A batch is posted, or posted again.
LEMMA Posted ==
  ASSUME NEW batch \in Seq(Kind), batch # <<>>
  PROVE  LET f == [NoPost EXCEPT !.pc = "handling", !.batch = batch]
         IN  f \in PostType /\ Progress(f)
<1> DEFINE f == [NoPost EXCEPT !.pc = "handling", !.batch = batch]
<1>1. /\ f \in PostType /\ f.pc = "handling" /\ f.batch = batch /\ f.at = 1
      /\ f.responses = <<>> /\ f.status = 0
  <2> DEFINE nothing == <<>>
             none == [pc |-> "idle", batch |-> nothing, at |-> 1, responses |-> nothing,
                      status |-> 0]
  <2>1. NoPost = none /\ nothing \in Seq(Nat) /\ nothing \in Seq(Kind)
    BY DEF NoPost
  <2>2. nothing = <<>>
    OBVIOUS
  <2> HIDE DEF nothing
  <2>3. f = [none EXCEPT !.pc = "handling", !.batch = batch]
    BY <2>1
  <2>4. none \in PostType /\ none.at = 1 /\ none.responses = nothing /\ none.status = 0
    BY <2>1 DEF PostType
  <2> HIDE DEF none, f
  <2>5. f \in PostType
    BY <2>3, <2>4 DEF PostType
  <2>6. /\ f.pc = "handling" /\ f.batch = batch /\ f.at = none.at
        /\ f.responses = none.responses /\ f.status = none.status
    BY <2>3, <2>4 DEF PostType
  <2> QED
    BY <2>2, <2>4, <2>5, <2>6
<1>2. Len(batch) \in Nat /\ Len(batch) > 0
  OBVIOUS
<1>3. Before(batch, 1) = {}
  <2>1. ASSUME NEW i \in Asked(batch) PROVE ~(i < 1)
    BY <1>2 DEF Asked
  <2> QED
    BY <2>1 DEF Before
<1>4. InOrder(<<>>, Before(batch, 1))
  BY <1>3 DEF InOrder, Range
<1> HIDE DEF f
<1>5. Progress(f)
  BY <1>1, <1>2, <1>4 DEF Progress
<1> QED
  BY <1>1, <1>5 DEF f

-----------------------------------------------------------------------------
(* The steps. *)

\* A step that leaves one client with a request in order, and the budget kept.
LEMMA PostStep ==
  ASSUME McpInv, NEW c \in Clients, NEW q \in PostType, Progress(q), Budget',
         post' = [post EXCEPT ![c] = q]
  PROVE  McpInv'
<1>1. post \in [Clients -> PostType] /\ \A d \in Clients : Progress(post[d])
  BY DEF McpInv
<1>2. post' \in [Clients -> PostType] /\ \A d \in Clients : post'[d] = IF d = c THEN q ELSE post[d]
  BY <1>1
<1>3. \A d \in Clients : Progress(post'[d])
  BY <1>1, <1>2
<1> QED
  BY <1>2, <1>3 DEF McpInv

LEMMA BudgetStays ==
  ASSUME Budget, UNCHANGED <<used, runs>>
  PROVE  Budget'
BY DEF Budget

\* What is known of a request under way.
LEMMA UnderWay ==
  ASSUME McpInv, NEW c \in Clients
  PROVE  LET p == post[c]
         IN  /\ p \in PostType /\ p.batch \in Seq(Kind) /\ p.responses \in Seq(Nat) /\ p.at \in Nat
             /\ p.pc # "idle" => Len(p.batch) > 0
             /\ p.pc \in {"handling", "running"} =>
                  /\ p.status = 0 /\ p.at \in 1 .. Len(p.batch)
                  /\ InOrder(p.responses, Before(p.batch, p.at))
             /\ p.pc = "running" => Message(c) \in Tool
BY DEF McpInv, Progress, PostType, Message

\* A request that has its answer goes on in order, and so does a notification that has none.
LEMMA WithAnswer ==
  ASSUME McpInv, NEW c \in Clients, post[c].pc \in {"handling", "running"},
         Message(c) \notin Notification
  PROVE  LET q == Onward(WithResponse(post[c])) IN q \in PostType /\ Progress(q)
<1> DEFINE p == post[c]
           r == Append(p.responses, p.at)
           f == [p EXCEPT !.responses = r]
<1>1. /\ p \in PostType /\ p.batch \in Seq(Kind) /\ p.responses \in Seq(Nat)
      /\ p.status = 0 /\ p.at \in 1 .. Len(p.batch)
      /\ InOrder(p.responses, Before(p.batch, p.at))
  BY UnderWay
<1>2. p.at \in Asked(p.batch)
  BY <1>1 DEF Asked, Message, Notification
<1>3. r \in Seq(Nat) /\ InOrder(r, Before(p.batch, p.at + 1))
  BY <1>1, <1>2, AppendInOrder
<1>4. /\ f \in PostType /\ f.responses = r /\ f.batch = p.batch /\ f.at = p.at
      /\ f.status = p.status
  <2>1. p \in PostType /\ r \in Seq(Nat)
    BY <1>1, <1>3
  <2> HIDE DEF p, r
  <2>2. f \in PostType
    BY <2>1 DEF PostType
  <2>3. /\ f.responses = r /\ f.batch = p.batch /\ f.at = p.at /\ f.status = p.status
    BY <2>1 DEF PostType
  <2> QED
    BY <2>2, <2>3
<1>5. WithResponse(p) = f
  BY DEF WithResponse
<1>6. Onward(f) \in PostType /\ Progress(Onward(f))
  <2> HIDE DEF p, r, f
  <2> QED
    BY <1>1, <1>3, <1>4, OnwardKeeps
<1> QED
  BY <1>5, <1>6

LEMMA WithoutAnswer ==
  ASSUME McpInv, NEW c \in Clients, post[c].pc = "handling", Message(c) \in Notification
  PROVE  Onward(post[c]) \in PostType /\ Progress(Onward(post[c]))
<1> DEFINE p == post[c]
<1>1. /\ p \in PostType /\ p.batch \in Seq(Kind) /\ p.at \in Nat
      /\ p.status = 0 /\ p.at \in 1 .. Len(p.batch)
      /\ InOrder(p.responses, Before(p.batch, p.at))
  BY UnderWay
<1>2. p.at \notin Asked(p.batch)
  BY DEF Asked, Message, Notification
<1>3. ASSUME NEW i \in Asked(p.batch) PROVE i < p.at + 1 <=> i < p.at
  <2>1. i \in Nat /\ i # p.at
    BY <1>1, <1>2 DEF Asked
  <2> QED
    BY <1>1, <2>1
<1>4. Before(p.batch, p.at + 1) = Before(p.batch, p.at)
  BY <1>3 DEF Before
<1> QED
  BY <1>1, <1>4, OnwardKeeps

LEMMA HandlingStep ==
  ASSUME McpInv, NEW c \in Clients, Note(c) \/ Plain(c) \/ ToolAnswers(c)
  PROVE  McpInv'
<1>1. Budget' /\ Budget
  BY BudgetStays DEF McpInv, Note, Plain, ToolAnswers
<1>2. CASE Note(c)
  <2> DEFINE q == Onward(post[c])
  <2>1. post' = [post EXCEPT ![c] = q]
    BY <1>2 DEF Note
  <2>2. q \in PostType /\ Progress(q)
    BY <1>2, WithoutAnswer DEF Note, Handling
  <2> HIDE DEF q
  <2> QED
    BY <1>1, <2>1, <2>2, PostStep
<1>3. CASE Plain(c) \/ ToolAnswers(c)
  <2> DEFINE q == Onward(WithResponse(post[c]))
  <2>1. post' = [post EXCEPT ![c] = q]
    BY <1>3 DEF Plain, ToolAnswers
  <2>2. post[c].pc \in {"handling", "running"} /\ Message(c) \notin Notification
    BY <1>3, UnderWay DEF Plain, ToolAnswers, Handling, Tool, Notification
  <2>3. q \in PostType /\ Progress(q)
    BY <2>2, WithAnswer
  <2> HIDE DEF q
  <2> QED
    BY <1>1, <2>1, <2>3, PostStep
<1> QED
  BY <1>2, <1>3

LEMMA CutStep ==
  ASSUME McpInv, NEW c \in Clients, Unauthorized(c) \/ Refuse(c)
  PROVE  McpInv'
<1>1. Budget' /\ Budget
  BY BudgetStays DEF McpInv, Unauthorized, Refuse
<1>2. PICK status \in {401, 429} : /\ post' = [post EXCEPT ![c] = Answered(post[c], status)]
                                   /\ status = 401 => Message(c) = "mine"
  BY DEF Unauthorized, Handling, Refuse, Limited
<1>3. post[c].pc = "handling"
  BY DEF Unauthorized, Refuse, MayCall, Handling
<1>4. post[c] \in PostType /\ post[c].at \in 1 .. Len(post[c].batch)
  BY <1>3, UnderWay
<1>5. Answered(post[c], status) \in PostType /\ Progress(Answered(post[c], status))
  BY <1>2, <1>4, CutShort DEF Message
<1> QED
  BY <1>1, <1>2, <1>5, PostStep

LEMMA ThrowStep ==
  ASSUME McpInv, NEW c \in Clients, ToolThrows(c)
  PROVE  McpInv'
<1>1. Budget' /\ Budget
  BY BudgetStays DEF McpInv, ToolThrows
<1>2. post' = [post EXCEPT ![c] = Unanswered(post[c])] /\ post[c].pc = "running"
  BY DEF ToolThrows
<1>3. Unanswered(post[c]) \in PostType /\ Progress(Unanswered(post[c]))
  BY <1>2, UnderWay, GivenUp
<1> QED
  BY <1>1, <1>2, <1>3, PostStep

LEMMA RestartStep ==
  ASSUME McpInv, Restart
  PROVE  McpInv'
<1>1. ASSUME NEW c \in Clients
      PROVE  post'[c] \in PostType /\ Progress(post'[c])
  <2>1. post'[c] = IF post[c].pc \in {"handling", "running"} THEN Unanswered(post[c]) ELSE post[c]
    BY DEF Restart
  <2>2. CASE post[c].pc \in {"handling", "running"}
    BY <2>1, <2>2, UnderWay, GivenUp
  <2>3. CASE post[c].pc \notin {"handling", "running"}
    BY <2>1, <2>3 DEF McpInv
  <2> QED
    BY <2>2, <2>3
<1>2. post' \in [Clients -> PostType]
  <2>1. post' = [c \in Clients |-> post'[c]]
    BY DEF Restart
  <2> QED
    BY <1>1, <2>1
<1>3. Budget'
  <2>1. used' = [a \in Actors |-> 0] /\ runs' = [a \in Actors |-> 0] /\ Minute \in Nat
    BY McpAssumption DEF Restart
  <2> QED
    BY <2>1 DEF Budget
<1> QED
  BY <1>1, <1>2, <1>3 DEF McpInv

LEMMA SendStep ==
  ASSUME McpInv, NEW c \in Clients, (\E batch \in Batches[c] : Post(c, batch)) \/ Retry(c)
  PROVE  McpInv'
<1>1. Budget' /\ Budget
  BY BudgetStays DEF McpInv, Post, Retry
<1>2. PICK b : post' = [post EXCEPT ![c] = [NoPost EXCEPT !.pc = "handling", !.batch = b]]
               /\ b \in Seq(Kind) /\ b # <<>>
  <2>1. ASSUME NEW batch \in Batches[c], Post(c, batch)
        PROVE  \E b : post' = [post EXCEPT ![c] = [NoPost EXCEPT !.pc = "handling", !.batch = b]]
                      /\ b \in Seq(Kind) /\ b # <<>>
    BY <2>1, McpAssumption DEF Post
  <2>2. CASE Retry(c)
    <3>1. post[c].pc = "answered"
      BY <2>2 DEF Retry, TryAgain, McpInv, Progress
    <3>2. post[c].batch \in Seq(Kind) /\ Len(post[c].batch) > 0
      BY <3>1, UnderWay
    <3>3. post[c].batch # <<>>
      BY <3>2
    <3> QED
      BY <2>2, <3>2, <3>3 DEF Retry
  <2> QED
    BY <2>1, <2>2
<1> DEFINE f == [NoPost EXCEPT !.pc = "handling", !.batch = b]
<1>3. f \in PostType /\ Progress(f)
  BY <1>2, Posted
<1> HIDE DEF f
<1> QED
  BY <1>1, <1>2, <1>3, PostStep DEF f

\* A unit is taken for a run.
LEMMA UnitTaken ==
  ASSUME Budget, NEW c \in Clients, ~OverLimit(c), Unit(c), Runs(c)
  PROVE  Budget'
<1>1. CASE ActorOf[c] = Nobody
  BY <1>1, BudgetStays DEF Unit, Runs
<1>2. CASE ActorOf[c] # Nobody
  <2> DEFINE a == ActorOf[c]
  <2>1. a \in Actors
    BY <1>2, McpAssumption
  <2>2. /\ used \in [Actors -> Nat] /\ runs \in [Actors -> Nat]
        /\ \A b \in Actors : runs[b] <= used[b] /\ used[b] <= Minute
    BY DEF Budget
  <2>3. ~(used[a] >= Minute) /\ Minute \in Nat
    BY <1>2, McpAssumption DEF OverLimit
  <2>4. used' = [used EXCEPT ![a] = used[a] + 1] /\ runs' = [runs EXCEPT ![a] = runs[a] + 1]
    BY <1>2 DEF Unit, Runs
  <2> HIDE DEF a
  <2>5. used' \in [Actors -> Nat] /\ runs' \in [Actors -> Nat]
    BY <2>1, <2>2, <2>4
  <2>6. ASSUME NEW b \in Actors PROVE runs'[b] <= used'[b] /\ used'[b] <= Minute
    <3>1. used[b] \in Nat /\ runs[b] \in Nat
      BY <2>2
    <3>2. CASE b = a
      <4>1. used'[b] = used[b] + 1 /\ runs'[b] = runs[b] + 1
        BY <2>1, <2>2, <2>4, <3>2
      <4> QED
        BY <2>2, <2>3, <3>1, <3>2, <4>1
    <3>3. CASE b # a
      BY <2>2, <2>4, <3>3
    <3> QED
      BY <3>2, <3>3
  <2> QED
    BY <2>5, <2>6 DEF Budget
<1> QED
  BY <1>1, <1>2

LEMMA TakeStep ==
  ASSUME McpInv, NEW c \in Clients, TakeBudget(c)
  PROVE  McpInv'
<1> DEFINE p == post[c]
           f == [p EXCEPT !.pc = "running"]
<1>1. /\ p.pc = "handling" /\ Message(c) \in Tool /\ ~OverLimit(c) /\ Unit(c) /\ Runs(c)
      /\ post' = [post EXCEPT ![c] = f]
  BY DEF TakeBudget, MayCall, Handling, Takes
<1>2. Budget'
  BY <1>1, UnitTaken DEF McpInv
<1>3. /\ p \in PostType /\ p.status = 0 /\ p.at \in 1 .. Len(p.batch)
      /\ InOrder(p.responses, Before(p.batch, p.at))
  BY <1>1, UnderWay
<1>4. f \in PostType /\ f.pc = "running"
  BY <1>3 DEF PostType
<1>5. f.batch = p.batch /\ f.at = p.at /\ f.responses = p.responses /\ f.status = p.status
  BY <1>3 DEF PostType
<1>6. p.batch[p.at] \in Tool
  BY <1>1 DEF Message
<1>7. Len(p.batch) > 0
  BY <1>1, UnderWay
<1> HIDE DEF p, f
<1>8. Progress(f)
  BY <1>3, <1>4, <1>5, <1>6, <1>7 DEF Progress
<1> QED
  BY <1>1, <1>2, <1>4, <1>8, PostStep

LEMMA RestStep ==
  ASSUME McpInv, NEW c \in Rest, RestQuery(c)
  PROVE  McpInv'
<1>1. c \in Clients
  BY McpAssumption
<1>2. Budget'
  BY <1>1, UnitTaken DEF McpInv, RestQuery
<1> QED
  BY <1>2 DEF McpInv, RestQuery

LEMMA MinuteStep ==
  ASSUME McpInv, NEW a \in Actors, NextMinute(a)
  PROVE  McpInv'
<1>1. /\ used \in [Actors -> Nat] /\ runs \in [Actors -> Nat]
      /\ \A b \in Actors : runs[b] <= used[b] /\ used[b] <= Minute
      /\ used' = [used EXCEPT ![a] = 0] /\ runs' = [runs EXCEPT ![a] = 0]
  BY DEF McpInv, Budget, NextMinute
<1>2. used' \in [Actors -> Nat] /\ runs' \in [Actors -> Nat] /\ Minute \in Nat
  BY <1>1, McpAssumption
<1>3. ASSUME NEW b \in Actors PROVE runs'[b] <= used'[b] /\ used'[b] <= Minute
  <2>1. CASE b = a
    BY <1>1, <1>2, <2>1
  <2>2. CASE b # a
    BY <1>1, <2>2
  <2> QED
    BY <2>1, <2>2
<1>4. Budget'
  BY <1>2, <1>3 DEF Budget
<1> QED
  BY <1>4 DEF McpInv, NextMinute

-----------------------------------------------------------------------------
(* The theorems. *)

LEMMA McpInvariant == Spec => []McpInv
<1>1. Init => McpInv
  <2> SUFFICES ASSUME Init PROVE McpInv
    OBVIOUS
  <2>1. Budget
    BY McpAssumption DEF Init, Budget
  <2>2. NoPost \in PostType /\ NoPost.pc = "idle" /\ NoPost.status = 0
    <3> DEFINE nothing == <<>>
               none == [pc |-> "idle", batch |-> nothing, at |-> 1, responses |-> nothing,
                        status |-> 0]
    <3>1. NoPost = none /\ nothing \in Seq(Nat) /\ nothing \in Seq(Kind)
      BY DEF NoPost
    <3> HIDE DEF nothing
    <3> QED
      BY <3>1 DEF PostType
  <2>3. Progress(NoPost)
    BY <2>2 DEF Progress
  <2> QED
    BY <2>1, <2>2, <2>3 DEF Init, McpInv
<1>2. McpInv /\ [Next]_vars => McpInv'
  <2> SUFFICES ASSUME McpInv, [Next]_vars PROVE McpInv'
    OBVIOUS
  <2>1. CASE UNCHANGED vars
    BY <2>1, BudgetStays DEF vars, McpInv
  <2>2. ASSUME NEW c \in Clients, Handle(c) PROVE McpInv'
    BY <2>2, HandlingStep, CutStep, TakeStep DEF Handle
  <2>3. ASSUME NEW c \in Clients, ToolThrows(c) PROVE McpInv'
    BY <2>3, ThrowStep
  <2>4. ASSUME NEW c \in Clients, NEW batch \in Batches[c], Post(c, batch) PROVE McpInv'
    BY <2>4, SendStep
  <2>5. ASSUME NEW c \in Clients, Retry(c) PROVE McpInv'
    BY <2>5, SendStep
  <2> QED
    BY <2>1, <2>2, <2>3, <2>4, <2>5, RestStep, MinuteStep, RestartStep DEF Next
<1> QED
  BY <1>1, <1>2, PTL DEF Spec

\* No actor begins more fabric runs in a minute of one process's life than its budget, over any batches, connections
\* and queries at once (server/api/mcp.js takeBudget, server/api/fabric.js).
THEOREM BudgetIsKept == Spec => []WithinBudget
<1>1. McpInv => WithinBudget
  <2> SUFFICES ASSUME McpInv, NEW a \in Actors PROVE runs[a] <= Minute
    BY DEF WithinBudget
  <2>1. /\ runs[a] \in Nat /\ used[a] \in Nat /\ Minute \in Nat
        /\ runs[a] <= used[a] /\ used[a] <= Minute
    BY McpAssumption DEF McpInv, Budget
  <2> QED
    BY <2>1
<1> QED
  BY <1>1, McpInvariant, PTL

\* An answered batch has its whole answer, every request once and in order, or the 401 of the
\* one request that needs a person, or no response at all (server/api/mcp.js, POST /mcp).
THEOREM BatchesAnsweredWhole == Spec => []AnswersMatch
<1>1. McpInv => AnswersMatch
  BY DEF McpInv, Progress, AnswersMatch
<1> QED
  BY <1>1, McpInvariant, PTL
=============================================================================
