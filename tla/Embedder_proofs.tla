-------------------------- MODULE Embedder_proofs --------------------------
(***************************************************************************)
(* Proofs about Embedder, for any documents, processes, budgets, batch     *)
(* sizes and faults: the vectors in search_embeddings are of the versions  *)
(* their content_hash names, and no minute sees more than two budgets.     *)
(***************************************************************************)
EXTENDS Embedder, FiniteSetTheorems, WellFoundedInduction, TLAPS

Vector == [hash : Version, text : Version]
\* What a tick can have read: public versions of some documents.
Rows == {r \in UNION {[S -> Version] : S \in SUBSET Docs} : \A d \in DOMAIN r : r[d].public}
Job ==
  [pc : {"idle", "existing", "batch", "answer", "put"}, rows : Rows,
   pending : SUBSET Docs, batch : SUBSET Docs]

Tables ==
  /\ docs \in [Docs -> Version]
  /\ vectors \in [Docs -> Vector \cup {NoVector}]
  /\ changes \in 0 .. MaxChanges
Windows == window \in [Workers -> [age : Nat, used : Nat]]
\* What is still to be embedded has been read; a batch is part of it, and while its vectors are
\* being stored some of it is left.
Jobs ==
  /\ job \in [Workers -> Job]
  /\ \A w \in Workers :
       /\ job[w].pending \subseteq DOMAIN job[w].rows
       /\ job[w].batch \subseteq job[w].pending
       /\ job[w].pc = "batch" => job[w].pending # {}
       /\ job[w].pc \in {"answer", "put"} <=> job[w].batch # {}
EmbedInv == Tables /\ Windows /\ Jobs /\ VectorOfItsHash

-----------------------------------------------------------------------------
\* A set of numbers that is not empty has a least one.
LEMMA LeastExists ==
  ASSUME NEW S \in SUBSET Nat, S # {}
  PROVE  \E n \in S : \A m \in S : n <= m
<1>1. PICK n \in S : \A m \in S : <<m, n>> \notin OpToRel(<, Nat)
  BY NatLessThanWellFounded, WFMin, Zenon
<1>2. \A m \in S : ~(m < n)
  BY <1>1 DEF OpToRel
<1> QED
  BY <1>2

\* A batch that the budget allows is not empty, and is part of what is pending.
LEMMA FirstOfShape ==
  ASSUME NEW S \in SUBSET Docs, NEW n \in Nat \ {0}
  PROVE  FirstOf(n, S) \subseteq S /\ (S # {} => FirstOf(n, S) # {})
<1>1. FirstOf(n, S) \subseteq S
  BY DEF FirstOf
<1>2. ASSUME S # {} PROVE FirstOf(n, S) # {}
  <2>1. PICK d \in S : \A e \in S : d <= e
    BY <1>2, LeastExists, EmbedderAssumption
  <2>2. {e \in S : e < d} = {}
    <3>1. ASSUME NEW e \in S PROVE ~(e < d)
      <4>1. e \in Nat /\ d \in Nat /\ d <= e
        BY <2>1, EmbedderAssumption
      <4> QED
        BY <4>1
    <3> QED
      BY <3>1
  <2>3. Cardinality({e \in S : e < d}) = 0
    BY <2>2, FS_EmptySet
  <2> QED
    BY <2>3 DEF FirstOf
<1> QED
  BY <1>1, <1>2

\* The vector stored next is one of the batch.
LEMMA MinOfBatch ==
  ASSUME NEW S \in SUBSET Docs, S # {} PROVE Min(S) \in S
<1>1. \E n \in S : \A m \in S : n <= m
  BY LeastExists, EmbedderAssumption
<1> QED
  BY <1>1 DEF Min

\* A process without a tick has read nothing.
LEMMA NotTickingIsJob ==
  /\ NotTicking \in Job
  /\ NotTicking.pc = "idle" /\ NotTicking.pending = {} /\ NotTicking.batch = {}
<1> DEFINE nothing == <<>>
<1>1. nothing \in [{} -> Version] /\ DOMAIN nothing = {}
  OBVIOUS
<1>2. nothing \in Rows
  BY <1>1 DEF Rows
<1> HIDE DEF nothing
<1>3. [pc |-> "idle", rows |-> nothing, pending |-> {}, batch |-> {}] \in Job
  BY <1>2 DEF Job
<1> QED
  BY <1>3 DEF NotTicking, nothing

\* What one process does with its tick leaves the others' alone.
LEMMA JobStep ==
  ASSUME Jobs, NEW w \in Workers, NEW j \in Job, job' = [job EXCEPT ![w] = j],
         j.pending \subseteq DOMAIN j.rows, j.batch \subseteq j.pending,
         j.pc = "batch" => j.pending # {},
         j.pc \in {"answer", "put"} <=> j.batch # {}
  PROVE  Jobs'
BY DEF Jobs

\* A tick that ends leaves nothing behind.
LEMMA TickEnds ==
  ASSUME Jobs, NEW w \in Workers, job' = [job EXCEPT ![w] = NotTicking]
  PROVE  Jobs'
BY NotTickingIsJob DEF Jobs

\* A window counts what has been sent.
LEMMA SpendKeeps ==
  ASSUME Windows, Jobs, NEW w \in Workers, Spend(w) PROVE Windows'
<1> DEFINE n == Cardinality(job[w].batch)
<1>1. n \in Nat
  <2>1. job[w].batch \in SUBSET Docs
    BY DEF Jobs, Job
  <2> QED
    BY <2>1, EmbedderAssumption, FS_Subset, FS_CardinalityType
<1>2. window' = [window EXCEPT ![w].used = @ + n]
  BY DEF Spend
<1> HIDE DEF n
<1> QED
  BY <1>1, <1>2 DEF Windows

-----------------------------------------------------------------------------
\* The tick under way holds public versions, read before.
LEMMA EmbedInvariant == Spec => []EmbedInv
<1>1. Init => EmbedInv
  <2> SUFFICES ASSUME Init PROVE EmbedInv
    OBVIOUS
  <2>1. Tables /\ VectorOfItsHash
    BY EmbedderAssumption DEF Init, Tables, Version, VectorOfItsHash
  <2>2. Windows
    BY DEF Init, Windows
  <2>3. Jobs
    BY NotTickingIsJob DEF Init, Jobs
  <2> QED
    BY <2>1, <2>2, <2>3 DEF EmbedInv
<1>2. EmbedInv /\ [Next]_vars => EmbedInv'
  <2> SUFFICES ASSUME EmbedInv, [Next]_vars PROVE EmbedInv'
    OBVIOUS
  <2> USE DEF EmbedInv
  <2>1. ASSUME NEW d \in Docs, NEW public \in BOOLEAN, Change(d, public) PROVE EmbedInv'
    <3>1. [n |-> changes + 1, public |-> public] \in Version /\ changes' \in 0 .. MaxChanges
      BY <2>1, EmbedderAssumption DEF Change, Version, Tables
    <3> QED
      BY <2>1, <3>1 DEF Change, Tables, Windows, Jobs, VectorOfItsHash
  <2>2. ASSUME Pass PROVE EmbedInv'
    <3>1. ASSUME NEW w \in Workers
          PROVE  [window[w] EXCEPT !.age = Smaller(@ + 1, Minute)] \in [age : Nat, used : Nat]
      <4>1. window[w] \in [age : Nat, used : Nat] /\ Minute \in Nat
        BY EmbedderAssumption DEF Windows
      <4>2. Smaller(window[w].age + 1, Minute) \in Nat
        BY <4>1 DEF Smaller
      <4> QED
        BY <4>1, <4>2
    <3>2. Windows'
      BY <2>2, <3>1 DEF Pass, Windows
    <3> QED
      BY <2>2, <3>2 DEF Pass, Tables, Jobs, VectorOfItsHash
  <2>3. ASSUME NEW w \in Workers, ReadDocuments(w) PROVE EmbedInv'
    <3> DEFINE j == [NotTicking EXCEPT !.pc = "existing", !.rows = PublicDocuments]
    <3>1. PublicDocuments \in Rows
      <4> DEFINE S == {x \in Docs : docs[x].public}
      <4>1. PublicDocuments \in [S -> Version] /\ S \in SUBSET Docs
        BY DEF PublicDocuments, Tables
      <4>2. \A d \in DOMAIN PublicDocuments : PublicDocuments[d].public
        BY DEF PublicDocuments
      <4> HIDE DEF S
      <4>3. PublicDocuments \in UNION {[T -> Version] : T \in SUBSET Docs}
        BY <4>1
      <4> QED
        BY <4>2, <4>3 DEF Rows
    <3>2. j = [pc |-> "existing", rows |-> PublicDocuments, pending |-> {}, batch |-> {}]
      <4> DEFINE nothing == <<>>
      <4>1. NotTicking = [pc |-> "idle", rows |-> nothing, pending |-> {}, batch |-> {}]
        BY Zenon DEF NotTicking
      <4>2. j = [[pc |-> "idle", rows |-> nothing, pending |-> {}, batch |-> {}]
                    EXCEPT !.pc = "existing", !.rows = PublicDocuments]
        BY <4>1, Zenon
      <4> HIDE DEF nothing, j
      <4> QED
        BY <4>2
    <3>3. /\ j \in Job /\ j.pc = "existing" /\ j.pending = {} /\ j.batch = {}
          /\ j.rows = PublicDocuments
      <4> HIDE DEF j
      <4>1. PublicDocuments \in Rows =>
              [pc |-> "existing", rows |-> PublicDocuments, pending |-> {}, batch |-> {}] \in Job
        BY DEF Job
      <4> QED
        BY <3>1, <3>2, <4>1
    <3>4. job' = [job EXCEPT ![w] = j]
      BY <2>3 DEF ReadDocuments
    <3> HIDE DEF j
    <3>5. Jobs'
      BY <3>3, <3>4, JobStep
    <3> QED
      BY <2>3, <3>5 DEF ReadDocuments, Tables, Windows, VectorOfItsHash
  <2>4. ASSUME NEW w \in Workers, ReadVectors(w) PROVE EmbedInv'
    <3> DEFINE pending == Outdated(job[w].rows)
               j == [job[w] EXCEPT !.pc = "batch", !.pending = pending]
    <3>1. job[w] \in Job /\ pending \subseteq DOMAIN job[w].rows /\ pending \subseteq Docs
      BY DEF Jobs, Job, Rows, Outdated
    <3>2. CASE pending = {}
      <4>1. job' = [job EXCEPT ![w] = NotTicking]
        BY <2>4, <3>2 DEF ReadVectors
      <4> QED
        BY <2>4, <4>1, TickEnds DEF ReadVectors, Tables, Windows, VectorOfItsHash
    <3>3. CASE pending # {}
      <4>0. job[w].batch = {}
        BY <2>4 DEF ReadVectors, Jobs
      <4>1. j \in Job /\ j.pc = "batch" /\ j.pending = pending /\ j.rows = job[w].rows
              /\ j.batch = job[w].batch
        BY <3>1 DEF Job
      <4>2. job' = [job EXCEPT ![w] = j]
        BY <2>4, <3>3 DEF ReadVectors
      <4> HIDE DEF j
      <4>3. Jobs'
        BY <4>0, <4>1, <4>2, <3>1, <3>3, JobStep
      <4> QED
        BY <2>4, <4>3 DEF ReadVectors, Tables, Windows, VectorOfItsHash
    <3> QED
      BY <3>2, <3>3
  <2>5. ASSUME NEW w \in Workers, Call(w) PROVE EmbedInv'
    <3> DEFINE n == Smaller(BatchSize, BudgetLeft(w))
               batch == FirstOf(n, job[w].pending)
               j == [job[w] EXCEPT !.pc = "answer", !.batch = batch]
    <3>1. WindowNow(w) \in [age : Nat, used : Nat]
      BY DEF WindowNow, Windows
    <3>2. Windows'
      BY <2>5, <3>1 DEF Call, Windows
    <3>3. job[w] \in Job /\ job[w].pc = "batch" /\ job[w].pending # {}
      BY <2>5 DEF Call, Jobs
    <3>4. CASE BudgetLeft(w) <= 0
      <4>1. job' = [job EXCEPT ![w] = NotTicking]
        BY <2>5, <3>4 DEF Call
      <4> QED
        BY <2>5, <3>2, <4>1, TickEnds DEF Call, Tables, VectorOfItsHash
    <3>5. CASE ~(BudgetLeft(w) <= 0)
      <4>1. BudgetLeft(w) \in Int
        BY <3>1, EmbedderAssumption DEF BudgetLeft
      <4>2. n \in Nat \ {0}
        BY <3>5, <4>1, EmbedderAssumption DEF Smaller
      <4>3. batch \subseteq job[w].pending /\ batch # {}
        <5> HIDE DEF n
        <5>1. job[w].pending \in SUBSET Docs
          BY <3>3 DEF Job
        <5> QED
          BY <3>3, <4>2, <5>1, FirstOfShape
      <4>4. job' = [job EXCEPT ![w] = j]
        BY <2>5, <3>5 DEF Call
      <4> HIDE DEF n, batch
      <4>5. /\ j \in Job /\ j.pc = "answer" /\ j.batch = batch
            /\ j.pending = job[w].pending /\ j.rows = job[w].rows
        BY <3>3, <4>3 DEF Job
      <4> HIDE DEF j
      <4>6. Jobs'
        BY <3>3, <4>3, <4>4, <4>5, JobStep DEF Jobs
      <4> QED
        BY <2>5, <3>2, <4>6 DEF Call, Tables, VectorOfItsHash
    <3> QED
      BY <3>4, <3>5
  <2>6. ASSUME NEW w \in Workers, Answered(w) PROVE EmbedInv'
    <3> DEFINE j == [job[w] EXCEPT !.pc = "put"]
    <3>1. job[w] \in Job /\ job[w].pc = "answer" /\ job' = [job EXCEPT ![w] = j]
      BY <2>6 DEF Answered, Jobs
    <3>2. /\ j \in Job /\ j.pc = "put" /\ j.batch = job[w].batch
          /\ j.pending = job[w].pending /\ j.rows = job[w].rows
      BY <3>1 DEF Job
    <3> HIDE DEF j
    <3>3. Jobs'
      BY <3>1, <3>2, JobStep DEF Jobs
    <3>4. Windows'
      BY <2>6, SpendKeeps DEF Answered
    <3> QED
      BY <2>6, <3>3, <3>4 DEF Answered, Tables, VectorOfItsHash
  <2>7. ASSUME NEW w \in Workers, Failed(w) PROVE EmbedInv'
    <3>1. Windows' /\ Jobs'
      BY <2>7, TickEnds, SpendKeeps DEF Failed
    <3> QED
      BY <2>7, <3>1 DEF Failed, Tables, VectorOfItsHash
  <2>8. ASSUME NEW w \in Workers, Put(w) PROVE EmbedInv'
    <3> DEFINE d == Min(job[w].batch)
               batch == job[w].batch \ {d}
               pending == job[w].pending \ {d}
    <3>1. job[w] \in Job /\ job[w].pc = "put" /\ d \in job[w].batch
      <4>1. job[w] \in Job /\ job[w].pc = "put" /\ job[w].batch # {}
        BY <2>8 DEF Put, Jobs
      <4> QED
        BY <4>1, MinOfBatch DEF Job
    <3>2. d \in DOMAIN job[w].rows /\ job[w].rows \in Rows /\ batch \subseteq pending
      BY <3>1 DEF Jobs, Job
    <3> HIDE DEF d
    <3>3. d \in Docs /\ job[w].rows[d] \in Version /\ job[w].rows[d].public
      BY <3>2 DEF Rows
    <3>4. vectors' = [vectors EXCEPT ![d] = [hash |-> job[w].rows[d], text |-> job[w].rows[d]]]
      BY <2>8 DEF Put, Stored, d
    <3>5. Tables' /\ VectorOfItsHash'
      <4> DEFINE v == job[w].rows[d]
      <4>1. [hash |-> v, text |-> v] \in Vector
        BY <3>3 DEF Vector
      <4>2. /\ docs' = docs /\ changes' = changes
            /\ vectors' = [vectors EXCEPT ![d] = [hash |-> v, text |-> v]]
        BY <2>8, <3>4 DEF Put
      <4>3. v.public
        BY <3>3
      <4> HIDE DEF v
      <4> QED
        BY <3>3, <4>1, <4>2, <4>3 DEF Tables, VectorOfItsHash
    <3>6. CASE batch # {}
      <4> DEFINE j == [job[w] EXCEPT !.batch = batch, !.pending = pending]
      <4>1. job' = [job EXCEPT ![w] = j]
        BY <2>8, <3>6 DEF Put, d
      <4>2. /\ j \in Job /\ j.pc = "put" /\ j.batch = batch
            /\ j.pending = pending /\ j.rows = job[w].rows
        BY <3>1 DEF Job
      <4> HIDE DEF j
      <4>3. Jobs'
        BY <3>1, <3>2, <3>6, <4>1, <4>2, JobStep DEF Jobs
      <4> QED
        BY <2>8, <3>5, <4>3 DEF Put, Windows
    <3>7. CASE batch = {} /\ pending # {}
      <4> DEFINE j == [job[w] EXCEPT !.pc = "batch", !.batch = {}, !.pending = pending]
      <4>1. job' = [job EXCEPT ![w] = j]
        BY <2>8, <3>7 DEF Put, d
      <4>2. /\ j \in Job /\ j.pc = "batch" /\ j.batch = {}
            /\ j.pending = pending /\ j.rows = job[w].rows
        BY <3>1 DEF Job
      <4> HIDE DEF j
      <4>3. Jobs'
        BY <3>1, <3>2, <3>7, <4>1, <4>2, JobStep DEF Jobs
      <4> QED
        BY <2>8, <3>5, <4>3 DEF Put, Windows
    <3>8. CASE batch = {} /\ pending = {}
      <4>1. job' = [job EXCEPT ![w] = NotTicking]
        BY <2>8, <3>8 DEF Put, d
      <4> QED
        BY <2>8, <3>5, <4>1, TickEnds DEF Put, Windows
    <3> QED
      BY <3>6, <3>7, <3>8
  <2>9. ASSUME NEW w \in Workers, Abandon(w) PROVE EmbedInv'
    BY <2>9, TickEnds DEF Abandon, Tables, Windows, VectorOfItsHash
  <2>10. ASSUME NEW w \in Workers, Restart(w) PROVE EmbedInv'
    BY <2>10, TickEnds DEF Restart, Tables, Windows, VectorOfItsHash
  <2>11. CASE UNCHANGED vars
    BY <2>11 DEF vars, Tables, Windows, Jobs, VectorOfItsHash
  <2> QED
    BY <2>1, <2>2, <2>3, <2>4, <2>5, <2>6, <2>7, <2>8, <2>9, <2>10, <2>11 DEF Next, Work
<1> QED
  BY <1>1, <1>2, PTL DEF Spec

\* Every stored vector was made of the very version its content_hash names, and that version
\* was public (server/fabric/embedder.js tick, fabric/vector-store.js put).
THEOREM VectorsMatchTheirHash == Spec => []VectorOfItsHash
<1>1. EmbedInv => VectorOfItsHash
  BY DEF EmbedInv
<1> QED
  BY <1>1, EmbedInvariant, PTL

-----------------------------------------------------------------------------
(* The budget. *)

\* What a process has sent and not yet counted.
InFlight(j) == IF j.pc = "answer" THEN Cardinality(j.batch) ELSE 0
Counts == {r \in [1 .. Minute -> Nat] : \A n \in 1 .. Minute - 1 : r[n] <= r[n + 1]}
\* While a window lasts, what was sent since it began has been counted in it or is about to be,
\* and what was sent before it is at most one budget. When it is over, nothing has been sent in
\* the present unit of time, and one budget in the last minute.
InBudget(spent, age, r) ==
  /\ spent <= PerMinute
  /\ age < Minute => r[age + 1] <= spent /\ r[Minute] - r[age + 1] <= PerMinute
  /\ age >= Minute => r[1] = 0 /\ r[Minute] <= PerMinute
Spent(w) == window[w].used + InFlight(job[w])
BudgetInv ==
  /\ \A w \in Workers : window[w].age <= Minute
  /\ recent \in [Workers -> Counts]
  /\ \A w \in Workers : InBudget(Spent(w), window[w].age, recent[w])

\* A batch is finite, and so is what is pending.
LEMMA BatchesAreFinite ==
  ASSUME NEW S \in SUBSET Docs PROVE IsFiniteSet(S) /\ Cardinality(S) \in Nat
BY EmbedderAssumption, FS_Subset, FS_CardinalityType

\* A batch is not larger than it was meant to be.
LEMMA FirstOfSize ==
  ASSUME NEW S \in SUBSET Docs, NEW n \in Nat \ {0}
  PROVE  Cardinality(FirstOf(n, S)) <= n
<1> DEFINE Below(d) == {e \in S : e < d}
           F == {d \in S : Cardinality(Below(d)) < n}
           Ranks == {n - Cardinality(Below(d)) : d \in F}
<1>1. \A d \in S : /\ d \in Nat /\ IsFiniteSet(Below(d)) /\ Cardinality(Below(d)) \in Nat
                   /\ d \notin Below(d)
  <2>1. \A d \in S : d \in Nat /\ Below(d) \in SUBSET Docs
    BY EmbedderAssumption
  <2>2. \A d \in S : d \notin Below(d)
    BY <2>1
  <2> HIDE DEF Below
  <2> QED
    BY <2>1, <2>2, BatchesAreFinite
<1>2. CASE F = {}
  <2>1. FirstOf(n, S) = {}
    BY <1>2 DEF FirstOf
  <2> QED
    BY <2>1, FS_EmptySet
<1>3. CASE F # {}
  <2>1. Ranks \in SUBSET Nat /\ Ranks # {}
    <3> HIDE DEF Below
    <3> QED
      BY <1>1, <1>3
  <2> HIDE DEF Ranks
  <2>2. PICK r \in Ranks : \A s \in Ranks : r <= s
    BY <2>1, LeastExists
  <2> USE DEF Ranks
  <2> HIDE DEF F, Below
  <2>3. PICK m \in F : r = n - Cardinality(Below(m))
    BY <2>2
  <2>4. \A d \in F : d \in S /\ Cardinality(Below(d)) < n
    BY DEF F
  <2>5. \A d \in F : Cardinality(Below(d)) <= Cardinality(Below(m))
    <3> TAKE d \in F
    <3>1. r <= n - Cardinality(Below(d))
      BY <2>2
    <3> QED
      BY <1>1, <2>3, <2>4, <3>1
  <2>6. \A d \in F \ {m} : d \in Below(m)
    <3> TAKE d \in F \ {m}
    <3>1. d \in S /\ m \in S /\ d \in Nat /\ m \in Nat
      BY <1>1, <2>4
    <3>2. ASSUME d > m PROVE FALSE
      <4>1. Below(m) \cup {m} \subseteq Below(d)
        <5>1. ASSUME NEW e \in Below(m) PROVE e \in S /\ e < d
          <6>1. e \in S /\ e < m
            BY DEF Below
          <6> QED
            BY <1>1, <3>1, <3>2, <6>1
        <5>2. ASSUME NEW e \in Below(m) \cup {m} PROVE e \in S /\ e < d
          BY <3>1, <3>2, <5>1
        <5> QED
          BY <5>2 DEF Below
      <4>2. Cardinality(Below(m) \cup {m}) = Cardinality(Below(m)) + 1
        BY <1>1, <3>1, FS_AddElement
      <4>3. Cardinality(Below(m) \cup {m}) <= Cardinality(Below(d))
        BY <1>1, <3>1, <4>1, FS_Subset
      <4> QED
        BY <1>1, <2>5, <3>1, <4>2, <4>3
    <3> QED
      BY <3>1, <3>2 DEF Below
  <2>7. F \subseteq Below(m) \cup {m}
    BY <2>6
  <2>8. m \notin Below(m)
    BY <1>1, <2>4
  <2>9. /\ IsFiniteSet(Below(m) \cup {m})
        /\ Cardinality(Below(m) \cup {m}) = Cardinality(Below(m)) + 1
    BY <1>1, <2>4, <2>8, FS_AddElement
  <2>10. Cardinality(F) <= Cardinality(Below(m)) + 1 /\ Cardinality(F) \in Nat
    BY <2>7, <2>9, FS_Subset, FS_CardinalityType
  <2>11. Cardinality(Below(m)) < n /\ Cardinality(Below(m)) \in Nat
    BY <1>1, <2>4
  <2>12. Cardinality(F) <= n
    BY <2>10, <2>11
  <2> QED
    BY <2>12 DEF FirstOf, F, Below
<1> QED
  BY <1>2, <1>3

\* What has been counted and what is about to be are numbers.
LEMMA SpentIsNumber ==
  ASSUME EmbedInv, NEW w \in Workers
  PROVE  /\ window[w].used \in Nat /\ window[w].age \in Nat
         /\ InFlight(job[w]) \in Nat /\ Spent(w) \in Nat
<1>1. window[w].used \in Nat /\ window[w].age \in Nat
  BY DEF EmbedInv, Windows
<1>2. job[w].batch \in SUBSET Docs
  BY DEF EmbedInv, Jobs, Job
<1>3. Cardinality(job[w].batch) \in Nat
  BY <1>2, BatchesAreFinite
<1> QED
  BY <1>1, <1>3 DEF InFlight, Spent

\* A step of one process that leaves its count of what it has sent and its window's age.
LEMMA CountKept ==
  ASSUME BudgetInv, NEW w \in Workers, recent' = recent, Spent(w)' = Spent(w),
         \A v \in Workers : window'[v].age = window[v].age,
         \A v \in Workers \ {w} : window'[v] = window[v] /\ job'[v] = job[v]
  PROVE  BudgetInv'
<1>1. \A v \in Workers : Spent(v)' = Spent(v)
  BY DEF Spent, InFlight
<1> QED
  BY <1>1 DEF BudgetInv, InBudget

\* The batch under way is counted, whatever the answer.
LEMMA CountedAtLast ==
  ASSUME EmbedInv, BudgetInv, NEW w \in Workers, job[w].pc = "answer", Spend(w),
         NEW j, j.pc # "answer", job' = [job EXCEPT ![w] = j], recent' = recent
  PROVE  BudgetInv'
<1>1. /\ window' = [window EXCEPT ![w].used = @ + InFlight(job[w])]
      /\ window[w] \in [age : Nat, used : Nat] /\ w \in DOMAIN window /\ w \in DOMAIN job
  BY DEF Spend, InFlight, EmbedInv, Windows, Jobs
<1>2. InFlight(j) = 0
  BY DEF InFlight
<1>3. /\ window'[w].used = window[w].used + InFlight(job[w])
      /\ window'[w].age = window[w].age /\ job'[w] = j
  BY <1>1
<1>4. Spent(w)' = window'[w].used + InFlight(job'[w])
  BY DEF Spent, InFlight
<1>5. Spent(w)' = Spent(w)
  <2>1. window[w].used + InFlight(job[w]) \in Nat
    BY SpentIsNumber DEF Spent
  <2> QED
    BY <1>2, <1>3, <1>4, <2>1 DEF Spent
<1>6. /\ \A v \in Workers : window'[v].age = window[v].age
      /\ \A v \in Workers \ {w} : window'[v] = window[v] /\ job'[v] = job[v]
  BY <1>1 DEF EmbedInv, Windows, Jobs
<1> QED
  BY <1>5, <1>6, CountKept

\* A tick that goes on or ends without a batch in flight changes nothing of the budget.
LEMMA NothingInFlight ==
  ASSUME EmbedInv, BudgetInv, NEW w \in Workers, job[w].pc # "answer",
         NEW j, j.pc # "answer", job' = [job EXCEPT ![w] = j], UNCHANGED <<window, recent>>
  PROVE  BudgetInv'
<1>1. job'[w] = j /\ \A v \in Workers \ {w} : job'[v] = job[v]
  BY DEF EmbedInv, Jobs
<1>2. Spent(w)' = Spent(w)
  BY <1>1 DEF Spent, InFlight
<1> QED
  BY <1>1, <1>2, CountKept

\* Time passes: what was sent moves one unit into the past.
LEMMA PassKeepsBudget ==
  ASSUME EmbedInv, BudgetInv, Pass PROVE BudgetInv'
<1> SUFFICES ASSUME NEW w \in Workers
             PROVE  /\ window'[w].age <= Minute
                    /\ recent'[w] \in Counts
                    /\ InBudget(Spent(w)', window'[w].age, recent'[w])
  <2>1. recent' = [v \in Workers |-> [n \in 1 .. Minute |-> IF n = 1 THEN 0 ELSE recent[v][n - 1]]]
    BY DEF Pass
  <2> QED
    BY <2>1 DEF BudgetInv, InBudget
<1> DEFINE a == window[w].age
           r == recent[w]
           s == [n \in 1 .. Minute |-> IF n = 1 THEN 0 ELSE r[n - 1]]
           b == Smaller(a + 1, Minute)
<1>1. /\ Minute \in Nat \ {0} /\ PerMinute \in Nat /\ a \in Nat /\ a <= Minute
      /\ Spent(w) \in Nat /\ r \in Counts /\ InBudget(Spent(w), a, r)
  BY EmbedderAssumption, SpentIsNumber DEF BudgetInv
<1>2. recent'[w] = s
  BY DEF Pass
<1>3. window'[w].age = b /\ window'[w].used = window[w].used
  BY DEF Pass, EmbedInv, Windows
<1>4. Spent(w)' = Spent(w)
  BY <1>3 DEF Spent, InFlight, Pass
<1> HIDE DEF a, r
<1>5. /\ r \in [1 .. Minute -> Nat]
      /\ \A n \in 1 .. Minute - 1 : r[n] <= r[n + 1]
  BY <1>1 DEF Counts
<1>6. s \in Counts
  <2>1. s \in [1 .. Minute -> Nat]
    BY <1>1, <1>5
  <2>2. ASSUME NEW n \in 1 .. Minute - 1 PROVE s[n] <= s[n + 1]
    <3>1. n \in 1 .. Minute /\ n + 1 \in 1 .. Minute /\ n + 1 # 1 /\ r[n] \in Nat /\ (n + 1) - 1 = n
      BY <1>1, <1>5
    <3>2. s[n + 1] = r[n]
      BY <3>1
    <3>3. CASE n = 1
      BY <3>1, <3>2, <3>3
    <3>4. CASE n # 1
      <4>1. n - 1 \in 1 .. Minute - 1 /\ (n - 1) + 1 = n
        BY <1>1, <3>4
      <4>2. s[n] = r[n - 1] /\ r[n - 1] <= r[n]
        BY <1>5, <3>1, <3>4, <4>1
      <4> QED
        BY <3>2, <4>2
    <3> QED
      BY <3>3, <3>4
  <2> QED
    BY <2>1, <2>2 DEF Counts
<1>7. s[1] = 0 /\ s[Minute] \in Nat /\ s[Minute] <= r[Minute] /\ r[Minute] \in Nat
  <2>1. s[1] = 0 /\ s[Minute] \in Nat /\ r[Minute] \in Nat
    BY <1>1, <1>5
  <2>2. CASE Minute = 1
    BY <2>1, <2>2
  <2>3. CASE Minute # 1
    <3>1. s[Minute] = r[Minute - 1] /\ Minute - 1 \in 1 .. Minute - 1
      BY <1>1, <2>3
    <3> QED
      BY <1>1, <1>5, <2>1, <3>1
  <2> QED
    BY <2>1, <2>2, <2>3
<1>8. b \in Nat /\ b <= Minute /\ InBudget(Spent(w), b, s)
  <2>1. CASE a + 1 < Minute
    <3>1. b = a + 1 /\ a + 1 \in 1 .. Minute /\ b + 1 \in 1 .. Minute /\ b + 1 # 1 /\ (b + 1) - 1 = a + 1
      BY <1>1, <2>1 DEF Smaller
    <3>2. s[b + 1] = r[a + 1] /\ r[a + 1] \in Nat
      BY <1>5, <3>1
    <3>3. r[a + 1] <= Spent(w) /\ r[Minute] - r[a + 1] <= PerMinute /\ Spent(w) <= PerMinute
      BY <1>1, <2>1 DEF InBudget
    <3> HIDE DEF s, b
    <3> QED
      BY <1>1, <1>7, <2>1, <3>1, <3>2, <3>3 DEF InBudget
  <2>2. CASE a + 1 >= Minute
    <3>1. b = Minute
      BY <1>1, <2>2 DEF Smaller
    <3>2. Spent(w) <= PerMinute /\ r[Minute] <= PerMinute
      <4>1. CASE a = Minute
        BY <1>1, <4>1 DEF InBudget
      <4>2. CASE a < Minute
        <5>1. a + 1 = Minute
          BY <1>1, <2>2, <4>2
        <5>2. r[Minute] <= Spent(w) /\ Spent(w) <= PerMinute
          BY <1>1, <4>2, <5>1 DEF InBudget
        <5> QED
          BY <1>1, <1>7, <5>2
      <4> QED
        BY <1>1, <4>1, <4>2
    <3> HIDE DEF s, b
    <3> QED
      BY <1>1, <1>7, <3>1, <3>2 DEF InBudget
  <2> QED
    BY <1>1, <2>1, <2>2
<1> QED
  BY <1>2, <1>3, <1>4, <1>6, <1>8

\* A batch is within what the window has left, and a new window begins with nothing sent in the
\* present unit of time.
LEMMA CallKeepsBudget ==
  ASSUME EmbedInv, BudgetInv, NEW w \in Workers, Call(w) PROVE BudgetInv'
<1> DEFINE win == WindowNow(w)
           batch == FirstOf(Smaller(BatchSize, BudgetLeft(w)), job[w].pending)
           r == recent[w]
<1>1. /\ Minute \in Nat \ {0} /\ PerMinute \in Nat \ {0} /\ BatchSize \in Nat \ {0}
      /\ window[w].age \in Nat /\ window[w].age <= Minute /\ window[w].used \in Nat
      /\ Spent(w) = window[w].used /\ r \in Counts /\ InBudget(window[w].used, window[w].age, r)
  <2>1. job[w].pc = "batch"
    BY DEF Call
  <2>2. Spent(w) = window[w].used
    BY <2>1, SpentIsNumber DEF Spent, InFlight
  <2> QED
    BY <2>2, EmbedderAssumption, SpentIsNumber DEF BudgetInv
<1>2. /\ window' = [window EXCEPT ![w] = win]
      /\ window'[w] = win /\ \A v \in Workers \ {w} : window'[v] = window[v]
  BY DEF Call, EmbedInv, Windows
<1>3. /\ r \in [1 .. Minute -> Nat] /\ 1 \in 1 .. Minute /\ Minute \in 1 .. Minute
      /\ \A n \in 1 .. Minute - 1 : r[n] <= r[n + 1]
  BY <1>1 DEF Counts
<1>4. /\ win.age \in Nat /\ win.age < Minute /\ win.used \in Nat /\ win.used <= PerMinute
      /\ r[win.age + 1] <= win.used /\ r[Minute] - r[win.age + 1] <= PerMinute
  <2>1. CASE window[w].age >= Minute
    <3>1. win = [age |-> 0, used |-> 0] /\ r[1] = 0 /\ r[Minute] <= PerMinute
      BY <1>1, <2>1 DEF WindowNow, InBudget
    <3>2. win.age = 0 /\ win.used = 0 /\ win.age + 1 = 1
      BY <3>1
    <3> HIDE DEF win
    <3> QED
      BY <1>1, <1>3, <3>1, <3>2
  <2>2. CASE window[w].age < Minute
    <3>1. win = window[w]
      BY <1>1, <2>2 DEF WindowNow
    <3> QED
      BY <1>1, <2>2, <3>1 DEF InBudget
  <2> QED
    BY <1>1, <2>1, <2>2
<1>5. BudgetLeft(w) = PerMinute - win.used
  BY DEF BudgetLeft
<1> HIDE DEF win, batch
<1>6. CASE BudgetLeft(w) <= 0
  <2>1. job' = [job EXCEPT ![w] = NotTicking] /\ recent' = recent
    BY <1>6 DEF Call
  <2>2. job'[w] = NotTicking /\ \A v \in Workers \ {w} : job'[v] = job[v]
    BY <2>1 DEF EmbedInv, Jobs
  <2>3. Spent(w)' = win.used
    BY <1>2, <1>4, <2>2, NotTickingIsJob DEF Spent, InFlight
  <2>4. InBudget(win.used, win.age, r)
    BY <1>1, <1>4 DEF InBudget
  <2>5. InBudget(Spent(w)', window'[w].age, recent'[w]) /\ window'[w].age <= Minute
    BY <1>1, <1>2, <1>4, <2>1, <2>3, <2>4
  <2>6. \A v \in Workers \ {w} : Spent(v)' = Spent(v) /\ window'[v].age = window[v].age
    BY <1>2, <2>2 DEF Spent, InFlight
  <2> QED
    BY <2>1, <2>5, <2>6 DEF BudgetInv, InBudget
<1>7. CASE ~(BudgetLeft(w) <= 0)
  <2> DEFINE n == Cardinality(batch)
             s == [i \in 1 .. Minute |-> r[i] + n]
  <2>1. /\ job' = [job EXCEPT ![w] = [@ EXCEPT !.pc = "answer", !.batch = batch]]
        /\ recent' = [recent EXCEPT ![w] = [i \in 1 .. Minute |-> @[i] + n]]
    BY <1>7 DEF Call, batch
  <2>2. /\ job'[w].pc = "answer" /\ job'[w].batch = batch
        /\ \A v \in Workers \ {w} : job'[v] = job[v]
    BY <2>1 DEF EmbedInv, Jobs, Job
  <2>3. recent'[w] = s /\ \A v \in Workers \ {w} : recent'[v] = recent[v]
    BY <2>1 DEF BudgetInv
  <2>4. n \in Nat /\ n <= BudgetLeft(w)
    <3> DEFINE limit == Smaller(BatchSize, BudgetLeft(w))
    <3>1. limit \in Nat \ {0} /\ limit <= BudgetLeft(w)
      BY <1>1, <1>4, <1>5, <1>7 DEF Smaller
    <3>2. job[w].pending \in SUBSET Docs
      BY DEF EmbedInv, Jobs, Job
    <3> HIDE DEF limit
    <3>3. Cardinality(FirstOf(limit, job[w].pending)) <= limit
      BY <3>1, <3>2, FirstOfSize
    <3>4. FirstOf(limit, job[w].pending) \in SUBSET Docs
      BY <3>2 DEF FirstOf
    <3>5. batch = FirstOf(limit, job[w].pending)
      BY DEF batch, limit
    <3>6. n \in Nat
      BY <3>4, <3>5, BatchesAreFinite
    <3> QED
      BY <1>1, <1>4, <1>5, <3>1, <3>3, <3>5, <3>6
  <2>5. Spent(w)' = win.used + n
    <3>1. Spent(w)' = window'[w].used + InFlight(job'[w])
      BY DEF Spent, InFlight
    <3>2. InFlight(job'[w]) = n
      BY <2>2 DEF InFlight
    <3> QED
      BY <1>2, <3>1, <3>2
  <2> HIDE DEF n
  <2>6. s \in Counts
    <3>1. s \in [1 .. Minute -> Nat]
      BY <1>3, <2>4
    <3>2. ASSUME NEW i \in 1 .. Minute - 1 PROVE s[i] <= s[i + 1]
      <4>1. i \in 1 .. Minute /\ i + 1 \in 1 .. Minute
        BY <1>1
      <4>2. s[i] = r[i] + n /\ s[i + 1] = r[i + 1] + n
        BY <4>1
      <4>3. r[i] \in Nat /\ r[i + 1] \in Nat /\ r[i] <= r[i + 1]
        BY <1>3, <4>1
      <4> HIDE DEF s
      <4> QED
        BY <2>4, <4>2, <4>3
    <3> QED
      BY <3>1, <3>2 DEF Counts
  <2>7. InBudget(win.used + n, win.age, s)
    <3>1. win.age + 1 \in 1 .. Minute
      BY <1>1, <1>4
    <3>2. /\ s[win.age + 1] = r[win.age + 1] + n /\ s[Minute] = r[Minute] + n
          /\ r[win.age + 1] \in Nat /\ r[Minute] \in Nat
      BY <1>3, <3>1
    <3> HIDE DEF s
    <3> QED
      BY <1>1, <1>4, <1>5, <2>4, <3>2 DEF InBudget
  <2> HIDE DEF s
  <2>8. InBudget(Spent(w)', window'[w].age, recent'[w]) /\ window'[w].age <= Minute
    BY <1>1, <1>2, <1>4, <2>3, <2>5, <2>7
  <2>9. \A v \in Workers \ {w} : Spent(v)' = Spent(v) /\ window'[v].age = window[v].age
    BY <1>2, <2>2 DEF Spent, InFlight
  <2>10. recent' \in [Workers -> Counts]
    BY <2>1, <2>3, <2>6 DEF BudgetInv
  <2> QED
    BY <2>3, <2>8, <2>9, <2>10 DEF BudgetInv, InBudget
<1> QED
  BY <1>6, <1>7

\* A process that starts again has sent nothing.
LEMMA RestartKeepsBudget ==
  ASSUME EmbedInv, BudgetInv, NEW w \in Workers, Restart(w) PROVE BudgetInv'
<1>1. /\ job'[w] = NotTicking /\ window'[w] = [age |-> 0, used |-> 0]
      /\ recent' = [recent EXCEPT ![w] = NothingSent]
      /\ \A v \in Workers \ {w} : job'[v] = job[v] /\ window'[v] = window[v]
  BY DEF Restart, EmbedInv, Jobs, Windows
<1>2. Spent(w)' = 0
  BY <1>1, NotTickingIsJob DEF Spent, InFlight
<1>3. NothingSent \in Counts /\ InBudget(0, 0, NothingSent)
  <2>1. /\ NothingSent \in [1 .. Minute -> Nat]
        /\ \A n \in 1 .. Minute : NothingSent[n] = 0
    BY DEF NothingSent
  <2>2. NothingSent \in Counts
    BY <2>1, EmbedderAssumption DEF Counts
  <2>3. 0 + 1 \in 1 .. Minute /\ Minute \in 1 .. Minute
    BY EmbedderAssumption
  <2> QED
    BY <2>1, <2>2, <2>3, EmbedderAssumption DEF InBudget
<1>4. \A v \in Workers \ {w} : Spent(v)' = Spent(v)
  BY <1>1 DEF Spent, InFlight
<1>5. /\ recent' \in [Workers -> Counts] /\ recent'[w] = NothingSent
      /\ \A v \in Workers \ {w} : recent'[v] = recent[v]
  BY <1>1, <1>3 DEF BudgetInv
<1>6. \A v \in Workers \ {w} :
        InBudget(Spent(v)', window'[v].age, recent'[v]) /\ window'[v].age <= Minute
  BY <1>1, <1>4, <1>5 DEF BudgetInv
<1>7. InBudget(Spent(w)', window'[w].age, recent'[w]) /\ window'[w].age <= Minute
  BY <1>1, <1>2, <1>3, <1>5, EmbedderAssumption
<1> QED
  BY <1>5, <1>6, <1>7 DEF BudgetInv, InBudget

LEMMA BudgetInitially == Init => BudgetInv
<1> SUFFICES ASSUME Init PROVE BudgetInv
  OBVIOUS
<1>1. \A w \in Workers : /\ window[w].age = 0 /\ window[w].used = 0 /\ job[w] = NotTicking
                         /\ recent[w] = NothingSent
  BY DEF Init
<1>2. \A w \in Workers : Spent(w) = 0
  BY <1>1, NotTickingIsJob DEF Spent, InFlight
<1>3. /\ NothingSent \in [1 .. Minute -> Nat]
      /\ \A n \in 1 .. Minute : NothingSent[n] = 0
  BY DEF NothingSent
<1>4. NothingSent \in Counts
  BY <1>3, EmbedderAssumption DEF Counts
<1>5. 0 + 1 \in 1 .. Minute /\ Minute \in 1 .. Minute
  BY EmbedderAssumption
<1>6. InBudget(0, 0, NothingSent)
  BY <1>3, <1>5, EmbedderAssumption DEF InBudget
<1>7. recent \in [Workers -> Counts]
  BY <1>4 DEF Init
<1> QED
  BY <1>1, <1>2, <1>6, <1>7, EmbedderAssumption DEF BudgetInv

\* In any minute a process sends at most two windows' budgets to AI, failed calls included,
\* however long a call takes (server/fabric/embedder.js budgetLeft, tick).
THEOREM AtMostTwoBudgetsAMinute == Spec => []TwoBudgetsAMinute
<1>1. Init => BudgetInv
  BY BudgetInitially
<1>2. EmbedInv /\ BudgetInv /\ [Next]_vars => BudgetInv'
  <2> SUFFICES ASSUME EmbedInv, BudgetInv, [Next]_vars PROVE BudgetInv'
    OBVIOUS
  <2>1. ASSUME UNCHANGED <<job, window, recent>> PROVE BudgetInv'
    BY <2>1 DEF BudgetInv, InBudget, Spent, InFlight
  <2>2. ASSUME NEW d \in Docs, NEW public \in BOOLEAN, Change(d, public) PROVE BudgetInv'
    BY <2>1, <2>2 DEF Change
  <2>3. CASE Pass
    BY <2>3, PassKeepsBudget
  <2>4. ASSUME NEW w \in Workers, ReadDocuments(w) PROVE BudgetInv'
    <3> DEFINE j == [NotTicking EXCEPT !.pc = "existing", !.rows = PublicDocuments]
    <3>1. j.pc = "existing"
      BY DEF NotTicking
    <3>2. job[w].pc # "answer" /\ job' = [job EXCEPT ![w] = j] /\ UNCHANGED <<window, recent>>
      BY <2>4 DEF ReadDocuments
    <3> HIDE DEF j
    <3> QED
      BY <3>1, <3>2, NothingInFlight
  <2>5. ASSUME NEW w \in Workers, ReadVectors(w) PROVE BudgetInv'
    <3> DEFINE pending == Outdated(job[w].rows)
               j == IF pending = {} THEN NotTicking
                    ELSE [job[w] EXCEPT !.pc = "batch", !.pending = pending]
    <3>1. job[w].pc # "answer" /\ job' = [job EXCEPT ![w] = j] /\ UNCHANGED <<window, recent>>
      BY <2>5 DEF ReadVectors
    <3>2. j.pc # "answer"
      <4>1. job[w] \in Job
        BY DEF EmbedInv, Jobs
      <4> HIDE DEF pending
      <4> QED
        BY <4>1, NotTickingIsJob DEF Job
    <3> HIDE DEF j
    <3> QED
      BY <3>1, <3>2, NothingInFlight
  <2>6. ASSUME NEW w \in Workers, Call(w) PROVE BudgetInv'
    BY <2>6, CallKeepsBudget
  <2>7. ASSUME NEW w \in Workers, Answered(w) PROVE BudgetInv'
    <3> DEFINE j == [job[w] EXCEPT !.pc = "put"]
    <3>1. job[w].pc = "answer" /\ Spend(w) /\ job' = [job EXCEPT ![w] = j] /\ recent' = recent
      BY <2>7 DEF Answered, EmbedInv, Jobs
    <3>2. j.pc # "answer"
      BY DEF EmbedInv, Jobs, Job
    <3> HIDE DEF j
    <3> QED
      BY <3>1, <3>2, CountedAtLast
  <2>8. ASSUME NEW w \in Workers, Failed(w) PROVE BudgetInv'
    BY <2>8, CountedAtLast, NotTickingIsJob DEF Failed
  <2>9. ASSUME NEW w \in Workers, Put(w) PROVE BudgetInv'
    <3> DEFINE d == Min(job[w].batch)
               batch == job[w].batch \ {d}
               pending == job[w].pending \ {d}
               j == IF batch # {} THEN [job[w] EXCEPT !.batch = batch, !.pending = pending]
                    ELSE IF pending # {}
                    THEN [job[w] EXCEPT !.pc = "batch", !.batch = {}, !.pending = pending]
                    ELSE NotTicking
    <3>1. job[w].pc = "put" /\ job' = [job EXCEPT ![w] = j] /\ UNCHANGED <<window, recent>>
      BY <2>9 DEF Put
    <3>2. j.pc # "answer"
      <4>1. job[w] \in Job
        BY DEF EmbedInv, Jobs
      <4> HIDE DEF batch, pending
      <4> QED
        BY <3>1, <4>1, NotTickingIsJob DEF Job
    <3> HIDE DEF j
    <3> QED
      BY <3>1, <3>2, NothingInFlight
  <2>10. ASSUME NEW w \in Workers, Abandon(w) PROVE BudgetInv'
    BY <2>10, NothingInFlight, NotTickingIsJob DEF Abandon
  <2>11. ASSUME NEW w \in Workers, Restart(w) PROVE BudgetInv'
    BY <2>11, RestartKeepsBudget
  <2>12. CASE UNCHANGED vars
    BY <2>1, <2>12 DEF vars
  <2> QED
    BY <2>2, <2>3, <2>4, <2>5, <2>6, <2>7, <2>8, <2>9, <2>10, <2>11, <2>12 DEF Next, Work
<1>3. EmbedInv /\ BudgetInv => TwoBudgetsAMinute
  <2> SUFFICES ASSUME EmbedInv, BudgetInv, NEW w \in Workers
               PROVE  recent[w][Minute] <= 2 * PerMinute
    BY DEF TwoBudgetsAMinute
  <2>1. /\ Minute \in 1 .. Minute /\ PerMinute \in Nat /\ window[w].age \in Nat
        /\ Spent(w) \in Nat /\ recent[w] \in [1 .. Minute -> Nat]
        /\ InBudget(Spent(w), window[w].age, recent[w]) /\ window[w].age <= Minute
    BY EmbedderAssumption, SpentIsNumber DEF BudgetInv, Counts
  <2>2. CASE window[w].age >= Minute
    BY <2>1, <2>2 DEF InBudget
  <2>3. CASE window[w].age < Minute
    <3>1. window[w].age + 1 \in 1 .. Minute
      BY <2>1, <2>3
    <3> QED
      BY <2>1, <2>3, <3>1 DEF InBudget
  <2> QED
    BY <2>1, <2>2, <2>3
<1> QED
  BY <1>1, <1>2, <1>3, EmbedInvariant, PTL DEF Spec
=============================================================================
