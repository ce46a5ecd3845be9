--------------------------- MODULE Ranking_proofs ---------------------------
(***************************************************************************)
(* Proofs about Ranking, for any queries, weights and documents: the one   *)
(* number the engine sorts by and the tuple the query path sorts by agree, *)
(* but for the cases the properties name, and a better match is not put    *)
(* after a worse one.                                                      *)
(***************************************************************************)
EXTENDS Ranking, FiniteSetTheorems, WellFoundedInduction, TLAPS

-----------------------------------------------------------------------------
(* Computing along a query's words. *)

\* A set that holds 0 and, with each number below n, the next one, holds all numbers up to n.
LEMMA UpTo ==
  ASSUME NEW n \in Nat, NEW T, 0 \in T, \A i \in 1 .. n : i - 1 \in T => i \in T
  PROVE  0 .. n \subseteq T
<1> DEFINE S == (0 .. n) \ T
<1>1. SUFFICES ASSUME S # {} PROVE FALSE
  OBVIOUS
<1>2. S \in SUBSET Nat
  OBVIOUS
<1> HIDE DEF S
<1>3. PICK k \in S : \A m \in S : <<m, k>> \notin OpToRel(<, Nat)
  BY <1>1, <1>2, NatLessThanWellFounded, WFMin, Zenon
<1>4. k \in 0 .. n /\ k \notin T
  BY DEF S
<1>5. k # 0
  BY <1>4
<1>6. k \in 1 .. n /\ k - 1 \in 0 .. n /\ k - 1 \in Nat /\ k \in Nat /\ k - 1 < k
  BY <1>4, <1>5
<1>7. k - 1 \notin T
  BY <1>4, <1>6
<1>8. k - 1 \in S
  BY <1>6, <1>7 DEF S
<1> QED
  BY <1>3, <1>6, <1>8 DEF OpToRel

\* A function whose value at each number up to n is computed from the one before.
Computes(t, n, start, Step) ==
  t = [i \in 0 .. n |-> IF i = 0 THEN start ELSE Step[i, t[i - 1]]]

\* There is such a function, and its values are of the type its steps keep.
LEMMA Computed ==
  ASSUME NEW n \in Nat, NEW V, NEW start \in V, NEW Step \in [(1 .. n) \X V -> V]
  PROVE  \E t \in [0 .. n -> V] : Computes(t, n, start, Step)
<1> DEFINE T == {k \in 0 .. n : \E t \in [0 .. k -> V] : Computes(t, k, start, Step)}
<1>1. 0 \in T
  <2> DEFINE t == [i \in 0 .. 0 |-> start]
  <2>1. t \in [0 .. 0 -> V]
    OBVIOUS
  <2>2. t = [i \in 0 .. 0 |-> IF i = 0 THEN start ELSE Step[i, t[i - 1]]]
    OBVIOUS
  <2> HIDE DEF t
  <2>3. Computes(t, 0, start, Step) /\ 0 \in 0 .. n
    BY <2>2 DEF Computes
  <2> QED
    BY <2>1, <2>3
<1>2. ASSUME NEW k \in 1 .. n, k - 1 \in T PROVE k \in T
  <2>1. k \in 0 .. n /\ k - 1 \in 0 .. k /\ k # 0 /\ k \in 0 .. k
    OBVIOUS
  <2>2. PICK t \in [0 .. k - 1 -> V] : Computes(t, k - 1, start, Step)
    BY <1>2
  <2> DEFINE u == [i \in 0 .. k |-> IF i = k THEN Step[k, t[k - 1]] ELSE t[i]]
  <2>3. u \in [0 .. k -> V]
    <3>1. t[k - 1] \in V
      BY <2>1
    <3>2. Step[k, t[k - 1]] \in V
      BY <3>1
    <3>3. \A i \in 0 .. k : i # k => t[i] \in V
      BY <2>2
    <3> QED
      BY <3>2, <3>3
  <2>4. ASSUME NEW i \in 0 .. k PROVE u[i] = IF i = 0 THEN start ELSE Step[i, u[i - 1]]
    <3>1. CASE i = k
      <4>1. k - 1 # k
        OBVIOUS
      <4>2. u[k] = Step[k, t[k - 1]]
        BY <2>1
      <4>3. u[k - 1] = t[k - 1]
        BY <2>1, <4>1
      <4> HIDE DEF u
      <4> QED
        BY <2>1, <3>1, <4>2, <4>3
    <3>2. CASE i # k
      <4>1. i \in 0 .. k - 1 /\ u[i] = t[i] /\ (i # 0 => i - 1 \in 0 .. k /\ i - 1 # k)
        BY <3>2
      <4>2. t[i] = IF i = 0 THEN start ELSE Step[i, t[i - 1]]
        BY <2>2, <4>1 DEF Computes
      <4> QED
        BY <4>1, <4>2
    <3> QED
      BY <3>1, <3>2
  <2>5. u = [i \in 0 .. k |-> IF i = 0 THEN start ELSE Step[i, u[i - 1]]]
    <3> HIDE DEF u
    <3> QED
      BY <2>3, <2>4
  <2> HIDE DEF u
  <2>6. Computes(u, k, start, Step)
    BY <2>5 DEF Computes
  <2> QED
    BY <2>1, <2>3, <2>6
<1> HIDE DEF T
<1>3. n \in T
  BY <1>1, <1>2, UpTo
<1> QED
  BY <1>3 DEF T

-----------------------------------------------------------------------------
(* Queries. *)

Known == {w \in DOMAIN Weight : Weight[w] \in 1 .. 922}
Matches == [words : Seq(Known), any : BOOLEAN, question : BOOLEAN]

\* The content words of a query are words of which the weight is known.
LEMMA ContentType ==
  ASSUME NEW m \in Matches PROVE Content(m) \in Seq(Known)
<1> DEFINE n == Len(m.words)
           Step == [p \in (1 .. n) \X Seq(Known) |->
                      IF m.words[p[1]] \in FunctionWords THEN p[2]
                      ELSE Append(p[2], m.words[p[1]])]
           Is(t) == t = [i \in 0 .. n |->
                           IF i = 0 THEN <<>>
                           ELSE IF m.words[i] \in FunctionWords THEN t[i - 1]
                           ELSE Append(t[i - 1], m.words[i])]
           content == CHOOSE t : Is(t)
<1>1. m.words \in Seq(Known) /\ n \in Nat /\ \A i \in 1 .. n : m.words[i] \in Known
  BY DEF Matches
<1>2. Content(m) = content[n]
  BY DEF Content
<1>3. \E t : Is(t)
  <2>1. Step \in [(1 .. n) \X Seq(Known) -> Seq(Known)]
    BY <1>1
  <2>2. <<>> \in Seq(Known)
    OBVIOUS
  <2> HIDE DEF n, Step
  <2>3. PICK t \in [0 .. n -> Seq(Known)] : Computes(t, n, <<>>, Step)
    BY <1>1, <2>1, <2>2, Computed
  <2>4. ASSUME NEW i \in 0 .. n, i # 0
        PROVE  Step[i, t[i - 1]] = IF m.words[i] \in FunctionWords THEN t[i - 1]
                                   ELSE Append(t[i - 1], m.words[i])
    <3>1. i \in 1 .. n /\ t[i - 1] \in Seq(Known)
      BY <1>1, <2>3, <2>4
    <3> QED
      BY <3>1 DEF Step
  <2>5. Is(t)
    BY <2>3, <2>4 DEF Computes
  <2> QED
    BY <2>5
<1> HIDE DEF Is
<1>4. Is(content)
  BY <1>3
<1> HIDE DEF content, n
<1> USE DEF Is
<1> DEFINE T == {i \in 0 .. n : content[i] \in Seq(Known)}
<1>5. 0 \in T
  BY <1>1, <1>4
<1>6. ASSUME NEW i \in 1 .. n, i - 1 \in T PROVE i \in T
  <2>1. i \in 0 .. n /\ i # 0
    OBVIOUS
  <2>2. content[i] = IF m.words[i] \in FunctionWords THEN content[i - 1]
                     ELSE Append(content[i - 1], m.words[i])
    BY <1>4, <2>1
  <2>3. content[i - 1] \in Seq(Known) /\ m.words[i] \in Known
    BY <1>1, <1>6
  <2>4. content[i] \in Seq(Known)
    BY <2>2, <2>3
  <2> QED
    BY <2>1, <2>4
<1> HIDE DEF T
<1>7. 0 .. n \subseteq T
  BY <1>1, <1>5, <1>6, UpTo
<1>8. n \in 0 .. n
  BY <1>1
<1> QED
  BY <1>2, <1>7, <1>8 DEF T

\* What a query is rewritten to is a query, and one with words keeps some.
LEMMA RewritingType ==
  ASSUME NEW m \in Matches
  PROVE  /\ QuestionMatch(m) \in Matches /\ ContentWords(m) \in Matches
         /\ m.words # <<>> => QuestionMatch(m).words # <<>> /\ ContentWords(m).words # <<>>
<1>1. Content(m) \in Seq(Known)
  BY ContentType
<1>2. /\ [m EXCEPT !.words = Content(m), !.question = TRUE] \in Matches
      /\ [m EXCEPT !.words = Content(m)] \in Matches
      /\ [m EXCEPT !.words = Content(m), !.question = TRUE].words = Content(m)
      /\ [m EXCEPT !.words = Content(m)].words = Content(m)
  BY <1>1 DEF Matches
<1> QED
  BY <1>2 DEF QuestionMatch, ContentWords

\* What is typed becomes a query of at most maxTerms words.
LEMMA ToMatchType ==
  ASSUME NEW raw \in RawQueries
  PROVE  ToMatch(raw) \in Matches /\ (raw # <<>> => ToMatch(raw).words # <<>>)
           /\ (raw = <<>> => ToMatch(raw) = NoMatch)
<1> DEFINE n == IF Len(raw) < MaxTerms THEN Len(raw) ELSE MaxTerms
<1>1. raw \in Seq(Known) /\ MaxTerms \in Nat \ {0}
  BY RankingAssumption DEF Known
<1>2. SubSeq(raw, 1, n) \in Seq(Known) /\ (raw # <<>> => SubSeq(raw, 1, n) # <<>>)
  <2>1. n \in Nat /\ n <= Len(raw) /\ (raw # <<>> => n >= 1)
    BY <1>1
  <2> HIDE DEF n
  <2>2. SubSeq(raw, 1, n) \in Seq(Known) /\ Len(SubSeq(raw, 1, n)) = n
    BY <1>1, <2>1
  <2> QED
    BY <2>1, <2>2
<1> DEFINE nothing == <<>>
           words == SubSeq(raw, 1, n)
<1>3. ToMatch(raw) = [words |-> words, any |-> FALSE, question |-> FALSE]
  <2>1. ToMatch(raw) = [[words |-> nothing, any |-> FALSE, question |-> FALSE] EXCEPT !.words = words]
    BY Zenon DEF ToMatch, NoMatch
  <2> HIDE DEF nothing, words
  <2> QED
    BY <2>1
<1>4. raw = <<>> => words = nothing
  BY <1>1
<1>5. NoMatch = [words |-> nothing, any |-> FALSE, question |-> FALSE]
  BY Zenon DEF NoMatch
<1>6. words \in Seq(Known) /\ (raw # <<>> => words # <<>>)
  BY <1>2
<1> HIDE DEF nothing, words, n
<1>7. ToMatch(raw) \in Matches /\ ToMatch(raw).words = words
  BY <1>3, <1>6 DEF Matches
<1>8. raw = <<>> => ToMatch(raw) = NoMatch
  BY <1>3, <1>4, <1>5
<1> QED
  BY <1>6, <1>7, <1>8

-----------------------------------------------------------------------------
(* A document under a query. *)

\* What the ranking needs of a document a query found.
Under(d, m) ==
  /\ d.where \in [Range(m.words) -> SUBSET Fields]
  /\ d.relevance \in 0 .. 199

\* What a document holds of the i-th word.
Gain(d, m, i) == Weight[m.words[i]] * FieldFactor(Best(d, m.words[i]))

\* The best of some fields is one of them, or none of none; more fields have as good a best one.
BestFields == Fields \cup {"none"}

LEMMA BestOfMore ==
  ASSUME NEW S \in SUBSET Fields, NEW T \in SUBSET Fields
  PROVE  /\ BestOf(S) \in BestFields /\ FieldTierOf(BestOf(S)) \in 0 .. 3
         /\ S \subseteq T => FieldTierOf(BestOf(T)) >= FieldTierOf(BestOf(S))
BY DEF BestOf, BestFields, Fields, FieldTierOf

LEMMA BestType ==
  ASSUME NEW m \in Matches, NEW d, Under(d, m), NEW w \in Range(m.words)
  PROVE  Best(d, w) \in BestFields /\ FieldTierOf(Best(d, w)) \in 0 .. 3
<1>1. d.where[w] \in SUBSET Fields
  BY DEF Under
<1> QED
  BY <1>1, BestOfMore DEF Best

LEMMA KnownWeight == \A w \in Known : Weight[w] \in Nat
BY DEF Known

LEMMA GainType ==
  ASSUME NEW m \in Matches, NEW d, Under(d, m), NEW i \in 1 .. Len(m.words)
  PROVE  /\ m.words[i] \in Range(m.words) /\ Best(d, m.words[i]) \in BestFields
         /\ Gain(d, m, i) \in Nat
<1>1. m.words \in Seq(Known) /\ m.words[i] \in Known /\ i \in DOMAIN m.words
  BY DEF Matches
<1>2. m.words[i] \in Range(m.words)
  BY <1>1 DEF Range
<1>3. Best(d, m.words[i]) \in BestFields
  BY <1>2, BestType
<1>4. FieldFactor(Best(d, m.words[i])) \in {0, 3, 6, 10}
  BY <1>3 DEF FieldFactor, BestFields, Fields
<1>5. Weight[m.words[i]] \in Nat
  BY <1>1, KnownWeight
<1> QED
  BY <1>2, <1>3, <1>4, <1>5 DEF Gain

\* The coverage adds up what the document holds of each word.
LEMMA CoverageAddsUp ==
  ASSUME NEW m \in Matches, NEW d, Under(d, m)
  PROVE  \E t \in [0 .. Len(m.words) -> Nat] :
           /\ t[0] = 0
           /\ \A i \in 1 .. Len(m.words) : t[i] = t[i - 1] + Gain(d, m, i)
           /\ Coverage(d, m) = IF m.any THEN (t[Len(m.words)] + 50) \div 100 ELSE 0
<1> DEFINE n == Len(m.words)
           Step == [p \in (1 .. n) \X Nat |-> p[2] + Gain(d, m, p[1])]
           Is(t) == t = [i \in 0 .. n |->
                           IF i = 0 THEN 0
                           ELSE t[i - 1] + Weight[m.words[i]] * FieldFactor(Best(d, m.words[i]))]
           held == CHOOSE t : Is(t)
<1>1. n \in Nat /\ \A i \in 1 .. n : Gain(d, m, i) \in Nat
  BY GainType DEF Matches
<1>2. Coverage(d, m) = IF m.any THEN (held[n] + 50) \div 100 ELSE 0
  BY DEF Coverage
<1>3. \E t : Is(t)
  <2>1. Step \in [(1 .. n) \X Nat -> Nat]
    BY <1>1
  <2> HIDE DEF n, Step
  <2>2. PICK t \in [0 .. n -> Nat] : Computes(t, n, 0, Step)
    BY <1>1, <2>1, Computed
  <2>3. ASSUME NEW i \in 0 .. n, i # 0
        PROVE  Step[i, t[i - 1]] =
                 t[i - 1] + Weight[m.words[i]] * FieldFactor(Best(d, m.words[i]))
    <3>1. i \in 1 .. n /\ t[i - 1] \in Nat
      BY <1>1, <2>2, <2>3
    <3> QED
      BY <3>1 DEF Step, Gain
  <2>4. Is(t)
    BY <2>2, <2>3 DEF Computes
  <2> QED
    BY <2>4
<1> HIDE DEF Is
<1>4. Is(held)
  BY <1>3
<1> HIDE DEF held, n
<1> USE DEF Is
<1>5. /\ held[0] = 0
      /\ \A i \in 1 .. n : held[i] = held[i - 1] + Gain(d, m, i)
      /\ DOMAIN held = 0 .. n
  <2>1. held[0] = 0 /\ DOMAIN held = 0 .. n
    BY <1>1, <1>4
  <2>2. ASSUME NEW i \in 1 .. n PROVE held[i] = held[i - 1] + Gain(d, m, i)
    <3>1. i \in 0 .. n /\ i # 0
      BY <1>1
    <3> QED
      BY <1>4, <3>1 DEF Gain
  <2> QED
    BY <2>1, <2>2
<1> DEFINE T == {i \in 0 .. n : held[i] \in Nat}
<1>6. 0 \in T
  BY <1>1, <1>5
<1>7. ASSUME NEW i \in 1 .. n, i - 1 \in T PROVE i \in T
  BY <1>1, <1>5, <1>7
<1> HIDE DEF T
<1>8. 0 .. n \subseteq T
  BY <1>1, <1>6, <1>7, UpTo
<1>9. held \in [0 .. n -> Nat]
  <2>1. \A i \in 0 .. n : held[i] \in Nat
    BY <1>8 DEF T
  <2>2. held = [i \in 0 .. n |-> held[i]]
    BY <1>4
  <2> QED
    BY <2>1, <2>2
<1> HIDE DEF Is
<1> QED
  BY <1>2, <1>5, <1>9 DEF n

\* A document in which every word is in as good a field covers as much.
LEMMA MoreCoverage ==
  ASSUME NEW m \in Matches, NEW a, NEW b, Under(a, m), Under(b, m),
         \A w \in Range(m.words) : FieldTierOf(Best(a, w)) >= FieldTierOf(Best(b, w))
  PROVE  Coverage(a, m) >= Coverage(b, m)
<1> DEFINE n == Len(m.words)
<1>1. n \in Nat
  BY DEF Matches
<1>2. PICK s \in [0 .. n -> Nat] :
        /\ s[0] = 0
        /\ \A i \in 1 .. n : s[i] = s[i - 1] + Gain(a, m, i)
        /\ Coverage(a, m) = IF m.any THEN (s[n] + 50) \div 100 ELSE 0
  BY CoverageAddsUp
<1>3. PICK t \in [0 .. n -> Nat] :
        /\ t[0] = 0
        /\ \A i \in 1 .. n : t[i] = t[i - 1] + Gain(b, m, i)
        /\ Coverage(b, m) = IF m.any THEN (t[n] + 50) \div 100 ELSE 0
  BY CoverageAddsUp
<1>4. ASSUME NEW i \in 1 .. n
      PROVE  /\ Gain(a, m, i) >= Gain(b, m, i)
             /\ Gain(a, m, i) \in Nat /\ Gain(b, m, i) \in Nat
  <2> DEFINE w == m.words[i]
             f == Best(a, w)
             g == Best(b, w)
  <2>1. w \in Range(m.words) /\ f \in BestFields /\ g \in BestFields
    BY GainType
  <2>2. FieldTierOf(f) >= FieldTierOf(g)
    BY <2>1
  <2>3. Weight[w] \in Nat
    <3>1. m.words[i] \in Known
      BY DEF Matches
    <3> QED
      BY <3>1, KnownWeight
  <2> HIDE DEF f, g, w
  <2>4. /\ FieldFactor(f) \in {0, 3, 6, 10} /\ FieldFactor(g) \in {0, 3, 6, 10}
        /\ FieldFactor(f) >= FieldFactor(g)
    BY <2>1, <2>2 DEF FieldFactor, FieldTierOf, BestFields, Fields
  <2>5. Weight[w] * FieldFactor(f) >= Weight[w] * FieldFactor(g)
    BY <2>3, <2>4
  <2> QED
    BY <2>5, GainType DEF Gain, f, g, w
<1> HIDE DEF n
<1> DEFINE T == {i \in 0 .. n : s[i] >= t[i]}
<1>5. 0 \in T
  BY <1>1, <1>2, <1>3
<1>6. ASSUME NEW i \in 1 .. n, i - 1 \in T PROVE i \in T
  <2>1. i \in 0 .. n /\ i - 1 \in 0 .. n
    BY <1>1
  <2>2. s[i] = s[i - 1] + Gain(a, m, i) /\ t[i] = t[i - 1] + Gain(b, m, i)
    BY <1>2, <1>3
  <2>3. s[i - 1] >= t[i - 1] /\ s[i - 1] \in Nat /\ t[i - 1] \in Nat
    BY <1>6, <2>1
  <2>4. s[i] >= t[i]
    BY <1>4, <2>2, <2>3
  <2> QED
    BY <2>1, <2>4
<1> HIDE DEF T
<1>7. 0 .. n \subseteq T
  BY <1>1, <1>5, <1>6, UpTo
<1>8. n \in 0 .. n
  BY <1>1
<1>9. s[n] >= t[n] /\ s[n] \in Nat /\ t[n] \in Nat
  BY <1>7, <1>8 DEF T
<1>10. (s[n] + 50) \div 100 >= (t[n] + 50) \div 100
  BY <1>9
<1> QED
  BY <1>2, <1>3, <1>10

LEMMA CoverageType ==
  ASSUME NEW m \in Matches, NEW d, Under(d, m)
  PROVE  Coverage(d, m) \in Nat /\ (~m.any => Coverage(d, m) = 0)
<1>1. PICK t \in [0 .. Len(m.words) -> Nat] :
        Coverage(d, m) = IF m.any THEN (t[Len(m.words)] + 50) \div 100 ELSE 0
  BY CoverageAddsUp
<1>2. t[Len(m.words)] \in Nat
  BY DEF Matches
<1>3. (t[Len(m.words)] + 50) \div 100 \in Nat
  BY <1>2
<1> QED
  BY <1>1, <1>3

\* A document has one best tier, and none that holds a word is better.
LEMMA FieldTierIsBest ==
  ASSUME NEW m \in Matches, m.words # <<>>, NEW d, Under(d, m)
  PROVE  /\ FieldTier(d, m) \in 0 .. 3
         /\ \A w \in Range(m.words) : FieldTierOf(Best(d, w)) <= FieldTier(d, m)
         /\ \E w \in Range(m.words) : FieldTierOf(Best(d, w)) = FieldTier(d, m)
<1> DEFINE tiers == {FieldTierOf(Best(d, w)) : w \in Range(m.words)}
<1>1. ASSUME NEW w \in Range(m.words) PROVE FieldTierOf(Best(d, w)) \in 0 .. 3
  BY BestType
<1>2. tiers \subseteq 0 .. 3
  BY <1>1
<1>3. PICK w \in Range(m.words) : TRUE
  <2>1. 1 \in DOMAIN m.words
    BY DEF Matches
  <2> QED
    BY <2>1 DEF Range
<1>4. tiers # {}
  BY <1>3
<1>5. FieldTier(d, m) = CHOOSE t \in tiers : \A u \in tiers : u <= t
  BY DEF FieldTier
<1> HIDE DEF tiers
<1>6. \E t \in tiers : \A u \in tiers : u <= t
  <2>1. CASE 3 \in tiers
    BY <1>2, <2>1
  <2>2. CASE 3 \notin tiers /\ 2 \in tiers
    <3>1. tiers \subseteq 0 .. 2
      BY <1>2, <2>2
    <3> QED
      BY <2>2, <3>1
  <2>3. CASE 3 \notin tiers /\ 2 \notin tiers /\ 1 \in tiers
    <3>1. tiers \subseteq 0 .. 1
      BY <1>2, <2>3
    <3> QED
      BY <2>3, <3>1
  <2>4. CASE 3 \notin tiers /\ 2 \notin tiers /\ 1 \notin tiers
    <3>1. tiers \subseteq {0}
      BY <1>2, <2>4
    <3>2. 0 \in tiers /\ \A u \in tiers : u = 0
      BY <1>4, <3>1
    <3>3. \A u \in tiers : u <= 0
      BY <3>2
    <3> QED
      BY <3>2, <3>3
  <2> QED
    BY <2>1, <2>2, <2>3, <2>4
<1>7. FieldTier(d, m) \in tiers /\ \A u \in tiers : u <= FieldTier(d, m)
  BY <1>5, <1>6
<1> USE DEF tiers
<1> QED
  BY <1>2, <1>7

LEMMA BetterField ==
  ASSUME NEW m \in Matches, m.words # <<>>, NEW a, NEW b, Under(a, m), Under(b, m),
         \A w \in Range(m.words) : FieldTierOf(Best(a, w)) >= FieldTierOf(Best(b, w))
  PROVE  FieldTier(a, m) >= FieldTier(b, m)
<1>1. PICK w \in Range(m.words) : FieldTierOf(Best(b, w)) = FieldTier(b, m)
  BY FieldTierIsBest
<1>2. /\ FieldTierOf(Best(a, w)) >= FieldTierOf(Best(b, w))
      /\ FieldTierOf(Best(a, w)) <= FieldTier(a, m)
      /\ FieldTier(a, m) \in 0 .. 3 /\ FieldTier(b, m) \in 0 .. 3
  BY FieldTierIsBest
<1>3. FieldTierOf(Best(a, w)) \in 0 .. 3
  BY BestType
<1> QED
  BY <1>1, <1>2, <1>3

\* The words of a query are finitely many, and so are those in a field.
LEMMA WordsAreFinite ==
  ASSUME NEW m \in Matches, NEW S \in SUBSET Range(m.words)
  PROVE  /\ IsFiniteSet(S) /\ Cardinality(S) \in Nat
         /\ \A T \in SUBSET S : Cardinality(T) <= Cardinality(S)
<1> DEFINE n == Len(m.words)
<1>1. m.words \in [1 .. n -> Range(m.words)] /\ n \in Nat
  BY DEF Matches, Range
<1>2. m.words \in Surjection(1 .. n, Range(m.words))
  BY <1>1 DEF Surjection, Range
<1>3. IsFiniteSet(Range(m.words))
  BY <1>1, <1>2, FS_Interval, FS_Surjection
<1>4. IsFiniteSet(S)
  BY <1>3, FS_Subset
<1> QED
  BY <1>4, FS_Subset, FS_CardinalityType

LEMMA WordsInAreFinite ==
  ASSUME NEW m \in Matches, NEW d, NEW f
  PROVE  /\ WordsIn(f, d, m) \in SUBSET Range(m.words)
         /\ Cardinality(WordsIn(f, d, m)) \in Nat
<1>1. WordsIn(f, d, m) \in SUBSET Range(m.words)
  BY DEF WordsIn
<1> QED
  BY <1>1, WordsAreFinite

LEMMA TitleWordsType ==
  ASSUME NEW m \in Matches, NEW d
  PROVE  /\ TitleWords(d, m) \in 0 .. 4
         /\ TitleWords(d, m) = IF Len(m.words) = 1 THEN 0
                               ELSE IF Cardinality(WordsIn("title", d, m)) < 4
                                    THEN Cardinality(WordsIn("title", d, m)) ELSE 4
<1>1. Cardinality(WordsIn("title", d, m)) \in Nat
  BY WordsInAreFinite
<1>2. TitleWords(d, m) = IF Len(m.words) = 1 THEN 0
                         ELSE IF Cardinality(WordsIn("title", d, m)) < 4
                              THEN Cardinality(WordsIn("title", d, m)) ELSE 4
  BY DEF TitleWords, TitleWordsMax
<1> QED
  BY <1>1, <1>2

LEMMA MoreTitleWords ==
  ASSUME NEW m \in Matches, NEW a, NEW b, Under(a, m), Under(b, m),
         \A w \in Range(m.words) : FieldTierOf(Best(a, w)) >= FieldTierOf(Best(b, w))
  PROVE  TitleWords(a, m) >= TitleWords(b, m)
<1>1. ASSUME NEW w \in WordsIn("title", b, m) PROVE w \in WordsIn("title", a, m)
  <2>1. w \in Range(m.words) /\ Best(b, w) = "title" /\ Best(a, w) \in BestFields
    BY BestType DEF WordsIn, Best, BestOf
  <2>2. FieldTierOf(Best(a, w)) >= 3
    BY <2>1 DEF FieldTierOf
  <2>3. "title" \in a.where[w]
    BY <2>1, <2>2 DEF FieldTierOf, BestFields, Fields, Best, BestOf
  <2> QED
    BY <2>1, <2>3 DEF WordsIn
<1>2. Cardinality(WordsIn("title", b, m)) <= Cardinality(WordsIn("title", a, m))
  BY <1>1, WordsInAreFinite, WordsAreFinite
<1>3. Cardinality(WordsIn("title", b, m)) \in Nat /\ Cardinality(WordsIn("title", a, m)) \in Nat
  BY WordsInAreFinite
<1> QED
  BY <1>2, <1>3, TitleWordsType

\* A document that holds each word wherever another one does scores in as many fields.
LEMMA BetterFieldInSql ==
  ASSUME NEW m \in Matches, NEW a, NEW b, Under(a, m), Under(b, m),
         \A w \in Range(m.words) : b.where[w] \subseteq a.where[w],
         NoPairs(b, m) => NoPairs(a, m)
  PROVE  FieldTierInSql(a, m) >= FieldTierInSql(b, m)
<1>1. ScoredFields(a, m) \in SUBSET Fields /\ ScoredFields(b, m) \in SUBSET Fields
  BY DEF ScoredFields
<1>2. ASSUME NEW f \in ScoredFields(b, m) PROVE f \in ScoredFields(a, m)
  <2> DEFINE least == IF m.any \/ Cardinality(Range(m.words)) = 1 THEN 1 ELSE 2
  <2>1. f \in Fields
    BY DEF ScoredFields
  <2>2. CASE NoPairs(b, m)
    BY <2>1, <2>2 DEF ScoredFields
  <2>3. CASE ~NoPairs(b, m)
    <3>1. Cardinality(WordsIn(f, b, m)) >= least
      BY <2>3 DEF ScoredFields
    <3>2. WordsIn(f, b, m) \subseteq WordsIn(f, a, m)
      BY DEF WordsIn
    <3>3. Cardinality(WordsIn(f, b, m)) <= Cardinality(WordsIn(f, a, m))
      BY <3>2, WordsInAreFinite, WordsAreFinite
    <3>4. least \in Nat /\ Cardinality(WordsIn(f, b, m)) \in Nat /\ Cardinality(WordsIn(f, a, m)) \in Nat
      BY WordsInAreFinite
    <3> HIDE DEF least
    <3>5. Cardinality(WordsIn(f, a, m)) >= least
      BY <3>1, <3>3, <3>4
    <3> QED
      BY <2>1, <3>5 DEF ScoredFields, least
  <2> QED
    BY <2>2, <2>3
<1> QED
  BY <1>1, <1>2, BestOfMore DEF FieldTierInSql

LEMMA FieldTierInSqlType ==
  ASSUME NEW d, NEW m PROVE FieldTierInSql(d, m) \in 0 .. 3
<1>1. ScoredFields(d, m) \in SUBSET Fields
  BY DEF ScoredFields
<1> QED
  BY <1>1, BestOfMore DEF FieldTierInSql

-----------------------------------------------------------------------------
(* The two orders. *)

Keys == [1 .. 5 -> Int]

\* One tuple is above another by the first part in which they differ.
LEMMA AboveByFirst ==
  ASSUME NEW k \in Keys, NEW l \in Keys
  PROVE  Above(k, l) <=>
           \/ k[1] > l[1]
           \/ k[1] = l[1] /\ k[2] > l[2]
           \/ k[1] = l[1] /\ k[2] = l[2] /\ k[3] > l[3]
           \/ k[1] = l[1] /\ k[2] = l[2] /\ k[3] = l[3] /\ k[4] > l[4]
           \/ k[1] = l[1] /\ k[2] = l[2] /\ k[3] = l[3] /\ k[4] = l[4] /\ k[5] > l[5]
<1>1. DOMAIN k = 1 .. 5
  BY DEF Keys
<1>2. ASSUME NEW i \in 1 .. 5, k[i] > l[i], \A j \in 1 .. i - 1 : k[j] = l[j]
      PROVE  \/ k[1] > l[1]
             \/ k[1] = l[1] /\ k[2] > l[2]
             \/ k[1] = l[1] /\ k[2] = l[2] /\ k[3] > l[3]
             \/ k[1] = l[1] /\ k[2] = l[2] /\ k[3] = l[3] /\ k[4] > l[4]
             \/ k[1] = l[1] /\ k[2] = l[2] /\ k[3] = l[3] /\ k[4] = l[4] /\ k[5] > l[5]
  <2>1. i = 1 \/ i = 2 \/ i = 3 \/ i = 4 \/ i = 5
    OBVIOUS
  <2> QED
    BY <1>2, <2>1
<1>3. CASE k[1] > l[1]
  <2>1. \A j \in 1 .. 1 - 1 : k[j] = l[j]
    OBVIOUS
  <2> QED
    BY <1>1, <1>3, <2>1 DEF Above
<1>4. CASE k[1] = l[1] /\ k[2] > l[2]
  <2>1. \A j \in 1 .. 2 - 1 : k[j] = l[j]
    BY <1>4
  <2> QED
    BY <1>1, <1>4, <2>1 DEF Above
<1>5. CASE k[1] = l[1] /\ k[2] = l[2] /\ k[3] > l[3]
  <2>1. \A j \in 1 .. 3 - 1 : k[j] = l[j]
    BY <1>5
  <2> QED
    BY <1>1, <1>5, <2>1 DEF Above
<1>6. CASE k[1] = l[1] /\ k[2] = l[2] /\ k[3] = l[3] /\ k[4] > l[4]
  <2>1. \A j \in 1 .. 4 - 1 : k[j] = l[j]
    BY <1>6
  <2> QED
    BY <1>1, <1>6, <2>1 DEF Above
<1>7. CASE k[1] = l[1] /\ k[2] = l[2] /\ k[3] = l[3] /\ k[4] = l[4] /\ k[5] > l[5]
  <2>1. \A j \in 1 .. 5 - 1 : k[j] = l[j]
    BY <1>7
  <2> QED
    BY <1>1, <1>7, <2>1 DEF Above
<1> QED
  BY <1>1, <1>2, <1>3, <1>4, <1>5, <1>6, <1>7 DEF Above

\* Of two tuples that differ exactly one is above the other.
LEMMA AboveIsTotal ==
  ASSUME NEW k \in Keys, NEW l \in Keys
  PROVE  /\ ~(Above(k, l) /\ Above(l, k))
         /\ ~Above(k, l) /\ ~Above(l, k) => k = l
         /\ k = l => ~Above(k, l)
<1>1. \A i \in 1 .. 5 : k[i] \in Int /\ l[i] \in Int
  BY DEF Keys
<1>2. /\ k[1] \in Int /\ l[1] \in Int /\ k[2] \in Int /\ l[2] \in Int /\ k[3] \in Int /\ l[3] \in Int
      /\ k[4] \in Int /\ l[4] \in Int /\ k[5] \in Int /\ l[5] \in Int
  BY <1>1
<1>3. ~(Above(k, l) /\ Above(l, k)) /\ (k = l => ~Above(k, l))
  BY <1>2, AboveByFirst
<1>4. ASSUME ~Above(k, l), ~Above(l, k) PROVE k = l
  <2>1. k[1] = l[1] /\ k[2] = l[2] /\ k[3] = l[3] /\ k[4] = l[4] /\ k[5] = l[5]
    BY <1>2, <1>4, AboveByFirst
  <2>2. ASSUME NEW i \in 1 .. 5 PROVE k[i] = l[i]
    <3>1. i = 1 \/ i = 2 \/ i = 3 \/ i = 4 \/ i = 5
      OBVIOUS
    <3> QED
      BY <2>1, <3>1
  <2> QED
    BY <2>2 DEF Keys
<1> QED
  BY <1>3, <1>4

\* Two documents change places when the second's tuple is above, and only then.
LEMMA OrderOfTwo ==
  ASSUME NEW a, NEW b, NEW m, RankKey(a, m) \in Keys, RankKey(b, m) \in Keys
  PROVE  /\ Above(RankKey(b, m), RankKey(a, m)) => RankOrder(<<a, b>>, m) = <<b, a>>
         /\ ~Above(RankKey(b, m), RankKey(a, m)) => RankOrder(<<a, b>>, m) = <<a, b>>
<1> DEFINE list == <<a, b>>
           key == [i \in DOMAIN list |-> RankKey(list[i], m)]
           Before(i, j) == Above(key[i], key[j]) \/ (key[i] = key[j] /\ i < j)
           Place(i) == Cardinality({j \in DOMAIN list : Before(j, i)}) + 1
           At(p) == CHOOSE i \in DOMAIN list : Place(i) = p
           k == RankKey(a, m)
           l == RankKey(b, m)
<1>1. RankOrder(list, m) = [p \in DOMAIN list |-> list[At(p)]]
  BY DEF RankOrder
<1>2. DOMAIN list = {1, 2} /\ list[1] = a /\ list[2] = b
  OBVIOUS
<1> HIDE DEF list
<1>3. key[1] = k /\ key[2] = l
  BY <1>2
<1> HIDE DEF key, k, l
<1>4. /\ k \in Keys /\ l \in Keys
  BY DEF k, l
<1>5. /\ ~Before(1, 1) /\ ~Before(2, 2)
      /\ Before(2, 1) <=> Above(l, k)
      /\ Before(1, 2) <=> ~Above(l, k)
  BY <1>3, <1>4, AboveIsTotal
<1> HIDE DEF Before
<1>6. /\ Cardinality({}) = 0 /\ Cardinality({1}) = 1 /\ Cardinality({2}) = 1
  BY FS_EmptySet, FS_Singleton
<1>7. CASE Above(l, k)
  <2>1. {j \in DOMAIN list : Before(j, 1)} = {2} /\ {j \in DOMAIN list : Before(j, 2)} = {}
    BY <1>2, <1>5, <1>7
  <2>2. Place(1) = 2 /\ Place(2) = 1
    BY <1>6, <2>1
  <2> HIDE DEF Place
  <2>3. At(1) = 2 /\ At(2) = 1
    BY <1>2, <2>2
  <2> HIDE DEF At
  <2>4. RankOrder(list, m) = [p \in {1, 2} |-> IF p = 1 THEN b ELSE a]
    BY <1>1, <1>2, <2>3
  <2>5. <<b, a>> = [p \in {1, 2} |-> IF p = 1 THEN b ELSE a]
    OBVIOUS
  <2> QED
    BY <1>7, <2>4, <2>5 DEF list, k, l
<1>8. CASE ~Above(l, k)
  <2>1. {j \in DOMAIN list : Before(j, 1)} = {} /\ {j \in DOMAIN list : Before(j, 2)} = {1}
    BY <1>2, <1>5, <1>8
  <2>2. Place(1) = 1 /\ Place(2) = 2
    BY <1>6, <2>1
  <2> HIDE DEF Place
  <2>3. At(1) = 1 /\ At(2) = 2
    BY <1>2, <2>2
  <2> HIDE DEF At
  <2>4. RankOrder(list, m) = [p \in {1, 2} |-> IF p = 1 THEN a ELSE b]
    BY <1>1, <1>2, <2>3
  <2>5. <<a, b>> = [p \in {1, 2} |-> IF p = 1 THEN a ELSE b]
    OBVIOUS
  <2> QED
    BY <1>8, <2>4, <2>5 DEF list, k, l
<1> QED
  BY <1>7, <1>8

\* The parts the two orders are made of.
LEMMA RankParts ==
  ASSUME NEW m \in Matches, m.words # <<>>, NEW d, Under(d, m)
  PROVE  /\ Coverage(d, m) \in Nat /\ FieldTier(d, m) \in 0 .. 3 /\ TitleWords(d, m) \in 0 .. 4
         /\ d.relevance \in 0 .. 199
         /\ RankKey(d, m) \in Keys
         /\ RankKey(d, m)[1] = Coverage(d, m)
         /\ RankKey(d, m)[2] = 10 * Flag(SiteInJs(d, m)) + FieldTier(d, m)
         /\ RankKey(d, m)[3] = Flag(IsAnswer(d, m))
         /\ RankKey(d, m)[4] = TitleWords(d, m)
         /\ RankKey(d, m)[5] = Flag(~ThinInJs(d))
<1>1. /\ Coverage(d, m) \in Nat /\ FieldTier(d, m) \in 0 .. 3 /\ TitleWords(d, m) \in 0 .. 4
      /\ d.relevance \in 0 .. 199
  BY CoverageType, FieldTierIsBest, TitleWordsType DEF Under
<1>2. /\ Flag(SiteInJs(d, m)) \in 0 .. 1 /\ Flag(IsAnswer(d, m)) \in 0 .. 1
      /\ Flag(~ThinInJs(d)) \in 0 .. 1
  BY DEF Flag
<1> DEFINE c == Coverage(d, m)
           s == 10 * Flag(SiteInJs(d, m)) + FieldTier(d, m)
           a == Flag(IsAnswer(d, m))
           w == TitleWords(d, m)
           h == Flag(~ThinInJs(d))
<1>3. c \in Int /\ s \in Int /\ a \in Int /\ w \in Int /\ h \in Int
  BY <1>1, <1>2
<1>4. RankKey(d, m) = <<c, s, a, w, h>>
  BY DEF RankKey
<1> HIDE DEF c, s, a, w, h
<1>5. <<c, s, a, w, h>> \in Keys
  BY <1>3 DEF Keys
<1>6. /\ RankKey(d, m)[1] = c /\ RankKey(d, m)[2] = s /\ RankKey(d, m)[3] = a
      /\ RankKey(d, m)[4] = w /\ RankKey(d, m)[5] = h
  BY <1>4
<1> QED
  BY <1>1, <1>4, <1>5, <1>6 DEF c, s, a, w, h

\* On which the two tests of site, of thinness and of the field agree.
LEMMA TestsAgree ==
  ASSUME NEW d, NEW m, ~TestsDiffer(d, m)
  PROVE  /\ Flag(SiteInSql(d, m)) = Flag(SiteInJs(d, m))
         /\ Flag(ThinInSql(d)) = 1 - Flag(~ThinInJs(d))
         /\ FieldTierInSql(d, m) = FieldTier(d, m)
<1>0. FieldTierInSql(d, m) = FieldTier(d, m)
  BY Zenon DEF TestsDiffer
<1>1. (SiteInSql(d, m) <=> SiteInJs(d, m)) /\ (ThinInSql(d) <=> ThinInJs(d))
  BY Zenon DEF TestsDiffer, SiteInSql, SiteInJs, ThinInSql, ThinInJs
<1> QED
  BY <1>0, <1>1 DEF Flag

\* Where the tests agree, the engine's number is made of the parts of the query path's tuple.
LEMMA EngineParts ==
  ASSUME NEW m \in Matches, NEW d, ~TestsDiffer(d, m)
  PROVE  EngineRank(d, m) =
           Coverage(d, m) * 100000 + (10 * Flag(SiteInJs(d, m)) + FieldTier(d, m)) * 10000
             + Flag(IsAnswer(d, m)) * 5000 + TitleWords(d, m) * 1000 + d.relevance
             - 200 * (1 - Flag(~ThinInJs(d)))
BY TestsAgree DEF EngineRank

\* The engine's number is not as high for a lower tuple, but for a tenth against the site: no
\* part of it outweighs the part before.
LEMMA EngineAgrees ==
  ASSUME NEW m \in Matches, m.words # <<>>, NEW a, NEW b, Under(a, m), Under(b, m),
         ~TestsDiffer(a, m), ~TestsDiffer(b, m),
         EngineRank(a, m) >= EngineRank(b, m), Above(RankKey(b, m), RankKey(a, m))
  PROVE  TenthAgainstSite(a, b, m)
<1> DEFINE c1 == Coverage(a, m)
           s1 == Flag(SiteInJs(a, m))
           t1 == FieldTier(a, m)
           q1 == Flag(IsAnswer(a, m))
           w1 == TitleWords(a, m)
           h1 == Flag(~ThinInJs(a))
           r1 == a.relevance
           k == RankKey(a, m)
           c2 == Coverage(b, m)
           s2 == Flag(SiteInJs(b, m))
           t2 == FieldTier(b, m)
           q2 == Flag(IsAnswer(b, m))
           w2 == TitleWords(b, m)
           h2 == Flag(~ThinInJs(b))
           r2 == b.relevance
           l == RankKey(b, m)
<1>1. c1 \in Nat /\ t1 \in 0 .. 3 /\ w1 \in 0 .. 4 /\ r1 \in 0 .. 199
  BY RankParts
<1>2. c2 \in Nat /\ t2 \in 0 .. 3 /\ w2 \in 0 .. 4 /\ r2 \in 0 .. 199
  BY RankParts
<1>3. s1 \in 0 .. 1 /\ q1 \in 0 .. 1 /\ h1 \in 0 .. 1
  BY DEF Flag
<1>4. s2 \in 0 .. 1 /\ q2 \in 0 .. 1 /\ h2 \in 0 .. 1
  BY DEF Flag
<1>5. /\ k \in Keys /\ k[1] = c1 /\ k[2] = 10 * s1 + t1 /\ k[3] = q1 /\ k[4] = w1 /\ k[5] = h1
      /\ l \in Keys /\ l[1] = c2 /\ l[2] = 10 * s2 + t2 /\ l[3] = q2 /\ l[4] = w2 /\ l[5] = h2
  BY RankParts
<1>6. c1 * 100000 + (10 * s1 + t1) * 10000 + q1 * 5000 + w1 * 1000 + r1 - 200 * (1 - h1)
        >= c2 * 100000 + (10 * s2 + t2) * 10000 + q2 * 5000 + w2 * 1000 + r2 - 200 * (1 - h2)
  BY EngineParts
<1>7. Above(l, k)
  OBVIOUS
<1> HIDE DEF c1, s1, t1, q1, w1, h1, r1, k, c2, s2, t2, q2, w2, h2, r2, l
<1>8. \/ c2 > c1
      \/ c2 = c1 /\ 10 * s2 + t2 > 10 * s1 + t1
      \/ c2 = c1 /\ 10 * s2 + t2 = 10 * s1 + t1 /\ q2 > q1
      \/ c2 = c1 /\ 10 * s2 + t2 = 10 * s1 + t1 /\ q2 = q1 /\ w2 > w1
      \/ c2 = c1 /\ 10 * s2 + t2 = 10 * s1 + t1 /\ q2 = q1 /\ w2 = w1 /\ h2 > h1
  BY <1>5, <1>7, AboveByFirst
<1>9. c2 = c1 + 1 /\ s1 = 1 /\ s2 = 0
  <2>1. c2 > c1
    <3>1. CASE c2 = c1 /\ 10 * s2 + t2 > 10 * s1 + t1
      BY <1>1, <1>2, <1>3, <1>4, <1>6, <3>1
    <3>2. CASE c2 = c1 /\ 10 * s2 + t2 = 10 * s1 + t1
      <4>1. q1 * 5000 + w1 * 1000 + r1 - 200 * (1 - h1) >= q2 * 5000 + w2 * 1000 + r2 - 200 * (1 - h2)
        BY <1>1, <1>2, <1>3, <1>4, <1>6, <3>2
      <4>2. q2 > q1 \/ (q2 = q1 /\ w2 > w1) \/ (q2 = q1 /\ w2 = w1 /\ h2 > h1)
        BY <1>1, <1>2, <1>3, <1>4, <1>8, <3>2
      <4>3. CASE q2 > q1
        BY <1>1, <1>2, <1>3, <1>4, <4>1, <4>3
      <4>4. CASE q2 = q1 /\ w2 > w1
        BY <1>1, <1>2, <1>3, <1>4, <4>1, <4>4
      <4>5. CASE q2 = q1 /\ w2 = w1 /\ h2 > h1
        BY <1>1, <1>2, <1>3, <1>4, <4>1, <4>5
      <4> QED
        BY <4>2, <4>3, <4>4, <4>5
    <3> QED
      BY <1>8, <3>1, <3>2
  <2>2. c2 = c1 + 1
    BY <1>1, <1>2, <1>3, <1>4, <1>6, <2>1
  <2>3. s1 = 1 /\ s2 = 0
    BY <1>1, <1>2, <1>3, <1>4, <1>6, <2>2
  <2> QED
    BY <2>2, <2>3
<1>10. SiteInSql(a, m) /\ ~SiteInSql(b, m)
  <2>1. Flag(SiteInSql(a, m)) = 1 /\ Flag(SiteInSql(b, m)) = 0
    BY <1>9, TestsAgree DEF s1, s2
  <2> QED
    BY <2>1 DEF Flag
<1>11. m.any
  BY <1>1, <1>9, CoverageType DEF c1, c2
<1> QED
  BY <1>9, <1>10, <1>11 DEF TenthAgainstSite, c1, c2

\* A document as good in every part of the tuple is not below.
LEMMA AsGoodIsNotBelow ==
  ASSUME NEW m \in Matches, m.words # <<>>, NEW a, NEW b, Under(a, m), Under(b, m), AsGood(a, b, m)
  PROVE  ~Above(RankKey(b, m), RankKey(a, m))
<1> DEFINE k == RankKey(a, m)
           l == RankKey(b, m)
<1>1. \A w \in Range(m.words) : FieldTierOf(Best(a, w)) >= FieldTierOf(Best(b, w))
  BY DEF AsGood
<1>2. /\ Coverage(a, m) >= Coverage(b, m) /\ FieldTier(a, m) >= FieldTier(b, m)
      /\ TitleWords(a, m) >= TitleWords(b, m)
  BY <1>1, MoreCoverage, BetterField, MoreTitleWords
<1>3. /\ Flag(SiteInJs(a, m)) \in 0 .. 1 /\ Flag(SiteInJs(b, m)) \in 0 .. 1
      /\ Flag(SiteInJs(a, m)) >= Flag(SiteInJs(b, m))
      /\ Flag(IsAnswer(a, m)) \in 0 .. 1 /\ Flag(IsAnswer(b, m)) \in 0 .. 1
      /\ Flag(IsAnswer(a, m)) >= Flag(IsAnswer(b, m))
      /\ Flag(~ThinInJs(a)) \in 0 .. 1 /\ Flag(~ThinInJs(b)) \in 0 .. 1
      /\ Flag(~ThinInJs(a)) >= Flag(~ThinInJs(b))
  BY DEF AsGood, Flag
<1>4. FieldTier(a, m) \in 0 .. 3 /\ FieldTier(b, m) \in 0 .. 3
  BY RankParts
<1>5. k \in Keys /\ l \in Keys
  BY RankParts
<1>6. k[1] >= l[1] /\ k[2] >= l[2] /\ k[3] >= l[3] /\ k[4] >= l[4] /\ k[5] >= l[5]
  BY <1>2, <1>3, <1>4, RankParts
<1>7. \A i \in 1 .. 5 : k[i] \in Int /\ l[i] \in Int
  BY <1>5 DEF Keys
<1>8. /\ k[1] \in Int /\ l[1] \in Int /\ k[2] \in Int /\ l[2] \in Int /\ k[3] \in Int /\ l[3] \in Int
      /\ k[4] \in Int /\ l[4] \in Int /\ k[5] \in Int /\ l[5] \in Int
  BY <1>7
<1> HIDE DEF k, l
<1>9. ~Above(l, k)
  BY <1>5, <1>6, <1>8, AboveByFirst
<1> QED
  BY <1>9 DEF k, l

\* In the engine's number one as good in every part is below by relevance alone.
LEMMA AsGoodInTheEngine ==
  ASSUME NEW m \in Matches, m.words # <<>>, NEW a, NEW b, Under(a, m), Under(b, m),
         AsGoodInSql(a, b, m)
  PROVE  EngineRank(a, m) > EngineRank(b, m) - 200
<1> DEFINE c1 == Coverage(a, m)
           s1 == Flag(SiteInSql(a, m))
           t1 == FieldTierInSql(a, m)
           q1 == Flag(IsAnswer(a, m))
           w1 == TitleWords(a, m)
           h1 == Flag(ThinInSql(a))
           r1 == a.relevance
           e1 == EngineRank(a, m)
           c2 == Coverage(b, m)
           s2 == Flag(SiteInSql(b, m))
           t2 == FieldTierInSql(b, m)
           q2 == Flag(IsAnswer(b, m))
           w2 == TitleWords(b, m)
           h2 == Flag(ThinInSql(b))
           r2 == b.relevance
           e2 == EngineRank(b, m)
<1>1. ASSUME NEW w \in Range(m.words) PROVE FieldTierOf(Best(a, w)) >= FieldTierOf(Best(b, w))
  <2>1. b.where[w] \in SUBSET Fields /\ a.where[w] \in SUBSET Fields /\ b.where[w] \subseteq a.where[w]
    BY DEF Under, AsGoodInSql
  <2> QED
    BY <2>1, BestOfMore DEF Best
<1>2. c1 >= c2 /\ w1 >= w2
  BY <1>1, MoreCoverage, MoreTitleWords
<1>3. t1 >= t2
  BY BetterFieldInSql DEF AsGoodInSql
<1>4. /\ c1 \in Nat /\ t1 \in 0 .. 3 /\ w1 \in 0 .. 4 /\ r1 \in 0 .. 199
      /\ c2 \in Nat /\ t2 \in 0 .. 3 /\ w2 \in 0 .. 4 /\ r2 \in 0 .. 199
  BY RankParts, FieldTierInSqlType
<1>5. /\ s1 \in 0 .. 1 /\ q1 \in 0 .. 1 /\ h1 \in 0 .. 1
      /\ s2 \in 0 .. 1 /\ q2 \in 0 .. 1 /\ h2 \in 0 .. 1
      /\ s1 >= s2 /\ q1 >= q2 /\ h1 <= h2
  BY DEF AsGoodInSql, Flag
<1>6. /\ e1 = c1 * 100000 + (10 * s1 + t1) * 10000 + q1 * 5000 + w1 * 1000 + r1 - 200 * h1
      /\ e2 = c2 * 100000 + (10 * s2 + t2) * 10000 + q2 * 5000 + w2 * 1000 + r2 - 200 * h2
  BY DEF EngineRank
<1> HIDE DEF c1, s1, t1, q1, w1, h1, r1, e1, c2, s2, t2, q2, w2, h2, r2, e2
<1>7. e1 > e2 - 200
  BY <1>2, <1>3, <1>4, <1>5, <1>6
<1> QED
  BY <1>7 DEF e1, e2

-----------------------------------------------------------------------------
(* One query after another. *)

\* A query that is not the empty one has words, and the page is made of two documents it finds.
RankingInv ==
  /\ match \in Matches
  /\ match # NoMatch => match.words # <<>>
  /\ hits # <<>> =>
       /\ match # NoMatch
       /\ \E a, b \in Found(match) : hits = <<a, b>> /\ page = RankOrder(<<a, b>>, match)

\* A document a query finds has a field for each of the query's words.
LEMMA FoundIsUnder ==
  ASSUME NEW m \in Matches, NEW d \in Found(m) PROVE Under(d, m)
<1>1. PICK s \in Shapes, p \in Placements(m) : d = WithFields(s, p)
  BY DEF Found
<1>2. d.where = p /\ d.relevance = s.relevance
  BY <1>1 DEF WithFields
<1>3. s.relevance \in 0 .. 199
  BY RankingAssumption DEF Shape
<1>4. p \in [Range(m.words) -> SUBSET Fields]
  <2>1. CASE Len(m.words) <= FreeWords
    <3>1. p \in [Range(m.words) -> Holdings]
      BY <2>1 DEF Placements
    <3>2. Holdings \subseteq SUBSET Fields
      BY RankingAssumption
    <3> QED
      BY <3>1, <3>2
  <2>2. CASE ~(Len(m.words) <= FreeWords)
    <3>1. PICK n \in 0 .. Len(m.words) :
            p = [w \in Range(m.words) |->
                   IF \E i \in 1 .. n : m.words[i] = w THEN {"title"} ELSE {"body"}]
      BY <2>2 DEF Placements
    <3>2. {"title"} \in SUBSET Fields /\ {"body"} \in SUBSET Fields
      BY DEF Fields
    <3> QED
      BY <3>1, <3>2
  <2> QED
    BY <2>1, <2>2
<1> QED
  BY <1>2, <1>3, <1>4 DEF Under

LEMMA NoMatchIsMatch == NoMatch \in Matches /\ NoMatch.words = <<>> /\ NoMatch.any = FALSE
<1> DEFINE nothing == <<>>
<1>1. NoMatch = [words |-> nothing, any |-> FALSE, question |-> FALSE]
  BY Zenon DEF NoMatch
<1>2. nothing \in Seq(Known) /\ nothing = <<>>
  OBVIOUS
<1> HIDE DEF nothing
<1> QED
  BY <1>1, <1>2 DEF Matches

LEMMA RankingInvariant == Spec => []RankingInv
<1>1. Init => RankingInv
  BY NoMatchIsMatch DEF Init, RankingInv
<1>2. RankingInv /\ [Next]_vars => RankingInv'
  <2> SUFFICES ASSUME RankingInv, [Next]_vars PROVE RankingInv'
    OBVIOUS
  <2>1. ASSUME NEW raw \in RawQueries, Ask(raw) PROVE RankingInv'
    <3>1. hits = <<>> /\ hits' = hits
      BY <2>1 DEF Ask, RankingInv
    <3>2. match' = QuestionMatch(ToMatch(raw)) /\ ToMatch(raw) \in Matches
      BY <2>1, ToMatchType DEF Ask
    <3>3. match' \in Matches
      BY <3>2, RewritingType
    <3>4. match' # NoMatch => match'.words # <<>>
      <4>1. CASE raw # <<>>
        BY <3>2, <4>1, ToMatchType, RewritingType
      <4>2. CASE raw = <<>>
        <5>1. ToMatch(raw) = NoMatch
          BY <4>2, ToMatchType
        <5>2. NoMatch.question = FALSE /\ Len(NoMatch.words) = 0
          BY NoMatchIsMatch, Zenon DEF NoMatch
        <5>3. ~IsQuestion(NoMatch)
          BY <5>2 DEF IsQuestion
        <5> QED
          BY <3>2, <5>1, <5>3 DEF QuestionMatch
      <4> QED
        BY <4>1, <4>2
    <3> QED
      BY <3>1, <3>3, <3>4 DEF RankingInv
  <2>2. ASSUME Relax PROVE RankingInv'
    <3>1. /\ hits = <<>> /\ hits' = hits /\ match \in Matches /\ match.words # <<>>
          /\ match' = [ContentWords(match) EXCEPT !.any = TRUE]
      <4>1. match \in Matches /\ Len(match.words) > 1
        BY <2>2 DEF Relax, RankingInv
      <4>2. match.words # <<>>
        BY <4>1 DEF Matches
      <4> QED
        BY <2>2, <4>1, <4>2 DEF Relax
    <3>2. ContentWords(match) \in Matches /\ ContentWords(match).words # <<>>
      BY <3>1, RewritingType
    <3>3. match' \in Matches /\ match'.words = ContentWords(match).words
      BY <3>1, <3>2 DEF Matches
    <3> QED
      BY <3>1, <3>2, <3>3 DEF RankingInv
  <2>3. ASSUME Rank PROVE RankingInv'
    BY <2>3 DEF Rank, RankingInv
  <2>4. ASSUME Again PROVE RankingInv'
    BY <2>4, NoMatchIsMatch DEF Again, RankingInv
  <2>5. CASE UNCHANGED vars
    BY <2>5 DEF vars, RankingInv
  <2> QED
    BY <2>1, <2>2, <2>3, <2>4, <2>5 DEF Next
<1> QED
  BY <1>1, <1>2, PTL DEF Spec

\* The two documents of the page, and the order the page puts them in.
LEMMA TwoHits ==
  ASSUME RankingInv, hits # <<>>
  PROVE  \E a, b : /\ hits = <<a, b>> /\ hits[1] = a /\ hits[2] = b
                   /\ match \in Matches /\ match.words # <<>>
                   /\ Under(a, match) /\ Under(b, match)
                   /\ Above(RankKey(b, match), RankKey(a, match)) =>
                        page = <<b, a>> /\ page[1] = b /\ page[2] = a
                   /\ ~Above(RankKey(b, match), RankKey(a, match)) => page = hits
<1>1. PICK a \in Found(match), b \in Found(match) :
        hits = <<a, b>> /\ page = RankOrder(<<a, b>>, match)
  BY DEF RankingInv
<1>2. match \in Matches /\ match.words # <<>>
  BY DEF RankingInv
<1>3. Under(a, match) /\ Under(b, match)
  BY <1>2, FoundIsUnder
<1>4. RankKey(a, match) \in Keys /\ RankKey(b, match) \in Keys
  BY <1>2, <1>3, RankParts
<1>5. /\ Above(RankKey(b, match), RankKey(a, match)) => page = <<b, a>>
      /\ ~Above(RankKey(b, match), RankKey(a, match)) => page = <<a, b>>
  BY <1>1, <1>4, OrderOfTwo
<1>6. hits[1] = a /\ hits[2] = b /\ <<b, a>>[1] = b /\ <<b, a>>[2] = a
  BY <1>1
<1> QED
  BY <1>1, <1>2, <1>3, <1>5, <1>6

\* The number packs the tuple: what the engine puts first the query path leaves first, but for
\* documents on which the tests of site, of thinness or of the field differ (the last of a
\* query of every word), and for a tenth of coverage against the site (server/engine/pg.js
\* matchedSet, server/ranking.js, server/api/query.js rankOrder).
THEOREM EngineOrderIsKept == Spec => []OrderKept
<1>1. RankingInv => OrderKept
  <2> SUFFICES ASSUME RankingInv, hits # <<>>, EngineRank(hits[1], match) >= EngineRank(hits[2], match),
                      ~TestsDiffer(hits[1], match), ~TestsDiffer(hits[2], match), page # hits
               PROVE  TenthAgainstSite(hits[1], hits[2], match)
    BY DEF OrderKept
  <2>1. PICK a, b : /\ hits[1] = a /\ hits[2] = b /\ match \in Matches /\ match.words # <<>>
                    /\ Under(a, match) /\ Under(b, match)
                    /\ Above(RankKey(b, match), RankKey(a, match))
    BY TwoHits
  <2> QED
    BY <2>1, EngineAgrees
<1> QED
  BY <1>1, RankingInvariant, PTL

\* A document as good as another in every word, in site, as an answer and in thinness is not put
\* after it by the query path; by the engine one that holds each word wherever the other does is
\* put after it for its relevance only, or when the other is a site's own record that holds less
\* than two of all the words (server/ranking.js fieldTier, coverage, titleWords;
\* server/api/query.js rankOrder; server/engine/pg.js matchedSet).
THEOREM BetterMatchIsFirst == Spec => []BetterMatchFirst
<1>1. RankingInv => BetterMatchFirst
  <2> SUFFICES ASSUME RankingInv, hits # <<>>
               PROVE  /\ AsGood(page[2], page[1], match) => page = hits
                      /\ AsGoodInSql(hits[1], hits[2], match)
                           => EngineRank(hits[1], match) > EngineRank(hits[2], match) - 200
    BY DEF BetterMatchFirst
  <2>1. PICK a, b : /\ hits[1] = a /\ hits[2] = b /\ match \in Matches /\ match.words # <<>>
                    /\ Under(a, match) /\ Under(b, match)
                    /\ Above(RankKey(b, match), RankKey(a, match)) => page[1] = b /\ page[2] = a
                    /\ ~Above(RankKey(b, match), RankKey(a, match)) => page = hits
    BY TwoHits
  <2>2. AsGood(page[2], page[1], match) => page = hits
    BY <2>1, AsGoodIsNotBelow
  <2>3. ASSUME AsGoodInSql(hits[1], hits[2], match)
        PROVE  EngineRank(hits[1], match) > EngineRank(hits[2], match) - 200
    BY <2>1, <2>3, AsGoodInTheEngine
  <2> QED
    BY <2>2, <2>3
<1> QED
  BY <1>1, RankingInvariant, PTL
=============================================================================
