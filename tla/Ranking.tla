------------------------------ MODULE Ranking ------------------------------
(***************************************************************************)
(* The order of a plain word query's results, which is computed twice: by  *)
(* the engine as one number per row in SQL (server/engine/pg.js matchedSet)*)
(* and by the query path as a tuple per document in JavaScript (server/    *)
(* ranking.js, server/api/query.js rankOrder), applied to the engine's     *)
(* list or to its fusion with the vector list. Between them stand the      *)
(* rewriting of the query: a question's content words, and the relaxed     *)
(* query of any word.                                                      *)
(*                                                                         *)
(* A document is what the two computations tell apart: the fields that     *)
(* hold each word, the shape of its canonical URL, its type, the lengths   *)
(* of its title and summary, and its relevance (ts_rank times the          *)
(* freshness boost, external). Weights and relevance are in hundredths.    *)
(***************************************************************************)
EXTENDS Integers, Sequences, FiniteSets, SequencesExt

CONSTANTS
  RawQueries,  \* what people type, as sequences of words
  Weight,      \* wordWeights: the weight of each word, in hundredths
  Shapes,      \* what a document is beside the fields of its words
  Holdings,    \* bound: the sets of fields a word can be in
  FreeWords,   \* bound: the longest query whose words can each be in any of these
  MaxTerms     \* config.query.maxTerms

Fields == {"title", "summary", "body"}

Shape ==
  [site : STRING, port : BOOLEAN, article : STRING, slash : BOOLEAN, type : STRING,
   title : {"short", "wide", "long"}, summary : {"short", "long"}, relevance : 0 .. 199]

ASSUME RankingAssumption ==
  /\ MaxTerms \in Nat \ {0}
  /\ RawQueries \subseteq Seq({w \in DOMAIN Weight : Weight[w] \in 1 .. 922})
  /\ Shapes \subseteq Shape
  /\ Holdings \subseteq SUBSET Fields
  /\ FreeWords \in Nat

VARIABLES
  match,  \* the query as the engine is asked
  hits,   \* the list the page is made of, the first hit first
  page    \* the page in its order

vars == <<match, hits, page>>

NoMatch == [words |-> <<>>, any |-> FALSE, question |-> FALSE]

Init == match = NoMatch /\ hits = <<>> /\ page = <<>>

-----------------------------------------------------------------------------
(* The query. *)

QuestionWords ==
  {"how", "what", "why", "when", "where", "which", "who", "can", "do", "does", "is", "are",
   "should", "will"}
FunctionWords ==
  QuestionWords \cup
    {"could", "would", "did", "was", "were", "be", "i", "me", "my", "we", "our", "you", "your",
     "it", "its", "a", "an", "the", "to", "of", "in", "on", "for", "with", "from", "and", "or",
     "there", "this", "that", "get", "make"}

ToMatch(raw) ==
  [NoMatch EXCEPT !.words = SubSeq(raw, 1, IF Len(raw) < MaxTerms THEN Len(raw) ELSE MaxTerms)]

IsQuestion(m) == m.question \/ (Len(m.words) >= 2 /\ m.words[1] \in QuestionWords)

\* The content words of the first i words are those of the first i - 1, and maybe one more.
Content(m) ==
  LET content[i \in 0 .. Len(m.words)] ==
        IF i = 0 THEN <<>>
        ELSE IF m.words[i] \in FunctionWords THEN content[i - 1]
        ELSE Append(content[i - 1], m.words[i])
  IN content[Len(m.words)]

QuestionMatch(m) ==
  IF IsQuestion(m) /\ Content(m) # <<>>
  THEN [m EXCEPT !.words = Content(m), !.question = TRUE] ELSE m

ContentWords(m) == IF Content(m) = <<>> THEN m ELSE [m EXCEPT !.words = Content(m)]

\* The query names a site: the hosts of its words, with Live's old name (SITE_ALIASES). Any
\* other word names the host "openvibe.<word>", here the word itself.
HostsOf(w) == IF w \in {"live", "openre", "stream", "restream"} THEN {"live", "stream"} ELSE {w}
SiteHosts(m) ==
  IF Contains(m.words, "openvibe")
  THEN UNION {HostsOf(w) : w \in Range(m.words) \ {"openvibe"}} ELSE {}

SiteOnlyQuery(m) == Len(m.words) = 2 /\ Contains(m.words, "openvibe")

-----------------------------------------------------------------------------
(* A document under a query. *)

\* siteUrlPattern, in SQL: a named host followed by a slash, or a help article under it.
SiteInSql(d, m) ==
  /\ ~d.port
  /\ d.site \in SiteHosts(m) \/ (d.site = "help" /\ d.article \in SiteHosts(m))

\* urlBelongsToSites, in JavaScript: the parsed host has no port, an article needs its slash.
SiteInJs(d, m) ==
  d.site \in SiteHosts(m) \/ (d.site = "help" /\ d.article \in SiteHosts(m) /\ d.slash)

\* Lengths in characters against lengths in UTF-16 units: a title of emoji is "wide".
ThinInSql(d) == d.type # "channel" /\ d.title # "long" /\ d.summary = "short"
ThinInJs(d) == d.type # "channel" /\ d.title = "short" /\ d.summary = "short"

FieldTierOf(f) == CASE f = "title" -> 3 [] f = "summary" -> 2 [] f = "body" -> 1 [] OTHER -> 0

BestOf(fields) ==
  IF "title" \in fields THEN "title" ELSE IF "summary" \in fields THEN "summary"
  ELSE IF "body" \in fields THEN "body" ELSE "none"
Best(d, w) == BestOf(d.where[w])

\* In JavaScript: the best field that holds a word of the query.
FieldTier(d, m) ==
  LET tiers == {FieldTierOf(Best(d, w)) : w \in Range(m.words)}
  IN CHOOSE t \in tiers : \A u \in tiers : u <= t

WordsIn(f, d, m) == {w \in Range(m.words) : f \in d.where[w]}
Held(d, m) == {w \in Range(m.words) : d.where[w] # {}}

\* ts_rank scores a query of every word, of two or more, by the pairs of them the document
\* holds, each with the weights of the fields the two are in. It has none to score here.
NoPairs(d, m) == ~m.any /\ Cardinality(Range(m.words)) > 1 /\ Cardinality(Held(d, m)) < 2

\* The fields in which ts_rank, given the weight of that field only, is above zero: a field
\* that holds one word of any, or two of all; and every field where there are no pairs at all,
\* for which its answer is 1e-20 whatever the weights.
ScoredFields(d, m) ==
  {f \in Fields :
     \/ NoPairs(d, m)
     \/ Cardinality(WordsIn(f, d, m)) >=
          IF m.any \/ Cardinality(Range(m.words)) = 1 THEN 1 ELSE 2}

\* In SQL: the first of title, summary and body in which ts_rank is above zero.
FieldTierInSql(d, m) == FieldTierOf(BestOf(ScoredFields(d, m)))

\* Tenths: a word in the title counts fully, in the summary 0.6, in the body 0.3.
FieldFactor(f) == CASE f = "title" -> 10 [] f = "summary" -> 6 [] f = "body" -> 3 [] OTHER -> 0

\* How much of a relaxed query the document holds, word by word, rounded to tenths.
Coverage(d, m) ==
  LET held[i \in 0 .. Len(m.words)] ==
        IF i = 0 THEN 0 ELSE held[i - 1] + Weight[m.words[i]] * FieldFactor(Best(d, m.words[i]))
  IN IF m.any THEN (held[Len(m.words)] + 50) \div 100 ELSE 0

\* A variant with a plausible fault: the properties have to notice it.
TitleWordsUncapped(d, m) ==
  IF Len(m.words) = 1 THEN 0 ELSE Cardinality(WordsIn("title", d, m))

TitleWordsMax == 4
TitleWords(d, m) ==
  LET n == Cardinality(WordsIn("title", d, m))
  IN IF Len(m.words) = 1 THEN 0 ELSE IF n < TitleWordsMax THEN n ELSE TitleWordsMax

IsAnswer(d, m) == IsQuestion(m) /\ d.type = "article"

-----------------------------------------------------------------------------
(* The two orders. *)

Flag(b) == IF b THEN 1 ELSE 0

\* The engine's one number, in hundredths.
EngineRank(d, m) ==
    Coverage(d, m) * 100000
  + (10 * Flag(SiteInSql(d, m)) + FieldTierInSql(d, m)) * 10000
  + Flag(IsAnswer(d, m)) * 5000 + TitleWords(d, m) * 1000
  + d.relevance - 200 * Flag(ThinInSql(d))

\* A variant with a plausible fault: the properties have to notice it.
RankKeyThinFirst(d, m) ==
  <<Coverage(d, m), 10 * Flag(SiteInJs(d, m)) + FieldTier(d, m), Flag(IsAnswer(d, m)),
    TitleWords(d, m), Flag(ThinInJs(d))>>

\* The query path's tuple, every part the higher the better.
RankKey(d, m) ==
  <<Coverage(d, m), 10 * Flag(SiteInJs(d, m)) + FieldTier(d, m), Flag(IsAnswer(d, m)),
    TitleWords(d, m), Flag(~ThinInJs(d))>>

Above(k, l) == \E i \in DOMAIN k : k[i] > l[i] /\ \A j \in 1 .. i - 1 : k[j] = l[j]

\* The list by its tuples; the order it came in breaks ties.
RankOrder(list, m) ==
  LET key == [i \in DOMAIN list |-> RankKey(list[i], m)]
      Before(i, j) == Above(key[i], key[j]) \/ (key[i] = key[j] /\ i < j)
      Place(i) == Cardinality({j \in DOMAIN list : Before(j, i)}) + 1
  IN [p \in DOMAIN list |-> list[CHOOSE i \in DOMAIN list : Place(i) = p]]

-----------------------------------------------------------------------------
(* One query after another. *)

\* Where the words of a query can be; bound: of more words than FreeWords, the first n are in
\* the title and the rest in the body.
Placements(m) ==
  IF Len(m.words) <= FreeWords
  THEN [Range(m.words) -> Holdings]
  ELSE {[w \in Range(m.words) |-> IF \E i \in 1 .. n : m.words[i] = w THEN {"title"} ELSE {"body"}] :
          n \in 0 .. Len(m.words)}

\* The rows a query finds: any word or every word, and a site's own records when the query is
\* only its name.
Finds(d, m) ==
  \/ IF m.any THEN Held(d, m) # {} ELSE Held(d, m) = Range(m.words)
  \/ SiteOnlyQuery(m) /\ SiteInSql(d, m)

WithFields(s, where) ==
  [where |-> where, site |-> s.site, port |-> s.port, article |-> s.article, slash |-> s.slash,
   type |-> s.type, title |-> s.title, summary |-> s.summary, relevance |-> s.relevance]
Found(m) == {d \in {WithFields(s, p) : s \in Shapes, p \in Placements(m)} : Finds(d, m)}

Ask(raw) ==
  /\ match = NoMatch
  /\ match' = QuestionMatch(ToMatch(raw))
  /\ UNCHANGED <<hits, page>>

\* Few results: the same words, any of them.
Relax ==
  /\ hits = <<>> /\ ~match.any
  /\ Len(match.words) > 1
  /\ match' = [ContentWords(match) EXCEPT !.any = TRUE]
  /\ UNCHANGED <<hits, page>>

\* Two of the rows found, in either order: the engine's, or that of a fusion with the vectors.
Rank ==
  /\ match # NoMatch /\ hits = <<>>
  /\ \E a, b \in Found(match) :
       /\ hits' = <<a, b>>
       /\ page' = RankOrder(<<a, b>>, match)
  /\ UNCHANGED match

Again == hits # <<>> /\ match' = NoMatch /\ hits' = <<>> /\ page' = <<>>

Next == (\E raw \in RawQueries : Ask(raw)) \/ Relax \/ Rank \/ Again

Spec == Init /\ [][Next]_vars

-----------------------------------------------------------------------------
\* The tests the engine and the query path make of one document disagree: its site, thinness,
\* or field. The last is so when a field the query path counts for one word holds no two of
\* them, and for a site's own record that holds less than two.
TestsDiffer(d, m) ==
  \/ SiteInSql(d, m) # SiteInJs(d, m)
  \/ ThinInSql(d) # ThinInJs(d)
  \/ FieldTierInSql(d, m) # FieldTier(d, m)

\* In the engine's number a tenth of coverage weighs as much as the site: a record of a named
\* site goes before another document that holds a tenth more of the relaxed query.
TenthAgainstSite(a, b, m) ==
  m.any /\ SiteInSql(a, m) /\ ~SiteInSql(b, m) /\ Coverage(b, m) = Coverage(a, m) + 1

\* The number packs the tuple: what the engine puts first, the query path leaves first. The
\* parts of the number never carry into one another, however many title words, whichever
\* relevance; but for documents on which the two tests of site, of thinness or of the field
\* differ, and for a tenth of coverage against the site.
OrderKept ==
  hits # <<>> /\ EngineRank(hits[1], match) >= EngineRank(hits[2], match)
    => \/ page = hits
       \/ \E i \in {1, 2} : TestsDiffer(hits[i], match)
       \/ TenthAgainstSite(hits[1], hits[2], match)

\* a is as good as b in everything the query path looks at.
AsGood(a, b, m) ==
  /\ \A w \in Range(m.words) : FieldTierOf(Best(a, w)) >= FieldTierOf(Best(b, w))
  /\ SiteInJs(b, m) => SiteInJs(a, m)
  /\ IsAnswer(b, m) => IsAnswer(a, m)
  /\ ThinInJs(a) => ThinInJs(b)

\* a is as good as b in everything the engine looks at: it holds each word wherever b holds
\* it. A document without pairs, which is taken to match in its title, is only set against
\* another one.
AsGoodInSql(a, b, m) ==
  /\ \A w \in Range(m.words) : b.where[w] \subseteq a.where[w]
  /\ NoPairs(b, m) => NoPairs(a, m)
  /\ SiteInSql(b, m) => SiteInSql(a, m)
  /\ IsAnswer(b, m) => IsAnswer(a, m)
  /\ ThinInSql(a) => ThinInSql(b)

\* A document as good as another in every word, in site, as an answer and in thinness is not
\* put after it by the query path, in whatever order the two came; nor by the engine one that
\* holds each word in every field the other has it in, unless it is only less relevant, or the
\* other is a site's own record that holds less than two of all the words.
BetterMatchFirst ==
  hits # <<>> =>
    /\ AsGood(page[2], page[1], match) => page = hits
    /\ AsGoodInSql(hits[1], hits[2], match)
         => EngineRank(hits[1], match) > EngineRank(hits[2], match) - 200
=============================================================================
