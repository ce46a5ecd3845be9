---------------------------- MODULE MCIndexStore ----------------------------
(***************************************************************************)
(* Small instances of IndexStore. The documents are chosen to reach every  *)
(* branch of the ordering rule and every change of exposure: listed,       *)
(* noindexed, private and draft versions, two contents at one revision,    *)
(* and tombstones at and above it.                                         *)
(***************************************************************************)
EXTENDS IndexStore, TLC

MCOwners == {"wiki", "live"}
MCPage == <<"wiki", "page">>

PublicDoc(rev, text) ==
  [key |-> MCPage, revision |-> rev, deleted |-> FALSE, visibility |-> "public",
   published |-> TRUE, decision |-> "index", reasons |-> {}, stub |-> FALSE,
   url |-> "url", acl |-> {}, facets |-> {<<"f", "kind">>}, text |-> text]
PrivateDoc(rev) ==
  [PublicDoc(rev, "a") EXCEPT !.visibility = "private", !.url = NoUrl,
                              !.acl = {<<"s", "ann">>, <<"g", "team">>}]
MembersDoc(rev) ==
  [PublicDoc(rev, "a") EXCEPT !.visibility = "members",
                              !.acl = {<<"s", "bob">>, <<"g", "team">>}]
NoindexDoc(rev) == [PublicDoc(rev, "a") EXCEPT !.decision = "noindex"]
DraftDoc(rev) == [PublicDoc(rev, "a") EXCEPT !.visibility = "draft"]

MCDocuments ==
  {PublicDoc(1, "a"), PublicDoc(2, "b"), MembersDoc(1), PrivateDoc(2), DraftDoc(2),
   NoindexDoc(2), Tombstone(MCPage, 1), Tombstone(MCPage, 2)}

FromWiki(d) ==
  [topic |-> "document", prefix |-> "wiki", source |-> "wiki", subjectMatches |-> TRUE,
   valid |-> TRUE, doc |-> d]

\* Index documents, and one envelope for every way documentFromEvent can end.
MCEnvelopes ==
  {FromWiki(d) : d \in {PublicDoc(1, "a"), PublicDoc(2, "b"), PrivateDoc(2),
                        Tombstone(MCPage, 1)}}
  \cup {[FromWiki(PublicDoc(2, "b")) EXCEPT !.topic = "account"],
        [FromWiki(PublicDoc(2, "b")) EXCEPT !.topic = "other"],
        [FromWiki(PublicDoc(2, "b")) EXCEPT !.prefix = "live"],
        [FromWiki(PublicDoc(2, "b")) EXCEPT !.source = "live", !.prefix = "live"],
        [FromWiki(PublicDoc(2, "b")) EXCEPT !.subjectMatches = FALSE],
        [FromWiki(PublicDoc(2, "b")) EXCEPT !.valid = FALSE]}

\* Fewer documents for overlapping handlers: a first version, two that restrict it to
\* different people, and its deletion; one refused and one ignored event.
MCRaceDocuments ==
  {PublicDoc(1, "a"), PrivateDoc(2), MembersDoc(3), Tombstone(MCPage, 2)}
MCRaceEnvelopes ==
  {FromWiki(PublicDoc(1, "a")), FromWiki(PrivateDoc(2)),
   [FromWiki(PrivateDoc(2)) EXCEPT !.topic = "other"],
   [FromWiki(PrivateDoc(2)) EXCEPT !.valid = FALSE]}

\* Handlers and event ids are interchangeable.
MCSymmetry == Permutations(Tx) \cup Permutations(Event)
=============================================================================
