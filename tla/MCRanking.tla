----------------------------- MODULE MCRanking -----------------------------
(***************************************************************************)
(* A small instance of Ranking. The weights are those of wordWeight for    *)
(* 1000, 900, 100 and 30 documents; the first two differ by less than a    *)
(* tenth. The shapes are one document of each kind the tests tell apart,   *)
(* each of the least and of the most relevance. A word of a short query is *)
(* nowhere, in one field, or in the title and the body.                    *)
(***************************************************************************)
EXTENDS Ranking

MCRawQueries ==
  {<<"obs">>, <<"openvibe", "live">>, <<"how", "do", "i", "live">>, <<"go", "live">>,
   <<"how", "to", "make", "live", "go", "obs", "scene", "mask", "now", "best", "way">>}

MCWeight ==
  [w \in {"openvibe", "live", "go", "obs", "scene", "mask", "now", "best", "way", "how", "do", "i", "to", "make"}
     |-> CASE w = "openvibe" -> 240 [] w = "live" -> 249 [] w = "obs" -> 461 [] w = "scene" -> 578
           [] OTHER -> 240]

Page(relevance) ==
  [site |-> "blog", port |-> FALSE, article |-> "", slash |-> TRUE, type |-> "page",
   title |-> "long", summary |-> "long", relevance |-> relevance]

MCShapes ==
  UNION {{Page(r),
          [Page(r) EXCEPT !.type = "article"],
          [Page(r) EXCEPT !.title = "short", !.summary = "short"],
          [Page(r) EXCEPT !.title = "wide", !.summary = "short"],
          [Page(r) EXCEPT !.site = "live"],
          [Page(r) EXCEPT !.site = "live", !.port = TRUE],
          [Page(r) EXCEPT !.site = "live", !.type = "channel", !.title = "short", !.summary = "short"],
          [Page(r) EXCEPT !.site = "help", !.article = "stream", !.type = "article"],
          [Page(r) EXCEPT !.site = "help", !.article = "live", !.slash = FALSE, !.type = "article"]} :
         r \in {0, 199}}

MCHoldings == {{}, {"title"}, {"summary"}, {"body"}, {"title", "body"}}
=============================================================================
