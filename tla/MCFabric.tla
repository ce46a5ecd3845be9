----------------------------- MODULE MCFabric -----------------------------
(***************************************************************************)
(* A small instance of Fabric: the union of two smaller ones, which MCPart *)
(* keeps apart. In the part about calls and money two callers ask of one   *)
(* page; the requests differ in who asks, how deep, and which scope comes  *)
(* first. In the part about pages one caller asks for a site that one page *)
(* of two is on, with more or less room for the answer.                    *)
(***************************************************************************)
EXTENDS Fabric, TLC

CONSTANTS Eclipse, EclipseOnSite, OnSite, Fst, Snd

MCOpenIndex == [q \in Questions |-> Urls]
MCLets == [q \in Questions |-> IF q = Eclipse THEN Urls ELSE {OnSite}]

Asked == [scopes |-> <<"web">>, q |-> Eclipse, person |-> TRUE, depth |-> "standard", limit |-> 1,
          badCursor |-> FALSE]
AskedOnSite == [Asked EXCEPT !.q = EclipseOnSite]

\* A signed-in person asks the network and the web; the other caller asks as deep as it goes,
\* or signed out, or indexes only, or for images, or its own documents with a foreign cursor.
\* Of the site the first caller asks, with nobody else there, two pages of the web after the
\* network's results, or pages of the web only, one, two, or one and deep.
MCRequests ==
  Fst :> {[Asked EXCEPT !.scopes = <<"network", "web">>],
          [AskedOnSite EXCEPT !.scopes = <<"network", "web">>, !.limit = 2],
          AskedOnSite,
          [AskedOnSite EXCEPT !.limit = 2],
          [AskedOnSite EXCEPT !.depth = "deep"]}
  @@ Snd :> {[Asked EXCEPT !.depth = "deep"],
             [Asked EXCEPT !.person = FALSE],
             [AskedOnSite EXCEPT !.depth = "quick"],
             [Asked EXCEPT !.scopes = <<"images">>],
             [Asked EXCEPT !.scopes = <<"mine", "images">>, !.badCursor = TRUE]}

Unasked(q) == \A step \in Steps : cache[<<q, step>>] = NoAnswer /\ answered[<<q, step>>] = {}
Money ==
  /\ req[Fst].q # EclipseOnSite /\ Unasked(EclipseOnSite)
  /\ \A c \in Callers :
       /\ OnSite \notin req[c].found \cup UNION {answered[k] : k \in Key}
       /\ \A s \in DOMAIN fab[c].read : fab[c].read[s] < 2
Pages ==
  /\ req[Fst].q # Eclipse /\ Unasked(Eclipse)
  /\ fab[Snd].pc = "idle" /\ day = 1
MCPart == Money \/ Pages
=============================================================================
