------------------------------- MODULE MCMcp -------------------------------
(***************************************************************************)
(* A small instance of Mcp: a person with two connections, who uses the    *)
(* query route too; somebody signed out, alone at an address; a service    *)
(* that is not counted.                                                    *)
(***************************************************************************)
EXTENDS Mcp, TLC

CONSTANTS Ann, AnnToo, Visitor, Wiki, AnnHerself, Address

MCActorOf ==
  Ann :> AnnHerself @@ AnnToo :> AnnHerself @@ Visitor :> Address @@ Wiki :> Nobody

MCBatches ==
  Ann :> {<<"search", "mine">>, <<"labelled">>}
  @@ AnnToo :> {<<"providers", "plain">>}
  @@ Visitor :> {<<"search", "labelled", "search">>, <<"search", "mine">>, <<"notification", "invalid">>}
  @@ Wiki :> {<<"search", "search", "search">>}
=============================================================================
