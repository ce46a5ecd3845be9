------------------------------ MODULE MCPaging ------------------------------
(* Small instances of Paging: four documents, two of one title, and a query of two words. *)
EXTENDS Paging

MCTitle == [d \in Docs |-> CASE d = 1 -> "solo" [] d = 4 -> "other" [] OTHER -> "twins"]
MCVersions == {
  [words |-> {"a", "b"}, tier |-> 1, place |-> 1, fades |-> FALSE, near |-> 0, seen |-> "acl"],
  [words |-> {"a", "b"}, tier |-> 1, place |-> 0, fades |-> TRUE, near |-> 2, seen |-> "everyone"],
  [words |-> {"a"}, tier |-> 0, place |-> 1, fades |-> FALSE, near |-> 1, seen |-> "everyone"],
  [words |-> {}, tier |-> 0, place |-> 2, fades |-> FALSE, near |-> 1, seen |-> "nobody"]}
=============================================================================
