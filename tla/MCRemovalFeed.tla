--------------------------- MODULE MCRemovalFeed ---------------------------
(***************************************************************************)
(* A small instance of RemovalFeed: three documents of the product and one *)
(* of another owner between them, on either handle.                        *)
(***************************************************************************)
EXTENDS RemovalFeed
=============================================================================
