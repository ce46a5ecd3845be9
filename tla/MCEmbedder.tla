----------------------------- MODULE MCEmbedder -----------------------------
(* Small instances of Embedder: the service and a backfill. *)
EXTENDS Embedder

MCBackoff == <<1, 2>>
=============================================================================
