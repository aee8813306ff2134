-------------------------------- MODULE MCIngest --------------------------------
(* Ingest, and with it Chunker, on small instances. *)
EXTENDS Ingest
=============================================================================
