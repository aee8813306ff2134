---------------------------- MODULE MCProviderStream ----------------------------
(* ProviderStream on small instances. *)
EXTENDS ProviderStream
=============================================================================
