----------------------------- MODULE MCRouteCache -----------------------------
(* RouteCache on small instances: liveness among the properties, so that no
   symmetry is declared. *)
EXTENDS RouteCache
=============================================================================
