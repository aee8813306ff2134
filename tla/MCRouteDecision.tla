---------------------------- MODULE MCRouteDecision ----------------------------
(* RouteDecision on small instances. *)
EXTENDS RouteDecision, TLC

ToolSymmetry == Permutations(ToolNames)
=============================================================================
