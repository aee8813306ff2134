------------------------------ MODULE MCChatTurn ------------------------------
(* ChatTurn on small instances. *)
EXTENDS ChatTurn, TLC

TurnSymmetry == Permutations(Turn)
=============================================================================
