-------------------------- MODULE MCConversationHistory --------------------------
(* ConversationHistory on small instances. *)
EXTENDS ConversationHistory

TurnSymmetry == Permutations(Turn)

\* What the properties of the history read, and what decides how it goes on.
\* Left out: what was sent to the client and to the tools, the intent and its
\* tasks, sizes and token counts of rows, the status of a call once recorded.
Seen ==
  <<pc, [t \in Turn |-> [loc[t] EXCEPT !.ok = @ /\ pc[t] = "saveCall"]],
    tx, faults, [i \in DOMAIN messages |-> <<messages[i].turn, messages[i].role>>],
    toolCalls, stats, memory, told>>
=============================================================================
