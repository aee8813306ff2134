-------------------------------- MODULE AIReply --------------------------------
(***************************************************************************)
(* What the planner may count on when it iterates over provider.stream():  *)
(* text and tool calls in any order, no call twice and none that was not   *)
(* offered, then at most one UsageEvent and nothing behind it.  This is as *)
(* much of the contract of app/ai/base.py as the providers keep, and what  *)
(* the reply actions of ChatTurn take for granted.                         *)
(***************************************************************************)
EXTENDS Naturals, Sequences

CONSTANTS Item,           \* the function calls of a reply
          Arguments,      \* what a call may be given
          Total           \* what usage may amount to

VARIABLES offered,        \* were tools passed to stream()?
          reply,          \* the events yielded so far
          status          \* of the generator: open, ended, raised

Text == [type |-> "text"]
Call(i, args) == [type |-> "call", item |-> i, args |-> args]
Usage(n) == [type |-> "usage", total |-> n]

Calls(events) == {k \in DOMAIN events : events[k].type = "call"}
Reported(events) == \E k \in DOMAIN events : events[k].type = "usage"

Init == offered \in BOOLEAN /\ reply = <<>> /\ status = "open"

Yields(event) ==
  /\ status = "open" /\ ~Reported(reply)
  /\ reply' = Append(reply, event)
  /\ UNCHANGED <<offered, status>>

YieldsText == Yields(Text)
YieldsCall(i) ==
  /\ offered
  /\ \A k \in Calls(reply) : reply[k].item # i
  /\ \E args \in Arguments : Yields(Call(i, args))
YieldsUsage == \E n \in Total : Yields(Usage(n))

Ends == status = "open" /\ status' = "ended" /\ UNCHANGED <<offered, reply>>
Raises == status = "open" /\ status' = "raised" /\ UNCHANGED <<offered, reply>>

Next == YieldsText \/ (\E i \in Item : YieldsCall(i)) \/ YieldsUsage
          \/ Ends \/ Raises

Spec == Init /\ [][Next]_<<offered, reply, status>>
=============================================================================
