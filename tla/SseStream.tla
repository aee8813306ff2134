------------------------------ MODULE SseStream ------------------------------
(***************************************************************************)
(* What POST /chat promises the widget (app/routers/chat.py, _sse_stream): *)
(* a start event, then tokens, then exactly one of done and error, after   *)
(* which nothing comes.  Every stream that was opened is closed, unless    *)
(* the client hangs up first.                                              *)
(***************************************************************************)
EXTENDS Naturals, Sequences

CONSTANT Client

VARIABLES stream,   \* state of the stream of each client
          wire      \* the events sent to each client so far

Init ==
  /\ stream = [c \in Client |-> "waiting"]
  /\ wire = [c \in Client |-> <<>>]

Changes(c, from, to) == stream[c] = from /\ stream' = [stream EXCEPT ![c] = to]
Sends(c, event) == wire' = [wire EXCEPT ![c] = Append(@, event)]

Open(c)   == Changes(c, "waiting", "open") /\ Sends(c, "start")
Token(c)  == Changes(c, "open", "open") /\ Sends(c, "token")
Close(c)  == Changes(c, "open", "closed") /\ (Sends(c, "done") \/ Sends(c, "error"))
HangUp(c) == (\E s \in {"waiting", "open"} : Changes(c, s, "closed"))
               /\ UNCHANGED wire

Next == \E c \in Client : Open(c) \/ Token(c) \/ Close(c) \/ HangUp(c)

Safety == Init /\ [][Next]_<<stream, wire>>

Spec ==
  /\ Safety
  /\ \A c \in Client : WF_<<stream, wire>>(Close(c))
=============================================================================
