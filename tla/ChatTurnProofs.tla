---------------------------- MODULE ChatTurnProofs ----------------------------
(***************************************************************************)
(* Proofs about ChatTurn, for every number of concurrent turns, iterations *)
(* and failures: the sessions, the stream, the types, and whose message a  *)
(* tool call is linked to.                                                 *)
(***************************************************************************)
EXTENDS ChatTurn, SequenceTheorems, TLAPS

USE DEF TxStates, Stages, Waiting, Ended, Writes, dbVars, intentVars

Pcs == pc \in [Turn -> Stages \cup Ended \cup {"new"}]

\* Where a turn's transaction may be other than over, and where aborted.
Loose == {"route", "logRoute", "tools", "retrieve", "ragMiss", "saveUser",
          "logTurn", "failed"}
Unaborted == {"tools", "retrieve", "ragMiss", "saveUser"}

SessionInv ==
  \A t \in Turn :
    /\ pc[t] \notin Loose => tx[t] = "idle"
    /\ pc[t] \in Unaborted => tx[t] # "aborted"

TxInv == Pcs /\ SessionTypeOK /\ SessionInv

LEMMA TxInit == Init => TxInv
  BY BoundsAssumption DEF Init, SessionInit, TxInv, Pcs, SessionTypeOK, SessionInv

LEMMA TxNext == TxInv /\ [Next]_vars => TxInv'
<1> SUFFICES ASSUME TxInv, [Next]_vars PROVE TxInv'
  OBVIOUS
<1> USE BoundsAssumption DEF TxInv, Pcs, SessionTypeOK, SessionInv, Loose,
        Unaborted, Goes, TxBecomes, StatementRuns, StatementFails,
        ExecuteCommits, ExecuteRollsBack, ExecuteStaysOpen, ExecuteAborts,
        Rejected, Abandoned
<1>1. ASSUME NEW t \in Turn, Request(t) PROVE TxInv'
  BY <1>1 DEF Request
<1>2. ASSUME NEW t \in Turn, Prepare(t) PROVE TxInv'
  <2>1. CASE GetOrCreateConversation(t)
    BY <2>1 DEF GetOrCreateConversation
  <2>2. CASE StartStream(t)
    BY <2>2 DEF StartStream
  <2>3. CASE LoadMemory(t)
    BY <2>3 DEF LoadMemory, FetchMessages
  <2>4. CASE Route(t)
    BY <2>4 DEF Route
  <2>5. CASE LogEvent(t)
    BY <2>5 DEF LogEvent, LogTo
  <2>6. CASE LoadAgent(t)
    BY <2>6 DEF LoadAgent
  <2>7. CASE LoadTools(t)
    BY <2>7 DEF LoadTools
  <2>8. CASE Retrieve(t)
    BY <2>8 DEF Retrieve
  <2>9. CASE SaveUser(t)
    BY <2>9 DEF SaveUser, SaveMessage
  <2>10. CASE Provider(t)
    BY <2>10 DEF Provider
  <2> QED
    BY <1>2, <2>1, <2>2, <2>3, <2>4, <2>5, <2>6, <2>7, <2>8, <2>9, <2>10
       DEF Prepare
<1>3. ASSUME NEW t \in Turn, Reply(t) PROVE TxInv'
  <2>1. CASE ContentDelta(t)
    BY <2>1 DEF ContentDelta
  <2>2. CASE ToolCallComplete(t)
    BY <2>2 DEF ToolCallComplete
  <2>3. CASE StreamEnds(t)
    BY <2>3 DEF StreamEnds, AfterMessage, AfterLoop
  <2>4. CASE StreamRaises(t)
    BY <2>4 DEF StreamRaises
  <2>5. CASE SaveAssistant(t)
    BY <2>5 DEF SaveAssistant, SaveMessage, AfterMessage, AfterLoop
  <2>6. CASE UpdateMessage(t)
    BY <2>6 DEF UpdateMessage, AfterMessage, AfterLoop
  <2> QED
    BY <1>3, <2>1, <2>2, <2>3, <2>4, <2>5, <2>6 DEF Reply
<1>4. ASSUME NEW t \in Turn, CallTools(t) PROVE TxInv'
  <2>1. CASE Execute(t)
    BY <2>1 DEF Execute
  <2>2. CASE SaveToolCall(t)
    BY <2>2 DEF SaveToolCall, NextCall
  <2>3. CASE LogToolFailure(t)
    BY <2>3 DEF LogToolFailure, NextCall
  <2> QED
    BY <1>4, <2>1, <2>2, <2>3 DEF CallTools
<1>5. ASSUME NEW t \in Turn, Conclude(t) PROVE TxInv'
  <2>1. CASE Fallback(t)
    BY <2>1 DEF Fallback
  <2>2. CASE SaveFallback(t)
    BY <2>2 DEF SaveFallback, SaveMessage, AfterLoop
  <2>3. CASE ReloadMemory(t)
    BY <2>3 DEF ReloadMemory
  <2>4. CASE UpdateStats(t)
    BY <2>4 DEF UpdateStats
  <2>5. CASE SendDone(t)
    BY <2>5 DEF SendDone
  <2>6. CASE SendError(t)
    BY <2>6 DEF SendError
  <2> QED
    BY <1>5, <2>1, <2>2, <2>3, <2>4, <2>5, <2>6 DEF Conclude
<1>6. ASSUME NEW t \in Turn, UpdateIntent(t) PROVE TxInv'
  BY <1>6 DEF UpdateIntent
<1>7. ASSUME NEW t \in Turn, Disconnect(t) PROVE TxInv'
  BY <1>7 DEF Disconnect
<1>8. CASE UNCHANGED vars
  BY <1>8 DEF vars
<1> QED
  BY <1>1, <1>2, <1>3, <1>4, <1>5, <1>6, <1>7, <1>8 DEF Next, Advance

LEMMA TxInvariant == Spec => []TxInv
  BY TxInit, TxNext, PTL DEF Spec

\* Whatever fails, no turn waits for the provider or for a tool inside a
\* transaction, and none is done with one open.
THEOREM TransactionsEnd == Spec => []HoldsNoTransaction
<1>1. TxInv => HoldsNoTransaction
  BY DEF TxInv, SessionInv, Loose, HoldsNoTransaction
<1> QED
  BY <1>1, TxInvariant, PTL

\* Whatever fails, rows of messages and tool_calls and the statistics are
\* never written in a transaction that PostgreSQL already refuses.
THEOREM WritesAreNotRefused == Spec => []WritesOnCleanSession
<1>1. TxInv => WritesOnCleanSession
  BY DEF TxInv, SessionInv, Loose, Unaborted, WritesOnCleanSession
<1> QED
  BY <1>1, TxInvariant, PTL

-----------------------------------------------------------------------------
\* The refinement: what the client of each turn is sent.

Wired == wire \in [Turn -> Seq({"start", "token", "done", "error"})]
StreamInv == Pcs /\ Wired

LEMMA StreamInit == Init => StreamInv /\ Sse!Init
  BY DEF Init, StreamInv, Pcs, Wired, Sse!Init, StreamState

\* The states of the stream by where the turn is.
Early == {"new", "conversation", "start"}

\* A turn whose step keeps the state of its stream and sends nothing.
LEMMA StreamStutters ==
  ASSUME StreamInv, NEW t \in Turn, NEW to \in Stages \cup Ended,
         pc' = [pc EXCEPT ![t] = to], UNCHANGED wire,
         pc[t] \in Early <=> to \in Early, pc[t] \in Ended <=> to \in Ended
  PROVE  StreamInv' /\ UNCHANGED <<StreamState, wire>>
  BY DEF StreamInv, Pcs, Wired, Early, StreamState

LEMMA StreamNext ==
  StreamInv /\ [Next]_vars => StreamInv' /\ [Sse!Next]_<<StreamState, wire>>
<1> DEFINE Goal == StreamInv' /\ [Sse!Next]_<<StreamState, wire>>
<1> SUFFICES ASSUME StreamInv, [Next]_vars PROVE Goal
  OBVIOUS
<1> USE DEF Goes, Early
<1>1. ASSUME NEW t \in Turn, StartStream(t) PROVE Goal
  <2>1. /\ wire' = [wire EXCEPT ![t] = Append(@, "start")]
        /\ pc[t] = "start"
        /\ pc' = [pc EXCEPT ![t] = "memory"]
    BY <1>1 DEF StartStream, Sends
  <2>2. StreamInv'
    BY <2>1 DEF StreamInv, Pcs, Wired
  <2>3. /\ StreamState' = [StreamState EXCEPT ![t] = "open"]
        /\ StreamState[t] = "waiting"
    BY <2>1 DEF StreamInv, Pcs, StreamState
  <2> QED
    BY <2>1, <2>2, <2>3 DEF Sse!Next, Sse!Open, Sse!Changes, Sse!Sends
<1>2. ASSUME NEW t \in Turn, ContentDelta(t) \/ Fallback(t) PROVE Goal
  <2>1. /\ wire' = [wire EXCEPT ![t] = Append(@, "token")]
        /\ pc[t] \in {"stream", "fallback"}
        /\ pc' = pc \/ pc' = [pc EXCEPT ![t] = "saveFallback"]
    BY <1>2 DEF ContentDelta, Fallback, Sends
  <2>2. StreamInv'
    BY <2>1 DEF StreamInv, Pcs, Wired
  <2>3. StreamState' = [StreamState EXCEPT ![t] = "open"] /\ StreamState[t] = "open"
    BY <2>1 DEF StreamInv, Pcs, StreamState
  <2> QED
    BY <2>1, <2>2, <2>3 DEF Sse!Next, Sse!Token, Sse!Changes, Sse!Sends
<1>3. ASSUME NEW t \in Turn, SendDone(t) \/ SendError(t) PROVE Goal
  <2>1. PICK e \in {"done", "error"} :
          /\ wire' = [wire EXCEPT ![t] = Append(@, e)]
          /\ pc[t] \in {"finish", "failed"}
          /\ pc' = [pc EXCEPT ![t] = e]
    BY <1>3 DEF SendDone, SendError, Sends
  <2>2. StreamInv'
    BY <2>1 DEF StreamInv, Pcs, Wired
  <2>3. StreamState' = [StreamState EXCEPT ![t] = "closed"] /\ StreamState[t] = "open"
    BY <2>1 DEF StreamInv, Pcs, StreamState
  <2> QED
    BY <2>1, <2>2, <2>3 DEF Sse!Next, Sse!Close, Sse!Changes, Sse!Sends
<1>4. ASSUME NEW t \in Turn, Disconnect(t) PROVE Goal
  <2>1. /\ UNCHANGED wire
        /\ pc[t] \in Stages \ {"conversation"}
        /\ pc' = [pc EXCEPT ![t] = "cut"]
    BY <1>4 DEF Disconnect
  <2>2. StreamInv'
    BY <2>1 DEF StreamInv, Pcs, Wired
  <2>3. /\ StreamState' = [StreamState EXCEPT ![t] = "closed"]
        /\ StreamState[t] \in {"waiting", "open"}
    BY <2>1 DEF StreamInv, Pcs, StreamState
  <2> QED
    BY <2>1, <2>2, <2>3 DEF Sse!Next, Sse!HangUp, Sse!Changes
<1>5. ASSUME NEW t \in Turn, Request(t) PROVE Goal
  BY <1>5, StreamStutters DEF Request
<1>6. ASSUME NEW t \in Turn, Prepare(t), ~StartStream(t) PROVE Goal
  BY <1>6, StreamStutters DEF Prepare, GetOrCreateConversation, LoadMemory,
     Route, LogEvent, LogTo, LoadAgent, LoadTools, Retrieve, SaveUser, Provider
<1>7. ASSUME NEW t \in Turn, Reply(t), ~ContentDelta(t) PROVE Goal
  <2>1. CASE ToolCallComplete(t)
    BY <2>1 DEF ToolCallComplete, StreamInv, Pcs, Wired, StreamState
  <2>2. CASE StreamEnds(t) \/ StreamRaises(t) \/ SaveAssistant(t) \/ UpdateMessage(t)
    BY <2>2, StreamStutters DEF StreamEnds, StreamRaises, SaveAssistant,
       UpdateMessage, AfterMessage, AfterLoop
  <2> QED
    BY <1>7, <2>1, <2>2 DEF Reply
<1>8. ASSUME NEW t \in Turn, CallTools(t) PROVE Goal
  BY <1>8, StreamStutters DEF CallTools, Execute, SaveToolCall,
     LogToolFailure, NextCall
<1>9. ASSUME NEW t \in Turn, SaveFallback(t) \/ ReloadMemory(t) \/ UpdateStats(t)
      PROVE Goal
  BY <1>9, StreamStutters DEF SaveFallback, AfterLoop, ReloadMemory, UpdateStats
<1>10. ASSUME NEW t \in Turn, UpdateIntent(t) PROVE Goal
  BY <1>10 DEF UpdateIntent, StreamInv, Pcs, Wired, StreamState
<1>11. CASE UNCHANGED vars
  BY <1>11 DEF vars, StreamInv, Pcs, Wired, StreamState
<1> QED
  BY <1>1, <1>2, <1>3, <1>4, <1>5, <1>6, <1>7, <1>8, <1>9, <1>10, <1>11
     DEF Next, Advance, Conclude

\* Every client sees start, then tokens, then one closing event and nothing
\* after it: the turn implements the safety part of SseStream.
THEOREM RefinesSseStream == Spec => Sse!Safety
<1>1. Init => StreamInv /\ Sse!Init
  BY StreamInit
<1>2. StreamInv /\ [Next]_vars
        => StreamInv' /\ [Sse!Next]_<<StreamState, wire>>
  BY StreamNext
<1> QED
  BY <1>1, <1>2, PTL DEF Spec, Sse!Safety

-----------------------------------------------------------------------------
\* The records: types, counters and ids.
HIDE DEF TxStates, Stages, Waiting, Ended, Writes, dbVars, intentVars

Row == [turn : Turn, role : {"user", "assistant"}, size : Nat,
        tokens : 0..MaxIterations]
Link == [turn : Turn, message : Nat \ {0}]

Types ==
  /\ loc \in [Turn -> Locals]
  /\ messages \in Seq(Row)
  /\ toolCalls \in Seq(Link)
  /\ stats \in [count : Nat, tokens : Nat]
  /\ effects \in [Turn -> Nat]
  /\ tasks \in [Turn -> Nat]
  /\ intent \in Nat

\* The counters of the loop, at one place: usage is counted once in each
\* iteration, and a batch of tool calls is left with its last call.
Before == {"new", "conversation", "start", "memory", "route", "logRoute",
           "agent", "tools", "retrieve", "ragMiss", "saveUser", "provider"}
Good(l, at) ==
  /\ l.used <= l.iter
  /\ at = "stream" => l.used < l.iter
  /\ at \in Before => l.used = 0
  /\ at \in Before \cup {"stream", "saveAssistant", "update"} => l.ran = 0
  /\ at \in {"execute", "saveCall", "logFailure"} => l.ran < l.calls
Counts == \A t \in Turn : Good(loc[t], pc[t])

\* Ids that a turn keeps, that tool calls refer to and that snapshots end with.
Mine(t, id) == id <= Len(messages) /\ (id # 0 => messages[id].turn = t)
Owned ==
  /\ \A t \in Turn : Mine(t, loc[t].user) /\ Mine(t, loc[t].asst)
  /\ \A i \in 1..Len(toolCalls) : Mine(toolCalls[i].turn, toolCalls[i].message)
  /\ \A t \in Turn : tasks[t] <= Len(messages)
  /\ intent <= Len(messages)

RecordInv == Pcs /\ Types /\ Counts /\ Owned

\* Rows are only added, and keep their turn.
Kept ==
  /\ messages' \in Seq(Row)
  /\ Len(messages') >= Len(messages)
  /\ \A i \in 1..Len(messages) : messages'[i].turn = messages[i].turn

LEMMA SaveMessageKeeps ==
  ASSUME Types, NEW t \in Turn, NEW role \in {"user", "assistant"},
         NEW size \in Nat, NEW tokens \in 0..MaxIterations, NEW id,
         SaveMessage(t, role, size, tokens, id)
  PROVE  Kept /\ id \in Nat /\ Mine(t, id)'
<1>1. CASE /\ messages' = Append(messages, [turn |-> t, role |-> role,
                                           size |-> size, tokens |-> tokens])
           /\ id = Len(messages) + 1
  <2> DEFINE row == [turn |-> t, role |-> role, size |-> size, tokens |-> tokens]
  <2>1. messages \in Seq(Row) /\ row \in Row
    BY DEF Types, Row
  <2>2. /\ messages' \in Seq(Row)
        /\ Len(messages') = Len(messages) + 1
        /\ \A i \in 1..Len(messages) : messages'[i] = messages[i]
        /\ messages'[Len(messages) + 1] = row
    BY <1>1, <2>1
  <2> QED
    BY <1>1, <2>1, <2>2 DEF Kept, Mine
<1>2. CASE UNCHANGED messages /\ id = 0
  BY <1>2 DEF Types, Kept, Mine
<1> QED
  BY <1>1, <1>2 DEF SaveMessage

LEMMA UpdateMessageKeeps ==
  ASSUME Types, Owned, NEW t \in Turn, UpdateMessage(t)
  PROVE  Kept
<1>1. CASE /\ loc[t].asst # 0
           /\ messages' = [messages EXCEPT ![loc[t].asst].tokens = loc[t].used]
  <2>1. loc[t].asst \in 1..Len(messages) /\ loc[t].used \in 0..MaxIterations
    BY <1>1 DEF Types, Owned, Mine, Locals
  <2>2. messages[loc[t].asst] \in Row /\ messages \in Seq(Row)
    BY <2>1 DEF Types
  <2>3. [messages[loc[t].asst] EXCEPT !.tokens = loc[t].used] \in Row
    BY <2>1, <2>2 DEF Row
  <2>4. messages' = [messages EXCEPT ![loc[t].asst] =
                       [messages[loc[t].asst] EXCEPT !.tokens = loc[t].used]]
    BY <1>1
  <2> QED
    BY <2>1, <2>2, <2>3, <2>4 DEF Kept, Row
<1>2. CASE UNCHANGED messages
  BY <1>2 DEF Types, Kept
<1> QED
  BY <1>1, <1>2 DEF UpdateMessage

\* Keeping the rows keeps what is owned.
LEMMA MineStays ==
  ASSUME Types, Kept, NEW s \in Turn, NEW id \in Nat, Mine(s, id)
  PROVE  Mine(s, id)'
  BY DEF Types, Kept, Mine

LEMMA RecordInit == Init => RecordInv
  BY BoundsAssumption DEF Init, RecordInv, Pcs, Types, Counts, Good, Owned,
     Mine, Locals, Before

-----------------------------------------------------------------------------
\* What a step of turn t does to where the turn is and to its locals.
Touch(t) ==
  /\ loc' = [loc EXCEPT ![t] = loc'[t]]
  /\ loc'[t] \in Locals
  /\ pc' = [pc EXCEPT ![t] = pc'[t]]
  /\ Good(loc'[t], pc'[t])

LEMMA SaveMessageIds ==
  ASSUME Types PROVE \A id \in 0..Len(messages) + 1 : id \in Nat
  BY DEF Types

LEMMA NextCallTouches ==
  ASSUME RecordInv, NEW t \in Turn, NEW from \in {"saveCall", "logFailure"},
         NextCall(t, from)
  PROVE  Touch(t)
<1>1. /\ loc \in [Turn -> Locals] /\ loc[t] \in Locals
      /\ pc \in [Turn -> Stages \cup Ended \cup {"new"}]
      /\ Good(loc[t], pc[t])
  BY DEF RecordInv, Types, Counts, Pcs
<1> USE BoundsAssumption, <1>1 DEF Touch, Good, Locals, Goes, Before
<1>2. CASE /\ loc[t].ran + 1 < loc[t].calls
           /\ Goes(t, from, "execute")
           /\ loc' = [loc EXCEPT ![t].ran = @ + 1]
  BY <1>2
<1>3. CASE /\ loc[t].iter < MaxIterations
           /\ Goes(t, from, "stream")
           /\ loc' = [loc EXCEPT ![t].iter = @ + 1, ![t].said = 0,
                                 ![t].calls = 0, ![t].ran = 0]
  <2> DEFINE l == [loc[t] EXCEPT !.iter = @ + 1, !.said = 0, !.calls = 0,
                                 !.ran = 0]
  <2>1. l \in Locals /\ l.used = loc[t].used /\ l.iter = loc[t].iter + 1 /\ l.ran = 0
    BY <1>3
  <2>2. loc' = [loc EXCEPT ![t] = l]
    BY <1>3
  <2> QED
    BY <1>3, <2>1, <2>2
<1>4. CASE Goes(t, from, "limit") /\ UNCHANGED loc
  BY <1>4
<1> QED
  BY <1>2, <1>3, <1>4 DEF NextCall

LEMMA Locally ==
  ASSUME RecordInv, NEW t \in Turn,
         Request(t) \/ Advance(t) \/ Disconnect(t)
  PROVE  Touch(t)
<1>1. /\ loc \in [Turn -> Locals] /\ loc[t] \in Locals
      /\ pc \in [Turn -> Stages \cup Ended \cup {"new"}]
      /\ Good(loc[t], pc[t])
  BY DEF RecordInv, Types, Counts, Pcs
<1> USE BoundsAssumption, <1>1 DEF Touch, Good, Locals, Goes, Before
<1>2. CASE GetOrCreateConversation(t)
  <2>1. CASE loc' = [loc EXCEPT ![t].conv = TRUE]
    BY <1>2, <2>1 DEF GetOrCreateConversation
  <2>2. CASE UNCHANGED loc
    BY <1>2, <2>2 DEF GetOrCreateConversation
  <2> QED
    BY <1>2, <2>1, <2>2 DEF GetOrCreateConversation
<1>3. CASE StartStream(t)
  BY <1>3 DEF StartStream
<1>4. CASE LoadMemory(t)
  BY <1>4 DEF LoadMemory
<1>5. CASE Route(t)
  BY <1>5 DEF Route
<1>6. CASE LogEvent(t)
  BY <1>6 DEF LogEvent, LogTo
<1>7. CASE LoadAgent(t)
  <2>1. /\ pc[t] \in Before
        /\ pc' = [pc EXCEPT ![t] = pc'[t]]
        /\ pc'[t] \in Before \ {"new"}
    BY <1>7 DEF LoadAgent
  <2>2. CASE loc' = [loc EXCEPT ![t].agent = TRUE]
    BY <2>1, <2>2
  <2>3. CASE UNCHANGED loc
    BY <2>1, <2>3
  <2> QED
    BY <1>7, <2>2, <2>3 DEF LoadAgent
<1>8. CASE LoadTools(t)
  BY <1>8 DEF LoadTools
<1>9. CASE Retrieve(t)
  BY <1>9 DEF Retrieve
<1>10. CASE SaveUser(t)
  <2>1. PICK id \in Nat : loc' = [loc EXCEPT ![t].user = id]
    BY <1>10, SaveMessageIds DEF SaveUser, RecordInv
  <2>2. pc[t] = "saveUser" /\ pc' = [pc EXCEPT ![t] = "provider"]
    BY <1>10 DEF SaveUser
  <2> QED
    BY <2>1, <2>2
<1>11. CASE Provider(t)
  BY <1>11 DEF Provider
<1>12. CASE ContentDelta(t)
  BY <1>12 DEF ContentDelta
<1>13. CASE ToolCallComplete(t)
  BY <1>13 DEF ToolCallComplete
<1>14. CASE StreamEnds(t)
  <2>1. PICK n \in {0, 1} :
          /\ loc' = [loc EXCEPT ![t].used = @ + n, ![t].asst = loc[t].user]
          /\ Goes(t, "stream", IF loc[t].said > 0 THEN "saveAssistant"
                               ELSE IF loc[t].used + n > 0 THEN "update"
                               ELSE AfterMessage(t))
    BY <1>14 DEF StreamEnds
  <2>0. pc[t] = "stream" /\ loc[t].used + n <= loc[t].iter
    BY <2>1
  <2> DEFINE l == [loc[t] EXCEPT !.used = @ + n, !.asst = loc[t].user]
  <2>5. loc[t].used + n \in 0..MaxIterations /\ loc[t].user \in Nat
    BY <2>0
  <2>6. /\ l.used = loc[t].used + n /\ l.iter = loc[t].iter
        /\ l.ran = loc[t].ran /\ l.calls = loc[t].calls
    BY <1>1
  <2>2. l \in Locals
    BY <2>5
  <2>3. loc' = [loc EXCEPT ![t] = l]
    BY <2>1
  <2>4. /\ pc' = [pc EXCEPT ![t] = pc'[t]]
        /\ pc[t] = "stream"
        /\ pc'[t] \in {"saveAssistant", "update", "execute", "logTurn", "reload"}
        /\ pc'[t] = "execute" => loc[t].calls > 0
    BY <2>1 DEF AfterMessage, AfterLoop
  <2> QED
    BY <2>0, <2>2, <2>3, <2>4, <2>6
<1>15. CASE StreamRaises(t)
  BY <1>15 DEF StreamRaises
<1>16. CASE SaveAssistant(t)
  <2>1. PICK id \in Nat : loc' = [loc EXCEPT ![t].asst = id]
    BY <1>16, SaveMessageIds DEF SaveAssistant, RecordInv
  <2>2. /\ pc' = [pc EXCEPT ![t] = pc'[t]]
        /\ pc[t] = "saveAssistant"
        /\ pc'[t] \in {"update", "execute", "logTurn", "reload"}
        /\ pc'[t] = "execute" => loc[t].calls > 0
    BY <1>16 DEF SaveAssistant, AfterMessage, AfterLoop
  <2> QED
    BY <2>1, <2>2
<1>17. CASE UpdateMessage(t)
  BY <1>17 DEF UpdateMessage, AfterMessage, AfterLoop
<1>18. CASE Execute(t)
  <2>1. PICK ok \in BOOLEAN : loc' = [loc EXCEPT ![t].ok = ok] \/ UNCHANGED loc
    BY <1>18 DEF Execute
  <2>2. /\ pc' = [pc EXCEPT ![t] = pc'[t]]
        /\ pc[t] = "execute"
        /\ pc'[t] \in {"saveCall", "failed"}
    BY <1>18 DEF Execute
  <2>3. CASE UNCHANGED loc
    BY <2>2, <2>3
  <2>4. CASE loc' = [loc EXCEPT ![t].ok = ok]
    BY <2>2, <2>4
  <2> QED
    BY <2>1, <2>3, <2>4
<1>19. CASE SaveToolCall(t)
  <2>1. CASE NextCall(t, "saveCall")
    BY <2>1, NextCallTouches
  <2>2. CASE Goes(t, "saveCall", "logFailure") /\ UNCHANGED loc
    BY <2>2
  <2> QED
    BY <1>19, <2>1, <2>2 DEF SaveToolCall
<1>20. CASE LogToolFailure(t)
  BY <1>20, NextCallTouches DEF LogToolFailure
<1>21. CASE Fallback(t)
  BY <1>21 DEF Fallback
<1>22. CASE SaveFallback(t)
  BY <1>22 DEF SaveFallback, AfterLoop
<1>23. CASE ReloadMemory(t)
  BY <1>23 DEF ReloadMemory
<1>24. CASE UpdateStats(t)
  BY <1>24 DEF UpdateStats
<1>25. CASE SendDone(t)
  BY <1>25 DEF SendDone
<1>26. CASE SendError(t)
  BY <1>26 DEF SendError
<1>27. CASE Disconnect(t)
  BY <1>27 DEF Disconnect
<1>28. CASE Request(t)
  BY <1>28 DEF Request
<1> QED
  BY <1>2, <1>3, <1>4, <1>5, <1>6, <1>7, <1>8, <1>9, <1>10, <1>11, <1>12, <1>13, <1>14, <1>15, <1>16, <1>17, <1>18, <1>19, <1>20, <1>21, <1>22, <1>23, <1>24, <1>25, <1>26, <1>27, <1>28
     DEF Advance, Prepare, Reply, CallTools, Conclude

Steps(t) == Request(t) \/ Advance(t) \/ UpdateIntent(t) \/ Disconnect(t)
USE DEF dbVars, intentVars

\* The steps that write no message, no tool call, and set no message id.
LEMMA QuietSteps ==
  ASSUME NEW t \in Turn, Steps(t)
  PROVE  /\ ~SaveUser(t) /\ ~SaveAssistant(t) /\ ~SaveFallback(t)
              /\ ~UpdateMessage(t) => UNCHANGED messages
         /\ ~SaveToolCall(t) => UNCHANGED toolCalls
         /\ ~ReloadMemory(t) /\ ~UpdateIntent(t) => UNCHANGED <<tasks, intent>>
         /\ ~UpdateStats(t) => UNCHANGED stats
         /\ ~Execute(t) => UNCHANGED effects
<1> USE DEF Steps
<1>1. CASE Request(t) \/ UpdateIntent(t) \/ Disconnect(t)
  BY <1>1 DEF Request, UpdateIntent, Disconnect
<1>2. CASE Prepare(t)
  BY <1>2 DEF Prepare, GetOrCreateConversation, StartStream, LoadMemory, Route,
     LogEvent, LoadAgent, LoadTools, Retrieve, SaveUser, Provider
<1>3. CASE Reply(t)
  BY <1>3 DEF Reply, ContentDelta, ToolCallComplete, StreamEnds, StreamRaises,
     SaveAssistant, UpdateMessage
<1>4. CASE CallTools(t)
  BY <1>4 DEF CallTools, Execute, SaveToolCall, LogToolFailure
<1>5. CASE Conclude(t)
  BY <1>5 DEF Conclude, Fallback, SaveFallback, ReloadMemory, UpdateStats,
     SendDone, SendError
<1> QED
  BY <1>1, <1>2, <1>3, <1>4, <1>5 DEF Advance

LEMMA RowsAreKept ==
  ASSUME RecordInv, NEW t \in Turn, Steps(t)
  PROVE  Kept
<1>1. CASE SaveUser(t)
  <2>1. PICK id : SaveMessage(t, "user", 0, 0, id)
    BY <1>1 DEF SaveUser
  <2> QED
    BY <2>1, SaveMessageKeeps, BoundsAssumption DEF RecordInv
<1>2. CASE SaveAssistant(t)
  <2>1. PICK id : SaveMessage(t, "assistant", loc[t].said, loc[t].used, id)
    BY <1>2 DEF SaveAssistant
  <2>2. loc[t].said \in Nat /\ loc[t].used \in 0..MaxIterations
    BY BoundsAssumption DEF RecordInv, Types, Locals
  <2> QED
    BY <2>1, <2>2, SaveMessageKeeps DEF RecordInv
<1>3. CASE SaveFallback(t)
  <2>1. PICK id : SaveMessage(t, "assistant", 1, 0, id)
    BY <1>3 DEF SaveFallback
  <2> QED
    BY <2>1, SaveMessageKeeps, BoundsAssumption DEF RecordInv
<1>4. CASE UpdateMessage(t)
  BY <1>4, UpdateMessageKeeps DEF RecordInv
<1>5. CASE UNCHANGED messages
  BY <1>5 DEF RecordInv, Types, Kept
<1> QED
  BY <1>1, <1>2, <1>3, <1>4, <1>5, QuietSteps

\* The ids a turn keeps after its step are those of messages of its own.
LEMMA IdsAreMine ==
  ASSUME RecordInv, NEW t \in Turn, Request(t) \/ Advance(t) \/ Disconnect(t)
  PROVE  Mine(t, loc[t].user)' /\ Mine(t, loc[t].asst)'
<1>1. loc \in [Turn -> Locals] /\ loc[t] \in Locals
  BY DEF RecordInv, Types
<1>2. loc[t].user \in Nat /\ loc[t].asst \in Nat
  BY <1>1 DEF Locals
<1>3. Mine(t, loc[t].user) /\ Mine(t, loc[t].asst)
  BY DEF RecordInv, Owned
<1>4. Kept
  BY RowsAreKept DEF Steps
<1>5. \A id \in Nat : Mine(t, id) => Mine(t, id)'
  BY <1>4 DEF RecordInv, Types, Kept, Mine
<1>6. CASE SaveUser(t)
  <2>1. PICK id : /\ SaveMessage(t, "user", 0, 0, id)
                  /\ loc' = [loc EXCEPT ![t].user = id]
    BY <1>6 DEF SaveUser
  <2>2. Mine(t, id)'
    BY <2>1, SaveMessageKeeps, BoundsAssumption DEF RecordInv
  <2>3. loc'[t].user = id /\ loc'[t].asst = loc[t].asst
    BY <1>1, <2>1 DEF Locals
  <2> QED
    BY <1>2, <1>3, <1>5, <2>2, <2>3
<1>7. CASE SaveAssistant(t)
  <2>1. PICK id : /\ SaveMessage(t, "assistant", loc[t].said, loc[t].used, id)
                  /\ loc' = [loc EXCEPT ![t].asst = id]
    BY <1>7 DEF SaveAssistant
  <2>2. loc[t].said \in Nat /\ loc[t].used \in 0..MaxIterations
    BY <1>1, BoundsAssumption DEF Locals
  <2>3. Mine(t, id)'
    BY <2>1, <2>2, SaveMessageKeeps DEF RecordInv
  <2>4. loc'[t].asst = id /\ loc'[t].user = loc[t].user
    BY <1>1, <2>1 DEF Locals
  <2> QED
    BY <1>2, <1>3, <1>5, <2>3, <2>4
<1>8. CASE StreamEnds(t)
  <2>1. loc'[t].asst = loc[t].user /\ loc'[t].user = loc[t].user
    BY <1>1, <1>8 DEF StreamEnds, Locals
  <2> QED
    BY <1>2, <1>3, <1>5, <2>1
<1>9. CASE ~SaveUser(t) /\ ~SaveAssistant(t) /\ ~StreamEnds(t)
  <2>1. loc'[t].user = loc[t].user /\ loc'[t].asst = loc[t].asst
    BY <1>1, <1>9 DEF Advance, Prepare, Reply, CallTools, Conclude, Request,
       Disconnect, GetOrCreateConversation, StartStream, LoadMemory, Route,
       LogEvent, LoadAgent, LoadTools, Retrieve, Provider, ContentDelta,
       ToolCallComplete, StreamRaises, UpdateMessage, Execute, SaveToolCall,
       LogToolFailure, NextCall, Fallback, SaveFallback, ReloadMemory,
       UpdateStats, SendDone, SendError, Locals
  <2> QED
    BY <1>2, <1>3, <1>5, <2>1
<1> QED
  BY <1>6, <1>7, <1>8, <1>9

\* Tool calls are added only by SaveToolCall, with an id the turn keeps.
LEMMA LinksNext ==
  ASSUME RecordInv, NEW t \in Turn, Steps(t)
  PROVE  /\ toolCalls' \in Seq(Link)
         /\ \A i \in 1..Len(toolCalls') :
              Mine(toolCalls[i].turn, toolCalls[i].message)'
<1>1. Types /\ Owned /\ Kept
  BY RowsAreKept DEF RecordInv
<1>2. toolCalls \in Seq(Link) /\ Len(toolCalls) \in Nat
  BY <1>1 DEF Types
<1>3. ASSUME NEW i \in 1..Len(toolCalls)
      PROVE  /\ toolCalls[i].turn \in Turn
             /\ toolCalls[i].message \in Nat
             /\ Mine(toolCalls[i].turn, toolCalls[i].message)
  <2>1. toolCalls[i] \in Link
    BY <1>2
  <2> QED
    BY <1>1, <2>1 DEF Owned, Link
<1>4. ASSUME NEW i \in 1..Len(toolCalls), toolCalls'[i] = toolCalls[i]
      PROVE  Mine(toolCalls[i].turn, toolCalls[i].message)'
  <2> DEFINE s == toolCalls[i].turn
             id == toolCalls[i].message
  <2>1. s \in Turn /\ id \in Nat /\ Mine(s, id)
    BY <1>3
  <2>2. id <= Len(messages') /\ (id # 0 => messages'[id].turn = s)
    BY <1>1, <2>1 DEF Types, Kept, Mine
  <2> QED
    BY <1>4, <2>2 DEF Mine
<1>5. CASE UNCHANGED toolCalls
  BY <1>2, <1>4, <1>5
<1>6. CASE /\ loc[t].asst # 0
           /\ toolCalls' = Append(toolCalls,
                                  [turn |-> t, message |-> loc[t].asst])
  <2> DEFINE link == [turn |-> t, message |-> loc[t].asst]
  <2>1. loc[t].asst \in Nat /\ Mine(t, loc[t].asst)
    BY <1>1 DEF Types, Owned, Locals
  <2>2. link \in Link
    BY <1>6, <2>1 DEF Link
  <2>3. /\ toolCalls' \in Seq(Link)
        /\ Len(toolCalls') = Len(toolCalls) + 1
        /\ \A i \in 1..Len(toolCalls) : toolCalls'[i] = toolCalls[i]
        /\ toolCalls'[Len(toolCalls) + 1] = link
    BY <1>2, <1>6, <2>2
  <2>4. ASSUME NEW i \in Nat, toolCalls'[i] = link
        PROVE  Mine(toolCalls[i].turn, toolCalls[i].message)'
    <3>1. loc[t].asst <= Len(messages') /\ messages'[loc[t].asst].turn = t
      BY <1>1, <1>6, <2>1 DEF Types, Kept, Mine
    <3> QED
      BY <2>4, <3>1 DEF Mine
  <2>5. ASSUME NEW i \in 1..Len(toolCalls')
        PROVE  Mine(toolCalls[i].turn, toolCalls[i].message)'
    <3>1. CASE i \in 1..Len(toolCalls)
      BY <1>4, <2>3, <3>1
    <3>2. CASE i = Len(toolCalls) + 1
      BY <1>2, <2>3, <2>4, <3>2
    <3> QED
      BY <1>2, <2>3, <2>5, <3>1, <3>2
  <2> QED
    BY <2>3, <2>5
<1> QED
  BY <1>5, <1>6, QuietSteps DEF SaveToolCall

\* A snapshot ends with a message there was when it was taken.
LEMMA SnapshotsNext ==
  ASSUME RecordInv, NEW t \in Turn, Steps(t)
  PROVE  /\ tasks' \in [Turn -> Nat] /\ intent' \in Nat
         /\ \A s \in Turn : tasks'[s] <= Len(messages')
         /\ intent' <= Len(messages')
<1>1. /\ tasks \in [Turn -> Nat] /\ intent \in Nat
      /\ \A s \in Turn : tasks[s] <= Len(messages)
      /\ intent <= Len(messages)
      /\ Len(messages) \in Nat /\ Len(messages') \in Nat
      /\ Len(messages) <= Len(messages')
  BY RowsAreKept DEF RecordInv, Types, Owned, Kept
<1>2. CASE ReloadMemory(t)
  BY <1>1, <1>2 DEF ReloadMemory
<1>3. CASE UpdateIntent(t)
  BY <1>1, <1>3 DEF UpdateIntent
<1>4. CASE UNCHANGED <<tasks, intent>>
  BY <1>1, <1>4
<1> QED
  BY <1>2, <1>3, <1>4, QuietSteps

\* The counters that only grow.
LEMMA CountersNext ==
  ASSUME RecordInv, NEW t \in Turn, Steps(t)
  PROVE  stats' \in [count : Nat, tokens : Nat] /\ effects' \in [Turn -> Nat]
<1>1. /\ stats \in [count : Nat, tokens : Nat] /\ effects \in [Turn -> Nat]
      /\ loc[t].used \in Nat
  BY BoundsAssumption DEF RecordInv, Types, Locals
<1>2. CASE UpdateStats(t)
  BY <1>1, <1>2 DEF UpdateStats
<1>3. CASE Execute(t)
  BY <1>1, <1>3 DEF Execute
<1>4. CASE UNCHANGED <<stats, effects>>
  BY <1>1, <1>4
<1>5. UNCHANGED stats \/ UpdateStats(t)
  BY QuietSteps
<1>6. UNCHANGED effects \/ Execute(t)
  BY QuietSteps
<1>7. UpdateStats(t) => UNCHANGED effects
  BY DEF UpdateStats
<1>8. Execute(t) => UNCHANGED stats
  BY DEF Execute
<1> QED
  BY <1>2, <1>3, <1>4, <1>5, <1>6, <1>7, <1>8

LEMMA RecordNext == RecordInv /\ Pcs' /\ [Next]_vars => RecordInv'
<1> SUFFICES ASSUME RecordInv, Pcs', [Next]_vars PROVE RecordInv'
  OBVIOUS
<1>1. CASE UNCHANGED vars
  BY <1>1 DEF vars, RecordInv, Pcs, Types, Counts, Good, Owned, Mine
<1>2. ASSUME NEW t \in Turn, Steps(t) PROVE RecordInv'
  <2>1. loc \in [Turn -> Locals] /\ Counts
        /\ pc \in [Turn -> Stages \cup Ended \cup {"new"}]
    BY DEF RecordInv, Types, Pcs
  <2>2. Kept
    BY <1>2, RowsAreKept
  <2>3. CASE UpdateIntent(t)
    <3>1. UNCHANGED <<loc, pc, messages>>
      BY <2>3 DEF UpdateIntent
    <3>2. loc' \in [Turn -> Locals] /\ Counts'
      BY <2>1, <3>1 DEF Counts, Good
    <3>3. \A s \in Turn : Mine(s, loc[s].user)' /\ Mine(s, loc[s].asst)'
      BY <3>1 DEF RecordInv, Owned, Mine
    <3> QED
      BY <1>2, <2>2, <3>2, <3>3, LinksNext, SnapshotsNext, CountersNext
         DEF RecordInv, Types, Owned, Kept
  <2>4. CASE Request(t) \/ Advance(t) \/ Disconnect(t)
    <3>1. Touch(t)
      BY <2>4, Locally
    <3>2. loc' \in [Turn -> Locals]
      BY <2>1, <3>1 DEF Touch
    <3>3. \A s \in Turn \ {t} : loc'[s] = loc[s] /\ pc'[s] = pc[s]
      BY <2>1, <3>1 DEF Touch
    <3>4. Counts'
      <4>1. \A s \in Turn : Good(loc'[s], pc'[s])
        BY <2>1, <3>1, <3>3 DEF Counts, Touch
      <4> QED
        BY <4>1 DEF Counts, Good
    <3>5. ASSUME NEW s \in Turn
          PROVE  Mine(s, loc[s].user)' /\ Mine(s, loc[s].asst)'
      <4>1. CASE s = t
        BY <2>4, <4>1, IdsAreMine
      <4>2. CASE s # t
        <5>1. loc[s].user \in Nat /\ loc[s].asst \in Nat
          BY <2>1 DEF Locals
        <5>2. Mine(s, loc[s].user) /\ Mine(s, loc[s].asst)
          BY DEF RecordInv, Owned
        <5>3. loc'[s] = loc[s]
          BY <3>3, <4>2
        <5>4. \A id \in Nat : Mine(s, id) =>
                id <= Len(messages') /\ (id # 0 => messages'[id].turn = s)
          BY <2>2 DEF RecordInv, Types, Kept, Mine
        <5> QED
          BY <5>1, <5>2, <5>3, <5>4 DEF Mine
      <4> QED
        BY <4>1, <4>2
    <3> QED
      BY <1>2, <2>2, <3>2, <3>4, <3>5, LinksNext, SnapshotsNext, CountersNext
         DEF RecordInv, Types, Owned, Kept
  <2> QED
    BY <1>2, <2>3, <2>4 DEF Steps
<1> QED
  BY <1>1, <1>2 DEF Next, Steps

LEMMA RecordInvariant == Spec => []RecordInv
<1>1. TxInv => Pcs
  BY DEF TxInv
<1> QED
  BY <1>1, TxInvariant, RecordInit, RecordNext, PTL DEF Spec

LEMMA OwnedIsLinked == RecordInv => LinkedInTurn
<1> SUFFICES ASSUME RecordInv, NEW i \in 1..Len(toolCalls)
             PROVE  messages[toolCalls[i].message].turn = toolCalls[i].turn
  BY DEF LinkedInTurn
<1>1. toolCalls[i] \in Link
  BY DEF RecordInv, Types
<1> QED
  BY <1>1 DEF RecordInv, Owned, Mine, Link

\* However turns of a conversation interleave and whatever fails to be saved,
\* a tool call is linked to a message of the turn that made it.
THEOREM LinksStayInTurn == Spec => []LinkedInTurn
  BY OwnedIsLinked, RecordInvariant, PTL

\* The state stays as TypeOK says, whatever the constants: the loop is left in
\* time, and every id refers to a row.
THEOREM TypeCorrect == Spec => []TypeOK
<1>1. RecordInv => /\ toolCalls \in Seq([turn : Turn, message : 1..Len(messages)])
                   /\ tasks \in [Turn -> 0..Len(messages)]
                   /\ intent \in 0..Len(messages)
  <2> SUFFICES ASSUME RecordInv
               PROVE  /\ toolCalls \in Seq([turn : Turn, message : 1..Len(messages)])
                      /\ tasks \in [Turn -> 0..Len(messages)]
                      /\ intent \in 0..Len(messages)
    OBVIOUS
  <2>1. toolCalls \in Seq(Link) /\ Len(messages) \in Nat
    BY DEF RecordInv, Types
  <2>2. \A i \in 1..Len(toolCalls) :
          toolCalls[i] \in [turn : Turn, message : 1..Len(messages)]
    <3> TAKE i \in 1..Len(toolCalls)
    <3>1. toolCalls[i] \in Link
      BY <2>1
    <3>2. toolCalls[i].message <= Len(messages)
      BY DEF RecordInv, Owned, Mine
    <3> QED
      BY <2>1, <3>1, <3>2 DEF Link
  <2>3. toolCalls \in [1..Len(toolCalls) -> [turn : Turn, message : 1..Len(messages)]]
    <3>1. Len(toolCalls) \in Nat /\ toolCalls \in [1..Len(toolCalls) -> Link]
      BY <2>1
    <3> QED
      BY <2>2, <3>1
  <2>4. toolCalls \in Seq([turn : Turn, message : 1..Len(messages)])
    <3>1. Len(toolCalls) \in Nat
      BY <2>1
    <3> QED
      BY ONLY <2>3, <3>1, SeqDef
  <2>5. tasks \in [Turn -> 0..Len(messages)] /\ intent \in 0..Len(messages)
    BY <2>1 DEF RecordInv, Types, Owned
  <2> QED
    BY <2>4, <2>5
<1>2. RecordInv /\ TxInv /\ StreamInv => TypeOK
  <2> SUFFICES ASSUME RecordInv, TxInv, StreamInv PROVE TypeOK
    OBVIOUS
  <2>1. Types /\ Pcs /\ SessionTypeOK /\ Wired
    BY DEF RecordInv, TxInv, StreamInv
  <2> QED
    BY ONLY <1>1, <2>1, RecordInv DEF Types, Pcs, Wired, Row, TypeOK
<1>3. Spec => []StreamInv
  BY StreamInit, StreamNext, PTL DEF Spec
<1> QED
  BY <1>2, <1>3, RecordInvariant, TxInvariant, PTL
=============================================================================
