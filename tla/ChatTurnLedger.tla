----------------------------- MODULE ChatTurnLedger -----------------------------
(***************************************************************************)
(* Proofs about ChatTurn: what the database has when turns go on and end   *)
(* while no statement fails -- the requests sent to tools, the statistics, *)
(* the transcript --, for every number of turns, iterations and calls.     *)
(***************************************************************************)
EXTENDS ChatTurnProofs, Sums

USE DEF Stages, Waiting, Ended, dbVars, intentVars

RowsOf(t) == {i \in 1..Len(toolCalls) : toolCalls[i].turn = t}

\* A call can be recorded only if there is a message to link it to: that of the
\* reply, or the user's.  While no statement fails there is, from where each is
\* saved until the loop is left.
Replied == {"update", "execute", "saveCall", "logFailure"}
Asked == {"provider", "stream", "saveAssistant"} \cup Replied
Known(t) ==
  /\ pc[t] \notin {"new", "conversation"} => loc[t].conv
  /\ pc[t] \in Asked => loc[t].user # 0
  /\ pc[t] \in Replied => loc[t].asst # 0

Recorded(t) ==
  pc[t] # "cut" =>
    effects[t] <= Cardinality(RowsOf(t)) + (IF pc[t] = "saveCall" THEN 1 ELSE 0)

CallsInv ==
  faults = 0 => \A t \in Turn : tx[t] # "aborted" /\ Known(t) /\ Recorded(t)

Inv == TxInv /\ RecordInv /\ CallsInv

LEMMA CallsInit == Init => CallsInv
<1> SUFFICES ASSUME Init, NEW t \in Turn
             PROVE  tx[t] # "aborted" /\ Known(t) /\ Recorded(t)
  BY DEF CallsInv
<1>1. RowsOf(t) = {} /\ effects[t] = 0
  BY DEF Init, RowsOf
<1> QED
  BY <1>1, FS_EmptySet
  DEF Init, SessionInit, Known, Recorded, Asked, Replied

-----------------------------------------------------------------------------
\* A step after which no statement has failed: none had before, and no session
\* is in an aborted transaction.
LEMMA Faultless ==
  ASSUME Inv, NEW t \in Turn, Steps(t), faults' = 0
  PROVE  faults = 0 /\ \A s \in Turn : tx'[s] # "aborted"
<1> USE DEF TxBecomes, StatementRuns, StatementFails, ExecuteCommits,
        ExecuteRollsBack, ExecuteStaysOpen, ExecuteAborts, Rejected, Abandoned
<1>1. faults \in Nat /\ tx \in [Turn -> TxStates]
  BY BoundsAssumption DEF Inv, TxInv, SessionTypeOK
<1>2. faults = 0 => \A s \in Turn : tx[s] # "aborted"
  BY DEF Inv, CallsInv
<1>3. CASE Request(t) \/ UpdateIntent(t) \/ Disconnect(t)
  BY <1>1, <1>2, <1>3 DEF Request, UpdateIntent, Disconnect, TxStates
<1>4. CASE GetOrCreateConversation(t) \/ StartStream(t) \/ LoadMemory(t)
  BY <1>1, <1>2, <1>4 DEF GetOrCreateConversation, StartStream, LoadMemory,
     FetchMessages, TxStates
<1>5. CASE Route(t) \/ LogEvent(t)
  BY <1>1, <1>2, <1>5 DEF Route, LogEvent, TxStates
<1>6. CASE LoadAgent(t) \/ LoadTools(t) \/ Retrieve(t)
  BY <1>1, <1>2, <1>6 DEF LoadAgent, LoadTools, Retrieve, TxStates
<1>7. CASE SaveUser(t) \/ Provider(t)
  BY <1>1, <1>2, <1>7 DEF SaveUser, SaveMessage, Provider, TxStates
<1>8. CASE ContentDelta(t) \/ ToolCallComplete(t) \/ StreamEnds(t)
           \/ StreamRaises(t)
  BY <1>1, <1>2, <1>8 DEF ContentDelta, ToolCallComplete, StreamEnds,
     StreamRaises
<1>9. CASE SaveAssistant(t) \/ UpdateMessage(t)
  BY <1>1, <1>2, <1>9 DEF SaveAssistant, SaveMessage, UpdateMessage, TxStates
<1>10. CASE Execute(t) \/ SaveToolCall(t) \/ LogToolFailure(t)
  BY <1>1, <1>2, <1>10 DEF Execute, SaveToolCall, LogToolFailure, TxStates
<1>11. CASE Fallback(t) \/ SaveFallback(t) \/ ReloadMemory(t)
  BY <1>1, <1>2, <1>11 DEF Fallback, SaveFallback, SaveMessage, ReloadMemory,
     TxStates
<1>12. CASE UpdateStats(t) \/ SendDone(t) \/ SendError(t)
  BY <1>1, <1>2, <1>12 DEF UpdateStats, SendDone, SendError, TxStates
<1> QED
  BY <1>3, <1>4, <1>5, <1>6, <1>7, <1>8, <1>9, <1>10, <1>11, <1>12
  DEF Steps, Advance, Prepare, Reply, CallTools, Conclude

\* Then a message that is saved gets an id.
LEMMA Saved ==
  ASSUME Inv, NEW t \in Turn, faults' = 0, faults = 0, loc[t].conv
  PROVE  \A role, size, tokens, id :
           SaveMessage(t, role, size, tokens, id) => id # 0
<1>1. Len(messages) \in Nat
  BY DEF Inv, RecordInv, Types
<1>2. tx[t] # "aborted"
  BY DEF Inv, CallsInv
<1> QED
  BY <1>1, <1>2 DEF SaveMessage, ExecuteRollsBack, StatementFails

LEMMA KnownNext ==
  ASSUME Inv, NEW t \in Turn, Request(t) \/ Advance(t) \/ Disconnect(t),
         faults = 0, faults' = 0
  PROVE  Known(t)'
<1>1. loc \in [Turn -> Locals] /\ loc[t] \in Locals
      /\ pc \in [Turn -> Stages \cup Ended \cup {"new"}]
  BY DEF Inv, RecordInv, Types, Pcs
<1>2. Known(t) /\ tx[t] # "aborted"
  BY DEF Inv, CallsInv
<1>0. ASSUME NEW id, loc[t].conv,
             \/ SaveMessage(t, "user", 0, 0, id)
             \/ SaveMessage(t, "assistant", loc[t].said, loc[t].used, id)
      PROVE  id # 0
  BY <1>0, Saved
<1> USE <1>1, <1>2 DEF Known, Asked, Replied, Locals, Goes
<1>3. CASE GetOrCreateConversation(t)
  BY <1>3 DEF GetOrCreateConversation, ExecuteRollsBack, StatementFails
<1>4. CASE StartStream(t) \/ LoadMemory(t) \/ Route(t) \/ LogEvent(t)
           \/ LoadAgent(t) \/ LoadTools(t) \/ Retrieve(t)
  <2>1. loc'[t].conv = loc[t].conv
    BY <1>4 DEF StartStream, LoadMemory, Route, LogEvent, LogTo, LoadAgent,
       LoadTools, Retrieve
  <2>2. pc[t] \notin {"new", "conversation"}
    BY <1>4 DEF StartStream, LoadMemory, Route, LogEvent, LogTo, LoadAgent,
       LoadTools, Retrieve
  <2>3. pc'[t] \notin Asked
    BY <1>4 DEF StartStream, LoadMemory, Route, LogEvent, LogTo, LoadAgent,
       LoadTools, Retrieve
  <2> QED
    BY <2>1, <2>2, <2>3
<1>5. CASE SaveUser(t)
  <2>1. PICK id \in 0..Len(messages) + 1 :
          /\ SaveMessage(t, "user", 0, 0, id)
          /\ loc' = [loc EXCEPT ![t].user = id]
    BY <1>5 DEF SaveUser
  <2>2. pc[t] = "saveUser" /\ pc' = [pc EXCEPT ![t] = "provider"]
    BY <1>5 DEF SaveUser
  <2>3. loc[t].conv
    BY <2>2
  <2>4. id # 0
    BY <1>0, <2>1, <2>3
  <2>5. loc'[t].user = id /\ loc'[t].conv = loc[t].conv
    BY <2>1
  <2>6. pc'[t] = "provider"
    BY <2>2
  <2> QED
    BY <2>3, <2>4, <2>5, <2>6
<1>6. CASE SaveAssistant(t)
  <2>1. PICK id \in 0..Len(messages) + 1 :
          /\ SaveMessage(t, "assistant", loc[t].said, loc[t].used, id)
          /\ loc' = [loc EXCEPT ![t].asst = id]
    BY <1>6 DEF SaveAssistant
  <2>2. pc[t] = "saveAssistant" /\ pc' = [pc EXCEPT ![t] = pc'[t]]
    BY <1>6 DEF SaveAssistant
  <2>3. loc[t].conv
    BY <2>2
  <2>4. id # 0
    BY <1>0, <2>1, <2>3
  <2>5. /\ loc'[t].asst = id /\ loc'[t].user = loc[t].user
        /\ loc'[t].conv = loc[t].conv
    BY <2>1
  <2>6. loc[t].user # 0
    BY <2>2
  <2> QED
    BY <2>3, <2>4, <2>5, <2>6
<1>7. CASE StreamEnds(t)
  <2>1. /\ loc'[t].asst = loc[t].user /\ loc'[t].user = loc[t].user
        /\ loc'[t].conv = loc[t].conv
        /\ pc[t] = "stream"
    BY <1>7 DEF StreamEnds
  <2> QED
    BY <2>1
<1>8. CASE Provider(t) \/ ContentDelta(t) \/ ToolCallComplete(t)
           \/ StreamRaises(t) \/ UpdateMessage(t) \/ Execute(t)
           \/ SaveToolCall(t) \/ LogToolFailure(t)
  <2>1. /\ loc'[t].conv = loc[t].conv /\ loc'[t].user = loc[t].user
        /\ loc'[t].asst = loc[t].asst
    BY <1>8 DEF Provider, ContentDelta, ToolCallComplete, StreamRaises,
       UpdateMessage, Execute, SaveToolCall, LogToolFailure, NextCall
  <2>2. /\ pc[t] \in Asked
        /\ pc'[t] \in Replied => pc[t] \in Replied
    BY <1>8 DEF Provider, ContentDelta, ToolCallComplete, StreamRaises,
       UpdateMessage, Execute, SaveToolCall, LogToolFailure, NextCall
  <2> QED
    BY <2>1, <2>2
<1>9. CASE Conclude(t) \/ Request(t) \/ Disconnect(t)
  <2>1. /\ loc'[t].conv = loc[t].conv /\ pc'[t] \notin Asked
        /\ pc[t] \in {"new", "conversation"} =>
             pc'[t] \in {"new", "conversation"}
    BY <1>9 DEF Conclude, Request, Disconnect, Fallback, SaveFallback,
       AfterLoop, ReloadMemory, UpdateStats, SendDone, SendError
  <2> QED
    BY <2>1
<1> QED
  BY <1>3, <1>4, <1>5, <1>6, <1>7, <1>8, <1>9
  DEF Advance, Prepare, Reply, CallTools

-----------------------------------------------------------------------------
LEMMA RowsOfFinite ==
  ASSUME Inv, NEW t \in Turn
  PROVE  IsFiniteSet(RowsOf(t)) /\ Cardinality(RowsOf(t)) \in Nat
<1>1. Len(toolCalls) \in Nat
  BY DEF Inv, RecordInv, Types
<1>2. IsFiniteSet(1..Len(toolCalls))
  BY <1>1, FS_Interval
<1>3. IsFiniteSet(RowsOf(t))
  BY <1>2, FS_Subset DEF RowsOf
<1> QED
  BY <1>3, FS_CardinalityType

\* A row more is one more of its turn, and none of any other.
LEMMA RowAdded ==
  ASSUME Inv, NEW t \in Turn, NEW id \in Nat \ {0},
         toolCalls' = Append(toolCalls, [turn |-> t, message |-> id])
  PROVE  /\ Cardinality(RowsOf(t))' = Cardinality(RowsOf(t)) + 1
         /\ \A s \in Turn \ {t} : RowsOf(s)' = RowsOf(s)
<1> DEFINE n == Len(toolCalls)
           row == [turn |-> t, message |-> id]
<1>1. toolCalls \in Seq(Link) /\ n \in Nat /\ row \in Link
  BY DEF Inv, RecordInv, Types, Link
<1>2. /\ Len(toolCalls') = n + 1 /\ toolCalls'[n + 1] = row
      /\ \A i \in 1..n : toolCalls'[i] = toolCalls[i]
  BY <1>1
<1>3. RowsOf(t)' = RowsOf(t) \cup {n + 1} /\ n + 1 \notin RowsOf(t)
  BY <1>1, <1>2 DEF RowsOf
<1>4. \A s \in Turn \ {t} : RowsOf(s)' = RowsOf(s)
  BY <1>1, <1>2 DEF RowsOf
<1>5. Cardinality(RowsOf(t) \cup {n + 1}) = Cardinality(RowsOf(t)) + 1
  BY <1>3, RowsOfFinite, FS_AddElement
<1> QED
  BY <1>3, <1>4, <1>5

\* The steps that neither send a request nor write its row: a turn between the
\* two can only be cut.
LEMMA Between ==
  ASSUME Inv, NEW t \in Turn, Steps(t), ~Execute(t), ~SaveToolCall(t)
  PROVE  /\ UNCHANGED <<effects, toolCalls>>
         /\ \A s \in Turn : \/ pc'[s] = "cut" \/ pc'[s] = pc[s]
                            \/ pc[s] \notin {"saveCall", "cut"}
<1>1. UNCHANGED <<effects, toolCalls>>
  BY QuietSteps
<1>2. pc \in [Turn -> Stages \cup Ended \cup {"new"}]
  BY DEF Inv, TxInv, Pcs
<1> USE <1>2 DEF Goes
<1>3. CASE Request(t) \/ UpdateIntent(t) \/ Disconnect(t)
  BY <1>1, <1>3 DEF Request, UpdateIntent, Disconnect
<1>4. CASE Prepare(t)
  BY <1>1, <1>4 DEF Prepare, GetOrCreateConversation, StartStream, LoadMemory,
     Route, LogEvent, LogTo, LoadAgent, LoadTools, Retrieve, SaveUser, Provider
<1>5. CASE Reply(t)
  BY <1>1, <1>5 DEF Reply, ContentDelta, ToolCallComplete, StreamEnds,
     StreamRaises, SaveAssistant, UpdateMessage
<1>6. CASE LogToolFailure(t)
  BY <1>1, <1>6 DEF LogToolFailure, NextCall
<1>7. CASE Conclude(t)
  BY <1>1, <1>7 DEF Conclude, Fallback, SaveFallback, ReloadMemory,
     UpdateStats, SendDone, SendError
<1> QED
  BY <1>3, <1>4, <1>5, <1>6, <1>7 DEF Steps, Advance, CallTools

LEMMA RecordedNext ==
  ASSUME Inv, NEW t \in Turn, Steps(t), faults = 0, faults' = 0,
         NEW s \in Turn
  PROVE  Recorded(s)'
<1>1. /\ Recorded(s) /\ tx[t] # "aborted" /\ Known(t)
      /\ pc \in [Turn -> Stages \cup Ended \cup {"new"}]
      /\ effects \in [Turn -> Nat] /\ loc \in [Turn -> Locals]
  BY DEF Inv, CallsInv, TxInv, Pcs, RecordInv, Types
<1>2. Cardinality(RowsOf(s)) \in Nat
  BY RowsOfFinite
<1>3. CASE Execute(t)
  <2>1. /\ pc[t] = "execute" /\ RowsOf(s)' = RowsOf(s)
        /\ \/ /\ pc' = [pc EXCEPT ![t] = "saveCall"]
              /\ effects'[t] \in {effects[t], effects[t] + 1}
           \/ pc' = [pc EXCEPT ![t] = "failed"] /\ effects' = effects
        /\ s # t => effects'[s] = effects[s]
    BY <1>1, <1>3 DEF Execute, Goes, RowsOf
  <2> QED
    BY <1>1, <1>2, <2>1 DEF Recorded
<1>4. CASE SaveToolCall(t)
  <2>1. /\ pc[t] = "saveCall" /\ UNCHANGED effects
        /\ pc'[t] # "saveCall" /\ (s # t => pc'[s] = pc[s])
    BY <1>1, <1>4 DEF SaveToolCall, NextCall, Goes
  <2>2. loc[t].asst \in Nat \ {0}
    BY <1>1, <2>1 DEF Known, Replied, Locals
  <2>3. toolCalls' = Append(toolCalls, [turn |-> t, message |-> loc[t].asst])
    BY <1>1, <1>4, <2>2 DEF SaveToolCall, ExecuteRollsBack, StatementFails
  <2>4. /\ Cardinality(RowsOf(t))' = Cardinality(RowsOf(t)) + 1
        /\ \A q \in Turn \ {t} : RowsOf(q)' = RowsOf(q)
    BY <2>2, <2>3, RowAdded
  <2> QED
    BY <1>1, <1>2, <2>1, <2>4 DEF Recorded
<1>5. CASE ~Execute(t) /\ ~SaveToolCall(t)
  <2>1. /\ effects'[s] = effects[s] /\ RowsOf(s)' = RowsOf(s)
        /\ \/ pc'[s] = "cut" \/ pc'[s] = pc[s]
           \/ pc[s] \notin {"saveCall", "cut"}
    BY <1>5, Between DEF RowsOf
  <2> QED
    BY <1>1, <1>2, <2>1 DEF Recorded
<1> QED
  BY <1>3, <1>4, <1>5

LEMMA CallsNext == Inv /\ [Next]_vars => CallsInv'
<1> SUFFICES ASSUME Inv, [Next]_vars PROVE CallsInv'
  OBVIOUS
<1>1. CASE UNCHANGED vars
  BY <1>1 DEF vars, Inv, CallsInv, Known, Recorded, RowsOf
<1>2. ASSUME NEW t \in Turn, Steps(t), faults' = 0, NEW s \in Turn
      PROVE  tx'[s] # "aborted" /\ Known(s)' /\ Recorded(s)'
  <2>1. faults = 0 /\ tx'[s] # "aborted"
    BY <1>2, Faultless
  <2>2. Recorded(s)'
    BY <1>2, <2>1, RecordedNext
  <2>3. Known(s)
    BY <2>1 DEF Inv, CallsInv
  <2>4. ASSUME UpdateIntent(t) PROVE Known(s)'
    BY <2>3, <2>4 DEF UpdateIntent, Known, Asked, Replied
  <2>5. ASSUME s = t, Request(t) \/ Advance(t) \/ Disconnect(t)
        PROVE  Known(s)'
    <3>1. Known(t)'
      BY <1>2, <2>1, <2>5, KnownNext
    <3> QED
      BY <2>5, <3>1 DEF Known, Asked, Replied
  <2>6. ASSUME s # t, Request(t) \/ Advance(t) \/ Disconnect(t)
        PROVE  Known(s)'
    <3>1. Touch(t)
      BY <2>6, Locally DEF Inv
    <3>2. loc'[s] = loc[s] /\ pc'[s] = pc[s]
      BY <2>6, <3>1 DEF Touch, Inv, RecordInv, Types, Pcs
    <3> QED
      BY <2>3, <3>2 DEF Known, Asked, Replied
  <2> QED
    BY <1>2, <2>1, <2>2, <2>4, <2>5, <2>6 DEF Steps
<1> QED
  BY <1>1, <1>2 DEF Next, Steps, CallsInv

\* A request sent to a tool has its row in the database as soon as the turn goes
\* on, on every path it takes, as long as no statement fails and the client
\* does not leave in between.
THEOREM RequestsAreOnRecord == Spec => []CallsOnRecord
<1>1. Inv => CallsOnRecord
  BY DEF Inv, CallsInv, Recorded, RowsOf, CallsOnRecord
<1> QED
  BY <1>1, CallsInit, CallsNext, TxInvariant, RecordInvariant, PTL
  DEF Spec, Inv

-----------------------------------------------------------------------------
\* What the statistics and the transcript amount to.

\* The turns whose statistics were written, of which some may have been cut
\* after it.
Counted(C) ==
  /\ IsFiniteSet(C)
  /\ \A t \in Turn : pc[t] \in {"finish", "done"} => t \in C
  /\ \A t \in C : pc[t] \in {"finish", "done", "cut"}
  /\ stats.count = Cardinality(C)
  /\ stats.tokens = SumFunctionOnSet([t \in Turn |-> loc[t].used], C)
StatsInv == faults = 0 => \E C \in SUBSET Turn : Counted(C)

\* Where a turn's question is in the transcript, and where it has lost its way.
Told == {"provider", "stream", "saveAssistant", "update", "execute", "saveCall",
         "logFailure", "limit", "fallback", "saveFallback", "reload", "logTurn",
         "stats", "finish", "done"}
Lost == {"failed", "error", "cut"}

\* What the client has seen and the transcript does not have yet.
Pending(t) == IF pc[t] \in {"stream", "saveAssistant"} THEN loc[t].said
              ELSE IF pc[t] = "saveFallback" THEN 1 ELSE 0

Transcript(t) ==
  /\ pc[t] \in Before \ {"provider"} => \A role \in {"user", "assistant"} :
                                          Rows(t, role) = {}
  /\ pc[t] \in Before => loc[t].said = 0
  /\ pc[t] \in Told =>
       /\ Rows(t, "user") = {loc[t].user}
       /\ \A a \in Rows(t, "assistant") : loc[t].user < a
  /\ pc[t] \notin Lost => SizeOf(t) + Pending(t) = Tokens(t)
TranscriptInv == faults = 0 => \A t \in Turn : Transcript(t)

-----------------------------------------------------------------------------
\* The statistics

LEMMA StatsInit == Init => StatsInv
<1> SUFFICES ASSUME Init PROVE Counted({})
  BY DEF StatsInv
<1>1. SumFunctionOnSet([t \in Turn |-> loc[t].used], {}) = 0
  BY SumEmpty
<1> QED
  BY <1>1, FS_EmptySet DEF Init, Counted

\* Where a turn is after its statistics, and with how many tokens, is settled.
LEMMA Settled ==
  ASSUME Inv, NEW t \in Turn, Steps(t), ~UpdateStats(t), NEW s \in Turn
  PROVE  /\ pc'[s] \in {"finish", "done"} => pc[s] \in {"finish", "done"}
         /\ pc[s] \in {"finish", "done", "cut"} =>
              /\ pc'[s] \in {"finish", "done", "cut"}
              /\ loc'[s].used = loc[s].used
<1>1. loc \in [Turn -> Locals]
      /\ pc \in [Turn -> Stages \cup Ended \cup {"new"}]
  BY DEF Inv, RecordInv, Types, Pcs
<1> USE <1>1 DEF Goes
<1>2. CASE UpdateIntent(t)
  BY <1>2 DEF UpdateIntent
<1>3. CASE Request(t) \/ Disconnect(t)
  BY <1>3 DEF Request, Disconnect
<1>4. CASE Prepare(t)
  BY <1>4 DEF Prepare, GetOrCreateConversation, StartStream, LoadMemory, Route,
     LogEvent, LogTo, LoadAgent, LoadTools, Retrieve, SaveUser, Provider
<1>5. CASE Reply(t)
  BY <1>5 DEF Reply, ContentDelta, ToolCallComplete, StreamEnds, StreamRaises,
     SaveAssistant, UpdateMessage, AfterMessage, AfterLoop
<1>6. CASE CallTools(t)
  BY <1>6 DEF CallTools, Execute, SaveToolCall, LogToolFailure, NextCall
<1>7. CASE Conclude(t)
  BY <1>7 DEF Conclude, Fallback, SaveFallback, AfterLoop, ReloadMemory,
     SendDone, SendError
<1> QED
  BY <1>2, <1>3, <1>4, <1>5, <1>6, <1>7 DEF Steps, Advance

LEMMA UsedNat ==
  ASSUME Inv PROVE \A t \in Turn : loc[t].used \in Nat
  BY BoundsAssumption DEF Inv, RecordInv, Types, Locals

LEMMA StatsNext == Inv /\ StatsInv /\ [Next]_vars => StatsInv'
<1> SUFFICES ASSUME Inv, StatsInv, [Next]_vars, faults' = 0
             PROVE  \E C \in SUBSET Turn : Counted(C)'
  BY DEF StatsInv
<1>1. CASE UNCHANGED vars
  BY <1>1 DEF vars, StatsInv, Counted
<1>2. ASSUME NEW t \in Turn, Steps(t)
      PROVE  \E C \in SUBSET Turn : Counted(C)'
  <2>1. faults = 0 /\ tx[t] # "aborted"
    BY <1>2, Faultless DEF Inv, CallsInv
  <2>2. PICK C \in SUBSET Turn : Counted(C)
    BY <2>1 DEF StatsInv
  <2> DEFINE used == [s \in Turn |-> loc[s].used]
  <2>3. IsFiniteSet(C) /\ \A s \in C : used[s] \in Nat
    BY <2>2, UsedNat DEF Counted
  <2>4. CASE UpdateStats(t)
    <3>1. /\ pc[t] = "stats" /\ pc' = [pc EXCEPT ![t] = "finish"]
          /\ stats' = [count |-> stats.count + 1,
                       tokens |-> stats.tokens + loc[t].used]
          /\ UNCHANGED loc
      <4>1. pc[t] = "stats" => loc[t].conv
        BY <2>1 DEF Inv, CallsInv, Known
      <4> QED
        BY <2>1, <2>4, <4>1 DEF UpdateStats, Goes, ExecuteRollsBack, StatementFails
    <3>2. t \notin C /\ used[t] \in Nat
      BY <2>2, <3>1, UsedNat DEF Counted
    <3>3. /\ IsFiniteSet(C \cup {t})
          /\ Cardinality(C \cup {t}) = Cardinality(C) + 1
          /\ Cardinality(C) \in Nat
      BY <2>3, <3>2, FS_AddElement, FS_CardinalityType
    <3>4. SumFunctionOnSet(used, C) \in Nat
      BY <2>3, SumNat
    <3>5. SumFunctionOnSet(used, C \cup {t}) = used[t] + SumFunctionOnSet(used, C)
      BY <2>3, <3>2, SumAdd
    <3>6. stats'.tokens = SumFunctionOnSet(used, C \cup {t})
      <4>1. stats.tokens = SumFunctionOnSet(used, C)
        BY <2>2 DEF Counted
      <4>2. stats'.tokens = stats.tokens + used[t]
        BY <3>1
      <4> HIDE DEF used
      <4> QED
        BY <3>2, <3>4, <3>5, <4>1, <4>2
    <3>7. stats'.count = Cardinality(C \cup {t})
      BY <2>2, <3>1, <3>3 DEF Counted
    <3>8. /\ \A s \in Turn : pc'[s] \in {"finish", "done"} => s \in C \cup {t}
          /\ \A s \in C \cup {t} : pc'[s] \in {"finish", "done", "cut"}
      BY <2>2, <3>1 DEF Counted, Inv, RecordInv, Pcs
    <3>9. Counted(C \cup {t})'
      <4>1. used' = used
        BY <3>1
      <4> QED
        BY <3>3, <3>6, <3>7, <3>8, <4>1 DEF Counted
    <3> QED
      BY <3>9
  <2>5. CASE ~UpdateStats(t)
    <3>1. UNCHANGED stats
      BY <1>2, <2>5, QuietSteps
    <3>2. /\ \A s \in Turn : pc'[s] \in {"finish", "done"} => s \in C
          /\ \A s \in C : pc'[s] \in {"finish", "done", "cut"}
          /\ \A s \in C : loc'[s].used = loc[s].used
      BY <1>2, <2>2, <2>5, Settled DEF Counted
    <3>3. SumFunctionOnSet(used', C) = SumFunctionOnSet(used, C)
      <4>1. \A s \in C : used'[s] = used[s]
        BY <3>2
      <4> HIDE DEF used
      <4> QED
        BY <2>3, <4>1, SumEqual
    <3>4. Counted(C)'
      BY <2>2, <3>1, <3>2, <3>3 DEF Counted
    <3> QED
      BY <3>4
  <2> QED
    BY <2>4, <2>5
<1> QED
  BY <1>1, <1>2 DEF Next, Steps

LEMMA CountedIsOnce == StatsInv => StatsOncePerTurn
<1> DEFINE Surely == {t \in Turn : pc[t] \in {"finish", "done"}}
           Maybe == {t \in Turn : pc[t] = "cut"}
           Used(S) == SumFunctionOnSet([t \in Turn |-> loc[t].used], S)
<1> SUFFICES ASSUME StatsInv, faults = 0
             PROVE  \E S \in SUBSET Maybe :
                      /\ stats.count = Cardinality(Surely \cup S)
                      /\ stats.tokens = Used(Surely \cup S)
  BY DEF StatsOncePerTurn
<1>1. PICK C \in SUBSET Turn : Counted(C)
  BY DEF StatsInv
<1>2. C \ Surely \in SUBSET Maybe /\ Surely \cup (C \ Surely) = C
  BY <1>1 DEF Counted
<1>3. stats.count = Cardinality(C) /\ stats.tokens = Used(C)
  BY <1>1 DEF Counted
<1> HIDE DEF Surely, Maybe, Used
<1> QED
  BY <1>2, <1>3

\* A turn that was told "done" is in the statistics once, with all its tokens,
\* among any number of others and however they interleave.
THEOREM StatisticsAddUp == Spec => []StatsOncePerTurn
  BY CountedIsOnce, StatsInit, StatsNext, CallsInit, CallsNext, TxInvariant,
     RecordInvariant, PTL DEF Spec, Inv

-----------------------------------------------------------------------------
\* The transcript

Sized == [i \in DOMAIN messages |-> messages[i].size]
Shown(t) == {i \in 1..Len(wire[t]) : wire[t][i] = "token"}

LEMMA RowsFinite ==
  ASSUME Inv, NEW t \in Turn, NEW role \in {"user", "assistant"}
  PROVE  /\ IsFiniteSet(Rows(t, role))
         /\ \A i \in Rows(t, role) : i \in 1..Len(messages) /\ Sized[i] \in Nat
         /\ SizeOf(t) \in Nat
<1>1. messages \in Seq(Row) /\ Len(messages) \in Nat
  BY DEF Inv, RecordInv, Types
<1>2. \A i \in 1..Len(messages) : Sized[i] \in Nat
  <2> TAKE i \in 1..Len(messages)
  <2>1. messages[i] \in Row /\ i \in DOMAIN messages
    BY <1>1
  <2>2. messages[i].size \in Nat
    BY <2>1 DEF Row
  <2> QED
    BY <2>1, <2>2 DEF Sized
<1>3. \A r : IsFiniteSet(Rows(t, r))
  <2> TAKE r
  <2>1. IsFiniteSet(1..Len(messages)) /\ Rows(t, r) \subseteq 1..Len(messages)
    BY <1>1, FS_Interval DEF Rows
  <2> QED
    BY <2>1, FS_Subset
<1>4. \A i \in Rows(t, "assistant") : Sized[i] \in Nat
  BY <1>2 DEF Rows
<1>5. SumFunctionOnSet(Sized, Rows(t, "assistant")) \in Nat
  BY <1>3, <1>4, SumNat
<1>6. SizeOf(t) \in Nat
  BY <1>5 DEF SizeOf, Sized
<1> QED
  BY <1>2, <1>3, <1>6 DEF Rows

\* A message more is one row more of its turn and role, and its size more.
LEMMA MessageAdded ==
  ASSUME Inv, NEW t \in Turn, NEW role \in {"user", "assistant"},
         NEW size \in Nat, NEW tokens \in 0..MaxIterations,
         messages' = Append(messages, [turn |-> t, role |-> role,
                                       size |-> size, tokens |-> tokens])
  PROVE  /\ Rows(t, role)' = Rows(t, role) \cup {Len(messages) + 1}
         /\ \A s \in Turn, r \in {"user", "assistant"} :
              s # t \/ r # role => Rows(s, r)' = Rows(s, r)
         /\ SizeOf(t)' = SizeOf(t) + (IF role = "assistant" THEN size ELSE 0)
         /\ \A s \in Turn \ {t} : SizeOf(s)' = SizeOf(s)
<1> DEFINE n == Len(messages)
           row == [turn |-> t, role |-> role, size |-> size, tokens |-> tokens]
<1>1. messages \in Seq(Row) /\ n \in Nat /\ row \in Row
  BY DEF Inv, RecordInv, Types, Row
<1>2. /\ messages' \in Seq(Row)
      /\ Len(messages') = n + 1 /\ messages'[n + 1] = row
      /\ \A i \in 1..n : messages'[i] = messages[i]
  BY <1>1
<1>3. /\ row.turn = t /\ row.role = role /\ row.size = size
      /\ \A s, r : n + 1 \notin Rows(s, r)
  BY <1>1 DEF Rows
<1> HIDE DEF row
<1>4. Rows(t, role)' = Rows(t, role) \cup {n + 1}
  BY <1>1, <1>2, <1>3 DEF Rows
<1>5. \A s \in Turn, r \in {"user", "assistant"} :
        s # t \/ r # role => Rows(s, r)' = Rows(s, r)
  BY <1>1, <1>2, <1>3 DEF Rows
<1>6. (\A i \in 1..n : Sized'[i] = Sized[i]) /\ Sized'[n + 1] = size
  <2>1. DOMAIN messages = 1..n /\ DOMAIN messages' = 1..n + 1
    BY <1>1, <1>2
  <2> QED
    BY <1>1, <1>2, <1>3, <2>1 DEF Sized
<1>7. ASSUME NEW s \in Turn
      PROVE  SumFunctionOnSet(Sized', Rows(s, "assistant")) = SizeOf(s)
  <2>1. \A i \in Rows(s, "assistant") : Sized'[i] = Sized[i]
    BY <1>6 DEF Rows
  <2>2. SumFunctionOnSet(Sized', Rows(s, "assistant"))
          = SumFunctionOnSet(Sized, Rows(s, "assistant"))
    BY <2>1, RowsFinite, SumEqual
  <2> QED
    BY <2>2 DEF SizeOf, Sized
<1>8. \A s \in Turn : s # t \/ role # "assistant" => SizeOf(s)' = SizeOf(s)
  BY <1>5, <1>7 DEF SizeOf, Sized
<1>9. role = "assistant" => SizeOf(t)' = SizeOf(t) + size
  <2> SUFFICES ASSUME role = "assistant" PROVE SizeOf(t)' = SizeOf(t) + size
    OBVIOUS
  <2>1. /\ IsFiniteSet(Rows(t, "assistant")) /\ n + 1 \notin Rows(t, "assistant")
        /\ \A i \in Rows(t, "assistant") \cup {n + 1} : Sized'[i] \in Nat
    BY <1>1, <1>3, <1>6, RowsFinite DEF Rows
  <2>2. SumFunctionOnSet(Sized', Rows(t, "assistant") \cup {n + 1})
          = Sized'[n + 1] + SumFunctionOnSet(Sized', Rows(t, "assistant"))
    BY <2>1, SumAdd
  <2>3. SizeOf(t) \in Nat
    BY RowsFinite
  <2>4. SizeOf(t)' = SumFunctionOnSet(Sized', Rows(t, "assistant")')
    BY DEF SizeOf, Sized
  <2>5. Rows(t, "assistant")' = Rows(t, "assistant") \cup {n + 1}
    BY <1>4 DEF Rows
  <2>6. SizeOf(t)' = Sized'[n + 1] + SumFunctionOnSet(Sized', Rows(t, "assistant"))
    BY <2>2, <2>4, <2>5
  <2> QED
    BY <1>6, <1>7, <2>3, <2>6
<1>10. SizeOf(t) \in Nat
  BY RowsFinite
<1> QED
  BY <1>4, <1>5, <1>8, <1>9, <1>10

\* update_message changes neither whose a row is nor what it says.
LEMMA TokensUpdated ==
  ASSUME Inv, NEW t \in Turn, UpdateMessage(t)
  PROVE  \A s \in Turn : /\ \A r : Rows(s, r)' = Rows(s, r)
                         /\ SizeOf(s)' = SizeOf(s)
<1>1. messages \in Seq(Row)
  BY DEF Inv, RecordInv, Types
<1>2. CASE UNCHANGED messages
  BY <1>2 DEF Rows, SizeOf
<1>3. CASE /\ loc[t].asst # 0
           /\ messages' = [messages EXCEPT ![loc[t].asst].tokens = loc[t].used]
  <2>0. messages' = [messages EXCEPT ![loc[t].asst] =
                       [messages[loc[t].asst] EXCEPT !.tokens = loc[t].used]]
    BY <1>3
  <2>1. Len(messages') = Len(messages) /\ DOMAIN messages' = DOMAIN messages
    BY <1>1, <2>0
  <2>2. \A i \in DOMAIN messages : /\ messages'[i].turn = messages[i].turn
                                  /\ messages'[i].role = messages[i].role
                                  /\ messages'[i].size = messages[i].size
    BY <1>1, <2>0 DEF Row
  <2>3. \A s \in Turn : \A r : Rows(s, r)' = Rows(s, r)
    BY <1>1, <2>1, <2>2 DEF Rows
  <2>4. Sized' = Sized
    BY <2>1, <2>2 DEF Sized
  <2> QED
    BY <2>3, <2>4 DEF SizeOf, Sized
<1> QED
  BY <1>2, <1>3 DEF UpdateMessage

\* A token more on the wire is counted, and no other event is.
LEMMA EventSent ==
  ASSUME Wired, NEW t \in Turn, NEW e \in {"start", "token", "done", "error"},
         Sends(t, e)
  PROVE  /\ Tokens(t)' = Tokens(t) + (IF e = "token" THEN 1 ELSE 0)
         /\ \A s \in Turn \ {t} : Tokens(s)' = Tokens(s)
         /\ Tokens(t) \in Nat
<1> DEFINE n == Len(wire[t])
<1>1. wire[t] \in Seq({"start", "token", "done", "error"}) /\ n \in Nat
  BY DEF Wired
<1>2. wire'[t] = Append(wire[t], e) /\ \A s \in Turn \ {t} : wire'[s] = wire[s]
  BY DEF Wired, Sends
<1>3. /\ Len(wire'[t]) = n + 1 /\ wire'[t][n + 1] = e
      /\ \A i \in 1..n : wire'[t][i] = wire[t][i]
  BY <1>1, <1>2
<1>4. /\ Shown(t)' = Shown(t) \cup (IF e = "token" THEN {n + 1} ELSE {})
      /\ n + 1 \notin Shown(t)
  BY <1>1, <1>3 DEF Shown
<1>5. IsFiniteSet(Shown(t))
  <2>1. IsFiniteSet(1..n) /\ Shown(t) \subseteq 1..n
    BY <1>1, FS_Interval DEF Shown
  <2> QED
    BY <2>1, FS_Subset
<1>6. /\ Cardinality(Shown(t)) \in Nat
      /\ Cardinality(Shown(t) \cup {n + 1}) = Cardinality(Shown(t)) + 1
  BY <1>4, <1>5, FS_AddElement, FS_CardinalityType
<1>7. Cardinality(Shown(t)') = Cardinality(Shown(t)) + (IF e = "token" THEN 1 ELSE 0)
  <2>1. CASE e = "token"
    BY <1>4, <1>6, <2>1
  <2>2. CASE e # "token"
    <3>1. Shown(t)' = Shown(t)
      BY <1>4, <2>2
    <3> QED
      BY <1>6, <2>2, <3>1
  <2> QED
    BY <2>1, <2>2
<1> QED
  BY <1>2, <1>6, <1>7 DEF Tokens, Shown
\* What the transcript of a turn depends on.
Same(s) == /\ \A r \in {"user", "assistant"} : Rows(s, r)' = Rows(s, r)
           /\ SizeOf(s)' = SizeOf(s)
           /\ Tokens(s)' = Tokens(s)

\* The steps that neither write a message nor show text.
Silent(t) == /\ ~SaveUser(t) /\ ~SaveAssistant(t) /\ ~SaveFallback(t)
             /\ ~ContentDelta(t) /\ ~Fallback(t)

LEMMA SilentCounts ==
  ASSUME Inv, Wired, NEW t \in Turn, Steps(t), Silent(t)
  PROVE  \A s \in Turn : Same(s)
<1>1. CASE UpdateMessage(t)
  BY <1>1, TokensUpdated DEF UpdateMessage, Tokens, Same
<1>2. ASSUME NEW e \in {"start", "done", "error"}, Sends(t, e), UNCHANGED messages
      PROVE  \A s \in Turn : Same(s)
  <2>1. \A s \in Turn : Tokens(s)' = Tokens(s)
    <3>1. Tokens(t)' = Tokens(t)
      BY <1>2, EventSent
    <3>2. \A s \in Turn \ {t} : Tokens(s)' = Tokens(s)
      BY <1>2, EventSent
    <3> QED
      BY <3>1, <3>2 DEF Tokens
  <2> QED
    BY <1>2, <2>1 DEF Rows, SizeOf, Same
<1>3. CASE StartStream(t) \/ SendDone(t) \/ SendError(t)
  BY <1>2, <1>3 DEF StartStream, SendDone, SendError
<1>4. CASE ~UpdateMessage(t) /\ ~StartStream(t) /\ ~SendDone(t) /\ ~SendError(t)
  <2>1. UNCHANGED messages
    BY <1>4, QuietSteps DEF Silent
  <2>2. UNCHANGED wire
    BY <1>4 DEF Steps, Silent, Advance, Prepare, Reply, CallTools, Conclude,
       Request, UpdateIntent, Disconnect, GetOrCreateConversation, LoadMemory,
       Route, LogEvent, LoadAgent, LoadTools, Retrieve, Provider,
       ToolCallComplete, StreamEnds, StreamRaises, Execute, SaveToolCall,
       LogToolFailure, ReloadMemory, UpdateStats
  <2> QED
    BY <2>1, <2>2 DEF Rows, SizeOf, Tokens, Same
<1> QED
  BY <1>1, <1>3, <1>4

\* Where such a step leads: what is pending stays so.
LEMMA SilentMoves ==
  ASSUME Inv, NEW t \in Turn, Request(t) \/ Advance(t) \/ Disconnect(t), Silent(t),
         pc[t] \in Before => loc[t].said = 0
  PROVE  /\ loc'[t].user = loc[t].user
         /\ pc'[t] \in Before \ {"provider"} => pc[t] \in Before \ {"provider"}
         /\ pc'[t] \in Before => pc[t] \in Before /\ loc'[t].said = 0
         /\ pc'[t] \in Told => pc[t] \in Told
         /\ pc'[t] \notin Lost => pc[t] \notin Lost /\ Pending(t)' = Pending(t)
<1>1. /\ loc \in [Turn -> Locals] /\ loc[t].said \in Nat
      /\ pc \in [Turn -> Stages \cup Ended \cup {"new"}]
  BY BoundsAssumption DEF Inv, RecordInv, Types, Pcs, Locals
<1> USE <1>1 DEF Goes, Before, Told, Lost, Pending, Locals
<1>2. CASE Request(t) \/ Disconnect(t)
  BY <1>2 DEF Request, Disconnect
<1>3. CASE GetOrCreateConversation(t) \/ StartStream(t) \/ LoadMemory(t)
           \/ Route(t)
  BY <1>3 DEF GetOrCreateConversation, StartStream, LoadMemory, Route
<1>4. CASE LogEvent(t)
  BY <1>4 DEF LogEvent, LogTo
<1>5. CASE LoadAgent(t) \/ LoadTools(t) \/ Retrieve(t) \/ Provider(t)
  BY <1>5 DEF LoadAgent, LoadTools, Retrieve, Provider
<1>6. CASE ToolCallComplete(t) \/ StreamRaises(t) \/ UpdateMessage(t)
  BY <1>6 DEF ToolCallComplete, StreamRaises, UpdateMessage, AfterMessage,
     AfterLoop
<1>7. CASE StreamEnds(t)
  BY <1>7 DEF StreamEnds, AfterMessage, AfterLoop
<1>8. CASE Execute(t)
  BY <1>8 DEF Execute
<1>9. CASE SaveToolCall(t) \/ LogToolFailure(t)
  BY <1>9 DEF SaveToolCall, LogToolFailure, NextCall
<1>10. CASE ReloadMemory(t) \/ UpdateStats(t) \/ SendDone(t) \/ SendError(t)
  BY <1>10 DEF ReloadMemory, UpdateStats, SendDone, SendError
<1> QED
  BY <1>2, <1>3, <1>4, <1>5, <1>6, <1>7, <1>8, <1>9, <1>10
  DEF Silent, Advance, Prepare, Reply, CallTools, Conclude
LEMMA TranscriptStays ==
  ASSUME NEW s \in Turn, Transcript(s), Same(s), pc'[s] = pc[s], loc'[s] = loc[s]
  PROVE  Transcript(s)'
  BY DEF Transcript, Same, Pending, Before, Told, Lost
\* While no statement fails, a message that is to be saved is.
LEMMA Written ==
  ASSUME Inv, NEW t \in Turn, faults = 0, faults' = 0,
         pc[t] \notin {"new", "conversation"}, UNCHANGED wire,
         NEW role \in {"user", "assistant"}, NEW size \in Nat,
         NEW tokens \in 0..MaxIterations, NEW id,
         SaveMessage(t, role, size, tokens, id)
  PROVE  /\ id = Len(messages) + 1
         /\ Rows(t, role)' = Rows(t, role) \cup {id}
         /\ \A r \in {"user", "assistant"} \ {role} : Rows(t, r)' = Rows(t, r)
         /\ SizeOf(t)' = SizeOf(t) + (IF role = "assistant" THEN size ELSE 0)
         /\ Tokens(t)' = Tokens(t)
         /\ \A s \in Turn \ {t} : Same(s)
<1>1. loc[t].conv /\ tx[t] # "aborted" /\ Len(messages) \in Nat
  BY DEF Inv, CallsInv, Known, RecordInv, Types
<1>2. /\ id = Len(messages) + 1
      /\ messages' = Append(messages, [turn |-> t, role |-> role,
                                       size |-> size, tokens |-> tokens])
  BY <1>1 DEF SaveMessage, ExecuteRollsBack, StatementFails
<1>3. \A s \in Turn : Tokens(s)' = Tokens(s)
  BY DEF Tokens
<1> QED
  BY <1>2, <1>3, MessageAdded DEF Same

LEMMA TranscriptNext ==
  ASSUME Inv, Wired, NEW t \in Turn, Steps(t), faults = 0, faults' = 0,
         NEW s \in Turn, TranscriptInv
  PROVE  Transcript(s)'
<1>1. /\ Transcript(s) /\ Transcript(t)
      /\ loc \in [Turn -> Locals] /\ loc[t].said \in Nat
      /\ loc[t].user \in Nat /\ loc[t].used \in 0..MaxIterations
      /\ pc \in [Turn -> Stages \cup Ended \cup {"new"}]
      /\ loc[t].user <= Len(messages) /\ Len(messages) \in Nat
      /\ SizeOf(t) \in Nat
  <2>1. Transcript(s) /\ Transcript(t)
    BY DEF TranscriptInv
  <2>2. SizeOf(t) \in Nat
    BY RowsFinite
  <2>3. /\ loc \in [Turn -> Locals] /\ messages \in Seq(Row)
        /\ pc \in [Turn -> Stages \cup Ended \cup {"new"}]
        /\ loc[t].user <= Len(messages)
    BY DEF Inv, RecordInv, Types, Pcs, Owned, Mine
  <2>4. /\ loc[t].said \in Nat /\ loc[t].user \in Nat
        /\ loc[t].used \in 0..MaxIterations
    BY <2>3, BoundsAssumption DEF Locals
  <2> QED
    BY <2>1, <2>2, <2>3, <2>4
<1>2. CASE UpdateIntent(t)
  BY <1>1, <1>2 DEF UpdateIntent, Transcript, Rows, SizeOf, Tokens, Pending
<1>3. ASSUME Request(t) \/ Advance(t) \/ Disconnect(t), s # t, Same(s)
      PROVE  Transcript(s)'
  <2>1. pc'[s] = pc[s] /\ loc'[s] = loc[s]
    <3>1. Touch(t)
      BY <1>3, Locally DEF Inv
    <3> QED
      BY <1>1, <1>3, <3>1 DEF Touch
  <2> QED
    BY <1>1, <1>3, <2>1, TranscriptStays
<1>4. CASE Silent(t) /\ ~UpdateIntent(t)
  <2>1. Same(s) /\ (Request(t) \/ Advance(t) \/ Disconnect(t))
    BY <1>4, SilentCounts DEF Steps
  <2>2. CASE s = t
    <3>1. /\ loc'[t].user = loc[t].user
          /\ pc'[t] \in Before \ {"provider"} => pc[t] \in Before \ {"provider"}
          /\ pc'[t] \in Before => pc[t] \in Before /\ loc'[t].said = 0
          /\ pc'[t] \in Told => pc[t] \in Told
          /\ pc'[t] \notin Lost => pc[t] \notin Lost /\ Pending(t)' = Pending(t)
      <4>1. pc[t] \in Before => loc[t].said = 0
        BY <1>1 DEF Transcript
      <4> QED
        BY <1>4, <2>1, <4>1, SilentMoves
    <3> QED
      BY <1>1, <2>1, <2>2, <3>1 DEF Same, Transcript
  <2> QED
    BY <1>3, <2>1, <2>2
<1>5. CASE SaveUser(t)
  <2>1. PICK id : /\ SaveMessage(t, "user", 0, 0, id)
                  /\ loc' = [loc EXCEPT ![t].user = id]
    BY <1>5 DEF SaveUser
  <2>2. pc[t] = "saveUser" /\ pc' = [pc EXCEPT ![t] = "provider"] /\ UNCHANGED wire
    BY <1>5 DEF SaveUser, Goes
  <2>3. /\ Rows(t, "user")' = Rows(t, "user") \cup {id}
        /\ Rows(t, "assistant")' = Rows(t, "assistant")
        /\ SizeOf(t)' = SizeOf(t) /\ Tokens(t)' = Tokens(t)
        /\ \A q \in Turn \ {t} : Same(q)
    BY <1>1, <2>1, <2>2, Written, BoundsAssumption
  <2>4. loc'[t].user = id /\ loc'[t].said = loc[t].said /\ pc'[t] = "provider"
    BY <1>1, <2>1, <2>2 DEF Locals
  <2>5. Transcript(t)'
    BY <1>1, <2>2, <2>3, <2>4 DEF Transcript, Before, Told, Lost, Pending
  <2> QED
    BY <1>3, <1>5, <2>3, <2>5 DEF Advance, Prepare
<1>6. CASE SaveAssistant(t)
  <2>1. PICK id : /\ SaveMessage(t, "assistant", loc[t].said, loc[t].used, id)
                  /\ loc' = [loc EXCEPT ![t].asst = id]
    BY <1>6 DEF SaveAssistant
  <2>2. /\ pc[t] = "saveAssistant" /\ pc' = [pc EXCEPT ![t] = pc'[t]]
        /\ pc'[t] \in {"update", "execute", "logTurn", "reload"}
        /\ UNCHANGED wire
    BY <1>1, <1>6 DEF SaveAssistant, Goes, AfterMessage, AfterLoop
  <2>3. /\ id = Len(messages) + 1
        /\ Rows(t, "user")' = Rows(t, "user")
        /\ Rows(t, "assistant")' = Rows(t, "assistant") \cup {id}
        /\ SizeOf(t)' = SizeOf(t) + loc[t].said /\ Tokens(t)' = Tokens(t)
        /\ \A q \in Turn \ {t} : Same(q)
    BY <1>1, <2>1, <2>2, Written
  <2>4. loc'[t].user = loc[t].user
    BY <1>1, <2>1 DEF Locals
  <2>5. Transcript(t)'
    BY <1>1, <2>2, <2>3, <2>4 DEF Transcript, Before, Told, Lost, Pending
  <2> QED
    BY <1>3, <1>6, <2>3, <2>5 DEF Advance, Reply
<1>7. CASE SaveFallback(t)
  <2>1. PICK id : SaveMessage(t, "assistant", 1, 0, id)
    BY <1>7 DEF SaveFallback
  <2>2. /\ pc[t] = "saveFallback" /\ pc' = [pc EXCEPT ![t] = pc'[t]]
        /\ pc'[t] \in {"logTurn", "reload"}
        /\ UNCHANGED <<wire, loc>>
    BY <1>1, <1>7 DEF SaveFallback, Goes, AfterLoop
  <2>3. /\ id = Len(messages) + 1
        /\ Rows(t, "user")' = Rows(t, "user")
        /\ Rows(t, "assistant")' = Rows(t, "assistant") \cup {id}
        /\ SizeOf(t)' = SizeOf(t) + 1 /\ Tokens(t)' = Tokens(t)
        /\ \A q \in Turn \ {t} : Same(q)
    BY <1>1, <2>1, <2>2, Written, BoundsAssumption
  <2>4. Transcript(t)'
    BY <1>1, <2>2, <2>3 DEF Transcript, Before, Told, Lost, Pending
  <2> QED
    BY <1>3, <1>7, <2>3, <2>4 DEF Advance, Conclude
<1>8. CASE ContentDelta(t) \/ Fallback(t)
  <2>1. /\ Tokens(t)' = Tokens(t) + 1 /\ Tokens(t) \in Nat
        /\ \A q \in Turn \ {t} : Tokens(q)' = Tokens(q)
    <3>1. Sends(t, "token")
      BY <1>8 DEF ContentDelta, Fallback
    <3> QED
      BY <3>1, EventSent
  <2>2. \A q \in Turn : /\ \A r \in {"user", "assistant"} : Rows(q, r)' = Rows(q, r)
                        /\ SizeOf(q)' = SizeOf(q)
    <3>1. UNCHANGED messages
      BY <1>8 DEF ContentDelta, Fallback
    <3> QED
      BY <3>1 DEF Rows, SizeOf
  <2>3. \/ /\ pc[t] = "stream" /\ UNCHANGED pc
           /\ loc'[t].said = loc[t].said + 1 /\ loc'[t].user = loc[t].user
        \/ /\ pc[t] = "fallback" /\ pc' = [pc EXCEPT ![t] = "saveFallback"]
           /\ UNCHANGED loc
    BY <1>1, <1>8 DEF ContentDelta, Fallback, Goes, Locals
  <2>4. Transcript(t)'
    <3>1. CASE pc[t] = "stream" /\ UNCHANGED pc
      <4>1. /\ pc'[t] = "stream" /\ loc'[t].said = loc[t].said + 1
            /\ loc'[t].user = loc[t].user
        BY <2>3, <3>1
      <4>2. SizeOf(t) + loc[t].said = Tokens(t)
        BY <1>1, <3>1 DEF Transcript, Lost, Pending
      <4>3. /\ Rows(t, "user") = {loc[t].user}
            /\ \A a \in Rows(t, "assistant") : loc[t].user < a
        BY <1>1, <3>1 DEF Transcript, Told
      <4>4. SizeOf(t)' + Pending(t)' = Tokens(t)'
        BY <1>1, <2>1, <2>2, <4>1, <4>2 DEF Pending
      <4> QED
        BY <2>2, <4>1, <4>3, <4>4 DEF Transcript, Before
    <3>2. CASE pc[t] = "fallback" /\ pc' = [pc EXCEPT ![t] = "saveFallback"]
      <4>1. pc'[t] = "saveFallback" /\ loc' = loc
        BY <1>1, <2>3, <3>2
      <4>2. SizeOf(t) = Tokens(t)
        BY <1>1, <3>2 DEF Transcript, Lost, Pending
      <4>3. /\ Rows(t, "user") = {loc[t].user}
            /\ \A a \in Rows(t, "assistant") : loc[t].user < a
        BY <1>1, <3>2 DEF Transcript, Told
      <4>4. SizeOf(t)' + Pending(t)' = Tokens(t)'
        BY <2>1, <2>2, <4>1, <4>2 DEF Pending
      <4> QED
        BY <2>2, <4>1, <4>3, <4>4 DEF Transcript, Before
    <3> QED
      BY <2>3, <3>1, <3>2
  <2> QED
    BY <1>3, <1>8, <2>1, <2>2, <2>4 DEF Advance, Conclude, Reply, Same
<1> QED
  BY <1>2, <1>4, <1>5, <1>6, <1>7, <1>8 DEF Silent

LEMMA TranscriptInit == Init => TranscriptInv
<1> SUFFICES ASSUME Init, NEW t \in Turn PROVE Transcript(t)
  BY DEF TranscriptInv
<1>1. /\ \A role : Rows(t, role) = {}
      /\ Tokens(t) = 0
  BY FS_EmptySet DEF Init, Rows, Tokens
<1>2. SizeOf(t) = 0
  BY <1>1, SumEmpty DEF SizeOf
<1> QED
  BY <1>1, <1>2 DEF Init, Transcript, Before, Told, Lost, Pending

\* A client that is told "done" after a turn without failed statements finds
\* its question and, behind it, exactly the text it was shown, whatever number
\* of iterations with tool calls and of other turns came between.
THEOREM TranscriptsAreComplete == Spec => []TranscriptComplete
<1>1. Inv /\ TranscriptInv => TranscriptComplete
  <2> SUFFICES ASSUME Inv, TranscriptInv, NEW t \in Turn, pc[t] = "done", faults = 0
               PROVE  /\ Cardinality(Rows(t, "user")) = 1
                      /\ \A u \in Rows(t, "user"), a \in Rows(t, "assistant") : u < a
                      /\ SizeOf(t) = Tokens(t)
    BY DEF TranscriptComplete
  <2>1. Transcript(t)
    BY DEF TranscriptInv
  <2>2. /\ Rows(t, "user") = {loc[t].user}
        /\ \A a \in Rows(t, "assistant") : loc[t].user < a
        /\ SizeOf(t) + 0 = Tokens(t)
    BY <2>1 DEF Transcript, Told, Lost, Pending
  <2>3. SizeOf(t) \in Nat
    BY RowsFinite
  <2>4. Cardinality({loc[t].user}) = 1
    BY FS_Singleton
  <2> QED
    BY <2>2, <2>3, <2>4
<1>2. Inv /\ Wired /\ TranscriptInv /\ [Next]_vars => TranscriptInv'
  <2> SUFFICES ASSUME Inv, Wired, TranscriptInv, [Next]_vars, faults' = 0,
                      NEW s \in Turn
               PROVE  Transcript(s)'
    BY DEF TranscriptInv
  <2>1. CASE UNCHANGED vars
    BY <2>1 DEF vars, TranscriptInv, Transcript, Rows, SizeOf, Tokens, Pending
  <2>2. ASSUME NEW t \in Turn, Steps(t) PROVE Transcript(s)'
    BY <2>2, Faultless, TranscriptNext
  <2> QED
    BY <2>1, <2>2 DEF Next, Steps
<1>3. Spec => [](StreamInv)
  BY StreamInit, StreamNext, PTL DEF Spec
<1>4. StreamInv => Wired
  BY DEF StreamInv
<1> QED
  BY <1>1, <1>2, <1>3, <1>4, TranscriptInit, CallsInit, CallsNext, TxInvariant,
     RecordInvariant, PTL DEF Spec, Inv
=============================================================================
