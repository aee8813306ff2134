------------------------------- MODULE ChatTurn -------------------------------
(***************************************************************************)
(* A chat turn: POST /chat (app/routers/chat.py) running the ReAct planner *)
(* (app/agent/planner.py, _execute) and streaming its answer as SSE.       *)
(* Several turns of one conversation may be under way at once; each has a  *)
(* database session of its own, and an action is what a turn does between  *)
(* two awaits.  The provider's replies, the tools' answers, failing        *)
(* statements and the client closing the connection are the environment.   *)
(***************************************************************************)
EXTENDS Naturals, Sequences, FiniteSets, Functions

CONSTANTS Turn,           \* the requests, all of one conversation
          MaxIterations,  \* MAX_ITERATIONS of planner.py
          MaxText,        \* bound: text deltas in one reply of the provider
          MaxCalls,       \* bound: tool calls in one reply
          MaxFaults,      \* bound: database statements that fail of themselves
          Routes          \* the routes the semantic router may choose

ASSUME BoundsAssumption ==
  /\ MaxIterations \in Nat \ {0}
  /\ MaxText \in Nat /\ MaxCalls \in Nat /\ MaxFaults \in Nat
  /\ Routes \subseteq {"TOOL", "RAG", "BOTH", "META", "NONE"}

VARIABLES pc,            \* where each turn is
          loc,           \* the locals of _execute
          tx, faults,    \* the turns' database sessions
          wire,          \* SSE events sent to the client of each turn
          messages,      \* committed rows of messages, by sequence_number
          toolCalls,     \* committed rows of tool_calls
          stats,         \* conversations.message_count and total_tokens
          effects,       \* HTTP requests sent to tools by each turn
          tasks,         \* pending update_conversation_intent: the snapshot
          intent         \* snapshot the stored conversation intent is from

dbVars == <<messages, toolCalls, stats>>
intentVars == <<tasks, intent>>
vars == <<pc, loc, tx, faults, wire, dbVars, effects, intentVars>>

INSTANCE DbSession WITH Session <- Turn

UsesTools(route) == route \in {"TOOL", "BOTH"}
UsesRag(route) == route \in {"RAG", "BOTH"}

Waiting == {"stream", "execute"}      \* for the provider, for a tool
Stages == Waiting \cup
  {"conversation", "start", "memory", "route", "logRoute", "agent", "tools",
   "retrieve", "ragMiss", "saveUser", "provider", "saveAssistant", "update",
   "saveCall", "logFailure", "limit", "fallback", "saveFallback", "reload",
   "logTurn", "stats", "finish", "failed"}
Ended == {"done", "error", "cut"}

\* conv: is there a conversation_id?     agent: was the agent loaded?
\* user, asst: user_message_id and assistant_msg_id, 0 for None
\* iter: iteration of the loop           said: len(turn_content)
\* calls, ran: pending_tool_calls and how many of them have been handled
\* used: completion_tokens so far        ok: status of the last tool call
Locals == [conv : BOOLEAN, agent : BOOLEAN, ok : BOOLEAN,
           route : Routes \cup {"NONE"}, user : Nat, asst : Nat,
           iter : 0..MaxIterations, said : 0..MaxText,
           calls : 0..MaxCalls, ran : 0..MaxCalls, used : 0..MaxIterations]

Init ==
  /\ pc = [t \in Turn |-> "new"]
  /\ loc = [t \in Turn |->
       [conv |-> FALSE, agent |-> FALSE, ok |-> TRUE, route |-> "NONE",
        user |-> 0, asst |-> 0, iter |-> 0, said |-> 0, calls |-> 0,
        ran |-> 0, used |-> 0]]
  /\ SessionInit
  /\ wire = [t \in Turn |-> <<>>]
  /\ messages = <<>>
  /\ toolCalls = <<>>
  /\ stats = [count |-> 0, tokens |-> 0]
  /\ effects = [t \in Turn |-> 0]
  /\ tasks = [t \in Turn |-> 0]
  /\ intent = 0

Goes(t, from, to) == pc[t] = from /\ pc' = [pc EXCEPT ![t] = to]
Sends(t, event) == wire' = [wire EXCEPT ![t] = Append(@, event)]

\* A statement PostgreSQL rejects for what it is given: caught, rolled back.
Rejected(t) == TxBecomes(t, "idle") /\ UNCHANGED faults

-----------------------------------------------------------------------------
\* The request and what precedes the loop

Request(t) ==
  /\ Goes(t, "new", "conversation")
  /\ UNCHANGED <<loc, tx, faults, wire, dbVars, effects, intentVars>>

\* get_or_create_conversation returns None when it fails, and chat goes on.
GetOrCreateConversation(t) ==
  /\ Goes(t, "conversation", "start")
  /\ \/ ExecuteCommits(t) /\ loc' = [loc EXCEPT ![t].conv = TRUE]
     \/ ExecuteRollsBack(t) /\ UNCHANGED loc
  /\ UNCHANGED <<wire, dbVars, effects, intentVars>>

StartStream(t) ==
  /\ Goes(t, "start", "memory")
  /\ Sends(t, "start")
  /\ UNCHANGED <<loc, tx, faults, dbVars, effects, intentVars>>

\* fetch_messages leaves its transaction open; load_memory swallows its
\* failure without a rollback.
FetchMessages(t) == ExecuteStaysOpen(t) \/ ExecuteAborts(t)

LoadMemory(t) ==
  /\ Goes(t, "memory", "route")
  /\ FetchMessages(t)
  /\ UNCHANGED <<loc, wire, dbVars, effects, intentVars>>

\* The semantic router.  It queries only to build the agent's route cache, the
\* tools and then the documents; Redis, the embedding model or a failed query
\* make it raise.  A failed query of the tools is rolled back, and that of the
\* documents opens the next transaction; when both fail that is one fault here.
Route(t) ==
  /\ \/ /\ Goes(t, "route", "logRoute")
        /\ \E r \in Routes : loc' = [loc EXCEPT ![t].route = r]
        /\ ExecuteStaysOpen(t) \/ UNCHANGED <<tx, faults>>
     \/ /\ Goes(t, "route", "failed")
        /\ UNCHANGED loc
        /\ \/ UNCHANGED <<tx, faults>>
           \/ ExecuteStaysOpen(t)
           \/ ExecuteAborts(t)
           \/ StatementFails(t) /\ TxBecomes(t, "open")
  /\ UNCHANGED <<wire, dbVars, effects, intentVars>>

\* Mutant: the failed INSERT of the event is not rolled back.
LogEventNoRollback(t) ==
  /\ pc[t] \in {"logRoute", "ragMiss", "limit", "logTurn"}
  /\ pc' = [pc EXCEPT ![t] =
       [logRoute |-> "agent", ragMiss |-> "saveUser", limit |-> "fallback",
        logTurn |-> "stats"][pc[t]]]
  /\ ExecuteCommits(t) \/ ExecuteAborts(t)
  /\ UNCHANGED <<loc, wire, dbVars, effects, intentVars>>

\* log_event: the row is left out; its commit or rollback ends whatever
\* transaction the session was in.
LogTo == [logRoute |-> "agent", ragMiss |-> "saveUser", limit |-> "fallback",
          logTurn |-> "stats"]
LogEvent(t) ==
  /\ pc[t] \in DOMAIN LogTo
  /\ pc' = [pc EXCEPT ![t] = LogTo[pc[t]]]
  /\ ExecuteCommits(t) \/ ExecuteRollsBack(t)
  /\ UNCHANGED <<loc, wire, dbVars, effects, intentVars>>

\* load_agent: an unknown or inactive agent and a failed query both roll back
\* and return None, which is noticed only at the provider.
LoadAgent(t) ==
  /\ LET route == loc[t].route
     IN  Goes(t, "agent", IF UsesTools(route) THEN "tools"
                          ELSE IF UsesRag(route) THEN "retrieve"
                          ELSE "saveUser")
  /\ \/ ExecuteStaysOpen(t) /\ loc' = [loc EXCEPT ![t].agent = TRUE]
     \/ (ExecuteRollsBack(t) \/ Rejected(t)) /\ UNCHANGED loc
  /\ UNCHANGED <<wire, dbVars, effects, intentVars>>

\* load_tools: a failed query returns None, and iterating over it raises.
LoadTools(t) ==
  /\ \/ /\ Goes(t, "tools",
                IF UsesRag(loc[t].route) THEN "retrieve" ELSE "saveUser")
        /\ ExecuteStaysOpen(t)
     \/ Goes(t, "tools", "failed") /\ ExecuteRollsBack(t)
  /\ UNCHANGED <<loc, wire, dbVars, effects, intentVars>>

\* retrieve: the search commits; when it found nothing or failed, a further
\* query lists the best candidates and leaves its transaction open.  The
\* embedding, the count and that last query raise; the search and that query
\* both failing is one fault here.
Retrieve(t) ==
  /\ \/ Goes(t, "retrieve", "saveUser") /\ ExecuteCommits(t)
     \/ /\ Goes(t, "retrieve", "ragMiss")
        /\ StatementRuns(t) \/ StatementFails(t)
        /\ TxBecomes(t, "open")
     \/ /\ Goes(t, "retrieve", "failed")
        /\ UNCHANGED <<tx, faults>> \/ ExecuteAborts(t)
  /\ UNCHANGED <<loc, wire, dbVars, effects, intentVars>>

-----------------------------------------------------------------------------
\* Messages

\* save_message returns the new id, or None (0) when it fails: messages need a
\* conversation.  tokens_used is the count so far.
SaveMessage(t, role, size, tokens, id) ==
  \/ /\ loc[t].conv
     /\ ExecuteCommits(t)
     /\ messages' = Append(messages, [turn |-> t, role |-> role,
                                      size |-> size, tokens |-> tokens])
     /\ id = Len(messages) + 1
  \/ /\ IF loc[t].conv THEN ExecuteRollsBack(t) ELSE Rejected(t)
     /\ UNCHANGED messages
     /\ id = 0

SaveUser(t) ==
  /\ Goes(t, "saveUser", "provider")
  /\ \E id \in 0..Len(messages) + 1 :
       /\ SaveMessage(t, "user", 0, 0, id)
       /\ loc' = [loc EXCEPT ![t].user = id]
  /\ UNCHANGED <<wire, toolCalls, stats, effects, intentVars>>

\* get_provider(agent.llm_provider, ...): raises without an agent, and for a
\* provider nobody registered.
Provider(t) ==
  /\ \/ /\ loc[t].agent
        /\ Goes(t, "provider", "stream")
        /\ loc' = [loc EXCEPT ![t].iter = 1]
     \/ /\ Goes(t, "provider", "failed")
        /\ UNCHANGED loc
  /\ UNCHANGED <<tx, faults, wire, dbVars, effects, intentVars>>

-----------------------------------------------------------------------------
\* One reply of the provider

ContentDelta(t) ==
  /\ pc[t] = "stream"
  /\ loc[t].said < MaxText
  /\ loc' = [loc EXCEPT ![t].said = @ + 1]
  /\ Sends(t, "token")
  /\ UNCHANGED <<pc, tx, faults, dbVars, effects, intentVars>>

\* Calls are offered only to a provider that was given tools.
ToolCallComplete(t) ==
  /\ pc[t] = "stream"
  /\ UsesTools(loc[t].route)
  /\ loc[t].calls < MaxCalls
  /\ loc' = [loc EXCEPT ![t].calls = @ + 1]
  /\ UNCHANGED <<pc, tx, faults, wire, dbVars, effects, intentVars>>

\* After the loop: META answers do not feed the conversation intent.
AfterLoop(t) == IF loc[t].route = "META" THEN "logTurn" ELSE "reload"
AfterMessage(t) == IF loc[t].calls > 0 THEN "execute" ELSE AfterLoop(t)

\* Mutant: an empty reply is asked for again, of a new provider.
StreamEndsRetries(t) ==
  /\ loc' = [loc EXCEPT ![t].asst = loc[t].user]
  /\ Goes(t, "stream", IF loc[t].said > 0 THEN "saveAssistant"
                       ELSE IF loc[t].calls = 0 THEN "provider"
                       ELSE AfterMessage(t))
  /\ UNCHANGED <<tx, faults, wire, dbVars, effects, intentVars>>

\* The stream ends, with or without a UsageEvent.
StreamEnds(t) ==
  /\ \E n \in {0, 1} :
       /\ loc' = [loc EXCEPT ![t].used = @ + n, ![t].asst = loc[t].user]
       /\ Goes(t, "stream", IF loc[t].said > 0 THEN "saveAssistant"
                            ELSE IF loc[t].used + n > 0 THEN "update"
                            ELSE AfterMessage(t))
  /\ UNCHANGED <<tx, faults, wire, dbVars, effects, intentVars>>

StreamRaises(t) ==
  /\ Goes(t, "stream", "failed")
  /\ UNCHANGED <<loc, tx, faults, wire, dbVars, effects, intentVars>>

\* Mutant: the text that came with tool calls is not saved.
SaveFinalAssistantOnly(t) ==
  /\ Goes(t, "saveAssistant",
          IF loc[t].used > 0 THEN "update" ELSE AfterMessage(t))
  /\ \/ /\ loc[t].calls > 0
        /\ UNCHANGED <<loc, messages, tx, faults>>
     \/ /\ loc[t].calls = 0
        /\ \E id \in 0..Len(messages) + 1 :
             /\ SaveMessage(t, "assistant", loc[t].said, loc[t].used, id)
             /\ loc' = [loc EXCEPT ![t].asst = id]
  /\ UNCHANGED <<wire, toolCalls, stats, effects, intentVars>>

SaveAssistant(t) ==
  /\ Goes(t, "saveAssistant",
          IF loc[t].used > 0 THEN "update" ELSE AfterMessage(t))
  /\ \E id \in 0..Len(messages) + 1 :
       /\ SaveMessage(t, "assistant", loc[t].said, loc[t].used, id)
       /\ loc' = [loc EXCEPT ![t].asst = id]
  /\ UNCHANGED <<wire, toolCalls, stats, effects, intentVars>>

\* update_message(assistant_msg_id): no such row makes it raise and roll back.
UpdateMessage(t) ==
  /\ Goes(t, "update", AfterMessage(t))
  /\ LET id == loc[t].asst IN
     \/ /\ id # 0
        /\ ExecuteCommits(t)
        /\ messages' = [messages EXCEPT ![id].tokens = loc[t].used]
     \/ /\ IF id # 0 THEN ExecuteRollsBack(t) ELSE Rejected(t)
        /\ UNCHANGED messages
  /\ UNCHANGED <<loc, wire, toolCalls, stats, effects, intentVars>>

-----------------------------------------------------------------------------
\* Tool calls

\* Mutant: a call that timed out is sent once more.
ExecuteRetries(t) ==
  \/ /\ Goes(t, "execute", "saveCall")
     /\ \E n \in 1..2 : effects' = [effects EXCEPT ![t] = @ + n]
     /\ \E ok \in BOOLEAN : loc' = [loc EXCEPT ![t].ok = ok]
     /\ UNCHANGED <<tx, faults, wire, dbVars, intentVars>>

\* Executor.execute.  Headers that cannot be decrypted raise DecryptionError,
\* which is no RuntimeError and escapes; an unknown tool or bad headers send
\* nothing.
Execute(t) ==
  /\ \/ /\ Goes(t, "execute", "saveCall")
        /\ \/ /\ effects' = [effects EXCEPT ![t] = @ + 1]
              /\ \E ok \in BOOLEAN : loc' = [loc EXCEPT ![t].ok = ok]
           \/ /\ UNCHANGED effects
              /\ loc' = [loc EXCEPT ![t].ok = FALSE]
     \/ /\ Goes(t, "execute", "failed")
        /\ UNCHANGED <<loc, effects>>
  /\ UNCHANGED <<tx, faults, wire, dbVars, intentVars>>

\* Mutant: one iteration too many.
NextCallOffByOne(t, from) ==
  LET l == loc[t] IN
  \/ /\ l.ran + 1 < l.calls
     /\ Goes(t, from, "execute")
     /\ loc' = [loc EXCEPT ![t].ran = @ + 1]
  \/ /\ l.ran + 1 = l.calls /\ l.iter <= MaxIterations
     /\ Goes(t, from, "stream")
     /\ loc' = [loc EXCEPT ![t].iter = @ + 1, ![t].said = 0, ![t].calls = 0,
                           ![t].ran = 0]

\* The next call of the batch; after the last one the next iteration, or the
\* else branch of the loop.
NextCall(t, from) ==
  LET l == loc[t] IN
  \/ /\ l.ran + 1 < l.calls
     /\ Goes(t, from, "execute")
     /\ loc' = [loc EXCEPT ![t].ran = @ + 1]
  \/ /\ l.ran + 1 = l.calls /\ l.iter < MaxIterations
     /\ Goes(t, from, "stream")
     /\ loc' = [loc EXCEPT ![t].iter = @ + 1, ![t].said = 0, ![t].calls = 0,
                           ![t].ran = 0]
  \/ /\ l.ran + 1 = l.calls /\ l.iter = MaxIterations
     /\ Goes(t, from, "limit")
     /\ UNCHANGED loc

\* Mutant: save_tool_call without its commit.
SaveToolCallUncommitted(t) ==
  /\ IF loc[t].ok THEN NextCall(t, "saveCall")
     ELSE Goes(t, "saveCall", "logFailure") /\ UNCHANGED loc
  /\ ExecuteStaysOpen(t)
  /\ toolCalls' = Append(toolCalls, [turn |-> t, message |-> loc[t].asst])
  /\ UNCHANGED <<wire, messages, stats, effects, intentVars>>

\* Mutant: the call is linked to the latest message of the conversation.
SaveToolCallToLatest(t) ==
  /\ IF loc[t].ok THEN NextCall(t, "saveCall")
     ELSE Goes(t, "saveCall", "logFailure") /\ UNCHANGED loc
  /\ LET id == Len(messages) IN
     \/ /\ id # 0
        /\ ExecuteCommits(t)
        /\ toolCalls' = Append(toolCalls, [turn |-> t, message |-> id])
     \/ /\ IF id # 0 THEN ExecuteRollsBack(t) ELSE Rejected(t)
        /\ UNCHANGED toolCalls
  /\ UNCHANGED <<wire, messages, stats, effects, intentVars>>

\* save_tool_call: the row needs a message.
SaveToolCall(t) ==
  /\ IF loc[t].ok THEN NextCall(t, "saveCall")
     ELSE Goes(t, "saveCall", "logFailure") /\ UNCHANGED loc
  /\ LET id == loc[t].asst IN
     \/ /\ id # 0
        /\ ExecuteCommits(t)
        /\ toolCalls' = Append(toolCalls, [turn |-> t, message |-> id])
     \/ /\ IF id # 0 THEN ExecuteRollsBack(t) ELSE Rejected(t)
        /\ UNCHANGED toolCalls
  /\ UNCHANGED <<wire, messages, stats, effects, intentVars>>

LogToolFailure(t) ==
  /\ NextCall(t, "logFailure")
  /\ ExecuteCommits(t) \/ ExecuteRollsBack(t)
  /\ UNCHANGED <<wire, dbVars, effects, intentVars>>

-----------------------------------------------------------------------------
\* After the loop

\* The fallback text is yielded, then saved.
Fallback(t) ==
  /\ Goes(t, "fallback", "saveFallback")
  /\ Sends(t, "token")
  /\ UNCHANGED <<loc, tx, faults, dbVars, effects, intentVars>>

\* Mutant: the else branch of the loop returns.
SaveFallbackReturns(t) ==
  /\ Goes(t, "saveFallback", "finish")
  /\ \E id \in 0..Len(messages) + 1 :
       SaveMessage(t, "assistant", 1, 0, id)
  /\ UNCHANGED <<loc, wire, toolCalls, stats, effects, intentVars>>

SaveFallback(t) ==
  /\ Goes(t, "saveFallback", AfterLoop(t))
  /\ \E id \in 0..Len(messages) + 1 :
       SaveMessage(t, "assistant", 1, 0, id)
  /\ UNCHANGED <<loc, wire, toolCalls, stats, effects, intentVars>>

\* load_memory again, and a task nobody waits for.
ReloadMemory(t) ==
  /\ Goes(t, "reload", "logTurn")
  /\ \/ ExecuteStaysOpen(t) /\ tasks' = [tasks EXCEPT ![t] = Len(messages)]
     \/ ExecuteAborts(t) /\ UNCHANGED tasks
  /\ UNCHANGED <<loc, wire, dbVars, effects, intent>>

\* update_conversation_intent of turn t ends; its failures are swallowed, and
\* without an assistant message it stores nothing.
UpdateIntent(t) ==
  /\ tasks[t] > 0
  /\ tasks' = [tasks EXCEPT ![t] = 0]
  /\ \/ /\ \E i \in 1..tasks[t] : messages[i].role = "assistant"
        /\ intent' = tasks[t]
     \/ UNCHANGED intent
  /\ UNCHANGED <<pc, loc, tx, faults, wire, dbVars, effects>>

\* update_conversation_stats: without a conversation it updates no row.
UpdateStats(t) ==
  /\ Goes(t, "stats", "finish")
  /\ \/ ~loc[t].conv /\ ExecuteCommits(t) /\ UNCHANGED stats
     \/ /\ loc[t].conv
        /\ ExecuteCommits(t)
        /\ stats' = [count |-> stats.count + 1,
                     tokens |-> stats.tokens + loc[t].used]
     \/ ExecuteRollsBack(t) /\ UNCHANGED stats
  /\ UNCHANGED <<loc, wire, messages, toolCalls, effects, intentVars>>

SendDone(t) ==
  /\ Goes(t, "finish", "done")
  /\ Sends(t, "done")
  /\ UNCHANGED <<loc, tx, faults, dbVars, effects, intentVars>>

\* Mutant: done is sent in a finally clause.
SendErrorFinally(t) ==
  /\ Goes(t, "failed", "error")
  /\ wire' = [wire EXCEPT ![t] = @ \o <<"error", "done">>]
  /\ Abandoned({t})
  /\ UNCHANGED <<loc, dbVars, effects, intentVars>>

\* Any exception of the planner: the error event ends the stream.  The session
\* goes with the generator, whatever it was in.
SendError(t) ==
  /\ Goes(t, "failed", "error")
  /\ Sends(t, "error")
  /\ Abandoned({t})
  /\ UNCHANGED <<loc, dbVars, effects, intentVars>>

\* The client closes the connection: the task is cancelled at the await it is
\* in, and no handler of the planner catches that.
Disconnect(t) ==
  /\ pc[t] \in Stages \ {"conversation"}
  /\ pc' = [pc EXCEPT ![t] = "cut"]
  /\ Abandoned({t})
  /\ UNCHANGED <<loc, wire, dbVars, effects, intentVars>>

-----------------------------------------------------------------------------
Prepare(t) ==
  \/ GetOrCreateConversation(t) \/ StartStream(t) \/ LoadMemory(t)
  \/ Route(t) \/ LogEvent(t) \/ LoadAgent(t) \/ LoadTools(t) \/ Retrieve(t)
  \/ SaveUser(t) \/ Provider(t)
Reply(t) ==
  \/ ContentDelta(t) \/ ToolCallComplete(t) \/ StreamEnds(t) \/ StreamRaises(t)
  \/ SaveAssistant(t) \/ UpdateMessage(t)
CallTools(t) == Execute(t) \/ SaveToolCall(t) \/ LogToolFailure(t)
Conclude(t) ==
  \/ Fallback(t) \/ SaveFallback(t) \/ ReloadMemory(t) \/ UpdateStats(t)
  \/ SendDone(t) \/ SendError(t)
Advance(t) == Prepare(t) \/ Reply(t) \/ CallTools(t) \/ Conclude(t)

Next ==
  \E t \in Turn : Request(t) \/ Advance(t) \/ UpdateIntent(t) \/ Disconnect(t)

\* The event loop resumes a turn whose awaited call returned.  That every call
\* returns or raises is assumed: tools are given up after TOOL_TIMEOUT_SECONDS
\* and Redis has timeouts, but the Gemini client and PostgreSQL are used without.
Spec == Init /\ [][Next]_vars /\ \A t \in Turn : WF_vars(Advance(t))

-----------------------------------------------------------------------------
\* What holds

Rows(t, role) == {i \in 1..Len(messages) :
                    messages[i].turn = t /\ messages[i].role = role}
SizeOf(t) == SumFunctionOnSet([i \in DOMAIN messages |-> messages[i].size],
                              Rows(t, "assistant"))
Tokens(t) == Cardinality({i \in 1..Len(wire[t]) : wire[t][i] = "token"})

TypeOK ==
  /\ pc \in [Turn -> Stages \cup Ended \cup {"new"}]
  /\ loc \in [Turn -> Locals]
  /\ SessionTypeOK
  /\ wire \in [Turn -> Seq({"start", "token", "done", "error"})]
  /\ messages \in Seq([turn : Turn, role : {"user", "assistant"},
                       size : Nat, tokens : 0..MaxIterations])
  /\ toolCalls \in Seq([turn : Turn, message : 1..Len(messages)])
  /\ stats \in [count : Nat, tokens : Nat]
  /\ effects \in [Turn -> Nat]
  /\ tasks \in [Turn -> 0..Len(messages)]
  /\ intent \in 0..Len(messages)

\* The SSE promise is kept whatever fails and wherever the client leaves.
StreamState ==
  [t \in Turn |-> IF pc[t] \in {"new", "conversation", "start"} THEN "waiting"
                  ELSE IF pc[t] \in Ended THEN "closed" ELSE "open"]
Sse == INSTANCE SseStream WITH Client <- Turn, stream <- StreamState
SsePromise == Sse!Spec

\* No transaction, hence no pooled connection, is held while the turn waits
\* for the provider or for a tool, nor once it is done: the session is never
\* closed after the response began, so each helper must end its transaction.
HoldsNoTransaction ==
  \A t \in Turn : pc[t] \in Waiting \cup {"done"} => tx[t] = "idle"

\* A failed read may leave the session aborted, and what comes next is then
\* refused: but never a row of messages or tool_calls, nor the statistics.
\* Where it happens, a log_event in between takes the failure and rolls back.
Writes == {"saveUser", "saveAssistant", "update", "saveCall", "saveFallback",
           "stats"}
WritesOnCleanSession ==
  \A t \in Turn : pc[t] \in Writes => tx[t] # "aborted"

\* When the client is told "done" and no statement failed, the conversation
\* has the question, then all the text the client saw, also that of the
\* iterations that called tools and the fallback.
TranscriptComplete ==
  \A t \in Turn : pc[t] = "done" /\ faults = 0 =>
    /\ Cardinality(Rows(t, "user")) = 1
    /\ \A u \in Rows(t, "user"), a \in Rows(t, "assistant") : u < a
    /\ SizeOf(t) = Tokens(t)

\* Requests sent to tools are on record, one row for each, as soon as the next
\* step of the turn is taken, and also when the turn ends in an error.  Only a
\* client that leaves meanwhile makes a difference.
CallsOnRecord ==
  faults = 0 => \A t \in Turn : pc[t] # "cut" =>
    effects[t] <= Cardinality({i \in 1..Len(toolCalls) : toolCalls[i].turn = t})
                    + (IF pc[t] = "saveCall" THEN 1 ELSE 0)

\* Tool calls hang on a message of their own turn, however turns of the
\* conversation interleave and whatever was not saved.
LinkedInTurn ==
  \A i \in 1..Len(toolCalls) :
    messages[toolCalls[i].message].turn = toolCalls[i].turn

\* The statistics count every turn that got to its end once, with all the
\* tokens it used, on whatever path it left the loop.
StatsOncePerTurn ==
  faults = 0 =>
    LET Surely == {t \in Turn : pc[t] \in {"finish", "done"}}
        Maybe  == {t \in Turn : pc[t] = "cut"}
        Used(S) == SumFunctionOnSet([t \in Turn |-> loc[t].used], S)
    IN  \E S \in SUBSET Maybe :
          /\ stats.count = Cardinality(Surely \cup S)
          /\ stats.tokens = Used(Surely \cup S)

\* Every request ends: the loop is bounded and no helper waits for another.
EveryTurnEnds == \A t \in Turn : pc[t] = "conversation" ~> pc[t] \in Ended

=============================================================================
