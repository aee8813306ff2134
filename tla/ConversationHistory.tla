--------------------------- MODULE ConversationHistory ---------------------------
(***************************************************************************)
(* What the provider of a turn is shown: the conversation as load_memory   *)
(* (app/agent/memory.py) finds it in the database, rendered by the         *)
(* provider, then the question, then the calls of the loop with their      *)
(* results (app/agent/planner.py, app/ai/providers).  The turns are those  *)
(* of ChatTurn, to whose actions the memory and the growing list are       *)
(* added.  Messages and calls are only ever added, and a call keeps its    *)
(* message: how many of each there were is all a turn has read.            *)
(***************************************************************************)
EXTENDS ChatTurn, SequencesExt

CONSTANT MaxMessages      \* max_messages of load_memory

ASSUME WindowAssumption == MaxMessages \in Nat \ {0}

VARIABLES memory,         \* rows and calls in the database when read, and
                          \* history: the turns that were done by then
          told            \* the batches of calls the provider was told about,
                          \* and how many results of each are there

historyVars == <<vars, memory, told>>

NothingRead == [rows |-> 0, calls |-> 0, ended |-> {}]

HistoryInit ==
  /\ Init
  /\ memory = [t \in Turn |-> NothingRead]
  /\ told = [t \in Turn |-> <<>>]

\* Mutant: the memory is read after the question is saved.
RemembersLate(t) ==
  memory' = IF pc[t] = "saveUser" /\ pc'[t] = "provider"
            THEN [memory EXCEPT ![t] =
                    [rows |-> Len(messages'), calls |-> Len(toolCalls),
                     ended |-> {s \in Turn : pc[s] = "done"}]]
            ELSE memory

\* load_memory has its rows, or swallowed an error and has none.
Remembers(t) ==
  memory' = IF pc[t] = "memory" /\ pc'[t] = "route" /\ tx'[t] = "open"
            THEN [memory EXCEPT ![t] =
                    [rows |-> Len(messages), calls |-> Len(toolCalls),
                     ended |-> {s \in Turn : pc[s] = "done"}]]
            ELSE memory

\* Mutant: a call that failed adds no result.
TellsSuccesses(t) ==
  told' =
    IF pc'[t] = "execute" /\ pc[t] \notin {"saveCall", "logFailure"}
    THEN [told EXCEPT ![t] =
            Append(@, [calls |-> loc[t].calls, results |-> 0])]
    ELSE IF pc[t] = "execute" /\ pc'[t] = "saveCall" /\ loc'[t].ok
    THEN [told EXCEPT ![t][Len(told[t])].results = @ + 1]
    ELSE told

\* append_assistant_tool_calls before the first call of a batch is executed;
\* each call adds its result, and append_tool_results follows the last.
Tells(t) ==
  told' =
    IF pc'[t] = "execute" /\ pc[t] \notin {"saveCall", "logFailure"}
    THEN [told EXCEPT ![t] =
            Append(@, [calls |-> loc[t].calls, results |-> 0])]
    ELSE IF pc[t] = "execute" /\ pc'[t] = "saveCall"
    THEN [told EXCEPT ![t][Len(told[t])].results = @ + 1]
    ELSE told

HistoryNext ==
  \E t \in Turn :
    /\ Request(t) \/ Advance(t) \/ UpdateIntent(t) \/ Disconnect(t)
    /\ Remembers(t)
    /\ Tells(t)

HistorySpec == HistoryInit /\ [][HistoryNext]_historyVars

-----------------------------------------------------------------------------
\* The memory of a turn

\* The calls of a row that were there when it was read, by id.
CallsOf(t, row) == {c \in 1 .. memory[t].calls : toolCalls[c].message = row}
ById(calls) ==
  [k \in 1 .. Cardinality(calls) |->
     CHOOSE c \in calls : Cardinality({other \in calls : other <= c}) = k]

\* The LEFT JOIN: a row with its calls.
MemoryMessage(t, row) ==
  [turn |-> messages[row].turn, role |-> messages[row].role,
   tool_calls |-> ById(CallsOf(t, row))]

Cut(t) == IF memory[t].rows > MaxMessages THEN memory[t].rows - MaxMessages
          ELSE 0

\* Mutant: ORDER BY and LIMIT in one query, so that the oldest rows are loaded.
LoadedOldest(t) ==
  [k \in 1 .. memory[t].rows - Cut(t) |-> MemoryMessage(t, k)]

\* The last max_messages rows, oldest first.
Loaded(t) ==
  [k \in 1 .. memory[t].rows - Cut(t) |-> MemoryMessage(t, Cut(t) + k)]

-----------------------------------------------------------------------------
\* What stream() is given.  An item is a text, a call or the answer to a call.

Text(turn, role) == [kind |-> "text", turn |-> turn, role |-> role]
Item(kind, turn, id) == [kind |-> kind, turn |-> turn, id |-> id]

\* The calls of a message and behind them their answers.
Exchanged(m) ==
  [k \in DOMAIN m.tool_calls |-> Item("call", m.turn, <<m.tool_calls[k]>>)]
    \o [k \in DOMAIN m.tool_calls |-> Item("answer", m.turn, <<m.tool_calls[k]>>)]

OpenAIMessage(m) == <<Text(m.turn, m.role)>> \o Exchanged(m)

\* With calls, the content is left out.
GeminiMessage(m) ==
  IF m.tool_calls = <<>> THEN <<Text(m.turn, m.role)>> ELSE Exchanged(m)

Rendered(provider, m) ==
  IF provider = "openai" THEN OpenAIMessage(m) ELSE GeminiMessage(m)

\* One batch of the loop; zip ends with the shorter list.
BatchItems(t, b) ==
  [k \in 1 .. told[t][b].calls |-> Item("call", t, <<b, k>>)]
    \o [k \in 1 .. told[t][b].results |-> Item("answer", t, <<b, k>>)]

Input(provider, t) ==
  FlattenSeq([k \in DOMAIN Loaded(t) |-> Rendered(provider, Loaded(t)[k])])
    \o <<Text(t, "user")>>
    \o FlattenSeq([b \in DOMAIN told[t] |-> BatchItems(t, b)])

Providers == {"openai", "gemini"}

\* The turns whose list stream() is given, or would be with one iteration more.
Asking == {t \in Turn : pc[t] \in {"stream", "limit"}}
Number(input, kind, turn) ==
  Cardinality({k \in DOMAIN input : input[k].kind = kind /\ input[k].turn = turn})
Texts(input, n) == Cardinality({k \in 1 .. n : input[k].kind = "text"})

-----------------------------------------------------------------------------
\* What holds

\* The question is shown once, behind all of the history, and behind it come
\* only this turn's calls: a turn does not read its own rows, however turns of
\* the conversation interleave.
OwnQuestionOnce ==
  \A t \in Asking, provider \in Providers :
    LET input == Input(provider, t) IN
    \E question \in DOMAIN input :
      /\ input[question] = Text(t, "user")
      /\ \A k \in 1 .. question - 1 : input[k].turn # t
      /\ \A k \in question + 1 .. Len(input) :
           input[k].turn = t /\ input[k].kind # "text"

\* Vendors refuse a call without its answer: each call shown, of the history
\* or of the loop, failed or not, has its answer before the next text.
CallsAnswered ==
  \A t \in Asking, provider \in Providers :
    LET input == Input(provider, t) IN
    \A c \in DOMAIN input : input[c].kind = "call" =>
      \E a \in c + 1 .. Len(input) :
        /\ input[a] = [input[c] EXCEPT !.kind = "answer"]
        /\ \A k \in c .. a : input[k].kind # "text"

\* The window is one of messages: the last ones of the conversation, and with
\* them all of their calls.  A turn whose messages are all in it, and that was
\* done when the memory was read, is shown with each call its own provider was
\* told about, if no statement failed.
EarlierTurnsRecalled ==
  \A t \in Asking :
    /\ LET input == Input("openai", t)
           kept  == SubSeq(messages, Cut(t) + 1, memory[t].rows)
       IN  /\ Texts(input, Len(input)) = Len(kept) + 1
           /\ \A k \in DOMAIN input :
                LET nth == Texts(input, k) IN
                input[k].kind = "text" /\ nth <= Len(kept) =>
                  input[k] = Text(kept[nth].turn, kept[nth].role)
    /\ faults = 0 =>
         \A s \in memory[t].ended, provider \in Providers :
           (\A row \in 1 .. Cut(t) : messages[row].turn # s) =>
             Number(Input(provider, t), "call", s) =
               SumFunction([b \in DOMAIN told[s] |-> told[s][b].calls])

-----------------------------------------------------------------------------
\* What the documentation says and the code does not do

\* gemini.py: "user turn -> Content(role="user")".  Each question of the
\* memory is shown to Gemini, at least those of turns that were done.
QuestionsKept ==
  \A t \in Asking : \A k \in DOMAIN Loaded(t) :
    Loaded(t)[k].role = "user" /\ Loaded(t)[k].turn \in memory[t].ended =>
      Text(Loaded(t)[k].turn, "user") \in Range(Input("gemini", t))
=============================================================================
