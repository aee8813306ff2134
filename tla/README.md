# Nexus agent core: specifications, model checking and proofs

TLA+ modules for the Python service under `src/app`: a FastAPI service that
indexes documents for retrieval and answers chat messages with a ReAct loop over
an LLM, tools and a vector search. The modules are translated from the source;
where the documentation and the source disagree, the modules follow the source
and a run shows the disagreement. Paths below are relative to `src/app`.

## 1. Inventory

| Component | State it keeps | Operations | Hard because |
|---|---|---|---|
| Indexing pipeline (`routers/indexing.py`, `rag/indexer.py`, `db/documents.py`) | `documents.status`, `chunk_count`, rows of `document_chunks`, one DB session per run | request, eight stages, handler | runs overlap, statements fail half-way, the process dies with its background tasks |
| Chunker (`rag/chunker.py`) | local | `chunk_text` | exact fits, oversized sentences, overlap windows |
| Route cache (`agent/query_router/cache.py`, `core/cache.py`) | one Redis entry per agent | look up, build, store, invalidate, expire | read-embed-store races with the invalidation |
| Semantic router (`agent/query_router/router.py`, `fallback.py`, `classifier.py`) | none | `route`, `llm_route_fallback` | thresholds that shadow each other, agents without documents, invented names |
| Chat turn (`agent/planner.py`, `routers/chat.py`) | locals of `_execute`, the SSE stream | prepare, reply, tool calls, conclude | many exits, swallowed failures, clients that leave, concurrent turns |
| Conversation store (`db/conversations.py`, `db/messages.py`, `db/tool_call.py`) | conversations, messages, tool calls | upsert, save, update, fetch | failures return `None`, ids link rows |
| Conversation memory (`agent/memory.py`) | conversation intent in Redis | load the window, update intent | read while other turns write, tasks nobody waits for |
| Agents, tools, analytics (`db/agents.py`, `db/tools.py`, `db/analytics.py`) | tables | load, log | each helper leaves the transaction in another state |
| Tool executor (`agent/tool_executor.py`) | none | `Executor.execute` | effects outside, timeouts |
| Retriever (`retrieval/retriever.py`) | none | `retrieve` | three queries, two of which may raise |
| LLM providers (`ai/`) | accumulators of one reply | `stream`, `format_messages`, `append_*` | pieces of parallel calls in any order, replies cut off, history that vendors refuse |
| Embeddings (`ai/embeddings/`, `rag/embedder.py`) | vectors so far | batches with retries | order and number of vectors |
| Database engine (`database.py`) | pool of 10 + 20 connections | sessions | connections held while waiting |
| Router embeddings (`agent/query_router/embedder.py`) | none | embed, score, blend | empty matrices; the rest is numerical and not modelled |
| Storage, text extraction, start-up, settings, widget session | none that later steps change | | not modelled: pure I/O, libraries |

How they interact: `POST /indexing/index` queues a run of the pipeline and
returns; the run writes the status and the chunks through one session, then
deletes the route cache entry. `POST /chat` opens a conversation and streams
`_execute`, which loads the memory, asks the router (which reads or builds the
route cache), loads agent and tools, retrieves, and loops over provider and
tools, saving as it goes; a task that nobody waits for updates the intent.
Runs and turns meet in PostgreSQL and in the cache entry, nowhere else.

What makes each correct: section 4 lists the properties per module; every hazard
is in `PROJECT.json` with its line and the properties that would catch it.

## 2. Modules

| Module | Models | Proved in |
|---|---|---|
| `DbSession` | the transaction of an `AsyncSession`: idle, open, aborted | |
| `DocumentIndexing` | the pipeline of one document, any number of overlapping runs | `DocumentIndexingProofs` |
| `RouteCache` | the route cache, composed with `DocumentIndexing` | `DocumentIndexingProofs` |
| `Chunker` | the loop of `chunk_text` | `IngestProofs` |
| `Ingest` | chunks, embedding batches and rows; extends `Chunker` | `IngestProofs` |
| `SseStream` | abstract: what `/chat` promises its client | |
| `ChatTurn` | the turns of one conversation; refines `SseStream` | `ChatTurnProofs`, `ChatTurnLedger` |
| `ConversationHistory` | what a turn's provider is shown; extends `ChatTurn` | `HistoryProofs` |
| `RouteDecision` | `route` and the LLM fallback | `RouteDecisionProofs` |
| `AIReply` | abstract: what the planner may count on in a reply | |
| `ProviderStream` | `stream()` of both providers; refines `AIReply` | `ProviderStreamProofs` |
| `Sums` | nothing: lemmas about sums over finite sets, for the proofs | itself |

**DbSession.** The helpers of `db/` come in two shapes. `set_status`,
`save_message`, `log_event` and others execute, commit, and on an exception roll
back (`ExecuteCommits`, `ExecuteRollsBack`). `fetch_messages`, the `DELETE` of
`insert_chunks` and the plain reads neither commit nor, some of them, roll back
(`ExecuteStaysOpen`, `ExecuteAborts`). PostgreSQL refuses every statement of an
aborted transaction; a refusal is the earlier failure again and not counted as a
new fault. Which shape stands where is what several hazards turn on.

**DocumentIndexing.** One action per await of `run_indexing_pipeline`. The
`DELETE` has two: it picks the rows it is after when it is sent (`DeleteStarts`),
waits for the locks of another transaction, and deletes what is still there when
it gets them (`DeleteEnds`), which is what READ COMMITTED does. `stored` is the
set of runs whose rows are committed; deletion becomes visible with the commit of
`InsertChunks`. `entry` is what the route cache says of this document.
`overlapped` is history for the properties of serial runs. `Crash` loses every
task under way and rolls its transaction back.

**RouteCache** adds `Lookup`, `ReadDocuments`, `Store`, `GivesUp` and `Expire`
for turns that read through the entry. `Store` is a step after `ReadDocuments`
because the descriptions are embedded in between. An entry of another cache
version or one that cannot be decoded is a miss, as an absent one. Two variables
are history: `overtaken`, the turns that had read the documents when this one
became indexed and have not stored their listing yet, and `missed`, whether the
entry was stored by one of them or a restart took the run away that was to delete
it. `RunStep` is a step of the pipeline with what it does to the two.

**ChatTurn.** `pc` and `loc` are the turn's position and locals of `_execute`;
one action per await, and each helper's action has its success, its failure and
its return value (`None` is 0). A provider's reply is any sequence of deltas and
calls within the bounds, with or without usage, ending or raising. `Disconnect`
is the client closing the connection, at any await. Vectors, texts and prices
are left out; `said` counts deltas, `used` counts replies that reported usage.

**RouteDecision.** One action per step of `route`, numbered as there. `Score` is
the first use of `cosine_similarities`, over the documents: of an empty list it
raises, so an agent without documents gets no further, and step 5 of the source,
the answer to an agent with nothing, is no action because it is never reached.
Similarities are inputs in hundredths; the classifier's
regular expressions are an input (which match). `raw` scores the bare message,
`blended` the one with context and conversation intent: they differ only if
there is some. `Invented` are names only the fallback model comes up with.

**Chunker.** A sentence is its number of tokens, a chunk a range of sentences.
Offsets count sentences passed, each with its separator.

**Ingest** continues where the chunker is done: batches of the chunks are sent
(`Batch`), answered in any order and perhaps in part (`BatchArrives`, which sorts
as the provider does), retried (`Retry`) or given up (`EmbedFails`), and stored if
there are as many vectors as chunks (`Insert`). A vector is the index of the text
it was made from, so a pairing that is off shows.

**ConversationHistory** adds to each turn of `ChatTurn` what it read (`memory`:
how many messages and calls there were, which is all, because rows are only
added) and the batches of calls its loop told the provider of (`told`).
`HistoryNext` is `Next` of `ChatTurn` with `Remembers` and `Tells`, which say
what each step does to the two. `Loaded` is the window of `load_memory` with its
`LEFT JOIN`, `Rendered` what each provider makes of a message, `Input` the whole
list `stream()` gets.

**AIReply** is the contract: text and calls in any order, no call twice and none
that was not offered, then at most one usage event and nothing behind it. The
reply actions of `ChatTurn` take just that for granted.

**ProviderStream** has one action per event of the vendor that the code looks at,
for OpenAI (`TextDelta`, `ItemAdded`, `ArgumentsDelta`, `ItemDone`, `Completed`)
and for Gemini (`ChunkText`, `ChunkCall`, `ChunkUsage`, `ChunksEnd`), and the two
ways a stream breaks off (`Truncated`, `Raise`). Arguments are a number of
pieces. `due` is history: what the vendor finished, in order. The vendor sends
pieces of parallel calls interleaved, and may lose the `added` of a call or send
it late, but sends nothing for a call that is done.

## 3. Runs

| Run | Expect | Bounds | Shows |
|---|---|---|---|
| `indexing` | pass | 3 runs, 2 chunks, 2 faults, 1 crash | the safety properties of the pipeline |
| `indexing_failed` | violation | 1 run, 1 fault | the failed `DELETE` has the handler's update refused |
| `indexing_dup` | violation | 2 runs | overlapping runs leave the chunks of both |
| `route_cache` | pass | 2 runs, 2 turns, 1 chunk, 1 fault, 1 crash | what the entry may list and leave out; every run ends, the status settles |
| `route_cache_stale` | violation | 1 run, 1 turn | an old listing survives the invalidation |
| `ingest` | pass | 5 sentences of 1..6 tokens, size 5, overlap 3, batches of 2, 2 attempts | every grouping, and the vectors of every answer |
| `chat_turn` | pass | 1 turn, 2 iterations, 1 delta, 2 calls, 2 faults, all routes | all properties of a turn, refinement, termination |
| `history` | pass | 2 turns, 1 iteration, 1 delta, 2 calls, window of 2, route TOOL, 1 fault | what interleaved turns see and store of each other |
| `history_question` | violation | 2 turns, 1 call, no text, window of 3, no fault | a question not shown to Gemini |
| `provider_stream` | pass | 3 calls of 2 pieces, 3 text deltas, 2 usage reports | every interleaving, refinement |
| `route_decision` | pass | 2 tools, 1 invented name, 4 scores | every decision |
| `route_decision_nodocs` | violation | the same | an agent with nothing makes the router raise |

Why the bounds are enough. Three runs are the first number where one waits while
a second deletes what a third inserted; two faults let an aborted transaction
meet a further failure, and a fault hit two runs; one crash takes any set of
runs. Two chunks tell a right count from a wrong one. Two iterations with two
calls reach each branch of the loop: next call, next iteration, limit. The four
scores are one in each range that the thresholds 55, 70 and 75 cut. Chunks of 5
with sentences of 1 to 6 tokens have exact fits, overflows by the joining space
and oversized sentences, and five sentences make up to five chunks: three
batches of 2, the last one short. Three calls let two be under way while a third
is done; two pieces tell whole arguments from half. In `history` a
turn reads its memory before it has rows of its own, and the other turn leaves at
most three (question, answer, fallback): a window of 2 cuts them, between the
question and the rest. Two calls in a batch make two joined rows of one message
and answers that could be shifted, and one fault makes any save return `None`, a
`load_memory` come back empty or a transaction abort. `VIEW Seen` keeps this run
small: it leaves out of a state what no property of the run and no later step
that matters to them reads (what was sent, the intent and its tasks, sizes and
token counts of rows). A second iteration is out of reach even so; a second batch
is met in `chat_turn`, and for the properties of `ConversationHistory` the
theorems of `HistoryProofs` cover it, and every size of the window. The theorems below drop the bounds for all safety
properties. Symmetry is used in
runs without liveness only.

Fairness. `WF_vars(Proceed(r))`, `WF_vars(Advance(t))`: the event loop resumes
each task whose call returned. That each call returns or raises is an assumption,
which the code enforces in part: tools are given up after 10 s, Redis after 5 s,
retries are bounded; but the Gemini client is made without a timeout
(`ai/providers/gemini.py:55`) and no statement timeout is set for PostgreSQL
(`database.py:45-52`). The liveness properties say what follows from it: nothing
in the program itself waits for ever. Weak
fairness of one run suffices: a `DELETE` that waits is enabled for good once the
locks are gone, or fails. Requests, crashes, disconnects, expiry and the intent
tasks are never promised. `WF(IngestNext)` is the
pipeline's task once more: the service answers, or the client times out, and the
attempts are counted, so an attempt that is repeated does not repeat for ever.
`ProviderStream` states none: a vendor may fall silent, and all it is asked for
is safety. Deadlock checking is
off in every run: all requests may have ended, and a machine for one call ends
with it.

## 4. Properties

- `DocumentIndexing`: `NoChunkGap` (re-indexing never leaves searches without
  chunks), `EndsClean` (an ended run holds nothing), `NotStuck`,
  `IndexedHasChunks`, `OneRunsChunks`, `IndexedExactly` (serial runs),
  `EveryRunEnds`, `StatusSettles` (the last two checked in `route_cache`).
- `RouteCache`: `RoutedIsSearchable` (a listed document has chunks),
  `HiddenOnlyIfMissed` (an entry that leaves out an indexed document does so until
  its invalidation, or because a turn was overtaken while embedding, or because a
  restart came in between; it then lasts until it expires or the next invalidation).
- `Chunker` and `Ingest`: `NothingLost`, `StraddlesKept`, `OverlapBounded`,
  `GreedilyFilled`; `OwnVectors` (each row has the vector of its chunk, a stored
  document has all its rows), `IngestEnds`.
- `ChatTurn`: `HoldsNoTransaction`, `WritesOnCleanSession`, `TranscriptComplete`,
  `CallsOnRecord`, `LinkedInTurn`, `StatsOncePerTurn`, `SsePromise` (refinement),
  `EveryTurnEnds`.
- `ConversationHistory`: `OwnQuestionOnce` (the question once, behind the history
  and before this turn's calls), `CallsAnswered` (no call without its answer
  before the next text), `EarlierTurnsRecalled` (the window has its messages, and
  the calls the earlier provider was told of); `LinkedInTurn` and
  `StatsOncePerTurn` are checked here with two turns.
- `RouteDecision`: `ToolsExist`, `NoneIsDeliberate`, `FollowUpRetrieves`.
- `ProviderStream`: `HandedOver` (what the vendor finished, in order, once and
  whole), `UsageIsLatest`, `RefinesReply`.

Several are conditional, and the conditions are where the code really differs:
`IndexedHasChunks`, `IndexedExactly` and `RoutedIsSearchable` need that no
statement failed, because `insert_chunks` swallows a failed `INSERT` and the
pipeline then marks the document as indexed; `HiddenOnlyIfMissed` needs it because
the handler's own update may fail after the invalidation did; `CallsOnRecord`
excludes clients that leave between a tool's request and its row.
`HoldsNoTransaction` speaks of the waits for the provider and for tools: the
router (its fallback model, its embeddings) and `embed_query` of the retriever do
wait with a transaction open, that of `load_memory` or of `load_tools`.

Each property has a mutant: a changed form of an action, as a plausible bug would
have it, defined above the action it replaces and named in `PROJECT.json`. With
it the run finds the property violated.

## 5. Disagreements that runs show

1. `indexing_failed`: "Any exception at any step marks the document as failed"
   (`rag/indexer.py:12`). A failed `DELETE` leaves the transaction aborted, and the
   handler's update, at fault in nothing itself, is refused: the property leaves
   aside the runs in which that update fails of itself.
2. `indexing_dup`: re-indexing "without ending up with duplicate chunks"
   (`db/documents.py:37-39`). Not when two runs overlap.
3. `route_cache_stale`: "considered in routing decisions immediately"
   (`rag/indexer.py:109`). Not when a turn is building the entry.
4. `history_question`: a user's message becomes "Content(role="user")"
   (`ai/providers/gemini.py:251`), which holds "exactly one row (no tool_calls
   JOIN match)" (`db/messages.py:90`). When a reply has calls and no text,
   `planner.py:237` links them to the user's row (`planner.py:6-7` says the
   assistant's), and Gemini is shown the calls instead of the question.
5. `route_decision_nodocs`: "No tools or docs configured — legitimate empty agent
   → NONE" (`router.py:15`, `191-196`). The scores of the documents come first
   (`router.py:174`), and of an empty list `cosine_similarities` makes one row of
   no columns (`embedder.py:93-95`) whose product with the query raises (`109`);
   the branch meant for an empty matrix (`96-98`) is an `elif` and not taken. An
   agent with tools only is no better off: each message that is neither small
   talk nor a listing ends in an error event.

Others met while reading, that no run checks.

- Router: step 4 shadows step 7. The meta score includes the tools
  (`router.py:175`) at the threshold of the tools, so a message that matches a
  tool is answered as a question about the agent, unless context or intent made
  its score against the tools another; without these, embeddings never choose TOOL
  or BOTH.
- Router and fallback: the thresholds in the docstring of `router.py:27-29` are
  not those of the code; "Any failure returns NONE" (`fallback.py:34-36`) although
  arguments of another shape raise (`FallbackMalformed`).
- Chunker: "token-bounded" chunks (`chunker.py:4`) although the overlap and a
  sentence may together exceed the size (`GreedilyFilled` says by what), and
  `char_start` is that of the text after the overlap. The overlap keeps
  neighbouring sentences together in some chunk (`chunker.py:12-13`, `103`) only
  if the earlier of the two fits it, which neither place says and
  `StraddlesKept` does.
- Turn: `execute` "never raises" (`tool_executor.py:152`) although a header that
  cannot be decrypted does; `message_count` counts turns; `planner.run()` passes
  other arguments than `_execute` takes.
- Replies: "Exactly one UsageEvent" (`ai/base.py:147-148`) although there is none
  when the vendor reports none; a stream "must never yield both" text and calls
  (`ai/base.py:150-151`) although both providers may, text first or, with Gemini,
  in any order. `AIReply` states what is kept. A call of which no piece came before
  it is done makes `stream()` raise `KeyError` (`providers/openai.py:178`, `190`). The `index` of a call,
  its "position in a parallel tool-call batch" (`ai/types.py:96`), is the number of
  slots there are (`providers/openai.py:189`), not its position, when items
  interleave, and always 0 with Gemini; the planner does not use it.
- History: the calls of several iterations without text all hang on the user's
  row and are replayed as one batch before any text; Gemini's history leaves out
  the text of a reply that also had calls, and the function call it sends back has
  no id to correlate by (`gemini.py:121-123`); OpenAI's history has the shape of
  one API and its loop that of another.

## 6. Proofs

All are checked by TLAPS for every value of the constants, from the named
assumptions in the modules (bounds are naturals, names are distinct).

**DocumentIndexingProofs.** `IInv` strengthens the properties with what a run may
rely on where it is: `Sessions` (the state of its transaction and of the rows it
deletes, by `pc`), `Embedded` (it has chunks past the check), `Unfaulted` (between
the `INSERT` and the terminal status the chunks are there), and `Serial` (without
overlap one run is under way, its `DELETE` is after all that is stored, and the
chunks before `indexed` are its own). None of the properties is inductive without
them. Each is a conjunct or a consequence of `IInv`, shown inductive one action
at a time; `NoChunkGap` is an action property from the same invariant: rows go
only in the commit of `InsertChunks`, which adds others.

The route cache, in the same module: `CacheIInv` is the pipeline's `IInv` with the
types of the cache, `RoutedIsSearchable`, `HiddenOnlyIfMissed` and
`ReadsOvertaken`: a turn that holds a listing without an indexed document has been
overtaken. The first is inductive only beside `IInv`: the entry is written from
what a turn read, and that a document once listed keeps its chunks is the
pipeline's doing. The second needs `ReadsOvertaken` where a turn stores, and
`Sessions` where a run leaves the invalidation by the handler: without a failing
statement the session is not aborted, and the handler's update is not refused
(`RunHides`). The pipeline's steps keep `IInv` by its own lemmas, the turns' steps
leave all it speaks of but the entry (`EntryOnly`).

**ChatTurnProofs.** `TxInv` says at which `pc` a transaction may be other than
over (`Loose`) and at which of these it cannot be aborted (`Unaborted`);
`HoldsNoTransaction` and `WritesOnCleanSession` follow. It is needed because a
read that failed several steps earlier decides whether a write is refused.
`RefinesSseStream` shows initial states to initial states and each action to
`Open`, `Token`, `Close`, `HangUp` or a stutter, under the refinement mapping
`StreamState`.

`RecordInv` adds to the types what bounds the loop's counters at each `pc`
(`Counts`) and that every id a turn, a tool call or a snapshot keeps is 0 or a
row of that turn (`Owned`); rows are only added, so ids stay valid.
`LinksStayInTurn` and `TypeCorrect` follow.

**ChatTurnLedger** has the three properties that add something up.

- `RequestsAreOnRecord`. `CallsInv`: while nothing has failed, no session is
  aborted, the ids a turn will link to are known where it is (`Known`), and its
  requests are as many as its rows, or one more between the request and its row
  (`Recorded`). Rows are counted as the cardinality of a set of positions
  (`RowAdded`).
- `StatisticsAddUp`. `StatsInv`: while nothing has failed there is a set of turns,
  with all that are behind `stats` and otherwise only ones cut there, whose number
  and whose tokens are the conversation's. The witness stays the same except in
  `UpdateStats`, which adds its turn: what a turn used no longer changes once it is
  in the set (`Settled`).
- `TranscriptsAreComplete`. `TranscriptInv`: `Pending` is what a turn's client has
  seen and the transcript does not have yet (the deltas before `SaveAssistant`,
  the one of the fallback), and the sizes of the turn's rows and `Pending` together
  are the tokens on its wire, at every step that is not on the way to an error.
  Behind `SaveUser` the question is the one user row and before all others.

**Sums.** `SumFunctionOnSet` of an empty set, of one element more or less, and of
functions that agree. The library's fold is defined by a recursive function, and
the induction rules cannot be instantiated, so the lemmas take a minimal
counterexample among the subsets of a finite set, which `WFMin` and the
well-foundedness of the strict subset ordering provide. That the fold satisfies
its own recursion at all (`IterSums`) is shown the same way.

**IngestProofs.** `ChunkInv` has beside `TypeOK`, `NothingLost` and
`OverlapBounded` four parts. `Collected`: what is collected is above the target
only if the window brought the rest of it. `Seeded`: the window repeats no more
than the overlap, and at least a last sentence that fits it, which is what
`StraddlesKept` comes from. `Straddled` is that property for what is recorded so
far, and `Full` is `GreedilyFilled` for a last chunk that is not yet the last of
the document. Where the window begins is the least start whose total fits the
overlap (`WindowStarts`).
`RowsHaveTheirVectors` needs `EmbedInv`: after the batches up to `i` there are at
most `i` vectors, and if there are `i` they are the right ones. A batch is a set
of distinct items, so one that is complete is, once sorted, the batch itself
(`SortedBatch`, by the pigeonhole principle), and one that is short leaves the
count short for good. The pipeline compares the two counts before it stores, and
this is why that one comparison is enough.

**HistoryProofs.** What a turn is shown is a function of the state, so its three
properties need two things: that the state is such (`HistoryInv`) and that the
list then is (the lemmas about lists).

`HistoryInv` sits on the invariants of `ChatTurn` (`TxInv`, `RecordInv`,
`CallsInv`), which `HistoryNext` keeps because it implies `Next`. None of the
three properties is inductive without its parts:

- `Remembered`: a turn that has not saved its question has no row at all, which
  is why it reads none of its own, and a task for the intent only exists late in
  its turn; what was read stays read (`Read`): rows of others, calls of
  rows that were read, and all the calls of the turns that were done by then.
- `Batched`: each batch has as many results as calls, but for the one at hand,
  which has as many as the loop counts (`loc.ran`).
- `Listed`: while no statement fails, a turn has told its provider of as many
  results as it has rows in `tool_calls`, one more between a result and its row.
  This relates `told` to the database and is what makes the memory of a later
  turn as long as the list of the earlier one.

TLC checked `HistoryInv` before it was proved. The lemmas about lists: flattening
is joining one after the other (`Joined`); joined lists have each call answered if
each part has (`AnsweredJoined`), as many items of a kind as the parts together
(`CountJoined`), and, if each part has one text and starts with it, the texts of
the parts in their order (`Headed`). Inductions over the length go through
`Upwards`, which takes a set in place of a predicate. `QuestionOnce`,
`AllAnswered`, `WindowShown` and `CallsShown` are the properties for a state that
satisfies the invariant, and `EndedTold` brings in `Batched` and `Listed`.
`TurnsDoNotMix` carries the links and the statistics of `ChatTurn` over to
`HistorySpec`, where the run checks them with two turns.

**RouteDecisionProofs.** `LastResort`, what the decision leaves behind when it
asks the model, and `ScoredHasDocs` are added to the properties to make them
inductive; `NoneNeedsTheModel` is an action property from them.

**ProviderStreamProofs.** `IInv` has four parts beside the types: `Owed`
(`due` holds events only, and its calls were offered and are done), `Follows`
(the local `has_tool_calls` and `last_usage` follow what the vendor sent),
`HandedOver`, and `Closing` (at the end, the reply is `due` with the usage behind
it). `RefinesContract` maps each action to a step of `AIReply` or a stutter: that
no call is yielded twice needs `Owed` and `HandedOver`, that nothing follows the
usage needs `Closing`.

Only model-checked: liveness (`EveryRunEnds`, `StatusSettles`, `IngestEnds`,
`EveryTurnEnds`, the liveness half of `SsePromise`), which is out of
the prover's reach.

## 7. What is left, and what is not modelled

Modelled, in this order: `DbSession` and `DocumentIndexing`; `RouteCache`;
`ChatTurn` against `SseStream`; `RouteDecision`; `Chunker`; `ProviderStream`
against `AIReply`; `Ingest`; `ConversationHistory`. Proved: the safety
of all of them.

Worth doing next: two interleaved turns of two iterations each, if a coarser
`ChatTurn` makes room for them; a property for the order of intent tasks once the
code says what it should be.

Not modelled:
- the connection pool: a session takes one connection and never a second while it
  holds one, and no turn or run waits for another's session, so waiting for the
  pool is never circular; how long it lasts is a matter of load;
- that two requests with one session id share a conversation: the unique index of
  PostgreSQL, used by one `ON CONFLICT` statement;
- the numbers of the router embeddings, vector search, the Gemini embedding provider: numerical, or
  one call each; their outcomes are inputs of `RouteDecision` and `ChatTurn`;
- the regular expressions of the classifier and of the sentence splitter, the
  tokenizer, prompts, JSON: inputs of the models;
- storage, text extraction, start-up, settings, the signature of the widget
  session, the building of a tool's request: pure I/O or pure functions of their
  arguments with no state that later steps change.

## 8. Running

    tlc -workers 2 -config MCDocumentIndexing.cfg MCDocumentIndexing
    tlapm DocumentIndexingProofs.tla

Each `.cfg` belongs to the MC module whose name it starts with. The longest run,
`history`, takes about two minutes on two cores, the longest proof,
`HistoryProofs`, about two minutes.
