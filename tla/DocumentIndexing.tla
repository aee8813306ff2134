--------------------------- MODULE DocumentIndexing ---------------------------
(***************************************************************************)
(* The indexing pipeline of one document (app/rag/indexer.py), started by  *)
(* POST /indexing/index as a background task.  Runs of the pipeline for    *)
(* the same document may overlap: nothing serialises them.  Each run has a *)
(* database session of its own; an action is what a run does between two   *)
(* awaits.                                                                 *)
(***************************************************************************)
EXTENDS Naturals, FiniteSets

CONSTANTS Run,           \* the executions of the pipeline for this document
          MaxChunks,     \* bound: chunks a run cuts the document into
          MaxFaults,     \* bound: database statements that fail of themselves
          MaxCrashes     \* bound: restarts of the process

ASSUME ConstantsAssumption ==
  /\ MaxChunks \in Nat \ {0}
  /\ MaxFaults \in Nat
  /\ MaxCrashes \in Nat

VARIABLES pc,          \* where each run is
          tx, faults,  \* the runs' database sessions
          produced,    \* how many chunks the run embedded
          rows,        \* the chunk rows a run's DELETE is after
          status,      \* documents.status
          chunkCount,  \* documents.chunk_count
          stored,      \* committed document_chunks: the runs whose rows are there
          entry,       \* the agent's route cache entry, as far as it is about
                       \* this document
          crashes,
          overlapped   \* was a run requested while another was under way?

docVars == <<status, chunkCount, stored>>
history == <<crashes, overlapped>>
vars == <<pc, tx, faults, produced, rows, docVars, entry, history>>

INSTANCE DbSession WITH Session <- Run

Statuses == {"pending", "indexing", "indexed", "failed"}
Stages == {"queued", "download", "embed", "delete", "deleting", "insert",
           "indexed", "invalidate", "logIndexed", "failing", "logFailed"}
Entries == {"absent", "without", "with"}

\* A run is under way from the request until it returns or the process dies.
Active(r) == pc[r] \in Stages

TypeOK ==
  /\ pc \in [Run -> Stages \cup {"new", "finished", "lost"}]
  /\ SessionTypeOK
  /\ produced \in [Run -> 0..MaxChunks]
  /\ rows \in [Run -> SUBSET Run]
  /\ status \in Statuses
  /\ chunkCount \in 0..MaxChunks
  /\ stored \subseteq Run
  /\ entry \in Entries
  /\ crashes \in 0..MaxCrashes
  /\ overlapped \in BOOLEAN

Init ==
  /\ pc = [r \in Run |-> "new"]
  /\ SessionInit
  /\ produced = [r \in Run |-> 0]
  /\ rows = [r \in Run |-> {}]
  /\ status = "pending"
  /\ chunkCount = 0
  /\ stored = {}
  /\ entry \in {"absent", "without"}
  /\ crashes = 0
  /\ overlapped = FALSE

Step(r, from, to) ==
  /\ pc[r] = from
  /\ pc' = [pc EXCEPT ![r] = to]

-----------------------------------------------------------------------------
\* index_document: the task is queued and 200 returned at once.
IndexDocument(r) ==
  /\ Step(r, "new", "queued")
  /\ \/ (\E q \in Run : Active(q)) /\ overlapped' = TRUE
     \/ (\A q \in Run : ~Active(q)) /\ UNCHANGED overlapped
  /\ UNCHANGED <<tx, faults, produced, rows, docVars, entry, crashes>>

\* Mutant: the count is added to the old one.
SetStatusAddsCount(r, s, count) ==
  /\ ExecuteCommits(r)
  /\ status' = s
  /\ chunkCount' = chunkCount + count

\* set_status: a failing UPDATE is logged and rolled back, never raised.  A
\* count of 0 leaves documents.chunk_count alone.
SetStatus(r, s, count) ==
  \/ /\ ExecuteCommits(r)
     /\ status' = s
     /\ chunkCount' = IF count > 0 THEN count ELSE chunkCount
  \/ /\ ExecuteRollsBack(r)
     /\ UNCHANGED <<status, chunkCount>>

MarkIndexing(r) ==
  /\ Step(r, "queued", "download")
  /\ SetStatus(r, "indexing", 0)
  /\ UNCHANGED <<produced, rows, stored, entry, history>>

\* Mutant: the exception of a failed download escapes the handler.
DownloadEscapes(r) ==
  /\ \/ Step(r, "download", "embed")
     \/ Step(r, "download", "finished")
  /\ UNCHANGED <<tx, faults, produced, rows, docVars, entry, history>>

\* Stage 2.  A failed download raises and goes to the handler.
Download(r) ==
  /\ \/ Step(r, "download", "embed")
     \/ Step(r, "download", "failing")
  /\ UNCHANGED <<tx, faults, produced, rows, docVars, entry, history>>

\* Stages 3 to 5.  Unsupported type, no text, no chunks, an embedding call
\* that gives up or returns another number of vectors: all raise.
ExtractChunkEmbed(r) ==
  /\ \/ /\ Step(r, "embed", "delete")
        /\ \E n \in 1..MaxChunks : produced' = [produced EXCEPT ![r] = n]
     \/ /\ Step(r, "embed", "failing")
        /\ UNCHANGED produced
  /\ UNCHANGED <<tx, faults, rows, docVars, entry, history>>

\* Mutant: nothing is deleted before the new chunks are inserted.
DeleteStartsWithNothing(r) ==
  /\ Step(r, "delete", "deleting")
  /\ UNCHANGED <<tx, faults, produced, rows, docVars, entry, history>>

\* insert_chunks sends the DELETE: it is after the rows committed by now.
DeleteStarts(r) ==
  /\ Step(r, "delete", "deleting")
  /\ rows' = [rows EXCEPT ![r] = stored]
  /\ UNCHANGED <<tx, faults, produced, docVars, entry, history>>

\* Another transaction that has deleted one of these rows makes it wait;
\* afterwards it deletes those that are still there (READ COMMITTED).
RowsLocked(r) ==
  \E q \in Run \ {r} : tx[q] = "open" /\ rows[q] \cap rows[r] # {}

\* Mutant: the DELETE is committed on its own.
DeleteEndsCommits(r) ==
  /\ Step(r, "deleting", "insert")
  /\ ~RowsLocked(r)
  /\ ExecuteCommits(r)
  /\ stored' = stored \ rows[r]
  /\ rows' = [rows EXCEPT ![r] = {}]
  /\ UNCHANGED <<produced, status, chunkCount, entry, history>>

\* The DELETE is outside insert_chunks' try: its failure raises, and leaves
\* the transaction aborted.
DeleteEnds(r) ==
  /\ \/ /\ Step(r, "deleting", "insert")
        /\ ~RowsLocked(r)
        /\ ExecuteStaysOpen(r)
        /\ rows' = [rows EXCEPT ![r] = @ \cap stored]
     \/ /\ Step(r, "deleting", "failing")
        /\ ExecuteAborts(r)
        /\ rows' = [rows EXCEPT ![r] = {}]
  /\ UNCHANGED <<produced, docVars, entry, history>>

\* Mutant: the rollback is in a finally clause and comes before the commit.
InsertChunksLost(r) ==
  /\ Step(r, "insert", "indexed")
  /\ ExecuteRollsBack(r) \/ ExecuteCommits(r)
  /\ rows' = [rows EXCEPT ![r] = {}]
  /\ UNCHANGED <<produced, docVars, entry, history>>

\* The bulk INSERT and the commit of both statements; a failure is logged and
\* rolled back, and insert_chunks returns as if it had succeeded.
InsertChunks(r) ==
  /\ Step(r, "insert", "indexed")
  /\ \/ /\ ExecuteCommits(r)
        /\ stored' = (stored \ rows[r]) \cup {r}
     \/ /\ ExecuteRollsBack(r)
        /\ UNCHANGED stored
  /\ rows' = [rows EXCEPT ![r] = {}]
  /\ UNCHANGED <<produced, status, chunkCount, entry, history>>

MarkIndexed(r) ==
  /\ Step(r, "indexed", "invalidate")
  /\ SetStatus(r, "indexed", produced[r])
  /\ UNCHANGED <<produced, rows, stored, entry, history>>

\* Mutant: another key than that of the agent is deleted.
InvalidateMisses(r) ==
  /\ \/ Step(r, "invalidate", "logIndexed")
     \/ Step(r, "invalidate", "failing")
  /\ UNCHANGED <<tx, faults, produced, rows, docVars, entry, history>>

\* invalidate_route_cache: a Redis error raises and goes to the handler.
Invalidate(r) ==
  /\ \/ Step(r, "invalidate", "logIndexed") /\ entry' = "absent"
     \/ Step(r, "invalidate", "failing") /\ UNCHANGED entry
  /\ UNCHANGED <<tx, faults, produced, rows, docVars, history>>

\* Mutant: a failed document is queued again.
MarkFailedRequeues(r) ==
  /\ Step(r, "failing", "queued")
  /\ SetStatus(r, "failed", 0)
  /\ UNCHANGED <<produced, rows, stored, entry, history>>

\* The handler of run_indexing_pipeline.
MarkFailed(r) ==
  /\ Step(r, "failing", "logFailed")
  /\ SetStatus(r, "failed", 0)
  /\ UNCHANGED <<produced, rows, stored, entry, history>>

\* Mutant: the failed INSERT of the event is not rolled back.
LogEventNoRollback(r) ==
  /\ \/ Step(r, "logIndexed", "finished")
     \/ Step(r, "logFailed", "finished")
  /\ ExecuteCommits(r) \/ ExecuteAborts(r)
  /\ UNCHANGED <<produced, rows, docVars, entry, history>>

\* log_event: the analytics row is write-only and left out; its commit or
\* rollback ends the run's transaction.
LogEvent(r) ==
  /\ \/ Step(r, "logIndexed", "finished")
     \/ Step(r, "logFailed", "finished")
  /\ ExecuteCommits(r) \/ ExecuteRollsBack(r)
  /\ UNCHANGED <<produced, rows, docVars, entry, history>>

\* The process restarts.  Background tasks live in its memory: they are gone,
\* and PostgreSQL rolls their transactions back.
Crash ==
  /\ crashes < MaxCrashes
  /\ \E r \in Run : Active(r)
  /\ crashes' = crashes + 1
  /\ pc' = [r \in Run |-> IF Active(r) THEN "lost" ELSE pc[r]]
  /\ Abandoned(Run)
  /\ rows' = [r \in Run |-> {}]
  /\ UNCHANGED <<produced, docVars, entry, overlapped>>

-----------------------------------------------------------------------------
Proceed(r) ==
  \/ MarkIndexing(r) \/ Download(r) \/ ExtractChunkEmbed(r)
  \/ DeleteStarts(r) \/ DeleteEnds(r) \/ InsertChunks(r)
  \/ MarkIndexed(r) \/ Invalidate(r) \/ MarkFailed(r) \/ LogEvent(r)

Next == Crash \/ \E r \in Run : IndexDocument(r) \/ Proceed(r)

\* The event loop resumes every task whose awaited call returned.  That every
\* call returns is assumed: the embedding retries are bounded and the clients of
\* Redis and S3 have timeouts, but no statement timeout is set for PostgreSQL.
\* Requests and crashes are not promised.
Spec == Init /\ [][Next]_vars /\ \A r \in Run : WF_vars(Proceed(r))

-----------------------------------------------------------------------------
\* What holds

\* No moment without chunks: once a document can be searched, re-indexing it
\* never leaves other transactions without any chunk of it, whatever fails or
\* dies between the DELETE and the INSERT of insert_chunks.
NoChunkGap == [][stored # {} => stored' # {}]_vars

\* A run that ended holds nothing: the session was opened before the task ran
\* and is never closed by it, so only the last commit or rollback gives the
\* connection back and lets the next DELETE of this document through.
EndsClean ==
  \A r \in Run :
    pc[r] \in {"new", "finished", "lost"} => tx[r] = "idle" /\ rows[r] = {}

\* The status the dashboard polls is not left at "indexing" with nobody to
\* change it, so long as no statement fails and the process lives.
Responsible == {"download", "embed", "delete", "deleting", "insert", "indexed",
                "failing"}
NotStuck ==
  status = "indexing" /\ faults = 0 /\ crashes = 0 =>
    \E r \in Run : pc[r] \in Responsible

\* While no statement fails, a document shown as indexed has chunks that a
\* search can find, however runs overlap and crash.
IndexedHasChunks == status = "indexed" /\ faults = 0 => stored # {}

\* Runs one after another never leave the chunks of two runs, also when
\* statements fail and processes die.
OneRunsChunks == ~overlapped => \A q, r \in stored : q = r

\* Runs one after another: the count shown with an indexed document is that
\* of the chunks stored, while no statement fails.
IndexedExactly ==
  ~overlapped /\ status = "indexed" /\ faults = 0 =>
    \E r \in Run : stored = {r} /\ chunkCount = produced[r]

\* Every requested run ends: the DELETE of one waits for the other, and what
\* it waits for is always released.
EveryRunEnds ==
  \A r \in Run : pc[r] = "queued" ~> pc[r] \in {"finished", "lost"}

\* NestJS polls until the status is final: unless a statement fails or the
\* process dies, it becomes final each time a run has reset it.
StatusSettles ==
  status = "indexing" ~>
    status \in {"indexed", "failed"} \/ faults > 0 \/ crashes > 0

-----------------------------------------------------------------------------
\* What the documentation says and the code does not do

\* indexer.py: "Any exception at any step marks the document as failed".  When
\* the handler's own UPDATE is not at fault it sets the status, at whatever step
\* the exception was raised: also when it was the DELETE of insert_chunks.
AnyExceptionMarksFailed ==
  [][\A r \in Run :
       pc[r] = "failing" /\ pc'[r] = "logFailed" /\ faults' = faults =>
         status' = "failed"]_vars

\* documents.py: index_document() can be called again "without ending up with
\* duplicate chunks".
NoDuplicateChunks == Cardinality(stored) <= 1
=============================================================================
