------------------------ MODULE DocumentIndexingProofs ------------------------
(***************************************************************************)
(* Proofs about DocumentIndexing, for every set of runs and every bound,   *)
(* and about the route cache over it, for every set of turns.  The         *)
(* invariant of the pipeline survives what turns and expiry do, for they   *)
(* change nothing of it but the entry.                                     *)
(***************************************************************************)
EXTENDS RouteCache, TLAPS

USE DEF TxStates, Stages, Statuses, Entries, docVars, history

\* What a run's session is in, by where the run is.
Sessions ==
  \A r \in Run :
    /\ pc[r] \notin {"insert", "failing"} => tx[r] = "idle"
    /\ tx[r] = "open" => pc[r] = "insert"
    /\ tx[r] = "aborted" => faults > 0
    /\ pc[r] \notin {"deleting", "insert"} => rows[r] = {}

\* A run that got past the check for an empty list of chunks has some.
Embedded ==
  \A r \in Run :
    pc[r] \in {"delete", "deleting", "insert", "indexed"} => produced[r] > 0

\* Between the INSERT and the terminal write: the chunks are there.
Unfaulted ==
  faults = 0 => \A r \in Run : pc[r] = "indexed" => stored # {}

\* Without overlap, what one run relies on while it is under way.
Serial ==
  ~overlapped =>
    /\ \A q, r \in Run : Active(q) /\ Active(r) => q = r
    /\ \A r \in Run : pc[r] \in {"deleting", "insert"} => rows[r] = stored
    /\ \A r \in Run : faults = 0 /\ pc[r] \in Responsible \ {"failing"} =>
         status = "indexing"
    /\ \A r \in Run : faults = 0 /\ pc[r] = "indexed" => stored = {r}

IInv ==
  /\ TypeOK
  /\ Sessions
  /\ Embedded
  /\ NotStuck
  /\ Unfaulted
  /\ IndexedHasChunks
  /\ Serial
  /\ OneRunsChunks
  /\ IndexedExactly

\* The state in which the pipeline starts satisfies the invariant.
LEMMA InitIInv == Init => IInv
<1> SUFFICES ASSUME Init PROVE IInv
  OBVIOUS
<1>1. overlapped \in BOOLEAN
  BY DEF Init
<1>2. TypeOK
  BY <1>1, ConstantsAssumption DEF Init, TypeOK, SessionInit, SessionTypeOK
<1> QED
  BY <1>2, ConstantsAssumption DEF Init, IInv, TypeOK, Sessions, Embedded,
     NotStuck, Unfaulted, IndexedHasChunks, SessionInit, SessionTypeOK, Serial,
     OneRunsChunks, IndexedExactly, Active, Responsible

\* Every step keeps the types.
LEMMA NextTypeOK == TypeOK /\ [Next]_vars => TypeOK'
<1> SUFFICES ASSUME TypeOK, [Next]_vars PROVE TypeOK'
  OBVIOUS
<1> USE ConstantsAssumption DEF TypeOK, SessionTypeOK, Step, TxBecomes,
        StatementRuns, StatementFails
<1>1. ASSUME NEW r \in Run, IndexDocument(r) PROVE TypeOK'
  BY <1>1 DEF IndexDocument
<1>2. ASSUME NEW r \in Run, MarkIndexing(r) PROVE TypeOK'
  BY <1>2 DEF MarkIndexing, SetStatus, ExecuteCommits, ExecuteRollsBack
<1>3. ASSUME NEW r \in Run, Download(r) PROVE TypeOK'
  BY <1>3 DEF Download
<1>4. ASSUME NEW r \in Run, ExtractChunkEmbed(r) PROVE TypeOK'
  BY <1>4 DEF ExtractChunkEmbed
<1>5. ASSUME NEW r \in Run, DeleteStarts(r) PROVE TypeOK'
  BY <1>5 DEF DeleteStarts
<1>6. ASSUME NEW r \in Run, DeleteEnds(r) PROVE TypeOK'
  BY <1>6 DEF DeleteEnds, ExecuteStaysOpen, ExecuteAborts
<1>7. ASSUME NEW r \in Run, InsertChunks(r) PROVE TypeOK'
  BY <1>7 DEF InsertChunks, ExecuteCommits, ExecuteRollsBack
<1>8. ASSUME NEW r \in Run, MarkIndexed(r) PROVE TypeOK'
  BY <1>8 DEF MarkIndexed, SetStatus, ExecuteCommits, ExecuteRollsBack
<1>9. ASSUME NEW r \in Run, Invalidate(r) PROVE TypeOK'
  BY <1>9 DEF Invalidate
<1>10. ASSUME NEW r \in Run, MarkFailed(r) PROVE TypeOK'
  BY <1>10 DEF MarkFailed, SetStatus, ExecuteCommits, ExecuteRollsBack
<1>11. ASSUME NEW r \in Run, LogEvent(r) PROVE TypeOK'
  BY <1>11 DEF LogEvent, ExecuteCommits, ExecuteRollsBack
<1>12. CASE Crash
  BY <1>12 DEF Crash, Abandoned, Active
<1>13. CASE UNCHANGED vars
  BY <1>13 DEF vars
<1> QED
  BY <1>1, <1>2, <1>3, <1>4, <1>5, <1>6, <1>7, <1>8, <1>9, <1>10, <1>11,
     <1>12, <1>13 DEF Next, Proceed

\* Every value a run, a session and the document's row can hold is one the
\* code can put there: in particular chunk_count never exceeds what one run
\* produced.
THEOREM TypeCorrect == Spec => []TypeOK
<1>1. Init => TypeOK
  BY InitIInv DEF IInv
<1> QED
  BY <1>1, NextTypeOK, PTL DEF Spec
-----------------------------------------------------------------------------
\* The invariant is kept by every step.
LEMMA NextIInv == IInv /\ [Next]_vars => IInv'
<1> SUFFICES ASSUME IInv, [Next]_vars PROVE IInv'
  OBVIOUS
<1>0. TypeOK'
  BY NextTypeOK DEF IInv
<1> USE ConstantsAssumption DEF IInv, TypeOK, SessionTypeOK, Sessions,
        Embedded, NotStuck, Unfaulted, IndexedHasChunks, Serial, OneRunsChunks,
        IndexedExactly, Active, Responsible, Step, TxBecomes, StatementRuns,
        StatementFails
<1>1. ASSUME NEW r \in Run, IndexDocument(r) PROVE IInv'
  BY <1>0, <1>1 DEF IndexDocument
<1>2. ASSUME NEW r \in Run, MarkIndexing(r) PROVE IInv'
  BY <1>0, <1>2 DEF MarkIndexing, SetStatus, ExecuteCommits, ExecuteRollsBack
<1>3. ASSUME NEW r \in Run, Download(r) PROVE IInv'
  BY <1>0, <1>3 DEF Download
<1>4. ASSUME NEW r \in Run, ExtractChunkEmbed(r) PROVE IInv'
  BY <1>0, <1>4 DEF ExtractChunkEmbed
<1>5. ASSUME NEW r \in Run, DeleteStarts(r) PROVE IInv'
  BY <1>0, <1>5 DEF DeleteStarts
<1>6. ASSUME NEW r \in Run, DeleteEnds(r) PROVE IInv'
  <2>1. Sessions'
    BY <1>6 DEF DeleteEnds, ExecuteStaysOpen, ExecuteAborts
  <2>2. NotStuck'
    BY <1>6 DEF DeleteEnds, ExecuteStaysOpen, ExecuteAborts
  <2>3. Unfaulted'
    BY <1>6 DEF DeleteEnds, ExecuteStaysOpen, ExecuteAborts
  <2>4. IndexedHasChunks'
    BY <1>6 DEF DeleteEnds, ExecuteStaysOpen, ExecuteAborts
  <2>5. Serial'
    <3>1. CASE Step(r, "deleting", "insert") /\ ExecuteStaysOpen(r)
               /\ rows' = [rows EXCEPT ![r] = @ \cap stored]
      BY <1>6, <3>1 DEF DeleteEnds, ExecuteStaysOpen
    <3>2. CASE Step(r, "deleting", "failing") /\ ExecuteAborts(r)
               /\ rows' = [rows EXCEPT ![r] = {}]
      BY <1>6, <3>2 DEF DeleteEnds, ExecuteAborts
    <3> QED
      BY <1>6, <3>1, <3>2 DEF DeleteEnds
  <2>6. OneRunsChunks'
    BY <1>6 DEF DeleteEnds, ExecuteStaysOpen, ExecuteAborts
  <2>7. IndexedExactly'
    BY <1>6 DEF DeleteEnds, ExecuteStaysOpen, ExecuteAborts
  <2>8. Embedded'
    BY <1>6 DEF DeleteEnds, ExecuteStaysOpen, ExecuteAborts
  <2> QED
    BY <1>0, <2>1, <2>2, <2>3, <2>4, <2>5, <2>6, <2>7,
       <2>8
<1>7. ASSUME NEW r \in Run, InsertChunks(r) PROVE IInv'
  <2>1. Sessions'
    BY <1>7 DEF InsertChunks, ExecuteCommits, ExecuteRollsBack
  <2>2. NotStuck'
    BY <1>7 DEF InsertChunks, ExecuteCommits, ExecuteRollsBack
  <2>3. Unfaulted'
    BY <1>7 DEF InsertChunks, ExecuteCommits, ExecuteRollsBack
  <2>4. IndexedHasChunks'
    BY <1>7 DEF InsertChunks, ExecuteCommits, ExecuteRollsBack
  <2>5. Serial'
    BY <1>7 DEF InsertChunks, ExecuteCommits, ExecuteRollsBack
  <2>6. OneRunsChunks'
    BY <1>7 DEF InsertChunks, ExecuteCommits, ExecuteRollsBack
  <2>7. IndexedExactly'
    BY <1>7 DEF InsertChunks, ExecuteCommits, ExecuteRollsBack
  <2>8. Embedded'
    BY <1>7 DEF InsertChunks, ExecuteCommits, ExecuteRollsBack
  <2> QED
    BY <1>0, <2>1, <2>2, <2>3, <2>4, <2>5, <2>6, <2>7,
       <2>8
<1>8. ASSUME NEW r \in Run, MarkIndexed(r) PROVE IInv'
  <2>1. Sessions'
    BY <1>8 DEF MarkIndexed, SetStatus, ExecuteCommits, ExecuteRollsBack
  <2>2. NotStuck'
    BY <1>8 DEF MarkIndexed, SetStatus, ExecuteCommits, ExecuteRollsBack
  <2>3. Unfaulted'
    BY <1>8 DEF MarkIndexed, SetStatus, ExecuteCommits, ExecuteRollsBack
  <2>4. IndexedHasChunks'
    BY <1>8 DEF MarkIndexed, SetStatus, ExecuteCommits, ExecuteRollsBack
  <2>5. Serial'
    BY <1>8 DEF MarkIndexed, SetStatus, ExecuteCommits, ExecuteRollsBack
  <2>6. OneRunsChunks'
    BY <1>8 DEF MarkIndexed, SetStatus, ExecuteCommits, ExecuteRollsBack
  <2>7. IndexedExactly'
    BY <1>8 DEF MarkIndexed, SetStatus, ExecuteCommits, ExecuteRollsBack
  <2>8. Embedded'
    BY <1>8 DEF MarkIndexed, SetStatus, ExecuteCommits, ExecuteRollsBack
  <2> QED
    BY <1>0, <2>1, <2>2, <2>3, <2>4, <2>5, <2>6, <2>7,
       <2>8
<1>9. ASSUME NEW r \in Run, Invalidate(r) PROVE IInv'
  BY <1>0, <1>9 DEF Invalidate
<1>10. ASSUME NEW r \in Run, MarkFailed(r) PROVE IInv'
  BY <1>0, <1>10 DEF MarkFailed, SetStatus, ExecuteCommits, ExecuteRollsBack
<1>11. ASSUME NEW r \in Run, LogEvent(r) PROVE IInv'
  BY <1>0, <1>11 DEF LogEvent, ExecuteCommits, ExecuteRollsBack
<1>12. CASE Crash
  BY <1>0, <1>12 DEF Crash, Abandoned
<1>13. CASE UNCHANGED vars
  BY <1>13 DEF vars
<1> QED
  BY <1>1, <1>2, <1>3, <1>4, <1>5, <1>6, <1>7, <1>8, <1>9, <1>10, <1>11, <1>12, <1>13 DEF Next, Proceed

-----------------------------------------------------------------------------
LEMMA InvariantHolds == Spec => []IInv
  BY InitIInv, NextIInv, PTL DEF Spec

\* Whatever number of runs overlap and whatever fails, a run that returned
\* (or was never started) has no transaction open and no rows locked.
THEOREM RunsEndClean == Spec => []EndsClean
<1>1. IInv => EndsClean
  BY DEF IInv, Sessions, EndsClean
<1> QED
  BY <1>1, InvariantHolds, PTL

\* Without failing statements and crashes, some run is always there to take
\* a document out of "indexing".
THEOREM NeverStuck == Spec => []NotStuck
<1>1. IInv => NotStuck
  BY DEF IInv
<1> QED
  BY <1>1, InvariantHolds, PTL

\* Without failing statements, "indexed" means that chunks are stored.
THEOREM IndexedIsSearchable == Spec => []IndexedHasChunks
<1>1. IInv => IndexedHasChunks
  BY DEF IInv
<1> QED
  BY <1>1, InvariantHolds, PTL

\* Runs one after another leave the chunks of one run.
THEOREM SerialIsClean == Spec => []OneRunsChunks
<1>1. IInv => OneRunsChunks
  BY DEF IInv
<1> QED
  BY <1>1, InvariantHolds, PTL

\* Runs one after another: the exact count when indexed.
THEOREM SerialIsExact == Spec => []IndexedExactly
<1>1. IInv => IndexedExactly
  BY DEF IInv
<1> QED
  BY <1>1, InvariantHolds, PTL

LEMMA KeepsChunks == Next /\ stored # {} => stored' # {}
<1> SUFFICES ASSUME Next, stored # {}, stored' = {} PROVE FALSE
  OBVIOUS
<1>1. ASSUME NEW r \in Run, InsertChunks(r) PROVE FALSE
  BY <1>1 DEF InsertChunks
<1> QED
  BY <1>1 DEF Next, Proceed, IndexDocument, MarkIndexing, Download,
     ExtractChunkEmbed, DeleteStarts, DeleteEnds, MarkIndexed, Invalidate,
     MarkFailed, LogEvent, Crash

\* No step of any run empties the document's chunks.
THEOREM ChunksNeverGap == Spec => NoChunkGap
<1>1. [Next]_vars => [stored # {} => stored' # {}]_vars
  BY KeepsChunks
<1> QED
  BY <1>1, PTL DEF Spec, NoChunkGap

-----------------------------------------------------------------------------
\* The route cache

\* A turn that holds a listing without the indexed document was overtaken.
ReadsOvertaken ==
  \A t \in Turn :
    at[t] = "embedding" /\ listing[t] = "without" /\ status = "indexed" =>
      t \in overtaken

CacheIInv ==
  /\ IInv
  /\ CacheTypeOK
  /\ RoutedIsSearchable
  /\ ReadsOvertaken
  /\ HiddenOnlyIfMissed

\* The steps of turns and of expiry, as the pipeline sees them.
EntryOnly ==
  entry' \in Entries
  /\ UNCHANGED <<pc, tx, faults, produced, rows, docVars, history>>

LEMMA InitCacheIInv == CacheInit => CacheIInv
<1> SUFFICES ASSUME CacheInit PROVE CacheIInv
  OBVIOUS
<1>1. IInv
  BY InitIInv DEF CacheInit
<1>2. CacheTypeOK
  BY <1>1 DEF IInv, CacheInit, CacheTypeOK
<1>3. RoutedIsSearchable /\ ReadsOvertaken /\ HiddenOnlyIfMissed
  BY DEF CacheInit, Init, RoutedIsSearchable, ReadsOvertaken, HiddenOnlyIfMissed,
     Hidden
<1> QED
  BY <1>1, <1>2, <1>3 DEF CacheIInv

LEMMA EntryOnlyIInv == IInv /\ EntryOnly => IInv'
BY DEF IInv, EntryOnly, TypeOK, SessionTypeOK, Sessions, Embedded, NotStuck,
   Unfaulted, IndexedHasChunks, Serial, OneRunsChunks, IndexedExactly, Active,
   Responsible

\* Failed statements are only ever added.
LEMMA FaultsStay == TypeOK /\ Next /\ faults' = 0 => faults = 0
<1> SUFFICES ASSUME TypeOK, Next, faults' = 0 PROVE faults = 0
  OBVIOUS
<1>1. faults \in Nat
  BY ConstantsAssumption DEF TypeOK, SessionTypeOK
<1>2. ASSUME NEW r \in Run, Proceed(r) PROVE faults = 0
  BY <1>1, <1>2 DEF Proceed, MarkIndexing, Download, ExtractChunkEmbed,
     DeleteStarts, DeleteEnds, InsertChunks, MarkIndexed, Invalidate,
     MarkFailed, LogEvent, SetStatus, ExecuteCommits, ExecuteRollsBack,
     ExecuteStaysOpen, ExecuteAborts, StatementRuns, StatementFails
<1> QED
  BY <1>2 DEF Next, IndexDocument, Crash, Abandoned

\* The pipeline sets the entry to nothing but "absent".
LEMMA OnlyInvalidates == Next => entry' = entry \/ entry' = "absent"
BY DEF Next, Proceed, IndexDocument, MarkIndexing, Download,
   ExtractChunkEmbed, DeleteStarts, DeleteEnds, InsertChunks, MarkIndexed,
   Invalidate, MarkFailed, LogEvent, Crash

\* What the pipeline and a restart keep, whatever they make of the turns.
LEMMA PipelineKeeps ==
  ASSUME IInv, RoutedIsSearchable, Next, UNCHANGED listing
  PROVE  IInv' /\ RoutedIsSearchable'
<1>1. IInv'
  BY NextIInv
<1>2. faults' = 0 => faults = 0
  BY FaultsStay DEF IInv
<1>3. stored # {} => stored' # {}
  BY KeepsChunks
<1>4. entry' = "with" => entry = "with"
  BY OnlyInvalidates
<1> QED
  BY <1>1, <1>2, <1>3, <1>4 DEF RoutedIsSearchable

\* The only step that makes a document "indexed" is followed by the
\* invalidation, and a run leaves the invalidation only with the entry gone or
\* with the document marked as failed.
LEMMA RunHides ==
  ASSUME IInv, HiddenOnlyIfMissed, NEW r \in Run, Proceed(r),
         missed' = (missed /\ entry' # "absent")
  PROVE  HiddenOnlyIfMissed'
<1> SUFFICES ASSUME Hidden', faults' = 0
             PROVE  missed' \/ \E q \in Run : Invalidating(q)'
  BY DEF HiddenOnlyIfMissed, Invalidating
<1>0. faults = 0 /\ entry = "without" /\ (missed => missed')
      /\ pc \in [Run -> Stages \cup {"new", "finished", "lost"}] /\ tx[r] # "aborted"
  <2>1. Next /\ TypeOK /\ Sessions
    BY DEF Next, IInv
  <2>2. faults = 0
    BY <2>1, FaultsStay
  <2>3. entry = "without" /\ entry' # "absent"
    BY <2>1, OnlyInvalidates DEF Hidden
  <2>4. tx[r] # "aborted"
    BY <2>1, <2>2 DEF Sessions
  <2> QED
    BY <2>1, <2>2, <2>3, <2>4 DEF TypeOK
<1> USE DEF Invalidating, Step
<1>1. CASE MarkIndexed(r)
  BY <1>0, <1>1 DEF MarkIndexed
<1>2. CASE Invalidate(r)
  BY <1>0, <1>2 DEF Invalidate, Hidden
<1>3. CASE MarkFailed(r)
  <2>1. status' = "failed"
    BY <1>0, <1>3 DEF MarkFailed, SetStatus, ExecuteRollsBack, StatementFails,
       IInv, TypeOK, SessionTypeOK
  <2> QED
    BY <2>1 DEF Hidden
<1>4. CASE MarkIndexing(r)
  <2>1. status' \in {"indexing", status} /\ pc[r] = "queued"
        /\ pc' = [pc EXCEPT ![r] = "download"]
    BY <1>4 DEF MarkIndexing, SetStatus
  <2> QED
    BY <1>0, <2>1 DEF Hidden, HiddenOnlyIfMissed
<1>5. CASE \/ Download(r) \/ ExtractChunkEmbed(r) \/ DeleteStarts(r)
           \/ DeleteEnds(r) \/ InsertChunks(r) \/ LogEvent(r)
  <2>1. status' = status /\ ~Invalidating(r)
        /\ \E stage : pc' = [pc EXCEPT ![r] = stage]
    BY <1>5 DEF Download, ExtractChunkEmbed, DeleteStarts, DeleteEnds,
       InsertChunks, LogEvent
  <2> QED
    BY <1>0, <2>1 DEF Hidden, HiddenOnlyIfMissed
<1> QED
  BY <1>1, <1>2, <1>3, <1>4, <1>5 DEF Proceed

\* A step of a run: the commit of "indexed" overtakes whoever is embedding.
LEMMA RunKeeps ==
  ASSUME CacheIInv, NEW r \in Run,
         RunStep(IndexDocument(r)) \/ RunStep(Proceed(r))
  PROVE  CacheIInv'
<1>1. /\ Next /\ UNCHANGED <<at, listing>>
      /\ overtaken' = IF status # "indexed" /\ status' = "indexed"
                      THEN {t \in Turn : at[t] = "embedding"}
                      ELSE overtaken
      /\ missed' = (missed /\ entry' # "absent")
  BY DEF RunStep, Next, turnVars
<1>2. IInv' /\ RoutedIsSearchable'
  BY <1>1, PipelineKeeps DEF CacheIInv
<1>3. CacheTypeOK'
  BY <1>1, <1>2 DEF CacheIInv, CacheTypeOK, IInv
<1>4. ReadsOvertaken'
  BY <1>1 DEF CacheIInv, ReadsOvertaken
<1>5. HiddenOnlyIfMissed'
  <2>1. CASE Proceed(r)
    BY <1>1, <2>1, RunHides DEF CacheIInv
  <2>2. CASE IndexDocument(r)
    BY <1>1, <2>2 DEF IndexDocument, Step, CacheIInv, HiddenOnlyIfMissed, Hidden,
       Invalidating, IInv, TypeOK
  <2> QED
    BY <2>1, <2>2 DEF RunStep
<1> QED
  BY <1>2, <1>3, <1>4, <1>5 DEF CacheIInv

\* A restart: the turns are gone, and the entry has missed an invalidation.
LEMMA RestartKeeps == CacheIInv /\ Restart => CacheIInv'
<1> SUFFICES ASSUME CacheIInv, Restart PROVE CacheIInv'
  OBVIOUS
<1>1. IInv' /\ RoutedIsSearchable'
  BY PipelineKeeps DEF Restart, Next, CacheIInv
<1>2. CacheTypeOK'
  BY <1>1 DEF Restart, CacheIInv, CacheTypeOK, IInv
<1>3. ReadsOvertaken'
  BY DEF Restart, ReadsOvertaken
<1>4. HiddenOnlyIfMissed'
  BY DEF Restart, Crash, Abandoned, CacheIInv, HiddenOnlyIfMissed, Hidden,
     Invalidating
<1> QED
  BY <1>1, <1>2, <1>3, <1>4 DEF CacheIInv

\* A step of a turn, of which only Store changes the entry; and expiry.
LEMMA TurnKeeps ==
  ASSUME CacheIInv,
         Expire \/ (\E t \in Turn :
                      Lookup(t) \/ ReadDocuments(t) \/ Store(t) \/ GivesUp(t))
  PROVE  CacheIInv'
<1>0. /\ TypeOK /\ IndexedHasChunks /\ CacheTypeOK /\ RoutedIsSearchable
      /\ ReadsOvertaken /\ HiddenOnlyIfMissed /\ entry \in Entries
  BY DEF CacheIInv, IInv, TypeOK
<1> DEFINE Rest == RoutedIsSearchable /\ ReadsOvertaken /\ HiddenOnlyIfMissed
<1> USE DEF CacheTypeOK, RoutedIsSearchable, ReadsOvertaken, HiddenOnlyIfMissed,
        Hidden, Invalidating, Goes, vars, turnVars, entryHistory
<1>1. ASSUME EntryOnly, Rest', at' \in [Turn -> {"idle", "miss", "embedding"}],
             listing' \in [Turn -> Entries \ {"absent"}],
             overtaken' \subseteq Turn, missed' \in BOOLEAN
      PROVE  CacheIInv'
  <2>1. IInv'
    BY <1>1, EntryOnlyIInv DEF CacheIInv
  <2>2. TypeOK'
    BY <2>1 DEF IInv
  <2>3. CacheTypeOK'
    BY <1>1, <2>2
  <2> QED
    BY <1>1, <2>1, <2>3 DEF CacheIInv
<1>2. CASE Expire
  BY <1>0, <1>1, <1>2 DEF Expire, EntryOnly
<1>3. ASSUME NEW t \in Turn, Lookup(t) PROVE CacheIInv'
  BY <1>0, <1>1, <1>3 DEF Lookup, EntryOnly
<1>4. ASSUME NEW t \in Turn, ReadDocuments(t) PROVE CacheIInv'
  BY <1>0, <1>1, <1>4 DEF ReadDocuments, IndexedHasChunks, EntryOnly
<1>5. ASSUME NEW t \in Turn, Store(t) PROVE CacheIInv'
  <2>1. EntryOnly /\ at' \in [Turn -> {"idle", "miss", "embedding"}]
        /\ UNCHANGED listing /\ overtaken' = overtaken \ {t}
    BY <1>0, <1>5 DEF Store, EntryOnly
  <2>2. missed' = (t \in overtaken) /\ missed' \in BOOLEAN
    BY <1>5 DEF Store
  <2>3. RoutedIsSearchable'
    BY <1>0, <1>5 DEF Store
  <2>4. ReadsOvertaken'
    BY <1>0, <1>5 DEF Store
  <2>5. HiddenOnlyIfMissed'
    BY <1>0, <1>5, <2>2 DEF Store
  <2> QED
    BY <1>0, <1>1, <2>1, <2>2, <2>3, <2>4, <2>5
<1>6. ASSUME NEW t \in Turn, GivesUp(t) PROVE CacheIInv'
  BY <1>0, <1>1, <1>6 DEF GivesUp, EntryOnly
<1> QED
  BY <1>2, <1>3, <1>4, <1>5, <1>6

LEMMA NextCacheIInv == CacheIInv /\ [CacheNext]_cacheVars => CacheIInv'
<1> SUFFICES ASSUME CacheIInv, [CacheNext]_cacheVars PROVE CacheIInv'
  OBVIOUS
<1>1. CASE UNCHANGED cacheVars
  <2>1. EntryOnly
    BY <1>1 DEF cacheVars, vars, EntryOnly, CacheIInv, IInv, TypeOK
  <2>2. IInv'
    BY <2>1, EntryOnlyIInv DEF CacheIInv
  <2>3. TypeOK'
    BY <2>2 DEF IInv
  <2> QED
    BY <1>1, <2>2, <2>3
    DEF CacheIInv, cacheVars, vars, turnVars, entryHistory, CacheTypeOK,
        RoutedIsSearchable, ReadsOvertaken, HiddenOnlyIfMissed, Hidden, Invalidating
<1> QED
  BY <1>1, RestartKeeps, RunKeeps, TurnKeeps DEF CacheNext

LEMMA CacheInvariantHolds == CacheSpec => []CacheIInv
  BY InitCacheIInv, NextCacheIInv, PTL DEF CacheSpec

\* The entry and what turns took from it stay of their types, and so does the
\* pipeline under expiry and restarts.
THEOREM CacheTypeCorrect == CacheSpec => []CacheTypeOK
<1>1. CacheIInv => CacheTypeOK
  BY DEF CacheIInv
<1> QED
  BY <1>1, CacheInvariantHolds, PTL

\* Without failing statements, the router never offers a document a search
\* cannot find, through however stale a listing it decides.
THEOREM RoutesSearchable == CacheSpec => []RoutedIsSearchable
<1>1. CacheIInv => RoutedIsSearchable
  BY DEF CacheIInv
<1> QED
  BY <1>1, CacheInvariantHolds, PTL

\* Without failing statements, an entry hides an indexed document only while its
\* invalidation is due, or when the invalidation passed by a turn that was
\* embedding what it had read earlier, or died with the process.
THEOREM HiddenIsExplained == CacheSpec => []HiddenOnlyIfMissed
<1>1. CacheIInv => HiddenOnlyIfMissed
  BY DEF CacheIInv
<1> QED
  BY <1>1, CacheInvariantHolds, PTL
=============================================================================
