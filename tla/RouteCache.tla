------------------------------ MODULE RouteCache ------------------------------
(***************************************************************************)
(* The read-through cache of an agent's tools and documents                *)
(* (app/agent/query_router/cache.py over app/core/cache.py), composed with *)
(* the indexing pipeline that invalidates it.  Chat turns look the entry   *)
(* up and build it on a miss; the pipeline of one document deletes it; it  *)
(* expires.  Of the entry only what it says of this document is kept: it   *)
(* lists the document ("with") or not ("without").                         *)
(***************************************************************************)
EXTENDS DocumentIndexing

CONSTANT Turn        \* chat turns of this agent, each one after another

VARIABLES at,        \* where each turn is in get_or_build_route_cache
          listing,   \* what the turn knows of the document
          overtaken, \* history: the turns that read the documents before this
                     \* one became "indexed" and have yet to store what they read
          missed     \* history: the entry was stored by such a turn, or a
                     \* restart took away the run that was to delete it

turnVars == <<at, listing>>
entryHistory == <<overtaken, missed>>
cacheVars == <<vars, turnVars, entryHistory>>

CacheTypeOK ==
  /\ TypeOK
  /\ at \in [Turn -> {"idle", "miss", "embedding"}]
  /\ listing \in [Turn -> Entries \ {"absent"}]
  /\ overtaken \subseteq Turn
  /\ missed \in BOOLEAN

CacheInit ==
  /\ Init
  /\ at = [t \in Turn |-> "idle"]
  /\ listing = [t \in Turn |-> "without"]
  /\ overtaken = {}
  /\ missed = FALSE

Goes(t, from, to) ==
  /\ at[t] = from
  /\ at' = [at EXCEPT ![t] = to]

\* The build raises: a query that failed and returned None, the embedding
\* model, or Redis at the SETEX.  Nothing is written to the cache.
GivesUp(t) ==
  /\ at[t] \in {"miss", "embedding"}
  /\ at' = [at EXCEPT ![t] = "idle"]
  /\ overtaken' = overtaken \ {t}
  /\ UNCHANGED <<listing, missed, vars>>

\* get_or_build_route_cache: a hit is used as it is.  An entry of another
\* CACHE_VERSION and one that cannot be decoded are misses, as if absent; a
\* GET that raises ends the turn's routing before anything has changed.
Lookup(t) ==
  /\ \/ /\ entry # "absent"
        /\ Goes(t, "idle", "idle")
        /\ listing' = [listing EXCEPT ![t] = entry]
     \/ /\ entry = "absent"
        /\ Goes(t, "idle", "miss")
        /\ UNCHANGED listing
  /\ UNCHANGED <<entryHistory, vars>>

\* Mutant: every document of the agent is listed, whatever its status.
ReadAllDocuments(t) ==
  /\ Goes(t, "miss", "embedding")
  /\ listing' = [listing EXCEPT ![t] = "with"]
  /\ UNCHANGED <<entryHistory, vars>>

\* load_tools and fetch_indexed_documents: documents WHERE status = 'indexed'.
ReadDocuments(t) ==
  /\ Goes(t, "miss", "embedding")
  /\ listing' = [listing EXCEPT ![t] =
                   IF status = "indexed" THEN "with" ELSE "without"]
  /\ UNCHANGED <<entryHistory, vars>>

\* After the descriptions are embedded: route_cache.set.
Store(t) ==
  /\ Goes(t, "embedding", "idle")
  /\ entry' = listing[t]
  /\ overtaken' = overtaken \ {t}
  /\ missed' = (t \in overtaken)
  /\ UNCHANGED <<listing, pc, tx, faults, produced, rows, docVars, history>>

\* SETEX: 24 hours after it was set the entry is gone.
Expire ==
  /\ entry # "absent"
  /\ entry' = "absent"
  /\ missed' = FALSE
  /\ UNCHANGED <<turnVars, overtaken>>
  /\ UNCHANGED <<pc, tx, faults, produced, rows, docVars, history>>

\* The run has committed "indexed" and the entry is still there.
Invalidating(r) == pc[r] \in {"invalidate", "failing"}

\* A restart loses the turns with the background tasks.
Restart ==
  /\ Crash
  /\ at' = [t \in Turn |-> "idle"]
  /\ overtaken' = {}
  /\ missed' = (missed \/ \E r \in Run : Invalidating(r))
  /\ UNCHANGED listing

\* A step of a run, which overtakes the turns that are embedding when it makes
\* the document "indexed", and settles what the entry missed when it deletes it.
RunStep(step) ==
  /\ step
  /\ overtaken' = IF status # "indexed" /\ status' = "indexed"
                  THEN {t \in Turn : at[t] = "embedding"}
                  ELSE overtaken
  /\ missed' = (missed /\ entry' # "absent")
  /\ UNCHANGED turnVars

CacheNext ==
  \/ Restart
  \/ Expire
  \/ \E r \in Run : RunStep(IndexDocument(r)) \/ RunStep(Proceed(r))
  \/ \E t \in Turn : Lookup(t) \/ ReadDocuments(t) \/ Store(t) \/ GivesUp(t)

\* As for the pipeline alone; no turn and no expiry is promised.
CacheSpec ==
  /\ CacheInit
  /\ [][CacheNext]_cacheVars
  /\ \A r \in Run : WF_cacheVars(RunStep(Proceed(r)))

-----------------------------------------------------------------------------
\* The router offers a document only when a search can find chunks of it,
\* while no statement fails: a listing is read, embedded and cached while runs
\* of the pipeline delete and insert those chunks.
RoutedIsSearchable ==
  faults = 0 =>
    /\ entry = "with" => stored # {}
    /\ \A t \in Turn : listing[t] = "with" => stored # {}

\* An entry that leaves out an indexed document, so that the router does not
\* offer it.
Hidden == status = "indexed" /\ entry = "without"

\* While no statement fails, there are three ways to such an entry and no other:
\* a run is about to delete it, or to mark the document failed because it could
\* not; a turn stored what it had read before the document became "indexed"; a
\* restart came between that commit and the invalidation.
HiddenOnlyIfMissed ==
  Hidden /\ faults = 0 => missed \/ \E r \in Run : Invalidating(r)

\* indexer.py, stage 8: "So the new document is considered in routing
\* decisions immediately."
ConsideredImmediately == Hidden => \E r \in Run : Active(r)
=============================================================================
