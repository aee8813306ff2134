------------------------------ MODULE DbSession ------------------------------
(***************************************************************************)
(* The database session as app/db uses it: a SQLAlchemy AsyncSession over  *)
(* PostgreSQL.  A session begins a transaction with its first statement    *)
(* and stays in it until it commits or rolls back.  When a statement       *)
(* fails, PostgreSQL refuses every further statement of that transaction   *)
(* until the session rolls back: the session is "aborted".                 *)
(*                                                                         *)
(* Two shapes of helper occur in app/db, and they differ in this respect:  *)
(* a helper that commits and, when it catches an exception, rolls back     *)
(* (set_status, save_message, log_event ...), and a statement that neither *)
(* commits nor rolls back (fetch_messages, the DELETE of insert_chunks).   *)
(***************************************************************************)
EXTENDS Naturals

CONSTANTS Session,      \* the database sessions in use
          MaxFaults     \* bound: how many statements fail of themselves

VARIABLES tx,           \* state of the transaction of each session
          faults        \* statements that failed of themselves so far

TxStates == {"idle", "open", "aborted"}

SessionTypeOK ==
  /\ tx \in [Session -> TxStates]
  /\ faults \in 0..MaxFaults

SessionInit ==
  /\ tx = [s \in Session |-> "idle"]
  /\ faults = 0

\* A statement can succeed only outside an aborted transaction.
StatementRuns(s) ==
  /\ tx[s] # "aborted"
  /\ UNCHANGED faults

\* A statement fails of itself (connection, timeout, deadlock), or because an
\* earlier failure left the transaction aborted.
StatementFails(s) ==
  IF tx[s] = "aborted"
  THEN UNCHANGED faults
  ELSE faults < MaxFaults /\ faults' = faults + 1

TxBecomes(s, state) == tx' = [tx EXCEPT ![s] = state]

\* try: execute, commit
ExecuteCommits(s) == StatementRuns(s) /\ TxBecomes(s, "idle")

\* except Exception: log, rollback
ExecuteRollsBack(s) == StatementFails(s) /\ TxBecomes(s, "idle")

\* execute with neither commit nor rollback
ExecuteStaysOpen(s) == StatementRuns(s) /\ TxBecomes(s, "open")
ExecuteAborts(s)    == StatementFails(s) /\ TxBecomes(s, "aborted")

\* A session that nobody refers to any more: its connection is reset.
Abandoned(S) ==
  /\ tx' = [s \in Session |-> IF s \in S THEN "idle" ELSE tx[s]]
  /\ UNCHANGED faults
=============================================================================
