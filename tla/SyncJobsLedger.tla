--------------------------- MODULE SyncJobsLedger ---------------------------
(***************************************************************************)
(* The job service implements the ledger of runs: sessions, reads, ages,   *)
(* handlers and events are forgotten, and what remains of every step is a  *)
(* step of JobLedger or nothing at all.                                    *)
(***************************************************************************)
EXTENDS SyncJobs

\* A run, as the ledger sees it: the row, and whether somebody still works on it.
LedgerRuns ==
    [j \in Jobs |-> [type |-> rows[j].type, status |-> rows[j].status,
                     finished |-> rows[j].finished,
                     executor |-> IF execs[j].pc \in Live THEN "alive" ELSE "none",
                     outcome |-> execs[j].outcome]]

Ledger == INSTANCE JobLedger WITH runs <- LedgerRuns

\* Every behaviour of the job service is one the ledger allows: no step opens,
\* ends, closes, marks or loses a run in a way JobLedger has no action for.
ImplementsLedger == Ledger!LedgerSpec
=============================================================================
