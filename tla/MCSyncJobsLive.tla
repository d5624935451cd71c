--------------------------- MODULE MCSyncJobsLive ---------------------------
(* SyncJobs under fairness, with finitely many signals and crashes: if     *)
(* processes kept dying for ever no call need ever get past its first read.*)
EXTENDS MCSyncJobs, SyncJobsLedger

CONSTANT MaxFailures   \* bound: signals and crashes in a behaviour
VARIABLE failures

LiveVars == <<vars, failures>>

LiveInit == Init /\ failures = 0

LiveNext ==
    \/ Step /\ UNCHANGED failures
    \/ failures < MaxFailures /\ Failure /\ failures' = failures + 1

LiveSpec == LiveInit /\ [][LiveNext]_LiveVars /\ Fairness
=============================================================================
