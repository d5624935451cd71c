------------------------------ MODULE JobLedger ------------------------------
(***************************************************************************)
(* What the job service promises about its runs, without sessions, reads,  *)
(* ages or signals: how a row and the work behind it may move.  SyncJobs   *)
(* implements it; FreshTradeSync, which starts and awaits runs of other    *)
(* types, is built on it.                                                  *)
(***************************************************************************)
EXTENDS Naturals

CONSTANTS
    Types,       \* job types
    MaxJobs      \* bound: runs ever opened

ASSUME LedgerAssumption ==
    /\ Types # {}
    /\ MaxJobs \in Nat

VARIABLE runs   \* the row of each run, whether its executor is alive, what the work came to

Jobs == 1..MaxJobs
Active == {"running", "cancelling"}
Verdict == {"success", "failed", "cancelled"}
AnyType == CHOOSE t \in Types : TRUE

Run == [type : Types, status : {"absent"} \cup Active \cup Verdict, finished : BOOLEAN,
        executor : {"alive", "none"}, outcome : Verdict \cup {"none"}]
NoRun == [type |-> AnyType, status |-> "absent", finished |-> FALSE,
          executor |-> "none", outcome |-> "none"]

LedgerTypeOK == runs \in [Jobs -> Run]

IsOpen(j) == ~runs[j].finished /\ runs[j].status \in Active
OpenOf(t) == {j \in Jobs : IsOpen(j) /\ runs[j].type = t}

LedgerInit == runs = [j \in Jobs |-> NoRun]

\* A run is opened under the next id.  Its starter has looked for another of the type,
\* but by now there may be one: the ledger promises nothing of that.
Open(j, t) ==
    /\ runs[j].status = "absent"
    /\ \A k \in Jobs : k < j => runs[k].status # "absent"
    /\ runs' = [runs EXCEPT ![j] = [type |-> t, status |-> "running", finished |-> FALSE,
                                    executor |-> "alive", outcome |-> "none"]]

\* The work is over; giving in to a cancellation may first mark the row.
Ends(j, outcome) ==
    /\ runs[j].executor = "alive"
    /\ runs[j].outcome = "none"
    /\ \E status \in {runs[j].status} \cup
                     (IF outcome = "cancelled" THEN {"cancelling"} ELSE {}) :
           runs' = [runs EXCEPT ![j].outcome = outcome, ![j].status = status]

\* The executor closes the row with what the work came to and is gone.  (Had the row
\* that verdict when it was read, whatever was written since stands.)
Closes(j) ==
    /\ runs[j].executor = "alive"
    /\ runs[j].outcome # "none"
    /\ \E status \in {runs[j].status, runs[j].outcome} :
           runs' = [runs EXCEPT ![j].status = status, ![j].finished = TRUE, ![j].executor = "none"]

\* Somebody asks for the run to be cancelled, perhaps too late.
Mark(j) ==
    /\ runs[j].status # "absent"
    /\ runs' = [runs EXCEPT ![j].status = "cancelling"]

\* The reaper or an operator closes runs over the heads of their executors.
ForceClose(S, status) ==
    /\ status \in {"failed", "cancelled"}
    /\ \A j \in S : runs[j].status # "absent"
    /\ runs' = [j \in Jobs |-> IF j \in S
                               THEN [runs[j] EXCEPT !.status = status, !.finished = TRUE]
                               ELSE runs[j]]

\* Executors die; their rows stay as they are.
Lose(S) ==
    /\ \A j \in S : runs[j].executor = "alive"
    /\ runs' = [j \in Jobs |-> IF j \in S
                               THEN [runs[j] EXCEPT !.executor = "none", !.outcome = "none"]
                               ELSE runs[j]]

LedgerNext ==
    \/ \E j \in Jobs, t \in Types : Open(j, t)
    \/ \E j \in Jobs, v \in Verdict : Ends(j, v)
    \/ \E j \in Jobs : Closes(j) \/ Mark(j)
    \/ \E S \in SUBSET Jobs, v \in Verdict : ForceClose(S, v)
    \/ \E S \in SUBSET Jobs : Lose(S)

LedgerSpec == LedgerInit /\ [][LedgerNext]_runs
=============================================================================
