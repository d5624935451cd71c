---------------------------- MODULE EveRefHistory ----------------------------
(***************************************************************************)
(* The EVE Ref history import.  totals.json lists a size for every day's   *)
(* file; a run downloads the days whose listed size differs from the size  *)
(* it has on record, replaces their rows in esi_history_daily, puts the    *)
(* size on record in a commit of its own, and in the end derives demand    *)
(* from the history.                                                       *)
(*                                                                         *)
(* One run is at work at a time: two starts that overlap (which            *)
(* OneRunPerStarter of SyncJobs allows) are set aside.  A clearing may     *)
(* meet it at any step.                                                    *)
(*                                                                         *)
(* A version of a file stands for its content and for its size: a file     *)
(* that changes without changing its size is not told apart.               *)
(***************************************************************************)
EXTENDS Naturals, FiniteSets

CONSTANTS
    Days,         \* the analysis window, as numbers
    Types,        \* item types; every file has a row of each
    MaxVersion,   \* bound: times a day's file is published
    MaxFailures,  \* bound: runs cancelled, interrupted, failed or killed
    MaxClears     \* bound: clearings

ASSUME EveRefAssumption ==
    /\ Days \in SUBSET Nat /\ IsFiniteSet(Days)
    /\ MaxVersion \in Nat \ {0} /\ {MaxFailures, MaxClears} \subseteq Nat

VARIABLES
    published,  \* the version of each day's file, 0 before there is one
    totals,     \* the version totals.json lists
    files,      \* the downloaded files
    history,    \* the version each row was imported from, 0 for no row
    recorded,   \* everef_history_sync_state: the listed version loaded last
    demand,     \* for each type, the history its demand was derived from
    run,        \* the run
    torn,       \* history: a clearing met a run
    failures, clears  \* the bounded counters

vars == <<published, totals, files, history, recorded, demand, run, torn, failures, clears>>
outside == <<published, totals, failures, clears, torn>>

Versions == 0..MaxVersion
Histories == [Days -> [Types -> Versions]]
NoRow == [t \in Types |-> 0]

\* A file in the download directory: its version and the rows written so far.
NoFile == [version |-> 0, rows |-> {}]
File == [version : Versions, rows : SUBSET Types]

Run == [pc : {"idle", "days", "download", "copy", "delete", "insert", "record", "derive"},
        todo : SUBSET Days,            \* the days it has yet to load
        listed : [Days -> Versions],   \* their versions when it read totals.json
        got : File,                    \* what it has copied to its staging table
        gone : SUBSET Types,           \* rows it deleted and has not committed
        seen : Histories,              \* the history it derives demand from
        left : SUBSET Types,           \* types it has yet to derive demand of
        worked : BOOLEAN,              \* it had days to load
        verdict : {"none", "success", "failed"},
        alone : BOOLEAN]               \* history: no clearing since it began
NoRun == [pc |-> "idle", todo |-> {}, listed |-> [d \in Days |-> 0], got |-> NoFile,
          gone |-> {}, seen |-> [d \in Days |-> NoRow], left |-> {},
          worked |-> FALSE, verdict |-> "none", alone |-> TRUE]

EveRefTypeOK ==
    /\ published \in [Days -> Versions] /\ totals \in [Days -> Versions]
    /\ files \in [Days -> File]
    /\ history \in Histories /\ recorded \in [Days -> Versions]
    /\ demand \in [Types -> [Days -> Versions]]
    /\ run \in Run
    /\ torn \in BOOLEAN
    /\ failures \in 0..MaxFailures /\ clears \in 0..MaxClears

Init ==
    /\ published = [d \in Days |-> 0] /\ totals = published
    /\ files = [d \in Days |-> NoFile]
    /\ history = [d \in Days |-> NoRow] /\ recorded = [d \in Days |-> 0]
    /\ demand = [t \in Types |-> [d \in Days |-> 0]]
    /\ run = NoRun
    /\ torn = FALSE
    /\ failures = 0 /\ clears = 0

\* The days are taken in order.
Day == CHOOSE d \in run.todo : \A e \in run.todo : d <= e

-----------------------------------------------------------------------------
(* The steps of a run                                                      *)

\* Mutant: only the days that are new.
DaysNew == {d \in Days : totals[d] # 0 /\ recorded[d] = 0}

\* resolve_dates
DaysToLoad == {d \in Days : totals[d] # 0 /\ recorded[d] # totals[d]}

\* A run reads totals.json and the records; with nothing to load it has succeeded.
Begin ==
    /\ run.pc = "idle"
    /\ run' = IF DaysToLoad = {} THEN [NoRun EXCEPT !.verdict = "success"]
              ELSE [NoRun EXCEPT !.pc = "days", !.todo = DaysToLoad, !.listed = totals,
                                 !.worked = TRUE]
    /\ UNCHANGED <<files, history, recorded, demand, outside>>

\* The request is answered and the file of the day is opened, which empties it.
OpenFile ==
    /\ run.pc = "days" /\ run.todo # {} /\ published[Day] # 0
    /\ files' = [files EXCEPT ![Day] = [version |-> published[Day], rows |-> {}]]
    /\ run' = [run EXCEPT !.pc = "download"]
    /\ UNCHANGED <<history, recorded, demand, outside>>

\* 404: listed, and not there yet.
SkipDay ==
    /\ run.pc = "days" /\ run.todo # {} /\ published[Day] = 0
    /\ run' = [run EXCEPT !.todo = @ \ {Day}]
    /\ UNCHANGED <<files, history, recorded, demand, outside>>

\* The rows arrive one after the other.
Download ==
    /\ run.pc = "download"
    /\ \E t \in Types \ files[Day].rows :
        files' = [files EXCEPT ![Day].rows = @ \cup {t}]
    /\ run' = IF files'[Day].rows = Types THEN [run EXCEPT !.pc = "copy"] ELSE run
    /\ UNCHANGED <<history, recorded, demand, outside>>

\* COPY to the staging table.
CopyFile ==
    /\ run.pc = "copy"
    /\ run' = [run EXCEPT !.pc = "delete", !.got = files[Day]]
    /\ UNCHANGED <<files, history, recorded, demand, outside>>

\* DELETE of the rows that are to be replaced.
DeleteRows ==
    /\ run.pc = "delete"
    /\ run' = [run EXCEPT !.pc = "insert",
                          !.gone = {t \in run.got.rows : history[Day][t] # 0}]
    /\ UNCHANGED <<files, history, recorded, demand, outside>>

\* INSERT and commit.
InsertRows ==
    /\ run.pc = "insert"
    /\ history' = [history EXCEPT ![Day] = [t \in Types |->
                      IF t \in run.got.rows THEN run.got.version ELSE @[t]]]
    /\ run' = [run EXCEPT !.pc = "record", !.gone = {}]
    /\ UNCHANGED <<files, recorded, demand, outside>>

\* Mutant: what is listed now.
ListedNow == totals[Day]

\* The size to be recorded is the one that was listed when the run began.
SizeToRecord == run.listed[Day]

\* The size is recorded and committed, and the file removed.
Record ==
    /\ run.pc = "record"
    /\ recorded' = [recorded EXCEPT ![Day] = SizeToRecord]
    /\ files' = [files EXCEPT ![Day] = NoFile]
    /\ run' = [run EXCEPT !.pc = "days", !.todo = @ \ {Day}]
    /\ UNCHANGED <<history, demand, outside>>

\* Mutant: those that have no demand yet.
UnresolvedTypes == {t \in Types : /\ \E d \in Days : history[d][t] # 0
                                 /\ \A d \in Days : demand[t][d] = 0}

\* _esi_demand_refresh_keys: demand is derived of the types that have history; that of a
\* type that has lost it stays as it is.
DemandTypes == {t \in Types : \E d \in Days : history[d][t] # 0}

\* The history is loaded once for all the demand there is to derive.
LoadHistory ==
    /\ run.pc = "days" /\ run.todo = {}
    /\ run' = [run EXCEPT !.pc = "derive", !.seen = history, !.left = DemandTypes]
    /\ UNCHANGED <<files, history, recorded, demand, outside>>

Derive ==
    /\ run.pc = "derive"
    /\ \E t \in run.left :
        /\ demand' = [demand EXCEPT ![t] = [d \in Days |-> run.seen[d][t]]]
        /\ run' = [run EXCEPT !.left = @ \ {t}]
    /\ UNCHANGED <<files, history, recorded, outside>>

\* Mutant: the verdict the job table has for it.
EndedCancelled(verdict) ==
    [NoRun EXCEPT !.worked = run.worked, !.alone = run.alone,
                  !.verdict = IF verdict = "success" THEN verdict ELSE "cancelled"]

Ended(verdict) ==
    [NoRun EXCEPT !.worked = run.worked, !.verdict = verdict, !.alone = run.alone]
End ==
    /\ run.pc = "derive" /\ run.left = {}
    /\ run' = Ended("success")
    /\ UNCHANGED <<files, history, recorded, demand, outside>>

-----------------------------------------------------------------------------
(* What else may happen                                                    *)

\* An ingestion that fails takes its file with it; a killed process leaves it.
WithoutFile == IF run.pc \in {"copy", "delete", "insert", "record"}
               THEN [files EXCEPT ![Day] = NoFile] ELSE files

\* A poll finds the run cancelled: before a day, before and after the DELETE, and before
\* each demand row.
Polls == \/ run.pc \in {"delete", "insert"}
         \/ run.pc = "days" /\ run.todo # {}
         \/ run.pc = "derive" /\ run.left # {}
Cancel ==
    /\ Polls
    /\ failures < MaxFailures /\ failures' = failures + 1
    /\ files' = WithoutFile /\ run' = Ended("failed")
    /\ UNCHANGED <<published, totals, history, recorded, demand, torn, clears>>

\* The process is told to stop: the poll marks the run in the session it is given, and
\* commits what is open there, the DELETE included.
Interrupt ==
    /\ Polls
    /\ failures < MaxFailures /\ failures' = failures + 1
    /\ history' = IF run.gone = {} THEN history
                  ELSE [history EXCEPT ![Day] = [t \in Types |->
                           IF t \in run.gone THEN 0 ELSE @[t]]]
    /\ files' = WithoutFile /\ run' = Ended("failed")
    /\ UNCHANGED <<published, totals, recorded, demand, torn, clears>>

\* A step of it fails, or the process dies.
Fail ==
    /\ run.pc # "idle"
    /\ failures < MaxFailures /\ failures' = failures + 1
    /\ files' \in {files, WithoutFile} /\ run' = Ended("failed")
    /\ UNCHANGED <<published, totals, history, recorded, demand, torn, clears>>

\* clear_job_data: rows and records in one transaction, whatever runs; it waits for a
\* DELETE that is not committed.
Clear ==
    /\ clears < MaxClears /\ clears' = clears + 1
    /\ run.gone = {}
    /\ history' = [d \in Days |-> NoRow]
    /\ recorded' = [d \in Days |-> 0]
    /\ run' = [run EXCEPT !.alone = FALSE]
    /\ torn' = (run.pc # "idle")
    /\ UNCHANGED <<published, totals, files, demand, failures>>

\* EVE Ref publishes a day's file, and lists it; it may list a day before its file can
\* be had.
Publish(d) ==
    /\ published[d] < MaxVersion
    /\ published' = [published EXCEPT ![d] = @ + 1]
    /\ UNCHANGED <<totals, files, history, recorded, demand, run, torn, failures, clears>>

List(d) ==
    /\ totals' = [totals EXCEPT ![d] = IF published[d] = 0 THEN 1 ELSE published[d]]
    /\ totals' # totals
    /\ UNCHANGED <<published, files, history, recorded, demand, run, torn, failures, clears>>

RunStep == \/ Begin \/ OpenFile \/ SkipDay \/ Download \/ CopyFile \/ DeleteRows
           \/ InsertRows \/ Record \/ LoadHistory \/ Derive \/ End

Next ==
    \/ RunStep \/ Cancel \/ Interrupt \/ Fail \/ Clear
    \/ \E d \in Days : Publish(d) \/ List(d)

\* The worker runs the job every day; what is published is listed.
Spec == Init /\ [][Next]_vars /\ WF_vars(RunStep) /\ \A d \in Days : WF_vars(List(d))

-----------------------------------------------------------------------------
(* Properties                                                              *)

\* A day that is on record as listed will not be loaded again, so its rows are all
\* there, of that version or a later one: through every cancellation, interruption and
\* crash, as long as nothing is cleared under a run.
RecordedIsLoaded ==
    torn \/ \A d \in Days : recorded[d] # 0 /\ recorded[d] = totals[d]
                => \A t \in Types : history[d][t] >= recorded[d]

\* A run that had days to load and succeeded, undisturbed, leaves every type that has
\* history with demand derived from exactly the history there is.
Derived ==
    \A t \in Types : (\E d \in Days : history[d][t] # 0)
                        => demand[t] = [d \in Days |-> history[d][t]]
WorkIsDerived == run.verdict = "success" /\ run.worked /\ run.alone => Derived

\* Every file that EVE Ref publishes is in the table in the end, unless a clearing got in
\* the way of a run.
FilesComeIn == <>[](torn \/ \A d \in Days, t \in Types : history[d][t] = published[d])

-----------------------------------------------------------------------------
(* The inductive invariant, proved in EveRefHistoryProofs                  *)

\* Lists grow and records follow them; a list is ahead of the files by a first version
\* at most.
ListsGrow ==
    \A d \in Days : /\ recorded[d] <= totals[d] /\ run.listed[d] <= totals[d]
                    /\ totals[d] <= 1 \/ totals[d] <= published[d]

\* The days a run has yet to load are on record as something older than it will record,
\* so a DELETE of theirs committed by an interruption is noticed by the next run.
TodoBehind == \A d \in run.todo : recorded[d] < run.listed[d]

\* What a run holds of its day is all of a version that is not older than the listed one.
DayInHand ==
    /\ run.pc \in {"download", "copy", "delete", "insert", "record"} => run.todo # {}
    /\ run.pc \in {"idle", "derive"} => run.todo = {}
    /\ run.gone # {} => run.pc = "insert"
    /\ run.pc \in {"download", "copy"} => files[Day].version >= run.listed[Day]
    /\ run.pc = "copy" => files[Day].rows = Types
    /\ run.pc \in {"delete", "insert", "record"} =>
           run.got.version >= run.listed[Day] /\ run.got.rows = Types
    /\ run.pc = "record" =>
           torn \/ \A t \in Types : history[Day][t] >= run.listed[Day]

\* While demand is derived the history it was read from stands, unless it is cleared.
DemandFollows ==
    /\ run.pc # "idle" => run.verdict = "none"
    /\ run.pc = "derive" /\ run.alone =>
           /\ run.seen = history
           /\ \A t \in DemandTypes \ run.left : demand[t] = [d \in Days |-> history[d][t]]

IInv == /\ EveRefTypeOK /\ ListsGrow /\ TodoBehind /\ DayInHand /\ DemandFollows
        /\ RecordedIsLoaded /\ WorkIsDerived
=============================================================================
