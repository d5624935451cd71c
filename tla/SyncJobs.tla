------------------------------ MODULE SyncJobs ------------------------------
(***************************************************************************)
(* The life of a row of sync_job_runs, and everything that writes it: the  *)
(* trigger and enqueue entry points, the executor thread that runs the     *)
(* job, the cooperative cancellation it polls, cancel_job, the reaper of   *)
(* stale `cancelling` rows that runs at the start of nearly every call,    *)
(* clear_stale_jobs, process shutdown signals, and crashes.                *)
(*                                                                         *)
(* Two processes (the API and the worker) share one PostgreSQL database at *)
(* READ COMMITTED and take no lock on a job row.  Every handler therefore  *)
(* is at least two steps here: one that reads rows into the ORM session,   *)
(* one that commits.  A commit writes only the columns whose value differs *)
(* from the one the session loaded (the unit of work of SQLAlchemy), and,  *)
(* with expire_on_commit=False, a loaded object is never refreshed until   *)
(* the session rolls back.                                                 *)
(***************************************************************************)
EXTENDS Naturals, FiniteSets

CONSTANTS
    Types,            \* job types
    CappedTypes,      \* types with a runtime cap: opportunity_rebuild
    UncheckedTypes,   \* types that never poll for cancellation: fresh_trade_data_sync
    Procs,            \* operating-system processes: the API and the worker
    Slots,            \* threads that call SyncService
    ProcOf,           \* the process of each slot
    MainThread,       \* slots that are the main thread of their process
    Triggers,         \* {<<s, t>>}: s runs jobs of type t itself (trigger_job)
    Enqueues,         \* {<<s, t>>}: s starts a daemon thread for t (enqueue_job)
    Operators,        \* slots that cancel jobs and clear stale ones
    Pollers,          \* slots that read the dashboard
    StaleCancelling,  \* STALE_CANCELLING_JOB_MINUTES, in ticks
    StaleRunning,     \* STALE_RUNNING_JOB_MINUTES, in ticks
    MaxRuntime,       \* OPPORTUNITY_REBUILD_MAX_RUNTIME, in ticks
    MaxAge,           \* bound: ages saturate here
    MaxJobs           \* bound: job rows ever created

ASSUME ConstantsAssumption ==
    /\ Types # {}
    /\ Procs # {}
    /\ IsFiniteSet(Slots)
    /\ CappedTypes \subseteq Types
    /\ UncheckedTypes \subseteq Types
    /\ ProcOf \in [Slots -> Procs]
    /\ MainThread \subseteq Slots
    /\ Triggers \subseteq Slots \X Types
    /\ Enqueues \subseteq Slots \X Types
    /\ Operators \subseteq Slots
    /\ Pollers \subseteq Slots
    /\ MaxAge \in Nat
    /\ {StaleCancelling, StaleRunning, MaxRuntime} \subseteq 0..MaxAge
    /\ StaleCancelling <= StaleRunning
    /\ MaxJobs \in Nat

VARIABLES
    rows,    \* the table: one record per job id
    execs,   \* the executor thread of each job
    reqs,    \* the request each slot is serving
    handlers,  \* processes that installed the shutdown signal handlers
    event      \* processes whose _PROCESS_CANCELLATION_EVENT is set

vars == <<rows, execs, reqs, handlers, event>>

Jobs == 1..MaxJobs
Ages == 0..MaxAge   \* ticks since started_at

Active == {"running", "cancelling"}
Terminal == {"success", "failed", "cancelled"}
Status == {"absent"} \cup Active \cup Terminal

AnyType == CHOOSE t \in Types : TRUE

-----------------------------------------------------------------------------
(* Records                                                                 *)

Row == [type : Types, status : Status, finished : BOOLEAN, age : Ages]
NoRow == [type |-> AnyType, status |-> "absent", finished |-> FALSE, age |-> 0]

\* What an ORM object remembers of a row; NoCopy is an expired or absent object.
Copy == [status : Status \cup {"none"}, finished : BOOLEAN]
NoCopy == [status |-> "none", finished |-> FALSE]
CopyOf(j) == [status |-> rows[j].status, finished |-> rows[j].finished]

\* body: inside _run_job; mark, marking: _mark_job_cancelling; close, closing: the
\* three tails of _execute_job; stopped: returned; lost: died with its process.
Live == {"body", "mark", "marking", "close", "closing"}
Exec == [pc : Live \cup {"none", "stopped", "lost"}, proc : Procs,
         outcome : Terminal \cup {"none"}, copy : Copy]
AnyProc == CHOOSE p \in Procs : TRUE
NoExec == [pc |-> "none", proc |-> AnyProc, outcome |-> "none", copy |-> NoCopy]

Op == {"none", "trigger", "enqueue", "cancel", "clear", "status"}
Req == [pc : {"idle", "reap", "serve", "insert", "wait", "cancel", "clear"},
        op : Op, type : Types, job : Jobs \cup {0}, todo : SUBSET Jobs,
        seen : Status]
Idle == [pc |-> "idle", op |-> "none", type |-> AnyType, job |-> 0, todo |-> {},
         seen |-> "absent"]

TypeOK ==
    /\ rows \in [Jobs -> Row]
    /\ execs \in [Jobs -> Exec]
    /\ reqs \in [Slots -> Req]
    /\ handlers \subseteq Procs
    /\ event \subseteq Procs

-----------------------------------------------------------------------------
(* Queries                                                                 *)

IsOpen(j) == ~rows[j].finished /\ rows[j].status \in Active

\* Mutant: the active-row query forgets `cancelling`.
OpenRunningOfType(t) == {j \in Jobs : /\ ~rows[j].finished /\ rows[j].status = "running"
                                      /\ rows[j].type = t}

OpenOfType(t) == {j \in Jobs : IsOpen(j) /\ rows[j].type = t}

\* Mutants: the reaper without its cutoff, and with the cutoff inverted.
CancellingOfAnyAge ==
    {j \in Jobs : rows[j].status = "cancelling" /\ ~rows[j].finished}
CancellingStillYoung ==
    {j \in Jobs : /\ rows[j].status = "cancelling" /\ ~rows[j].finished
                  /\ rows[j].age < StaleCancelling}

\* The select of _finalize_stale_cancelling_jobs: staleness counts from started_at.
StaleCancellingJobs ==
    {j \in Jobs : /\ rows[j].status = "cancelling"
                  /\ ~rows[j].finished
                  /\ rows[j].age >= StaleCancelling}

\* Mutant: clear_stale_jobs without its cutoff.
OpenJobs == {j \in Jobs : IsOpen(j)}

\* The select of clear_stale_jobs.
StaleJobs == {j \in Jobs : IsOpen(j) /\ rows[j].age >= StaleRunning}

\* Mutant: the reaper writes a status the other queries do not know.
CloseAllMisspelt(S, status) ==
    [j \in Jobs |-> IF j \in S
                    THEN [rows[j] EXCEPT !.status = IF status = "cancelled" THEN "canceled"
                                                    ELSE status,
                                         !.finished = TRUE]
                    ELSE rows[j]]

\* One UPDATE that closes every row of S; each was loaded with another status.
CloseAll(S, status) ==
    [j \in Jobs |-> IF j \in S
                    THEN [rows[j] EXCEPT !.status = status, !.finished = TRUE]
                    ELSE rows[j]]

\* The status an UPDATE leaves behind: unwritten when it equals the loaded one.
Written(j, loaded, new) == IF loaded = new THEN rows[j].status ELSE new

-----------------------------------------------------------------------------
Init ==
    /\ rows = [j \in Jobs |-> NoRow]
    /\ execs = [j \in Jobs |-> NoExec]
    /\ reqs = [s \in Slots |-> Idle]
    /\ handlers = {}
    /\ event = {}

-----------------------------------------------------------------------------
(* Requests.  SyncService() is built for each call and tries to install the *)
(* signal handlers, which only the main thread may do.                      *)

MayCall(s, op, t, j) ==
    \/ op = "trigger" /\ <<s, t>> \in Triggers /\ j = 0
    \/ op = "enqueue" /\ <<s, t>> \in Enqueues /\ j = 0
    \/ op = "cancel" /\ s \in Operators /\ t = AnyType /\ j \in Jobs
    \/ op = "status" /\ s \in Pollers /\ t = AnyType /\ j = 0

BuildService(s) ==
    handlers' = IF s \in MainThread THEN handlers \cup {ProcOf[s]} ELSE handlers

\* Where a request goes once stale rows are dealt with: a dashboard read is over.
Served(r) == IF r.op = "status" THEN Idle ELSE [r EXCEPT !.pc = "serve", !.todo = {}]

\* A call arrives and selects the stale cancelling rows.
Arrive(s, op, t, j) ==
    /\ reqs[s].pc = "idle"
    /\ MayCall(s, op, t, j)
    /\ BuildService(s)
    /\ LET r == [Idle EXCEPT !.op = op, !.type = t, !.job = j]
       IN  reqs' = [reqs EXCEPT ![s] =
               IF StaleCancellingJobs = {} THEN Served(r)
               ELSE [r EXCEPT !.pc = "reap", !.todo = StaleCancellingJobs]]
    /\ UNCHANGED <<rows, execs, event>>

\* ... and commits them as cancelled, whatever became of them since the select.
Reap(s) ==
    /\ reqs[s].pc = "reap"
    /\ rows' = CloseAll(reqs[s].todo, "cancelled")
    /\ reqs' = [reqs EXCEPT ![s] = Served(reqs[s])]
    /\ UNCHANGED <<execs, handlers, event>>

\* _get_active_job_run: an active row of the type is returned instead of a new one.
LookForActive(s) ==
    /\ reqs[s].pc = "serve"
    /\ reqs[s].op \in {"trigger", "enqueue"}
    /\ reqs' = [reqs EXCEPT ![s] = IF OpenOfType(reqs[s].type) # {} THEN Idle
                                   ELSE [reqs[s] EXCEPT !.pc = "insert"]]
    /\ UNCHANGED <<rows, execs, handlers, event>>

\* Ids are handed out in order.
IsNextId(j) ==
    /\ rows[j].status = "absent"
    /\ \A k \in Jobs : k < j => rows[k].status # "absent"

\* _create_job_run and the hand-over to the executor.  trigger_job executes in the
\* caller's session and keeps the new object alive in it; the daemon thread of
\* enqueue_job opens a session of its own.
CreateRun(s, j) ==
    /\ reqs[s].pc = "insert"
    /\ IsNextId(j)
    /\ rows' = [rows EXCEPT ![j] = [type |-> reqs[s].type, status |-> "running",
                                    finished |-> FALSE, age |-> 0]]
    /\ execs' = [execs EXCEPT ![j] =
           [pc |-> "body", proc |-> ProcOf[s], outcome |-> "none",
            copy |-> IF reqs[s].op = "trigger"
                     THEN [status |-> "running", finished |-> FALSE]
                     ELSE NoCopy]]
    /\ reqs' = [reqs EXCEPT ![s] = IF reqs[s].op = "trigger"
                                   THEN [reqs[s] EXCEPT !.pc = "wait", !.job = j]
                                   ELSE Idle]
    /\ UNCHANGED <<handlers, event>>

\* trigger_job returns to its caller when its executor does.
TriggerReturns(s) ==
    /\ reqs[s].pc = "wait"
    /\ execs[reqs[s].job].pc = "stopped"
    /\ reqs' = [reqs EXCEPT ![s] = Idle]
    /\ UNCHANGED <<rows, execs, handlers, event>>

\* Mutant: cancel_job goes by the status alone and ignores finished_at.
CancelLoadByStatus(s) ==
    /\ reqs[s].pc = "serve"
    /\ reqs[s].op = "cancel"
    /\ LET j == reqs[s].job
       IN  reqs' = [reqs EXCEPT ![s] =
               IF rows[j].status \notin Active THEN Idle
               ELSE [reqs[s] EXCEPT !.pc = "cancel", !.seen = rows[j].status]]
    /\ UNCHANGED <<rows, execs, handlers, event>>

\* cancel_job loads the row and returns it as it is when it is over (or unknown).
CancelLoad(s) ==
    /\ reqs[s].pc = "serve"
    /\ reqs[s].op = "cancel"
    /\ LET j == reqs[s].job
       IN  reqs' = [reqs EXCEPT ![s] =
               IF rows[j].finished \/ rows[j].status \notin Active THEN Idle
               ELSE [reqs[s] EXCEPT !.pc = "cancel", !.seen = rows[j].status]]
    /\ UNCHANGED <<rows, execs, handlers, event>>

\* ... and commits `cancelling` over whatever the row has become.
CancelCommit(s) ==
    /\ reqs[s].pc = "cancel"
    /\ LET j == reqs[s].job
       IN  rows' = [rows EXCEPT ![j].status = Written(j, reqs[s].seen, "cancelling")]
    /\ reqs' = [reqs EXCEPT ![s] = Idle]
    /\ UNCHANGED <<execs, handlers, event>>

\* clear_stale_jobs: select, then commit as failed.
ClearLoad(s) ==
    /\ reqs[s].pc = "idle"
    /\ s \in Operators
    /\ StaleJobs # {}
    /\ BuildService(s)
    /\ reqs' = [reqs EXCEPT ![s] = [Idle EXCEPT !.pc = "clear", !.op = "clear",
                                                !.todo = StaleJobs]]
    /\ UNCHANGED <<rows, execs, event>>

ClearCommit(s) ==
    /\ reqs[s].pc = "clear"
    /\ rows' = CloseAll(reqs[s].todo, "failed")
    /\ reqs' = [reqs EXCEPT ![s] = Idle]
    /\ UNCHANGED <<execs, handlers, event>>

-----------------------------------------------------------------------------
(* The executor of job j                                                   *)

\* session.get: the object the session still holds, else the row.
Loaded(j) == IF execs[j].copy = NoCopy THEN CopyOf(j) ELSE execs[j].copy

\* Leaving _run_job by an exception rolls the session back, which expires its copy.
Raise(j, outcome) ==
    execs' = [execs EXCEPT ![j].pc = "close", ![j].outcome = outcome, ![j].copy = NoCopy]

\* The job's own work: it returns, or it raises.
BodyReturns(j) ==
    /\ execs[j].pc = "body"
    /\ execs' = [execs EXCEPT ![j].pc = "close", ![j].outcome = "success"]
    /\ UNCHANGED <<rows, reqs, handlers, event>>

BodyRaises(j) ==
    /\ execs[j].pc = "body"
    /\ Raise(j, "failed")
    /\ UNCHANGED <<rows, reqs, handlers, event>>

OverRuntime(j) ==
    rows[j].type \in CappedTypes /\ ~rows[j].finished /\ rows[j].age >= MaxRuntime

\* _check_for_cancellation, at a poll that does not let the body go on: a shutdown
\* signal or the runtime cap first marks the row, a cancelled row only raises.
\* (A poll that finds nothing changes nothing.)
MustMark(j) == execs[j].proc \in event \/ OverRuntime(j)

CheckForCancellation(j) ==
    /\ execs[j].pc = "body"
    /\ rows[j].type \notin UncheckedTypes
    /\ \/ /\ MustMark(j)
          /\ execs' = [execs EXCEPT ![j].pc = "mark"]
       \/ /\ ~MustMark(j)
          /\ rows[j].status \in {"cancelling", "cancelled"}
          /\ Raise(j, "cancelled")
    /\ UNCHANGED <<rows, reqs, handlers, event>>

\* _mark_job_cancelling: a finished row is left alone, another is marked.
MarkLoad(j) ==
    /\ execs[j].pc = "mark"
    /\ IF Loaded(j).finished
       THEN Raise(j, "cancelled")
       ELSE execs' = [execs EXCEPT ![j].pc = "marking", ![j].copy = Loaded(j)]
    /\ UNCHANGED <<rows, reqs, handlers, event>>

MarkCommit(j) ==
    /\ execs[j].pc = "marking"
    /\ rows' = [rows EXCEPT ![j].status = Written(j, execs[j].copy.status, "cancelling")]
    /\ Raise(j, "cancelled")
    /\ UNCHANGED <<reqs, handlers, event>>

\* The tails of _execute_job: load the row, then close it without looking at it.
CloseLoad(j) ==
    /\ execs[j].pc = "close"
    /\ execs' = [execs EXCEPT ![j].pc = "closing", ![j].copy = Loaded(j)]
    /\ UNCHANGED <<rows, reqs, handlers, event>>

\* Mutants: the tails forget finished_at, all of them or the cancelled one only.
CloseCommitUnfinished(j) ==
    /\ execs[j].pc = "closing"
    /\ rows' = [rows EXCEPT
                   ![j].status = Written(j, execs[j].copy.status, execs[j].outcome)]
    /\ execs' = [execs EXCEPT ![j].pc = "stopped", ![j].copy = NoCopy]
    /\ UNCHANGED <<reqs, handlers, event>>
CloseCommitCancelledUnfinished(j) ==
    /\ execs[j].pc = "closing"
    /\ rows' = [rows EXCEPT
                   ![j].status = Written(j, execs[j].copy.status, execs[j].outcome),
                   ![j].finished = @ \/ execs[j].outcome # "cancelled"]
    /\ execs' = [execs EXCEPT ![j].pc = "stopped", ![j].copy = NoCopy]
    /\ UNCHANGED <<reqs, handlers, event>>

CloseCommit(j) ==
    /\ execs[j].pc = "closing"
    /\ rows' = [rows EXCEPT
                   ![j].status = Written(j, execs[j].copy.status, execs[j].outcome),
                   ![j].finished = TRUE]
    /\ execs' = [execs EXCEPT ![j].pc = "stopped", ![j].copy = NoCopy]
    /\ UNCHANGED <<reqs, handlers, event>>

ExecStep(j) ==
    \/ BodyReturns(j) \/ BodyRaises(j)
    \/ CheckForCancellation(j) \/ MarkLoad(j) \/ MarkCommit(j)
    \/ CloseLoad(j) \/ CloseCommit(j)

-----------------------------------------------------------------------------
(* The environment                                                         *)

\* Time passes for an open row; rows started earlier stay the older ones.
Age(j) ==
    /\ IsOpen(j)
    /\ rows[j].age < MaxAge
    /\ \A k \in Jobs : k < j /\ IsOpen(k) =>
           rows[k].age > rows[j].age \/ rows[k].age = MaxAge
    /\ rows' = [rows EXCEPT ![j].age = @ + 1]
    /\ UNCHANGED <<execs, reqs, handlers, event>>

\* A process dies (exit, kill, power) and is started again: its threads, sessions and
\* signal state are gone, the rows stay as they were last committed.
Crash(p) ==
    /\ execs' = [j \in Jobs |-> IF execs[j].proc = p /\ execs[j].pc \in Live
                                THEN [execs[j] EXCEPT !.pc = "lost", !.outcome = "none", !.copy = NoCopy]
                                ELSE execs[j]]
    /\ reqs' = [s \in Slots |-> IF ProcOf[s] = p THEN Idle ELSE reqs[s]]
    /\ handlers' = handlers \ {p}
    /\ event' = event \ {p}
    /\ UNCHANGED rows

\* SIGINT or SIGTERM: an installed handler sets the cancellation event; without one
\* the signal ends the process and the jobs never hear of it.
Shutdown(p) ==
    IF p \in handlers
    THEN /\ p \notin event
         /\ event' = event \cup {p}
         /\ UNCHANGED <<rows, execs, reqs, handlers>>
    ELSE Crash(p)

-----------------------------------------------------------------------------
SlotStep(s) ==
    \/ Reap(s) \/ LookForActive(s) \/ TriggerReturns(s)
    \/ CancelLoad(s) \/ CancelCommit(s) \/ ClearCommit(s)
    \/ \E j \in Jobs : CreateRun(s, j)

\* What the program, its users and the clock do ...
Step ==
    \/ \E s \in Slots, op \in Op, t \in Types, j \in Jobs \cup {0} : Arrive(s, op, t, j)
    \/ \E s \in Slots : ClearLoad(s)
    \/ \E s \in Slots : SlotStep(s)
    \/ \E j \in Jobs : ExecStep(j)
    \/ \E j \in Jobs : Age(j)

\* ... and what ends a process.
Failure == \E p \in Procs : Shutdown(p) \/ Crash(p)

Next == Step \/ Failure

Spec == Init /\ [][Next]_vars

\* Threads run, bodies end, time passes and the dashboard polls every few seconds;
\* nobody has to cancel, clear, signal or crash anything.
Fairness ==
    /\ \A j \in Jobs : WF_vars(ExecStep(j)) /\ WF_vars(Age(j))
    /\ \A s \in Slots : WF_vars(SlotStep(s))
    /\ \A s \in Pollers : WF_vars(Arrive(s, "status", AnyType, 0))

-----------------------------------------------------------------------------
(* Properties                                                              *)

\* A recorded verdict is true of the run.  `success` is only written for a body that
\* returned; `failed` for one that raised, or a run old enough to be force-cleared;
\* `cancelled` for one that observed a cancellation, or a run old enough to be reaped
\* (_execute_job, clear_stale_jobs, _finalize_stale_cancelling_jobs) -- however the
\* stale writes of those three overwrite one another.
OutcomeHonest ==
    \A j \in Jobs :
        /\ rows[j].status = "success" => execs[j].outcome = "success"
        /\ rows[j].status = "failed" =>
               execs[j].outcome = "failed" \/ rows[j].age >= StaleRunning
        /\ rows[j].status = "cancelled" =>
               execs[j].outcome = "cancelled" \/ rows[j].age >= StaleCancelling

\* No path through _execute_job leaves its row open behind it: a row that is open has
\* an executor at work on it, or lost one in a crash.  (A row nobody works on and
\* nobody closes would block its job type for good.)
NoOrphanRow ==
    \A j \in Jobs : /\ IsOpen(j) => execs[j].pc \in Live \cup {"lost"}
                    /\ rows[j].status \in Terminal => rows[j].finished

\* The runs of a type that are not over, the threads that may start one, and those that
\* have looked for an active row, found none, and are about to insert one.
OpenRuns(t) == {j \in Jobs : rows[j].type = t /\ IsOpen(j)}
Starters(t) == {s \in Slots : <<s, t>> \in Triggers \cup Enqueues}
Starting(t) == {s \in Slots : reqs[s].pc = "insert" /\ reqs[s].type = t}

\* The guard of trigger_job and enqueue_job is a look and then an insert, with no lock
\* between, and any request thread may start any type.  It does not keep a type to one
\* open row, but it does keep it from growing: a look only passes while no row of the
\* type is open, so no thread ever adds a second one, and there are never more rows open
\* and starts under way than threads that start the type -- one, if there is one such
\* thread -- whatever is cancelled, reaped, cleared or lost, and however often they try.
OneRunPerStarter ==
    \A t \in Types :
        Cardinality(OpenRuns(t)) + Cardinality(Starting(t)) <= Cardinality(Starters(t))

\* Nobody but its executor closes a run that is younger than the grace period of the
\* reaper, so no second executor of the type can start beside it that early.
YoungRunsUndisturbed ==
    \A j \in Jobs : execs[j].pc \in Live /\ rows[j].finished =>
                        rows[j].age >= StaleCancelling

\* A run is settled when it is closed, its executor is gone, and no request still
\* holds a reading of it that it took while it was open.
Holds(s, j) == \/ reqs[s].pc \in {"reap", "clear"} /\ j \in reqs[s].todo
               \/ reqs[s].pc = "cancel" /\ j = reqs[s].job

Settled(j) == /\ rows[j].finished
              /\ execs[j].pc \notin Live
              /\ \A s \in Slots : ~Holds(s, j)

\* History is append-only once it has settled: no call ever picks a settled run up
\* again, so its row never changes and never reopens.
SettledForGood ==
    [][\A j \in Jobs : Settled(j) => rows'[j] = rows[j] /\ Settled(j)']_vars

\* A run asked to cancel comes to an end, even if its process dies: its executor
\* observes the request or finishes anyway, or the dashboard's poll reaps the row.
CancelledRunEnds ==
    \A j \in Jobs : rows[j].status = "cancelling" /\ ~rows[j].finished
                        ~> rows[j].finished

\* A run comes to an end without help as long as its process stays up.
RunEnds == \A j \in Jobs : IsOpen(j) ~> rows[j].finished \/ execs[j].pc = "lost"

-----------------------------------------------------------------------------
(* The inductive invariant, proved in SyncJobsProofs                       *)

\* A request that cancels a job names one.
CancelNamesJob ==
    \A s \in Slots : reqs[s].op = "cancel" => reqs[s].job \in Jobs

\* A row exists exactly when its executor was started; a verdict closes the row, and
\* an executor that returned has closed it.
RowsFollowExecs ==
    \A j \in Jobs :
        /\ rows[j].status = "absent" <=> execs[j].pc = "none"
        /\ rows[j].status = "absent" => ~rows[j].finished
        /\ rows[j].status \in Terminal => rows[j].finished
        /\ execs[j].pc = "stopped" => rows[j].finished

\* An executor has an outcome from the end of its body on, unless it died.
OutcomesSet ==
    \A j \in Jobs :
        /\ execs[j].pc \in {"close", "closing", "stopped"} => execs[j].outcome \in Terminal
        /\ execs[j].pc \in {"none", "body", "mark", "marking", "lost"} =>
               execs[j].outcome = "none"

\* What a pending request read of a row and no other session can undo: that the row
\* exists, and how old it is at least.
ReadingsHold ==
    \A s \in Slots :
        /\ reqs[s].pc = "reap" =>
               \A j \in reqs[s].todo : rows[j].status # "absent" /\ rows[j].age >= StaleCancelling
        /\ reqs[s].pc = "clear" =>
               \A j \in reqs[s].todo : rows[j].status # "absent" /\ rows[j].age >= StaleRunning
        /\ reqs[s].pc = "cancel" =>
               reqs[s].job \in Jobs /\ rows[reqs[s].job].status # "absent"

\* While the executor has not closed the row, only old age explains a verdict.
UnclosedVerdicts ==
    \A j \in Jobs : execs[j].pc \in Live \cup {"lost"} =>
        /\ rows[j].status # "success"
        /\ rows[j].status = "failed" => rows[j].age >= StaleRunning
        /\ rows[j].finished => rows[j].age >= StaleCancelling

\* Starters only start what is theirs.
StartersEntitled ==
    \A s \in Slots :
        /\ reqs[s].pc \in {"reap", "serve", "insert"} /\ reqs[s].op \in {"trigger", "enqueue"} =>
               <<s, reqs[s].type>> \in Triggers \cup Enqueues
        /\ reqs[s].pc = "insert" => reqs[s].op \in {"trigger", "enqueue"}

\* All of it: what every state of the job table and its readers satisfies, each
\* part kept by every step because the others hold.
IInv ==
    /\ TypeOK /\ CancelNamesJob
    /\ RowsFollowExecs /\ OutcomesSet /\ ReadingsHold /\ UnclosedVerdicts
    /\ OutcomeHonest
    /\ StartersEntitled /\ OneRunPerStarter

=============================================================================
