--------------------------- MODULE ScheduleConfig ---------------------------
(***************************************************************************)
(* Job schedules.  The API edits the rows of job_schedule_config; the      *)
(* worker applies them to its in-memory scheduler when it starts and then  *)
(* every five minutes, going by the row's updated_at and its own memory of *)
(* the last one it saw.  Nothing else connects the two processes.          *)
(***************************************************************************)
EXTENDS Naturals, FiniteSets

CONSTANTS
    ScheduledJobs, \* job types with a function in JOB_FUNCTIONS, each with a row
    Editors,       \* request threads that save a schedule
    Minutes,       \* values of interval_minutes
    Hours,         \* values of cron_hour that a trigger accepts
    BadHours,      \* values of cron_hour that add_job raises on
    Unset,         \* NULL, a field left out of a request, a version never seen
    Updates,       \* request bodies
    Seed,          \* the rows the migration inserts
    Fallback,      \* _FALLBACK_CONFIGS
    MaxEdits,      \* bound: schedules saved
    MaxCrashes     \* bound: times the worker dies

VARIABLES
    config,    \* the table
    edits,     \* the request each editor is serving
    clock,     \* utcnow, which onupdate stamps rows with
    up,        \* the worker runs
    sched,     \* the jobs of its scheduler
    seen,      \* _last_config_versions
    crashes

scheduleVars == <<config, edits, clock, up, sched, seen, crashes>>
worker == <<up, sched, seen, crashes>>

Trigger == {"interval", "cron"}
Fields == {"trigger", "minutes", "hour", "enabled"}
ConfigRow ==
    [trigger : Trigger, minutes : Minutes \cup {Unset},
     hour : Hours \cup BadHours \cup {Unset}, enabled : BOOLEAN, stamp : 0..MaxEdits]
Update == [trigger : Trigger \cup {Unset}, minutes : Minutes \cup {Unset},
           hour : Hours \cup BadHours \cup {Unset}, enabled : BOOLEAN \cup {Unset}]
Scheduled == [kind : Trigger, at : Minutes \cup Hours]

ASSUME ScheduleAssumption ==
    /\ Unset \notin Minutes \cup Hours \cup BadHours \cup 0..MaxEdits
    /\ Hours \cap BadHours = {}
    /\ Updates \subseteq Update
    /\ Seed \in [ScheduledJobs -> {r \in ConfigRow : r.stamp = 0}]
    /\ Fallback \in [ScheduledJobs -> Scheduled]
    /\ MaxEdits \in Nat /\ MaxCrashes \in Nat

Off == [kind |-> "off", at |-> Unset]

Edit == [pc : {"idle", "loaded", "stamped"}, job : ScheduledJobs \cup {Unset},
         loaded : ConfigRow \cup {Unset}, new : ConfigRow \cup {Unset}]
NoEdit == [pc |-> "idle", job |-> Unset, loaded |-> Unset, new |-> Unset]

ScheduleTypeOK ==
    /\ config \in [ScheduledJobs -> ConfigRow]
    /\ edits \in [Editors -> Edit]
    /\ clock \in 0..MaxEdits
    /\ up \in BOOLEAN
    /\ sched \in [ScheduledJobs -> Scheduled \cup {Off}]
    /\ seen \in [ScheduledJobs -> 0..MaxEdits \cup {Unset}]
    /\ crashes \in 0..MaxCrashes

ScheduleInit ==
    /\ config = Seed
    /\ edits = [e \in Editors |-> NoEdit]
    /\ clock = 0
    /\ up = FALSE
    /\ sched = [j \in ScheduledJobs |-> Off]
    /\ seen = [j \in ScheduledJobs |-> Unset]
    /\ crashes = 0

-----------------------------------------------------------------------------
(* update_schedule_config                                                  *)

\* Mutant: fields the request leaves out are stored as NULL.
MergedWithNulls(row, u) ==
    [row EXCEPT !.trigger = u.trigger, !.minutes = u.minutes, !.hour = u.hour,
                !.enabled = u.enabled]

\* Fields the request leaves out keep the value the session loaded.
Merged(row, u) ==
    [row EXCEPT !.trigger = IF u.trigger = Unset THEN @ ELSE u.trigger,
                !.minutes = IF u.minutes = Unset THEN @ ELSE u.minutes,
                !.hour = IF u.hour = Unset THEN @ ELSE u.hour,
                !.enabled = IF u.enabled = Unset THEN @ ELSE u.enabled]

Begun == {e \in Editors : edits[e].pc = "loaded"}

\* A request that changes nothing writes nothing, and leaves updated_at alone.
EditLoad(e, j, u) ==
    /\ edits[e].pc = "idle"
    /\ clock + Cardinality(Begun) < MaxEdits
    /\ Merged(config[j], u) # config[j]
    /\ edits' = [edits EXCEPT ![e] = [pc |-> "loaded", job |-> j, loaded |-> config[j],
                                      new |-> Merged(config[j], u)]]
    /\ UNCHANGED <<config, clock, worker>>

\* The flush computes the new updated_at, and then waits for the row like any UPDATE.
EditStamp(e) ==
    /\ edits[e].pc = "loaded"
    /\ clock' = clock + 1
    /\ edits' = [edits EXCEPT ![e].pc = "stamped", ![e].new.stamp = clock + 1]
    /\ UNCHANGED <<config, worker>>

\* Only the columns that differ from the loaded ones are written.
EditCommit(e) ==
    /\ edits[e].pc = "stamped"
    /\ LET r == edits[e]
       IN  config' = [config EXCEPT ![r.job] =
               [f \in Fields \cup {"stamp"} |->
                    IF r.new[f] = r.loaded[f] THEN config[r.job][f] ELSE r.new[f]]]
    /\ edits' = [edits EXCEPT ![e] = NoEdit]
    /\ UNCHANGED <<clock, worker>>

-----------------------------------------------------------------------------
(* The worker                                                              *)

Applicable(row) ==
    \/ ~row.enabled
    \/ row.trigger = "interval" /\ row.minutes # Unset
    \/ row.trigger = "cron" /\ row.hour # Unset

\* add_job raises on an hour no trigger accepts.
Raises(row) == row.enabled /\ row.trigger = "cron" /\ row.hour \in BadHours

\* _apply_schedule: the job is replaced or removed; an incomplete row is skipped with a
\* warning, whatever the scheduler had for it before.
Applied(row, now) ==
    IF ~Applicable(row) THEN now
    ELSE IF ~row.enabled THEN Off
    ELSE [kind |-> row.trigger,
          at |-> IF row.trigger = "interval" THEN row.minutes ELSE row.hour]

\* Rows are applied in no particular order up to the first that raises.
ProcessedOf(rows) ==
    LET bad == {j \in rows : Raises(config[j])}
    IN  IF bad = {} THEN {rows} ELSE SUBSET (rows \ bad)

\* What the process remembers and schedules once the rows of S are dealt with.
SeenAfter(S) == [j \in ScheduledJobs |-> IF j \in S THEN config[j].stamp ELSE seen[j]]
\* Mutant: a disabled row is noted and its job left in the scheduler.
SchedAfterIgnoringDisabled(S) ==
    [j \in ScheduledJobs |-> IF j \in S /\ config[j].enabled THEN Applied(config[j], sched[j])
                    ELSE sched[j]]

SchedAfter(S) ==
    [j \in ScheduledJobs |-> IF j \in S THEN Applied(config[j], sched[j]) ELSE sched[j]]

\* register_jobs at the start of the process.  An exception, from the query or from a
\* row, puts the fallback schedule over everything.
StartLoaded ==
    /\ ~up
    /\ up' = TRUE
    /\ \E S \in ProcessedOf(ScheduledJobs) :
          /\ seen' = SeenAfter(S)
          /\ sched' = IF S = ScheduledJobs THEN SchedAfter(S) ELSE Fallback
    /\ UNCHANGED <<config, edits, clock, crashes>>

\* Mutant: the fallback remembers the versions it stands in for.
StartFallbackRemembering ==
    /\ ~up
    /\ up' = TRUE
    /\ sched' = Fallback
    /\ seen' = SeenAfter(ScheduledJobs)
    /\ UNCHANGED <<config, edits, clock, crashes>>

\* The database does not answer.
StartFallback ==
    /\ ~up
    /\ up' = TRUE
    /\ sched' = Fallback
    /\ UNCHANGED <<config, edits, clock, seen, crashes>>

Changed ==
    {j \in ScheduledJobs : seen[j] = Unset \/ (seen[j] # Unset /\ config[j].stamp > seen[j])}

\* _check_config_changes: what was applied before a row raised stays applied.  (When the
\* database does not answer nothing changes.)
CheckConfigChanges ==
    /\ up
    /\ Changed # {}
    /\ \E S \in ProcessedOf(Changed) :
          /\ seen' = SeenAfter(S)
          /\ sched' = SchedAfter(S)
    /\ UNCHANGED <<config, edits, clock, up, crashes>>

\* The worker dies; scheduler and memory die with it.
WorkerCrash ==
    /\ up
    /\ crashes < MaxCrashes
    /\ crashes' = crashes + 1
    /\ up' = FALSE
    /\ sched' = [j \in ScheduledJobs |-> Off]
    /\ seen' = [j \in ScheduledJobs |-> Unset]
    /\ UNCHANGED <<config, edits, clock>>

-----------------------------------------------------------------------------
EditStep(e) == EditStamp(e) \/ EditCommit(e)

ScheduleNext ==
    \/ \E e \in Editors, j \in ScheduledJobs, u \in Updates : EditLoad(e, j, u)
    \/ \E e \in Editors : EditStep(e)
    \/ StartLoaded \/ StartFallback \/ CheckConfigChanges \/ WorkerCrash

\* Requests finish, a dead worker is started again, and one of its five-minute checks
\* finds the database up.
ScheduleSpec ==
    /\ ScheduleInit /\ [][ScheduleNext]_scheduleVars
    /\ \A e \in Editors : WF_scheduleVars(EditStep(e))
    /\ WF_scheduleVars(StartLoaded \/ StartFallback)
    /\ WF_scheduleVars(CheckConfigChanges)

-----------------------------------------------------------------------------
(* Properties                                                              *)

InForce(j) == sched[j] = Applied(config[j], sched[j])

\* The memory of the worker is true: a row whose version it remembers is the schedule in
\* force, through restarts, fallbacks and edits.  What it has marked as seen it never
\* looks at again, so nothing else would repair a difference.
SeenIsInForce == \A j \in ScheduledJobs : up /\ seen[j] = config[j].stamp => InForce(j)

\* A saved schedule is in force for good some time after the last edit, although the
\* worker may die, may find no database when it comes back, and two editors may have
\* written columns of the same row -- unless the row ends up with an older updated_at
\* than the worker has seen.
ChangesApply ==
    \A j \in ScheduledJobs :
        <>[](seen[j] = Unset \/ config[j].stamp >= seen[j]) => <>[](up /\ InForce(j))

-----------------------------------------------------------------------------
(* The inductive invariant, proved in SyncJobsProofs                       *)

\* Requests being served name a row and what they loaded of it; the clock has room for
\* the stamps that are still to come.
EditsComplete ==
    /\ \A e \in Editors : edits[e].pc # "idle" =>
           /\ edits[e].job \in ScheduledJobs
           /\ edits[e].loaded \in ConfigRow /\ edits[e].new \in ConfigRow
    /\ IsFiniteSet(Begun) /\ clock + Cardinality(Begun) <= MaxEdits

\* No updated_at that the worker, the table or a session knows of lies in the future.
StampsPast ==
    /\ \A j \in ScheduledJobs : config[j].stamp <= clock /\ (seen[j] = Unset \/ seen[j] <= clock)
    /\ \A e \in Editors : edits[e].pc = "loaded" => edits[e].loaded.stamp <= clock
    /\ \A e \in Editors : edits[e].pc = "stamped" =>
           edits[e].new.stamp <= clock /\ edits[e].loaded.stamp < edits[e].new.stamp

\* A stamp about to be committed is nobody else's: not of its row, not of another
\* request, and the worker has not seen it.
StampsFresh ==
    \A e \in Editors : edits[e].pc = "stamped" =>
        /\ \A j \in ScheduledJobs : config[j].stamp # edits[e].new.stamp
                           /\ seen[j] # edits[e].new.stamp
        /\ \A f \in Editors : edits[f].pc = "stamped" /\ f # e =>
               edits[f].new.stamp # edits[e].new.stamp

\* A worker that is down remembers nothing.
DownForgets == ~up => \A j \in ScheduledJobs : seen[j] = Unset

Versions == ScheduleTypeOK /\ EditsComplete /\ StampsPast /\ StampsFresh /\ DownForgets

ScheduleInv == Versions /\ SeenIsInForce

\* No row holds an hour that add_job raises on.
NoneRaises == \A j \in ScheduledJobs : ~Raises(config[j])
=============================================================================
