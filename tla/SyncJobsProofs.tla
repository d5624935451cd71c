--------------------------- MODULE SyncJobsProofs ---------------------------
(***************************************************************************)
(* The safety of job runs for any number of processes, threads, job types  *)
(* and rows.  One inductive invariant, IInv of SyncJobs, carries every     *)
(* theorem: what each request that has read the table but not yet written  *)
(* to it may still rely on, although other sessions write in between.      *)
(*                                                                         *)
(* The second part proves that the job service implements the ledger: each *)
(* action of SyncJobs maps to one of JobLedger, or changes nothing there.  *)
(*                                                                         *)
(* The third part is about the worker that starts runs on a schedule: its  *)
(* memory is true for any jobs, editors and requests.  It compares         *)
(* versions and nothing else, so the argument is about versions: a stamp   *)
(* that is about to be committed is one that nobody has seen, even when    *)
(* the commits come in another order than the stamps.                      *)
(***************************************************************************)
EXTENDS SyncJobsLedger, ScheduleConfig, FiniteSetTheorems, TLAPS

-----------------------------------------------------------------------------
(* Types                                                                   *)

\* The records a handler starts from are of their types: an absent row, an expired
\* copy, an executor never started, an idle slot.
LEMMA RecordTypes ==
    /\ AnyType \in Types /\ AnyProc \in Procs
    /\ NoRow \in Row /\ NoCopy \in Copy /\ NoExec \in Exec /\ Idle \in Req
<1>1. AnyType \in Types
  BY ConstantsAssumption DEF AnyType
<1>2. AnyProc \in Procs
  BY ConstantsAssumption DEF AnyProc
<1>3. 0 \in Ages
  BY ConstantsAssumption DEF Ages
<1> QED
  BY <1>1, <1>2, <1>3
  DEF NoRow, Row, NoCopy, Copy, NoExec, Exec, Idle, Req, Status, Active, Terminal, Op

\* The empty table and the idle slots are typed.
LEMMA InitTypes == Init => TypeOK /\ CancelNamesJob
  BY RecordTypes DEF Init, TypeOK, CancelNamesJob, Idle

\* What the handlers build from typed parts is typed.
LEMMA ServedType == \A r \in Req : Served(r) \in Req
  BY RecordTypes DEF Served, Req

\* The UPDATE of the reaper and of clear_stale_jobs keeps the table typed.
LEMMA CloseAllType ==
    ASSUME TypeOK, NEW S, NEW status \in Terminal
    PROVE  CloseAll(S, status) \in [Jobs -> Row]
  BY DEF TypeOK, CloseAll, Row, Status

\* What session.get returns is a typed copy, cached or fresh.
LEMMA LoadedType ==
    ASSUME TypeOK, NEW j \in Jobs
    PROVE  Loaded(j) \in Copy
<1>1. CopyOf(j) \in Copy
  BY DEF TypeOK, CopyOf, Copy, Row
<1>2. execs[j].copy \in Copy
  BY DEF TypeOK, Exec
<1> QED
  BY <1>1, <1>2 DEF Loaded

\* The status an UPDATE leaves behind is one of the known ones.
LEMMA WrittenType ==
    ASSUME TypeOK, NEW j \in Jobs, NEW loaded, NEW new \in Status
    PROVE  Written(j, loaded, new) \in Status
  BY DEF TypeOK, Written, Row

\* Leaving _run_job by an exception leaves a typed executor.
LEMMA RaiseType ==
    ASSUME TypeOK, NEW j \in Jobs, NEW outcome \in Terminal, Raise(j, outcome)
    PROVE  execs' \in [Jobs -> Exec]
  BY RecordTypes DEF TypeOK, Raise, Exec, Live

\* No handler, executor step, crash or signal writes anything untyped.
LEMMA TypesStep ==
    ASSUME TypeOK, CancelNamesJob, OutcomesSet, [Next]_vars
    PROVE  TypeOK' /\ CancelNamesJob'
<1> USE DEF TypeOK, CancelNamesJob
<1>1. ASSUME NEW s \in Slots, NEW op \in Op, NEW t \in Types, NEW j \in Jobs \cup {0},
             Arrive(s, op, t, j)
      PROVE  TypeOK' /\ CancelNamesJob'
  <2> DEFINE r == [Idle EXCEPT !.op = op, !.type = t, !.job = j]
  <2>1. StaleCancellingJobs \in SUBSET Jobs
    BY DEF StaleCancellingJobs
  <2>2. r \in Req /\ r.op = op /\ r.job = j
    BY RecordTypes DEF Req, Idle
  <2>3. Served(r) \in Req /\ [r EXCEPT !.pc = "reap", !.todo = StaleCancellingJobs] \in Req
    BY <2>1, <2>2, RecordTypes DEF Served, Req
  <2>4. op = "cancel" => j \in Jobs
    BY <1>1 DEF Arrive, MayCall
  <2>5. handlers' \subseteq Procs
    BY <1>1, ConstantsAssumption DEF Arrive, BuildService
  <2> QED
    BY <1>1, <2>2, <2>3, <2>4, <2>5 DEF Arrive, Served, Idle
<1>2. ASSUME NEW s \in Slots, ClearLoad(s)
      PROVE  TypeOK' /\ CancelNamesJob'
  BY <1>2, ConstantsAssumption, RecordTypes DEF ClearLoad, StaleJobs, BuildService, Idle, Op, Req
<1>3. ASSUME NEW s \in Slots, Reap(s)
      PROVE  TypeOK' /\ CancelNamesJob'
  <2>1. rows' \in [Jobs -> Row]
    BY <1>3, CloseAllType DEF Reap, Terminal
  <2>2. reqs' \in [Slots -> Req]
    BY <1>3, ServedType DEF Reap
  <2>3. CancelNamesJob'
    BY <1>3 DEF Reap, Served, Idle, Req
  <2> QED
    BY <1>3, <2>1, <2>2, <2>3 DEF Reap
<1>4. ASSUME NEW s \in Slots, LookForActive(s)
      PROVE  TypeOK' /\ CancelNamesJob'
  BY <1>4, RecordTypes DEF LookForActive, Idle, Req
<1>5. ASSUME NEW s \in Slots, TriggerReturns(s)
      PROVE  TypeOK' /\ CancelNamesJob'
  BY <1>5, RecordTypes DEF TriggerReturns, Idle
<1>6. ASSUME NEW s \in Slots, CancelLoad(s)
      PROVE  TypeOK' /\ CancelNamesJob'
  BY <1>6, RecordTypes DEF CancelLoad, Idle, Req, Row
<1>7. ASSUME NEW s \in Slots, CancelCommit(s)
      PROVE  TypeOK' /\ CancelNamesJob'
  BY <1>7, RecordTypes DEF CancelCommit, Written, Idle, Req, Row, Status, Active
<1>8. ASSUME NEW s \in Slots, ClearCommit(s)
      PROVE  TypeOK' /\ CancelNamesJob'
  BY <1>8, RecordTypes DEF ClearCommit, CloseAll, Idle, Req, Row, Status, Terminal
<1>9. ASSUME NEW s \in Slots, NEW j \in Jobs, CreateRun(s, j)
      PROVE  TypeOK' /\ CancelNamesJob'
  <2>1. reqs[s].type \in Types /\ ProcOf[s] \in Procs /\ 0 \in Ages
    BY ConstantsAssumption DEF Req, Ages
  <2>2. rows' \in [Jobs -> Row]
    BY <1>9, <2>1 DEF CreateRun, Row, Status, Active
  <2>3. execs' \in [Jobs -> Exec]
    BY <1>9, <2>1, RecordTypes DEF CreateRun, Exec, Live, Copy, Status, Active
  <2>4. reqs' \in [Slots -> Req] /\ CancelNamesJob'
    BY <1>9, RecordTypes DEF CreateRun, Req, Idle
  <2> QED
    BY <1>9, <2>2, <2>3, <2>4 DEF CreateRun
<1>10. ASSUME NEW j \in Jobs, BodyReturns(j)
      PROVE  TypeOK' /\ CancelNamesJob'
  BY <1>10 DEF BodyReturns, Exec, Live, Terminal
<1>11. ASSUME NEW j \in Jobs, BodyRaises(j)
      PROVE  TypeOK' /\ CancelNamesJob'
  BY <1>11, RecordTypes DEF BodyRaises, Raise, Exec, Live, Terminal
<1>12. ASSUME NEW j \in Jobs, CheckForCancellation(j)
      PROVE  TypeOK' /\ CancelNamesJob'
  BY <1>12, RecordTypes DEF CheckForCancellation, Raise, Exec, Live, Terminal
<1>13. ASSUME NEW j \in Jobs, MarkLoad(j)
      PROVE  TypeOK' /\ CancelNamesJob'
  <2>1. execs' \in [Jobs -> Exec]
    <3>1. CASE Loaded(j).finished
      BY <1>13, <3>1, RaiseType DEF MarkLoad, Terminal
    <3>2. CASE ~Loaded(j).finished
      BY <1>13, <3>2, LoadedType DEF MarkLoad, Exec, Live
    <3> QED
      BY <3>1, <3>2
  <2> QED
    BY <1>13, <2>1 DEF MarkLoad
<1>14. ASSUME NEW j \in Jobs, MarkCommit(j)
      PROVE  TypeOK' /\ CancelNamesJob'
  <2>1. rows' \in [Jobs -> Row]
    BY <1>14, WrittenType DEF MarkCommit, Row, Status, Active
  <2>2. execs' \in [Jobs -> Exec]
    BY <1>14, RaiseType DEF MarkCommit, Terminal
  <2> QED
    BY <1>14, <2>1, <2>2 DEF MarkCommit
<1>15. ASSUME NEW j \in Jobs, CloseLoad(j)
      PROVE  TypeOK' /\ CancelNamesJob'
  BY <1>15, LoadedType DEF CloseLoad, Exec, Live
<1>16. ASSUME NEW j \in Jobs, CloseCommit(j)
      PROVE  TypeOK' /\ CancelNamesJob'
  <2>1. execs[j].outcome \in Status
    BY <1>16 DEF CloseCommit, OutcomesSet, Status
  <2>2. rows' \in [Jobs -> Row]
    BY <1>16, <2>1, WrittenType DEF CloseCommit, Row
  <2>3. execs' \in [Jobs -> Exec]
    BY <1>16, RecordTypes DEF CloseCommit, Exec
  <2> QED
    BY <1>16, <2>2, <2>3 DEF CloseCommit
<1>17. ASSUME NEW j \in Jobs, Age(j)
      PROVE  TypeOK' /\ CancelNamesJob'
  BY <1>17, ConstantsAssumption DEF Age, Row, Ages
<1>18. ASSUME NEW p \in Procs, Crash(p)
      PROVE  TypeOK' /\ CancelNamesJob'
  BY <1>18, RecordTypes DEF Crash, Exec, Live, Idle
<1>19. ASSUME NEW p \in Procs, Shutdown(p)
      PROVE  TypeOK' /\ CancelNamesJob'
  BY <1>18, <1>19 DEF Shutdown
<1>20. CASE UNCHANGED vars
  BY <1>20 DEF vars
<1> QED
  BY <1>1, <1>2, <1>3, <1>4, <1>5, <1>6, <1>7, <1>8, <1>9, <1>10, <1>11, <1>12, <1>13, <1>14, <1>15, <1>16, <1>17, <1>18, <1>19, <1>20
  DEF Next, Step, Failure, SlotStep, ExecStep

-----------------------------------------------------------------------------
(* Executors                                                               *)

\* Only an executor and a crash touch an executor, and requests start new ones.
LEMMA OutcomesStep ==
    ASSUME TypeOK, OutcomesSet, [Next]_vars
    PROVE  OutcomesSet'
<1> USE DEF TypeOK, OutcomesSet, Live, Terminal
<1>1. CASE UNCHANGED execs
  BY <1>1
<1>2. ASSUME NEW s \in Slots, NEW j \in Jobs, CreateRun(s, j)
      PROVE  OutcomesSet'
  BY <1>2 DEF CreateRun
<1>3. ASSUME NEW j \in Jobs, NEW outcome \in Terminal, Raise(j, outcome)
      PROVE  OutcomesSet'
  BY <1>3 DEF Raise, Exec
<1>4. ASSUME NEW j \in Jobs, ExecStep(j)
      PROVE  OutcomesSet'
  <2>1. CASE BodyReturns(j)
    BY <2>1 DEF BodyReturns, Exec
  <2>2. CASE BodyRaises(j)
    BY <2>2, <1>3 DEF BodyRaises
  <2>3. CASE CheckForCancellation(j)
    BY <2>3, <1>3 DEF CheckForCancellation, Exec
  <2>4. CASE MarkLoad(j)
    BY <2>4, <1>3 DEF MarkLoad, Exec
  <2>5. CASE MarkCommit(j)
    BY <2>5, <1>3 DEF MarkCommit
  <2>6. CASE CloseLoad(j)
    BY <2>6 DEF CloseLoad, Exec
  <2>7. CASE CloseCommit(j)
    BY <2>7 DEF CloseCommit, Exec
  <2> QED
    BY <1>4, <2>1, <2>2, <2>3, <2>4, <2>5, <2>6, <2>7 DEF ExecStep
<1>5. ASSUME NEW p \in Procs, Crash(p)
      PROVE  OutcomesSet'
  BY <1>5 DEF Crash, Exec
<1>6. ASSUME NEW p \in Procs, Shutdown(p)
      PROVE  OutcomesSet'
  BY <1>1, <1>5, <1>6 DEF Shutdown
<1> QED
  BY <1>1, <1>2, <1>4, <1>5, <1>6
  DEF Next, Step, Failure, SlotStep, vars, Arrive, Reap, LookForActive, TriggerReturns,
      CancelLoad, CancelCommit, ClearLoad, ClearCommit, Age

-----------------------------------------------------------------------------
(* Rows                                                                    *)

\* What closing a set of rows does to each row (the reaper, clear_stale_jobs).
LEMMA RowsClosed ==
    ASSUME TypeOK, NEW S, NEW status, rows' = CloseAll(S, status), NEW j \in Jobs
    PROVE  /\ j \notin S => rows'[j] = rows[j]
           /\ j \in S => /\ rows'[j].status = status
                        /\ rows'[j].finished
                        /\ rows'[j].type = rows[j].type
                        /\ rows'[j].age = rows[j].age
<1>1. rows[j] \in Row
  BY DEF TypeOK
<1>2. j \in S => rows'[j] = [rows[j] EXCEPT !.status = status, !.finished = TRUE]
  BY DEF CloseAll
<1>3. j \notin S => rows'[j] = rows[j]
  BY DEF CloseAll
<1> QED
  BY <1>1, <1>2, <1>3 DEF Row

\* A row that exists keeps its type, never gets younger and is never reopened.
LEMMA RowGrows ==
    ASSUME TypeOK, OutcomesSet, [Next]_vars, NEW j \in Jobs, rows[j].status # "absent"
    PROVE  /\ rows'[j].status # "absent"
           /\ rows'[j].type = rows[j].type
           /\ rows'[j].age >= rows[j].age
           /\ rows[j].finished => rows'[j].finished
<1> DEFINE Grown == /\ rows'[j].status # "absent"
                    /\ rows'[j].type = rows[j].type
                    /\ rows'[j].age >= rows[j].age
                    /\ rows[j].finished => rows'[j].finished
<1> USE DEF TypeOK
<1>0. rows[j].age \in Nat
  BY ConstantsAssumption DEF Row, Ages
<1>1. CASE rows'[j] = rows[j]
  BY <1>0, <1>1
<1>2. ASSUME NEW s \in Slots, Reap(s) \/ ClearCommit(s)
      PROVE  Grown
  <2>1. PICK S, status : /\ rows' = CloseAll(S, status)
                         /\ status \in {"cancelled", "failed"}
    BY <1>2 DEF Reap, ClearCommit
  <2>2. CASE j \in S
    BY <1>0, <2>1, <2>2, RowsClosed
  <2>3. CASE j \notin S
    BY <1>1, <2>1, <2>3, RowsClosed
  <2> QED
    BY <2>2, <2>3
<1>3. ASSUME NEW s \in Slots, NEW k \in Jobs, CreateRun(s, k)
      PROVE  Grown
  BY <1>1, <1>3 DEF CreateRun, IsNextId
<1>4. ASSUME NEW s \in Slots, CancelCommit(s)
      PROVE  Grown
  <2>1. CASE reqs[s].job = j
    BY <1>0, <1>4, <2>1 DEF CancelCommit, Written, Row
  <2>2. CASE reqs[s].job # j
    BY <1>1, <1>4, <2>2 DEF CancelCommit
  <2> QED
    BY <2>1, <2>2
<1>5. ASSUME NEW k \in Jobs, MarkCommit(k)
      PROVE  Grown
  BY <1>0, <1>5 DEF MarkCommit, Written, Row
<1>6. ASSUME NEW k \in Jobs, CloseCommit(k)
      PROVE  Grown
  <2>1. execs[k].outcome # "absent"
    BY <1>6 DEF CloseCommit, OutcomesSet, Terminal
  <2> QED
    BY <1>0, <1>6, <2>1 DEF CloseCommit, Written, Row
<1>7. ASSUME NEW k \in Jobs, Age(k)
      PROVE  Grown
  BY <1>0, <1>7, ConstantsAssumption DEF Age, Row, Ages
<1> QED
  BY <1>1, <1>2, <1>3, <1>4, <1>5, <1>6, <1>7
  DEF Next, Step, Failure, SlotStep, ExecStep, vars, Arrive, LookForActive, TriggerReturns,
      CancelLoad, ClearLoad, BodyReturns, BodyRaises, CheckForCancellation, MarkLoad,
      CloseLoad, Crash, Shutdown

\* Only CreateRun opens a row.
LEMMA OpensOnlyByCreateRun ==
    ASSUME TypeOK, OutcomesSet, RowsFollowExecs, ReadingsHold, [Next]_vars, NEW j \in Jobs,
           IsOpen(j)', ~IsOpen(j)
    PROVE  \E s \in Slots : CreateRun(s, j)
<1> USE DEF TypeOK, IsOpen, Active
<1>1. rows[j].status \in Terminal => rows[j].finished
  BY DEF RowsFollowExecs
<1>2. rows[j].status = "absent"
  BY <1>1, RowGrows DEF Row, Status
<1>3. execs[j].pc = "none"
  BY <1>2 DEF RowsFollowExecs
<1>4. rows'[j] # rows[j]
  BY <1>2
<1>5. ASSUME NEW s \in Slots, Reap(s) \/ ClearCommit(s)
      PROVE  FALSE
  BY <1>2, <1>4, <1>5 DEF Reap, ClearCommit, CloseAll, ReadingsHold
<1>6. ASSUME NEW s \in Slots, CancelCommit(s)
      PROVE  FALSE
  BY <1>2, <1>4, <1>6 DEF CancelCommit, ReadingsHold
<1>7. ASSUME NEW k \in Jobs, MarkCommit(k) \/ CloseCommit(k) \/ Age(k)
      PROVE  FALSE
  BY <1>2, <1>3, <1>4, <1>7 DEF MarkCommit, CloseCommit, Age
<1>8. ASSUME NEW s \in Slots, NEW k \in Jobs, CreateRun(s, k)
      PROVE  k = j
  BY <1>4, <1>8 DEF CreateRun
<1> QED
  BY <1>4, <1>5, <1>6, <1>7, <1>8
  DEF Next, Step, Failure, SlotStep, ExecStep, vars, Arrive, LookForActive, TriggerReturns,
      CancelLoad, ClearLoad, BodyReturns, BodyRaises, CheckForCancellation, MarkLoad,
      CloseLoad, Crash, Shutdown

\* Rows and executors stay in step: CreateRun starts both, a tail closes the row before
\* its executor is gone, and nobody else removes either.
LEMMA RowsFollowExecsStep ==
    ASSUME TypeOK, OutcomesSet, ReadingsHold, RowsFollowExecs, [Next]_vars
    PROVE  RowsFollowExecs'
<1> USE DEF TypeOK, RowsFollowExecs
<1>1. CASE UNCHANGED <<rows, execs>>
  BY <1>1
<1>2. ASSUME NEW s \in Slots, Reap(s) \/ ClearCommit(s)
      PROVE  RowsFollowExecs'
  <2>1. PICK S, status : /\ rows' = CloseAll(S, status)
                         /\ status \in Terminal
                         /\ \A j \in S : j \in Jobs => rows[j].status # "absent"
    BY <1>2 DEF Reap, ClearCommit, Terminal, ReadingsHold
  <2>2. execs' = execs
    BY <1>2 DEF Reap, ClearCommit
  <2>3. status # "absent"
    BY <2>1 DEF Terminal
  <2> QED
    BY <2>1, <2>2, <2>3, RowsClosed
<1>3. ASSUME NEW s \in Slots, NEW j \in Jobs, CreateRun(s, j)
      PROVE  RowsFollowExecs'
  BY <1>3 DEF CreateRun, Terminal
<1>4. ASSUME NEW s \in Slots, CancelCommit(s)
      PROVE  RowsFollowExecs'
  <2>1. reqs[s].job \in Jobs /\ rows[reqs[s].job].status # "absent"
    BY <1>4 DEF CancelCommit, ReadingsHold
  <2> QED
    BY <1>4, <2>1 DEF CancelCommit, Written, Row, Terminal
<1>5. ASSUME NEW j \in Jobs, MarkCommit(j)
      PROVE  RowsFollowExecs'
  BY <1>5 DEF MarkCommit, Raise, Written, Row, Exec, Terminal
<1>6. ASSUME NEW j \in Jobs, CloseCommit(j)
      PROVE  RowsFollowExecs'
  <2>1. execs[j].outcome # "absent"
    BY <1>6 DEF CloseCommit, OutcomesSet, Terminal
  <2> QED
    BY <1>6, <2>1 DEF CloseCommit, Written, Row, Exec
<1>7. ASSUME NEW j \in Jobs, rows' = rows, ExecStep(j)
      PROVE  RowsFollowExecs'
  BY <1>5, <1>6, <1>7
  DEF ExecStep, BodyReturns, BodyRaises, CheckForCancellation, MarkLoad, CloseLoad, Raise, Exec
<1>8. ASSUME NEW j \in Jobs, Age(j)
      PROVE  RowsFollowExecs'
  BY <1>8 DEF Age, Row
<1>9. ASSUME NEW p \in Procs, Crash(p)
      PROVE  RowsFollowExecs'
  BY <1>9 DEF Crash, Exec, Live
<1>10. ASSUME NEW p \in Procs, Shutdown(p)
       PROVE  RowsFollowExecs'
  BY <1>1, <1>9, <1>10 DEF Shutdown
<1> QED
  BY <1>1, <1>2, <1>3, <1>4, <1>5, <1>6, <1>7, <1>8, <1>9, <1>10
  DEF Next, Step, Failure, SlotStep, ExecStep, vars, Arrive, LookForActive, TriggerReturns,
      CancelLoad, ClearLoad, BodyReturns, BodyRaises, CheckForCancellation, MarkLoad, CloseLoad

\* Before its executor has closed a row, only the reaper and clear_stale_jobs put a verdict
\* on it, and they read its age first (ReadingsHold).
LEMMA UnclosedVerdictsStep ==
    ASSUME TypeOK, OutcomesSet, RowsFollowExecs, ReadingsHold, UnclosedVerdicts, [Next]_vars
    PROVE  UnclosedVerdicts'
<1> USE DEF TypeOK, UnclosedVerdicts, Live
<1>1. CASE UNCHANGED <<rows, execs>>
  BY <1>1
<1>2. ASSUME NEW s \in Slots, Reap(s)
      PROVE  UnclosedVerdicts'
  <2>1. rows' = CloseAll(reqs[s].todo, "cancelled") /\ execs' = execs
    BY <1>2 DEF Reap
  <2>2. \A j \in reqs[s].todo : rows[j].age >= StaleCancelling
    BY <1>2 DEF Reap, ReadingsHold
  <2> QED
    BY <2>1, <2>2, RowsClosed
<1>3. ASSUME NEW s \in Slots, ClearCommit(s)
      PROVE  UnclosedVerdicts'
  <2>1. rows' = CloseAll(reqs[s].todo, "failed") /\ execs' = execs
    BY <1>3 DEF ClearCommit
  <2>2. \A j \in Jobs : j \in reqs[s].todo => 
            rows[j].age >= StaleRunning /\ rows[j].age >= StaleCancelling
    BY <1>3, ConstantsAssumption DEF ClearCommit, ReadingsHold, Row, Ages
  <2> QED
    BY <2>1, <2>2, RowsClosed
<1>4. ASSUME NEW s \in Slots, NEW j \in Jobs, CreateRun(s, j)
      PROVE  UnclosedVerdicts'
  BY <1>4 DEF CreateRun
<1>5. ASSUME NEW s \in Slots, CancelCommit(s)
      PROVE  UnclosedVerdicts'
  BY <1>5 DEF CancelCommit, Written, Row, ReadingsHold
<1>6. ASSUME NEW j \in Jobs, MarkCommit(j)
      PROVE  UnclosedVerdicts'
  BY <1>6 DEF MarkCommit, Raise, Written, Row, Exec
<1>7. ASSUME NEW j \in Jobs, CloseCommit(j)
      PROVE  UnclosedVerdicts'
  BY <1>7 DEF CloseCommit, Row, Exec
<1>8. ASSUME NEW j \in Jobs, rows' = rows, ExecStep(j)
      PROVE  UnclosedVerdicts'
  BY <1>6, <1>7, <1>8
  DEF ExecStep, BodyReturns, BodyRaises, CheckForCancellation, MarkLoad, CloseLoad, Raise, Exec
<1>9. ASSUME NEW j \in Jobs, Age(j)
      PROVE  UnclosedVerdicts'
  BY <1>9 DEF Age, IsOpen, Active, Row
<1>10. ASSUME NEW p \in Procs, Crash(p)
       PROVE  UnclosedVerdicts'
  BY <1>10 DEF Crash, Exec
<1>11. ASSUME NEW p \in Procs, Shutdown(p)
       PROVE  UnclosedVerdicts'
  BY <1>1, <1>10, <1>11 DEF Shutdown
<1> QED
  BY <1>1, <1>2, <1>3, <1>4, <1>5, <1>6, <1>7, <1>8, <1>9, <1>10, <1>11
  DEF Next, Step, Failure, SlotStep, ExecStep, vars, Arrive, LookForActive, TriggerReturns,
      CancelLoad, ClearLoad, BodyReturns, BodyRaises, CheckForCancellation, MarkLoad, CloseLoad

\* A verdict that was justified stays justified: an outcome is only replaced while its
\* row is unclosed, and then old age is what justifies the row.
LEMMA OutcomeHonestStep ==
    ASSUME TypeOK, OutcomesSet, RowsFollowExecs, ReadingsHold, UnclosedVerdicts,
           OutcomeHonest, [Next]_vars
    PROVE  OutcomeHonest'
<1> DEFINE Justified(j) ==
        /\ rows[j].status = "success" => execs[j].outcome = "success"
        /\ rows[j].status = "failed" =>
               execs[j].outcome = "failed" \/ rows[j].age >= StaleRunning
        /\ rows[j].status = "cancelled" =>
               execs[j].outcome = "cancelled" \/ rows[j].age >= StaleCancelling
<1>0. (\A j \in Jobs : Justified(j)) /\ (OutcomeHonest' <=> \A j \in Jobs : Justified(j)')
  BY DEF OutcomeHonest
<1>1. ASSUME NEW j \in Jobs, rows'[j] = rows[j], execs'[j].outcome = execs[j].outcome
      PROVE  Justified(j)'
  BY <1>0, <1>1
<1>2. ASSUME NEW j \in Jobs, rows'[j] = rows[j], execs[j].pc \in Live
      PROVE  Justified(j)'
  BY <1>2 DEF UnclosedVerdicts, RowsFollowExecs, Terminal
<1>3. ASSUME NEW s \in Slots, Reap(s)
      PROVE  OutcomeHonest'
  <2>1. rows' = CloseAll(reqs[s].todo, "cancelled") /\ execs' = execs
    BY <1>3 DEF Reap
  <2>2. \A j \in reqs[s].todo : rows[j].age >= StaleCancelling
    BY <1>3 DEF Reap, ReadingsHold
  <2> QED
    BY <1>0, <1>1, <2>1, <2>2, RowsClosed
<1>4. ASSUME NEW s \in Slots, ClearCommit(s)
      PROVE  OutcomeHonest'
  <2>1. rows' = CloseAll(reqs[s].todo, "failed") /\ execs' = execs
    BY <1>4 DEF ClearCommit
  <2>2. \A j \in reqs[s].todo : rows[j].age >= StaleRunning
    BY <1>4 DEF ClearCommit, ReadingsHold
  <2> QED
    BY <1>0, <1>1, <2>1, <2>2, RowsClosed
<1>5. ASSUME NEW s \in Slots, NEW j \in Jobs, CreateRun(s, j)
      PROVE  OutcomeHonest'
  <2>1. Justified(j)'
    BY <1>5 DEF CreateRun, TypeOK
  <2>2. \A k \in Jobs \ {j} : Justified(k)'
    BY <1>1, <1>5 DEF CreateRun, TypeOK
  <2> QED
    BY <1>0, <2>1, <2>2
<1>6. ASSUME NEW s \in Slots, CancelCommit(s)
      PROVE  OutcomeHonest'
  <2>1. ASSUME NEW j \in Jobs, j = reqs[s].job, rows'[j] # rows[j]
        PROVE  rows'[j].status = "cancelling"
    BY <1>6, <2>1 DEF CancelCommit, Written, TypeOK, Row
  <2>2. ASSUME NEW j \in Jobs, j # reqs[s].job
        PROVE  rows'[j] = rows[j]
    BY <1>6, <2>2 DEF CancelCommit, TypeOK
  <2> QED
    BY <1>0, <1>1, <1>6, <2>1, <2>2 DEF CancelCommit
<1>7. ASSUME NEW j \in Jobs, ExecStep(j), ~CloseCommit(j), ~MarkCommit(j)
      PROVE  OutcomeHonest'
  <2>1. rows' = rows /\ execs[j].pc \in Live /\ \A k \in Jobs \ {j} : execs'[k] = execs[k]
    BY <1>7
    DEF ExecStep, BodyReturns, BodyRaises, CheckForCancellation, MarkLoad, CloseLoad, Raise,
        TypeOK, Live
  <2> QED
    BY <1>0, <1>1, <1>2, <2>1
<1>8. ASSUME NEW j \in Jobs, MarkCommit(j)
      PROVE  OutcomeHonest'
  <2>1. Justified(j)'
    <3>1. CASE rows'[j] = rows[j]
      BY <1>2, <1>8, <3>1 DEF MarkCommit, Live
    <3>2. CASE rows'[j] # rows[j]
      BY <1>8, <3>2 DEF MarkCommit, Written, TypeOK, Row
    <3> QED
      BY <3>1, <3>2
  <2>2. \A k \in Jobs \ {j} : rows'[k] = rows[k] /\ execs'[k] = execs[k]
    BY <1>8 DEF MarkCommit, Raise, TypeOK
  <2> QED
    BY <1>0, <1>1, <2>1, <2>2
<1>9. ASSUME NEW j \in Jobs, CloseCommit(j)
      PROVE  OutcomeHonest'
  <2>1. execs'[j].outcome = execs[j].outcome /\ execs[j].pc \in Live
    BY <1>9 DEF CloseCommit, TypeOK, Exec, Live
  <2>2. rows'[j].age = rows[j].age /\ rows'[j].status \in {rows[j].status, execs[j].outcome}
    BY <1>9 DEF CloseCommit, Written, TypeOK, Row
  <2>3. Justified(j)'
    BY <1>0, <2>1, <2>2
  <2>4. \A k \in Jobs \ {j} : rows'[k] = rows[k] /\ execs'[k] = execs[k]
    BY <1>9 DEF CloseCommit, TypeOK
  <2> QED
    BY <1>0, <1>1, <2>3, <2>4
<1>10. ASSUME NEW j \in Jobs, Age(j)
       PROVE  OutcomeHonest'
  <2>1. Justified(j)'
    BY <1>10 DEF Age, IsOpen, Active, TypeOK, Row
  <2>2. \A k \in Jobs \ {j} : rows'[k] = rows[k]
    BY <1>10 DEF Age, TypeOK
  <2> QED
    BY <1>0, <1>1, <1>10, <2>1, <2>2 DEF Age
<1>11. ASSUME NEW p \in Procs, Crash(p)
       PROVE  OutcomeHonest'
  <2>1. \A j \in Jobs : execs'[j] = execs[j] \/ execs[j].pc \in Live
    BY <1>11 DEF Crash
  <2> QED
    BY <1>0, <1>1, <1>2, <1>11, <2>1 DEF Crash
<1>12. ASSUME NEW p \in Procs, Shutdown(p)
       PROVE  OutcomeHonest'
  BY <1>0, <1>1, <1>11, <1>12 DEF Shutdown
<1>13. CASE UNCHANGED <<rows, execs>>
  BY <1>0, <1>1, <1>13
<1> QED
  BY <1>3, <1>4, <1>5, <1>6, <1>7, <1>8, <1>9, <1>10, <1>11, <1>12, <1>13
  DEF Next, Step, Failure, SlotStep, vars, Arrive, LookForActive, TriggerReturns,
      CancelLoad, ClearLoad

-----------------------------------------------------------------------------
(* Requests                                                                *)

\* What can become of the request of a slot in one step.
LEMMA RequestSteps ==
    ASSUME TypeOK, [Next]_vars, NEW s \in Slots
    PROVE  \/ reqs'[s] = reqs[s]
           \/ reqs'[s] = Idle
           \/ Reap(s) \/ LookForActive(s) \/ CancelLoad(s) \/ ClearLoad(s)
           \/ \E j \in Jobs : CreateRun(s, j)
           \/ \E op \in Op, t \in Types, j \in Jobs \cup {0} : Arrive(s, op, t, j)
<1>1. CASE TriggerReturns(s) \/ CancelCommit(s) \/ ClearCommit(s)
  BY <1>1 DEF TriggerReturns, CancelCommit, ClearCommit, TypeOK
<1>2. ASSUME NEW r \in Slots, r # s, SlotStep(r)
      PROVE  reqs'[s] = reqs[s]
  <2>1. CASE Reap(r) \/ LookForActive(r) \/ TriggerReturns(r)
    BY <1>2, <2>1 DEF Reap, LookForActive, TriggerReturns, TypeOK
  <2>2. CASE CancelLoad(r) \/ CancelCommit(r) \/ ClearCommit(r)
    BY <1>2, <2>2 DEF CancelLoad, CancelCommit, ClearCommit, TypeOK
  <2>3. ASSUME NEW j \in Jobs, CreateRun(r, j)
        PROVE  reqs'[s] = reqs[s]
    BY <1>2, <2>3 DEF CreateRun, TypeOK
  <2> QED
    BY <1>2, <2>1, <2>2, <2>3 DEF SlotStep
<1>3. ASSUME NEW r \in Slots, r # s, ClearLoad(r)
      PROVE  reqs'[s] = reqs[s]
  BY <1>3 DEF ClearLoad, TypeOK
<1>4. ASSUME NEW r \in Slots, r # s, NEW op \in Op, NEW t \in Types, NEW j \in Jobs \cup {0},
             Arrive(r, op, t, j)
      PROVE  reqs'[s] = reqs[s]
  BY <1>4 DEF Arrive, TypeOK
<1>5. ASSUME NEW p \in Procs, Crash(p) \/ Shutdown(p)
      PROVE  reqs'[s] \in {reqs[s], Idle}
  BY <1>5 DEF Crash, Shutdown
<1>6. ASSUME NEW j \in Jobs, ExecStep(j) \/ Age(j)
      PROVE  UNCHANGED reqs
  BY <1>6
  DEF ExecStep, BodyReturns, BodyRaises, CheckForCancellation, MarkLoad, MarkCommit,
      CloseLoad, CloseCommit, Age
<1> QED
  BY <1>1, <1>2, <1>3, <1>4, <1>5, <1>6 DEF Next, Step, Failure, SlotStep, vars

\* What a slot has read stays true under the writes of the others (RowGrows), and a
\* slot that reads takes what the table says.
LEMMA ReadingsHoldStep ==
    ASSUME TypeOK, CancelNamesJob, OutcomesSet, ReadingsHold, [Next]_vars
    PROVE  ReadingsHold'
<1> DEFINE Good(s) ==
        /\ reqs[s].pc = "reap" =>
               \A j \in reqs[s].todo : rows[j].status # "absent" /\ rows[j].age >= StaleCancelling
        /\ reqs[s].pc = "clear" =>
               \A j \in reqs[s].todo : rows[j].status # "absent" /\ rows[j].age >= StaleRunning
        /\ reqs[s].pc = "cancel" =>
               reqs[s].job \in Jobs /\ rows[reqs[s].job].status # "absent"
<1>0. (\A s \in Slots : Good(s)) /\ (ReadingsHold' <=> \A s \in Slots : Good(s)')
  BY DEF ReadingsHold
<1>1. ASSUME NEW s \in Slots, reqs'[s] = reqs[s]
      PROVE  Good(s)'
  <2>1. reqs[s].todo \subseteq Jobs
    BY DEF TypeOK, Req
  <2>2. \A j \in Jobs : /\ rows[j].age \in Nat /\ StaleCancelling \in Nat /\ StaleRunning \in Nat
                        /\ rows'[j].age \in Nat
    BY ConstantsAssumption, TypesStep DEF TypeOK, Row, Ages
  <2>3. \A j \in Jobs : rows[j].status # "absent" =>
             rows'[j].status # "absent" /\ rows'[j].age >= rows[j].age
    BY RowGrows
  <2>4. \A j \in Jobs : rows[j].status # "absent" /\ rows[j].age >= StaleCancelling =>
             rows'[j].status # "absent" /\ rows'[j].age >= StaleCancelling
    BY <2>2, <2>3
  <2>5. \A j \in Jobs : rows[j].status # "absent" /\ rows[j].age >= StaleRunning =>
             rows'[j].status # "absent" /\ rows'[j].age >= StaleRunning
    BY <2>2, <2>3
  <2> QED
    BY <1>0, <1>1, <2>1, <2>3, <2>4, <2>5
<1>2. ASSUME NEW s \in Slots, reqs'[s].pc \notin {"reap", "clear", "cancel"}
      PROVE  Good(s)'
  BY <1>2
<1>3. ASSUME NEW s \in Slots, NEW op \in Op, NEW t \in Types, NEW j \in Jobs \cup {0},
             Arrive(s, op, t, j)
      PROVE  Good(s)'
  <2>1. rows' = rows
    BY <1>3 DEF Arrive
  <2>2. CASE StaleCancellingJobs = {}
    BY <1>2, <1>3, <2>2 DEF Arrive, Served, Idle, TypeOK
  <2>3. CASE StaleCancellingJobs # {}
    <3>1. reqs'[s].pc = "reap" /\ reqs'[s].todo = StaleCancellingJobs
      BY <1>3, <2>3 DEF Arrive, Idle, TypeOK
    <3> QED
      BY <2>1, <3>1 DEF StaleCancellingJobs
  <2> QED
    BY <2>2, <2>3
<1>4. ASSUME NEW s \in Slots, ClearLoad(s)
      PROVE  Good(s)'
  <2>1. rows' = rows /\ reqs'[s].pc = "clear" /\ reqs'[s].todo = StaleJobs
    BY <1>4 DEF ClearLoad, Idle, TypeOK
  <2> QED
    BY <2>1 DEF StaleJobs, IsOpen, Active
<1>5. ASSUME NEW s \in Slots, CancelLoad(s)
      PROVE  Good(s)'
  <2>1. rows' = rows /\ reqs[s].job \in Jobs
    BY <1>5 DEF CancelLoad, CancelNamesJob
  <2>2. reqs'[s].pc = "idle" \/
            (/\ reqs'[s].pc = "cancel" /\ reqs'[s].job = reqs[s].job
             /\ rows[reqs[s].job].status \in Active)
    BY <1>5 DEF CancelLoad, Idle, TypeOK, Req
  <2> QED
    BY <2>1, <2>2 DEF Active
<1>6. ASSUME NEW s \in Slots, Reap(s)
      PROVE  Good(s)'
  BY <1>6 DEF Reap, Served, Idle, TypeOK, Req
<1>7. ASSUME NEW s \in Slots, LookForActive(s)
      PROVE  Good(s)'
  BY <1>7 DEF LookForActive, Idle, TypeOK, Req
<1>8. ASSUME NEW s \in Slots, NEW j \in Jobs, CreateRun(s, j)
      PROVE  Good(s)'
  BY <1>8 DEF CreateRun, Idle, TypeOK, Req
<1>9. ASSUME NEW s \in Slots, reqs'[s] = Idle
      PROVE  Good(s)'
  BY <1>2, <1>9 DEF Idle
<1> QED
  BY <1>0, <1>1, <1>3, <1>4, <1>5, <1>6, <1>7, <1>8, <1>9, RequestSteps

-----------------------------------------------------------------------------
(* The guard of trigger_job and enqueue_job                                *)

\* A request keeps its operation and type until it is over, and a start is only ever
\* asked of a slot entitled to it.
LEMMA EntitledStep ==
    ASSUME TypeOK, StartersEntitled, [Next]_vars, NEW s \in Slots
    PROVE  /\ reqs'[s].pc \in {"reap", "serve", "insert"} /\
                  reqs'[s].op \in {"trigger", "enqueue"} =>
                      <<s, reqs'[s].type>> \in Triggers \cup Enqueues
           /\ reqs'[s].pc = "insert" => reqs'[s].op \in {"trigger", "enqueue"}
<1> DEFINE Entitled ==
        /\ reqs[s].pc \in {"reap", "serve", "insert"} /\ reqs[s].op \in {"trigger", "enqueue"} =>
               <<s, reqs[s].type>> \in Triggers \cup Enqueues
        /\ reqs[s].pc = "insert" => reqs[s].op \in {"trigger", "enqueue"}
<1>0. Entitled
  BY DEF StartersEntitled
<1>1. CASE reqs'[s] = reqs[s]
  BY <1>0, <1>1
<1>2. CASE reqs'[s].pc \notin {"reap", "serve", "insert"}
  BY <1>2
<1>3. ASSUME NEW op \in Op, NEW t \in Types, NEW j \in Jobs \cup {0}, Arrive(s, op, t, j)
      PROVE  Entitled'
  <2>1. /\ reqs'[s].pc # "insert"
        /\ reqs'[s].pc # "idle" => reqs'[s].op = op /\ reqs'[s].type = t
    BY <1>3 DEF Arrive, Served, Idle, TypeOK
  <2>2. op \in {"trigger", "enqueue"} => <<s, t>> \in Triggers \cup Enqueues
    BY <1>3 DEF Arrive, MayCall
  <2> QED
    BY <1>2, <2>1, <2>2
<1>4. CASE Reap(s)
  <2>1. /\ reqs'[s].pc # "insert"
        /\ reqs'[s].pc # "idle" => reqs'[s].op = reqs[s].op /\ reqs'[s].type = reqs[s].type
    BY <1>4 DEF Reap, Served, Idle, TypeOK, Req
  <2> QED
    BY <1>0, <1>2, <1>4, <2>1 DEF Reap
<1>5. CASE LookForActive(s)
  <2>1. \/ reqs'[s].pc = "idle"
        \/ reqs'[s].op = reqs[s].op /\ reqs'[s].type = reqs[s].type
    BY <1>5 DEF LookForActive, Idle, TypeOK, Req
  <2> QED
    BY <1>0, <1>2, <1>5, <2>1 DEF LookForActive
<1>6. CASE CancelLoad(s)
  BY <1>2, <1>6 DEF CancelLoad, Idle, TypeOK, Req
<1>7. CASE ClearLoad(s)
  BY <1>2, <1>7 DEF ClearLoad, Idle, TypeOK
<1>8. CASE reqs'[s] = Idle
  BY <1>2, <1>8 DEF Idle
<1>9. ASSUME NEW j \in Jobs, CreateRun(s, j)
      PROVE  Entitled'
  BY <1>2, <1>9 DEF CreateRun, Idle, TypeOK, Req
<1> QED
  BY <1>1, <1>3, <1>4, <1>5, <1>6, <1>7, <1>8, <1>9, RequestSteps

\* A slot gets ready to insert only by having looked for an active row.
LEMMA InsertOnlyByLook ==
    ASSUME TypeOK, [Next]_vars, NEW s \in Slots, reqs'[s].pc = "insert", ~LookForActive(s)
    PROVE  reqs'[s] = reqs[s]
<1>1. ASSUME NEW op \in Op, NEW t \in Types, NEW j \in Jobs \cup {0}, Arrive(s, op, t, j)
      PROVE  FALSE
  BY <1>1 DEF Arrive, Served, Idle, TypeOK
<1>2. CASE Reap(s)
  BY <1>2 DEF Reap, Served, Idle, TypeOK, Req
<1>3. CASE CancelLoad(s)
  BY <1>3 DEF CancelLoad, Idle, TypeOK, Req
<1>4. CASE ClearLoad(s)
  BY <1>4 DEF ClearLoad, Idle, TypeOK
<1>5. CASE reqs'[s] = Idle
  BY <1>5 DEF Idle
<1>6. ASSUME NEW j \in Jobs, CreateRun(s, j)
      PROVE  FALSE
  BY <1>6 DEF CreateRun, Idle, TypeOK, Req
<1> QED
  BY <1>1, <1>2, <1>3, <1>4, <1>5, <1>6, RequestSteps

\* Starters stay entitled to what they start.
LEMMA StartersEntitledStep ==
    ASSUME TypeOK, StartersEntitled, [Next]_vars
    PROVE  StartersEntitled'
  BY EntitledStep DEF StartersEntitled

\* Rows and slots are finitely many, so all that OneRunPerStarter counts is a number.
LEMMA Countable ==
    ASSUME NEW t
    PROVE  /\ IsFiniteSet(OpenRuns(t)) /\ IsFiniteSet(Starting(t)) /\ IsFiniteSet(Starters(t))
           /\ Cardinality(OpenRuns(t)) \in Nat
           /\ Cardinality(Starting(t)) \in Nat
           /\ Cardinality(Starters(t)) \in Nat
<1>1. IsFiniteSet(Jobs)
  BY FS_Interval, ConstantsAssumption DEF Jobs
<1>2. OpenRuns(t) \in SUBSET Jobs /\ Starting(t) \in SUBSET Slots /\ Starters(t) \in SUBSET Slots
  BY DEF OpenRuns, Starting, Starters
<1>3. IsFiniteSet(OpenRuns(t))
  BY <1>1, <1>2, FS_Subset
<1>4. IsFiniteSet(Starting(t)) /\ IsFiniteSet(Starters(t))
  BY <1>2, ConstantsAssumption, FS_Subset
<1> QED
  BY <1>3, <1>4, FS_CardinalityType

\* The same of the state after a step.
LEMMA CountableNext ==
    ASSUME NEW t
    PROVE  /\ IsFiniteSet(OpenRuns(t)') /\ IsFiniteSet(Starting(t)')
           /\ Cardinality(OpenRuns(t)') \in Nat /\ Cardinality(Starting(t)') \in Nat
<1>1. IsFiniteSet(Jobs)
  BY FS_Interval, ConstantsAssumption DEF Jobs
<1>2. OpenRuns(t)' \in SUBSET Jobs /\ Starting(t)' \in SUBSET Slots
  BY DEF OpenRuns, Starting
<1>3. IsFiniteSet(OpenRuns(t)')
  BY <1>1, <1>2, FS_Subset
<1>4. IsFiniteSet(Starting(t)')
  BY <1>2, ConstantsAssumption, FS_Subset
<1> QED
  BY <1>3, <1>4, FS_CardinalityType

\* An insert turns the start of one thread into one open row of the type.
LEMMA InsertTurnsStart ==
    ASSUME TypeOK, OneRunPerStarter, NEW s \in Slots, NEW j \in Jobs, CreateRun(s, j),
           NEW t \in Types, t = reqs[s].type
    PROVE  Cardinality(OpenRuns(t)') + Cardinality(Starting(t)') <= Cardinality(Starters(t))
<1>1. OpenRuns(t)' \in SUBSET (OpenRuns(t) \cup {j})
  BY DEF OpenRuns, IsOpen, CreateRun, TypeOK
<1>2. Starting(t)' \in SUBSET (Starting(t) \ {s}) /\ s \in Starting(t)
  BY DEF Starting, CreateRun, Idle, TypeOK, Req
<1>3. /\ IsFiniteSet(OpenRuns(t) \cup {j})
      /\ Cardinality(OpenRuns(t) \cup {j}) <= Cardinality(OpenRuns(t)) + 1
  <2>1. IsFiniteSet(OpenRuns(t)) /\ Cardinality(OpenRuns(t)) \in Nat
    BY Countable
  <2>2. /\ IsFiniteSet(OpenRuns(t) \cup {j})
        /\ Cardinality(OpenRuns(t) \cup {j}) =
               IF j \in OpenRuns(t) THEN Cardinality(OpenRuns(t))
                                    ELSE Cardinality(OpenRuns(t)) + 1
    BY <2>1, FS_AddElement
  <2> QED
    BY <2>1, <2>2
<1>4. /\ IsFiniteSet(Starting(t) \ {s})
      /\ Cardinality(Starting(t) \ {s}) = Cardinality(Starting(t)) - 1
  BY <1>2, Countable, FS_RemoveElement
<1>5. Cardinality(OpenRuns(t)') <= Cardinality(OpenRuns(t) \cup {j})
  BY <1>1, <1>3, FS_Subset
<1>6. Cardinality(Starting(t)') <= Cardinality(Starting(t) \ {s})
  BY <1>2, <1>4, FS_Subset
<1>7. Cardinality(OpenRuns(t)) + Cardinality(Starting(t)) <= Cardinality(Starters(t))
  BY DEF OneRunPerStarter
<1>8. /\ IsFiniteSet(OpenRuns(t) \cup {j}) => Cardinality(OpenRuns(t) \cup {j}) \in Nat
      /\ IsFiniteSet(Starting(t) \ {s}) => Cardinality(Starting(t) \ {s}) \in Nat
  BY FS_CardinalityType
<1> QED
  BY <1>3, <1>4, <1>5, <1>6, <1>7, <1>8, Countable, CountableNext

\* A look that passes found no row of the type open, so all that is counted after it
\* are starts, of different threads.
LEMMA LookFindsNone ==
    ASSUME TypeOK, StartersEntitled, [Next]_vars, NEW s \in Slots, LookForActive(s),
           NEW t \in Types, t = reqs[s].type, reqs'[s].pc = "insert"
    PROVE  Cardinality(OpenRuns(t)') + Cardinality(Starting(t)') <= Cardinality(Starters(t))
<1>1. OpenOfType(t) = {} /\ rows' = rows
  BY DEF LookForActive, Idle, TypeOK, Req
<1>2. OpenRuns(t)' = {}
  BY <1>1 DEF OpenRuns, OpenOfType, IsOpen
<1>3. Starting(t)' \in SUBSET Starters(t)
  BY EntitledStep DEF Starting, Starters
<1>4. Cardinality(Starting(t)') <= Cardinality(Starters(t))
  BY <1>3, Countable, FS_Subset
<1>5. Cardinality(OpenRuns(t)') = 0
  BY <1>2, FS_EmptySet
<1> QED
  BY <1>4, <1>5, Countable, CountableNext

\* No other step opens a row of the type or lets a start of it pass.
LEMMA NothingElseStarts ==
    ASSUME TypeOK, OutcomesSet, RowsFollowExecs, ReadingsHold, OneRunPerStarter, [Next]_vars,
           NEW t \in Types,
           \A s \in Slots : /\ \A j \in Jobs : CreateRun(s, j) => t # reqs[s].type
                            /\ LookForActive(s) /\ t = reqs[s].type => reqs'[s].pc # "insert"
    PROVE  Cardinality(OpenRuns(t)') + Cardinality(Starting(t)') <= Cardinality(Starters(t))
<1>1. ASSUME NEW k \in Jobs, IsOpen(k)', rows'[k].type = t
      PROVE  IsOpen(k) /\ rows[k].type = t
  <2>1. ASSUME NEW s \in Slots, CreateRun(s, k)
        PROVE  FALSE
    <3>1. rows'[k].type = reqs[s].type
      BY <2>1 DEF CreateRun, TypeOK
    <3> QED
      BY <1>1, <2>1, <3>1
  <2>2. IsOpen(k)
    BY <1>1, <2>1, OpensOnlyByCreateRun
  <2>3. rows[k].status # "absent"
    BY <2>2 DEF IsOpen, Active
  <2> QED
    BY <1>1, <2>2, <2>3, RowGrows
<1>2. OpenRuns(t)' \in SUBSET OpenRuns(t)
  BY <1>1 DEF OpenRuns
<1>3. ASSUME NEW s \in Slots, reqs'[s].pc = "insert", reqs'[s].type = t
      PROVE  reqs[s].pc = "insert" /\ reqs[s].type = t
  <2>1. CASE LookForActive(s)
    BY <1>3, <2>1 DEF LookForActive, Idle, TypeOK, Req
  <2>2. CASE ~LookForActive(s)
    BY <1>3, <2>2, InsertOnlyByLook
  <2> QED
    BY <2>1, <2>2
<1>4. Starting(t)' \in SUBSET Starting(t)
  BY <1>3 DEF Starting
<1>5. Cardinality(OpenRuns(t)') <= Cardinality(OpenRuns(t))
  BY <1>2, Countable, FS_Subset
<1>6. Cardinality(Starting(t)') <= Cardinality(Starting(t))
  BY <1>4, Countable, FS_Subset
<1>7. Cardinality(OpenRuns(t)) + Cardinality(Starting(t)) <= Cardinality(Starters(t))
  BY DEF OneRunPerStarter
<1> QED
  BY <1>5, <1>6, <1>7, Countable, CountableNext

\* Two starts may overlap, but each is of a thread of its own.
LEMMA OneRunPerStarterStep ==
    ASSUME TypeOK, OutcomesSet, RowsFollowExecs, ReadingsHold, StartersEntitled,
           OneRunPerStarter, [Next]_vars
    PROVE  OneRunPerStarter'
<1>1. ASSUME NEW t \in Types
      PROVE  Cardinality(OpenRuns(t)') + Cardinality(Starting(t)') <= Cardinality(Starters(t))
  BY InsertTurnsStart, LookFindsNone, NothingElseStarts
<1> QED
  BY <1>1 DEF OneRunPerStarter, OpenRuns, Starting, Starters

-----------------------------------------------------------------------------
(* The theorems                                                            *)

\* The inductive invariant holds of the empty table.
LEMMA InitIInv == Init => IInv
<1> SUFFICES ASSUME Init PROVE IInv
  OBVIOUS
<1>1. TypeOK /\ CancelNamesJob
  BY InitTypes
<1>2. /\ \A j \in Jobs : /\ rows[j].status = "absent" /\ ~rows[j].finished
                          /\ execs[j].pc = "none" /\ execs[j].outcome = "none"
      /\ \A s \in Slots : reqs[s].pc = "idle"
  BY DEF Init, NoRow, NoExec, Idle
<1>3. ASSUME NEW t \in Types
      PROVE  Cardinality(OpenRuns(t)) + Cardinality(Starting(t)) <= Cardinality(Starters(t))
  <2>1. OpenRuns(t) = {} /\ Starting(t) = {}
    BY <1>2 DEF OpenRuns, Starting, IsOpen, Active
  <2> QED
    BY <2>1, FS_EmptySet, Countable
<1>4. OneRunPerStarter
  BY <1>3 DEF OneRunPerStarter
<1> QED
  BY <1>1, <1>2, <1>4
  DEF IInv, RowsFollowExecs, OutcomesSet, ReadingsHold, UnclosedVerdicts, OutcomeHonest,
      StartersEntitled, Active, Terminal, Live

\* Every step keeps the inductive invariant.
LEMMA IInvStep == IInv /\ [Next]_vars => IInv'
<1> SUFFICES ASSUME IInv, [Next]_vars PROVE IInv'
  OBVIOUS
<1> USE DEF IInv
<1> QED
  BY TypesStep, OutcomesStep, RowsFollowExecsStep, ReadingsHoldStep, UnclosedVerdictsStep,
     OutcomeHonestStep, StartersEntitledStep, OneRunPerStarterStep

\* The inductive invariant holds throughout.
LEMMA Inductive == Spec => []IInv
  BY InitIInv, IInvStep, PTL DEF Spec

\* Rows, executors and requests keep their types, whatever runs and whatever dies.
THEOREM TypeCorrect == Spec => []TypeOK
<1>1. IInv => TypeOK
  BY DEF IInv
<1> QED
  BY <1>1, Inductive, PTL

\* A recorded verdict is true of the run, whichever of its writers wrote last.
THEOREM VerdictsHonest == Spec => []OutcomeHonest
<1>1. IInv => OutcomeHonest
  BY DEF IInv
<1> QED
  BY <1>1, Inductive, PTL

\* No executor leaves an open row behind, unless its process died.
THEOREM NoOrphans == Spec => []NoOrphanRow
<1>1. IInv => NoOrphanRow
  BY DEF IInv, TypeOK, Exec, RowsFollowExecs, NoOrphanRow, IsOpen, Active
<1> QED
  BY <1>1, Inductive, PTL

\* There are never more rows of a type open, and starts of it past their look, than
\* threads that start the type, although nothing locks the look and the insert together.
THEOREM StartsBounded == Spec => []OneRunPerStarter
<1>1. IInv => OneRunPerStarter
  BY DEF IInv
<1> QED
  BY <1>1, Inductive, PTL

\* Nobody closes a young run but its own executor.
THEOREM YoungUndisturbed == Spec => []YoungRunsUndisturbed
<1>1. IInv => YoungRunsUndisturbed
  BY DEF IInv, UnclosedVerdicts, YoungRunsUndisturbed
<1> QED
  BY <1>1, Inductive, PTL

\* No step writes the row of a settled run.
LEMMA SettledRowKept ==
    ASSUME IInv, [Next]_vars, NEW j \in Jobs, Settled(j)
    PROVE  rows'[j] = rows[j] /\ execs'[j].pc \notin Live
<1> USE DEF IInv
<1>0. rows[j].finished /\ execs[j].pc \notin Live /\ rows[j].status # "absent"
  BY DEF Settled, RowsFollowExecs
<1>1. ASSUME NEW s \in Slots, Reap(s) \/ ClearCommit(s)
      PROVE  rows'[j] = rows[j] /\ UNCHANGED execs
  <2>1. j \notin reqs[s].todo
    BY <1>1 DEF Settled, Holds, Reap, ClearCommit
  <2> QED
    BY <1>1, <2>1, RowsClosed DEF Reap, ClearCommit
<1>2. ASSUME NEW s \in Slots, CancelCommit(s)
      PROVE  rows'[j] = rows[j] /\ UNCHANGED execs
  BY <1>2 DEF Settled, Holds, CancelCommit, TypeOK
<1>3. ASSUME NEW s \in Slots, NEW k \in Jobs, CreateRun(s, k)
      PROVE  rows'[j] = rows[j] /\ execs'[j] = execs[j]
  BY <1>0, <1>3 DEF CreateRun, IsNextId, TypeOK
<1>4. ASSUME NEW k \in Jobs, ExecStep(k)
      PROVE  rows'[j] = rows[j] /\ execs'[j] = execs[j]
  <2>1. k # j
    BY <1>0, <1>4
    DEF Live, ExecStep, BodyReturns, BodyRaises, CheckForCancellation, MarkLoad, MarkCommit,
        CloseLoad, CloseCommit
  <2>2. CASE MarkCommit(k) \/ CloseCommit(k)
    BY <2>1, <2>2 DEF MarkCommit, CloseCommit, Raise, TypeOK
  <2>3. CASE ~(MarkCommit(k) \/ CloseCommit(k))
    BY <1>4, <2>1, <2>3
    DEF ExecStep, BodyReturns, BodyRaises, CheckForCancellation, MarkLoad, CloseLoad, Raise,
        TypeOK
  <2> QED
    BY <2>2, <2>3
<1>5. ASSUME NEW k \in Jobs, Age(k)
      PROVE  rows'[j] = rows[j] /\ UNCHANGED execs
  BY <1>0, <1>5 DEF Age, IsOpen, TypeOK
<1>6. ASSUME NEW p \in Procs, Crash(p) \/ Shutdown(p)
      PROVE  rows'[j] = rows[j] /\ execs'[j] = execs[j]
  BY <1>0, <1>6 DEF Crash, Shutdown
<1> QED
  BY <1>0, <1>1, <1>2, <1>3, <1>4, <1>5, <1>6
  DEF Next, Step, Failure, SlotStep, vars, Arrive, LookForActive, TriggerReturns,
      CancelLoad, ClearLoad

\* Every read that starts a write asks for an open row.
LEMMA SettledRowUnheld ==
    ASSUME IInv, [Next]_vars, NEW j \in Jobs, Settled(j), NEW s \in Slots
    PROVE  ~Holds(s, j)'
<1> USE DEF IInv
<1>0. rows[j].finished /\ ~Holds(s, j)
  BY DEF Settled
<1>1. CASE reqs'[s] = reqs[s]
  BY <1>0, <1>1 DEF Holds
<1>2. CASE reqs'[s] = Idle
  BY <1>2 DEF Holds, Idle
<1>3. CASE Reap(s)
  BY <1>3 DEF Holds, Reap, Served, Idle, TypeOK, Req
<1>4. CASE LookForActive(s)
  BY <1>4 DEF Holds, LookForActive, Idle, TypeOK, Req
<1>5. CASE CancelLoad(s)
  <2>1. \/ reqs'[s].pc = "idle"
        \/ reqs'[s].job = reqs[s].job /\ reqs'[s].pc = "cancel" /\ ~rows[reqs[s].job].finished
    BY <1>5 DEF CancelLoad, Idle, TypeOK, Req
  <2> QED
    BY <1>0, <2>1 DEF Holds
<1>6. CASE ClearLoad(s)
  <2>1. reqs'[s].pc = "clear" /\ reqs'[s].todo = StaleJobs
    BY <1>6 DEF ClearLoad, Idle, TypeOK
  <2> QED
    BY <1>0, <2>1 DEF Holds, StaleJobs, IsOpen
<1>7. ASSUME NEW k \in Jobs, CreateRun(s, k)
      PROVE  ~Holds(s, j)'
  BY <1>7 DEF Holds, CreateRun, Idle, TypeOK, Req
<1>8. ASSUME NEW op \in Op, NEW t \in Types, NEW k \in Jobs \cup {0}, Arrive(s, op, t, k)
      PROVE  ~Holds(s, j)'
  <2>1. CASE StaleCancellingJobs = {}
    BY <1>8, <2>1 DEF Holds, Arrive, Served, Idle, TypeOK
  <2>2. CASE StaleCancellingJobs # {}
    <3>1. reqs'[s].pc = "reap" /\ reqs'[s].todo = StaleCancellingJobs
      BY <1>8, <2>2 DEF Arrive, Idle, TypeOK
    <3> QED
      BY <1>0, <3>1 DEF Holds, StaleCancellingJobs
  <2> QED
    BY <2>1, <2>2
<1> QED
  BY <1>1, <1>2, <1>3, <1>4, <1>5, <1>6, <1>7, <1>8, RequestSteps

\* A settled run is never picked up again: its row is history.
THEOREM HistoryKept == Spec => SettledForGood
<1>1. IInv /\ [Next]_vars =>
          [\A j \in Jobs : Settled(j) => rows'[j] = rows[j] /\ Settled(j)']_vars
  <2> SUFFICES ASSUME IInv, [Next]_vars, NEW j \in Jobs, Settled(j)
               PROVE  rows'[j] = rows[j] /\ Settled(j)'
    OBVIOUS
  <2>1. rows'[j] = rows[j] /\ execs'[j].pc \notin Live
    BY SettledRowKept
  <2>2. \A s \in Slots : ~Holds(s, j)'
    BY SettledRowUnheld
  <2> QED
    BY <2>1, <2>2 DEF Settled
<1> QED
  BY <1>1, Inductive, PTL DEF Spec, SettledForGood

-----------------------------------------------------------------------------
(* The ledger                                                              *)

\* The empty table is the empty ledger.
LEMMA InitLedger == Init => Ledger!LedgerInit
<1> SUFFICES ASSUME Init PROVE Ledger!LedgerInit
  OBVIOUS
<1>1. AnyType = Ledger!AnyType /\ Jobs = Ledger!Jobs
  BY DEF AnyType, Ledger!AnyType, Jobs, Ledger!Jobs
<1>2. ASSUME NEW j \in Jobs
      PROVE  [type |-> rows[j].type, status |-> rows[j].status,
              finished |-> rows[j].finished,
              executor |-> IF execs[j].pc \in Live THEN "alive" ELSE "none",
              outcome |-> execs[j].outcome] = Ledger!NoRun
  <2>1. execs[j].pc \notin Live /\ execs[j].outcome = "none"
    BY DEF Init, NoExec, Live
  <2>2. rows[j] = NoRow
    BY DEF Init
  <2> QED
    BY <1>1, <2>1, <2>2 DEF NoRow, Ledger!NoRun
<1> QED
  BY <1>1, <1>2 DEF LedgerRuns, Ledger!LedgerInit

\* What only requests, sessions, clocks and signals remember is not in the ledger.
LEMMA Unseen ==
    ASSUME \A j \in Jobs : /\ rows'[j].type = rows[j].type
                           /\ rows'[j].status = rows[j].status
                           /\ rows'[j].finished = rows[j].finished
                           /\ execs'[j].pc \in Live <=> execs[j].pc \in Live
                           /\ execs'[j].outcome = execs[j].outcome
    PROVE  UNCHANGED LedgerRuns
  BY DEF LedgerRuns

\* A start opens a run.
LEMMA CreateOpens ==
    ASSUME IInv, NEW s \in Slots, NEW j \in Jobs, CreateRun(s, j)
    PROVE  Ledger!Open(j, reqs[s].type)
<1>1. LedgerRuns' = [LedgerRuns EXCEPT ![j] =
          [type |-> reqs[s].type, status |-> "running", finished |-> FALSE,
           executor |-> "alive", outcome |-> "none"]]
  BY DEF CreateRun, LedgerRuns, IInv, TypeOK, Live
<1>2. LedgerRuns[j].status = "absent" /\ \A k \in Jobs : k < j => LedgerRuns[k].status # "absent"
  BY DEF CreateRun, IsNextId, LedgerRuns
<1> QED
  BY <1>1, <1>2 DEF Ledger!Open, Jobs, Ledger!Jobs

\* Reaping and clearing close runs over the heads of their executors.
LEMMA ClosesByForce ==
    ASSUME IInv, NEW S \in SUBSET Jobs, NEW status \in {"failed", "cancelled"},
           \A j \in S : rows[j].status # "absent",
           rows' = CloseAll(S, status), execs' = execs
    PROVE  Ledger!ForceClose(S, status)
<1>1. LedgerRuns' = [j \in Jobs |-> IF j \in S
                        THEN [LedgerRuns[j] EXCEPT !.status = status, !.finished = TRUE]
                        ELSE LedgerRuns[j]]
  <2>1. ASSUME NEW j \in Jobs
        PROVE  LedgerRuns'[j] = IF j \in S
                        THEN [LedgerRuns[j] EXCEPT !.status = status, !.finished = TRUE]
                        ELSE LedgerRuns[j]
    <3>1. rows[j] \in Row
      BY DEF IInv, TypeOK
    <3> QED
      BY <3>1 DEF LedgerRuns, CloseAll, Row
  <2> QED
    BY <2>1 DEF LedgerRuns
<1>2. \A j \in S : LedgerRuns[j].status # "absent"
  BY DEF LedgerRuns
<1> QED
  BY <1>1, <1>2 DEF Ledger!ForceClose, Jobs, Ledger!Jobs

\* cancel_job marks the row, or writes nothing because it was marked when it was read.
LEMMA CancelMarks ==
    ASSUME IInv, NEW s \in Slots, CancelCommit(s)
    PROVE  UNCHANGED LedgerRuns \/ \E j \in Jobs : Ledger!Mark(j)
<1> DEFINE j == reqs[s].job
<1>1. j \in Jobs /\ rows[j].status # "absent"
  BY DEF CancelCommit, IInv, ReadingsHold
<1>2. rows[j] \in Row
  BY <1>1 DEF IInv, TypeOK
<1>3. CASE reqs[s].seen = "cancelling"
  BY <1>1, <1>2, <1>3, Unseen DEF CancelCommit, Written, IInv, TypeOK, Row
<1>4. CASE reqs[s].seen # "cancelling"
  <2>1. LedgerRuns' = [LedgerRuns EXCEPT ![j].status = "cancelling"]
    BY <1>1, <1>2, <1>4 DEF CancelCommit, Written, IInv, TypeOK, Row, LedgerRuns
  <2> QED
    BY <1>1, <2>1 DEF Ledger!Mark, LedgerRuns
<1> QED
  BY <1>3, <1>4

\* The body of a run ends: its row is untouched, its outcome is settled.
LEMMA WorkEnds ==
    ASSUME IInv, NEW j \in Jobs, NEW outcome \in Terminal,
           execs[j].pc \in {"body", "mark"}, execs'[j].pc = "close",
           execs' = [execs EXCEPT ![j] = execs'[j]],
           execs'[j].outcome = outcome, rows' = rows
    PROVE  Ledger!Ends(j, outcome)
<1>1. execs[j].outcome = "none" /\ execs[j].pc \in Live
  BY DEF IInv, OutcomesSet, Live
<1>2. LedgerRuns' = [LedgerRuns EXCEPT ![j].outcome = outcome, ![j].status = LedgerRuns[j].status]
  BY <1>1 DEF LedgerRuns, IInv, TypeOK, Live
<1> QED
  BY <1>1, <1>2 DEF Ledger!Ends, LedgerRuns

\* A step that touches one run leaves the rest of the ledger alone.
LEMMA OneRunTouched ==
    ASSUME NEW j \in Jobs, NEW r, LedgerRuns'[j] = r,
           \A k \in Jobs \ {j} : rows'[k] = rows[k] /\ execs'[k] = execs[k]
    PROVE  LedgerRuns' = [LedgerRuns EXCEPT ![j] = r]
<1>1. \A k \in Jobs \ {j} : LedgerRuns'[k] = LedgerRuns[k]
  BY DEF LedgerRuns
<1>2. LedgerRuns = [k \in Jobs |-> LedgerRuns[k]] /\ LedgerRuns' = [k \in Jobs |-> LedgerRuns'[k]]
  BY DEF LedgerRuns
<1> QED
  BY <1>1, <1>2

\* Runs are equal when their fields are.
LEMMA SameRun ==
    ASSUME NEW r1 \in Ledger!Run, NEW r2 \in Ledger!Run,
           r1.type = r2.type, r1.status = r2.status, r1.finished <=> r2.finished,
           r1.executor = r2.executor, r1.outcome = r2.outcome
    PROVE  r1 = r2
  BY DEF Ledger!Run

\* What a run looks like in the ledger while its executor works.
LEMMA RunAtWork ==
    ASSUME IInv, NEW j \in Jobs, execs[j].pc \in Live
    PROVE  /\ LedgerRuns[j] \in Ledger!Run
           /\ LedgerRuns[j].executor = "alive"
           /\ LedgerRuns[j].type = rows[j].type
           /\ LedgerRuns[j].status = rows[j].status
           /\ LedgerRuns[j].finished <=> rows[j].finished
           /\ LedgerRuns[j].outcome = execs[j].outcome
<1>1. rows[j] \in Row /\ execs[j] \in Exec
  BY DEF IInv, TypeOK
<1> QED
  BY <1>1 DEF LedgerRuns, Ledger!Run, Row, Exec, Status, Terminal, Ledger!Verdict, Active,
              Ledger!Active

\* The same, when giving in to a cancellation marks the row on its way out.
LEMMA MarkedEnds ==
    ASSUME IInv, NEW j \in Jobs, MarkCommit(j)
    PROVE  Ledger!Ends(j, "cancelled")
<1>1. /\ rows[j] \in Row /\ rows \in [Jobs -> Row] /\ execs \in [Jobs -> Exec]
      /\ execs[j].outcome = "none" /\ execs[j].pc \in Live
  BY DEF IInv, OutcomesSet, Live, MarkCommit, TypeOK
<1>2. PICK status \in {rows[j].status, "cancelling"} :
          rows' = [rows EXCEPT ![j].status = status]
  BY DEF MarkCommit, Written
<1>3. /\ rows'[j] = [rows[j] EXCEPT !.status = status]
      /\ execs'[j].pc = "close" /\ execs'[j].outcome = "cancelled"
      /\ \A k \in Jobs \ {j} : rows'[k] = rows[k] /\ execs'[k] = execs[k]
  BY <1>1, <1>2 DEF MarkCommit, Raise, Exec
<1> DEFINE r == [LedgerRuns[j] EXCEPT !.outcome = "cancelled", !.status = status]
<1>4. LedgerRuns'[j] = r
  <2>1. /\ LedgerRuns'[j] \in Ledger!Run
        /\ LedgerRuns'[j].executor = "alive" /\ LedgerRuns'[j].outcome = "cancelled"
        /\ LedgerRuns'[j].type = rows[j].type /\ LedgerRuns'[j].status = status
        /\ LedgerRuns'[j].finished <=> rows[j].finished
    BY <1>1, <1>3 DEF LedgerRuns, Ledger!Run, Row, Status, Terminal, Ledger!Verdict, Active,
                      Ledger!Active, Live
  <2>2. /\ r \in Ledger!Run
        /\ r.executor = "alive" /\ r.outcome = "cancelled"
        /\ r.type = rows[j].type /\ r.status = status
        /\ r.finished <=> rows[j].finished
    BY <1>1, <1>2, RunAtWork
    DEF Ledger!Run, Row, Status, Ledger!Verdict, Active, Terminal, Ledger!Active
  <2> HIDE DEF r
  <2> QED
    BY <2>1, <2>2, SameRun
<1>5. LedgerRuns' = [LedgerRuns EXCEPT ![j] = r]
  BY <1>3, <1>4, OneRunTouched
<1>6. LedgerRuns' = [LedgerRuns EXCEPT ![j].outcome = "cancelled", ![j].status = status]
  BY <1>5 DEF LedgerRuns
<1> QED
  BY <1>1, <1>2, <1>6, RunAtWork DEF Ledger!Ends

\* The tail of the executor closes the row and leaves.
LEMMA TailCloses ==
    ASSUME IInv, NEW j \in Jobs, CloseCommit(j)
    PROVE  Ledger!Closes(j)
<1>1. /\ rows[j] \in Row /\ rows \in [Jobs -> Row] /\ execs \in [Jobs -> Exec]
      /\ execs[j].outcome \in Terminal /\ execs[j].pc \in Live
  BY DEF IInv, OutcomesSet, Live, CloseCommit, TypeOK
<1>2. PICK status \in {rows[j].status, execs[j].outcome} :
          rows' = [rows EXCEPT ![j].status = status, ![j].finished = TRUE]
  BY DEF CloseCommit, Written
<1>3. /\ rows'[j] = [rows[j] EXCEPT !.status = status, !.finished = TRUE]
      /\ execs'[j].pc = "stopped" /\ execs'[j].outcome = execs[j].outcome
      /\ \A k \in Jobs \ {j} : rows'[k] = rows[k] /\ execs'[k] = execs[k]
  <2>1. rows'[j] = [rows[j] EXCEPT !.status = status, !.finished = TRUE]
    BY <1>1, <1>2
  <2>2. \A k \in Jobs \ {j} : rows'[k] = rows[k]
    BY <1>1, <1>2
  <2> QED
    BY <1>1, <2>1, <2>2 DEF CloseCommit, Exec
<1> DEFINE r == [LedgerRuns[j] EXCEPT !.status = status, !.finished = TRUE,
                                      !.executor = "none"]
<1>4. LedgerRuns'[j] = r
  <2>1. /\ LedgerRuns'[j] \in Ledger!Run
        /\ LedgerRuns'[j].executor = "none" /\ LedgerRuns'[j].outcome = execs[j].outcome
        /\ LedgerRuns'[j].type = rows[j].type /\ LedgerRuns'[j].status = status
        /\ LedgerRuns'[j].finished
    BY <1>1, <1>3 DEF LedgerRuns, Ledger!Run, Row, Status, Terminal, Ledger!Verdict, Active,
                      Ledger!Active, Live
  <2>2. /\ r \in Ledger!Run
        /\ r.executor = "none" /\ r.outcome = execs[j].outcome
        /\ r.type = rows[j].type /\ r.status = status
        /\ r.finished
    BY <1>1, <1>2, RunAtWork
    DEF Ledger!Run, Row, Status, Ledger!Verdict, Active, Terminal, Ledger!Active
  <2> HIDE DEF r
  <2> QED
    BY <2>1, <2>2, SameRun
<1>5. LedgerRuns' = [LedgerRuns EXCEPT ![j] = r]
  BY <1>3, <1>4, OneRunTouched
<1>6. LedgerRuns' = [LedgerRuns EXCEPT ![j].status = status, ![j].finished = TRUE,
                                       ![j].executor = "none"]
  BY <1>5 DEF LedgerRuns
<1> QED
  BY <1>1, <1>2, <1>6, RunAtWork DEF Ledger!Closes, Terminal

\* A crash loses the executors of its process, and no row.
LEMMA CrashLoses ==
    ASSUME IInv, NEW p \in Procs, Crash(p)
    PROVE  \E S \in SUBSET Jobs : Ledger!Lose(S)
<1> DEFINE S == {j \in Jobs : execs[j].proc = p /\ execs[j].pc \in Live}
<1>0. execs \in [Jobs -> Exec] /\ UNCHANGED rows
  BY DEF Crash, IInv, TypeOK
<1>1. ASSUME NEW j \in Jobs
      PROVE  LedgerRuns'[j] = IF j \in S
                 THEN [LedgerRuns[j] EXCEPT !.executor = "none", !.outcome = "none"]
                 ELSE LedgerRuns[j]
  <2>1. CASE j \in S
    <3>1. execs'[j] = [execs[j] EXCEPT !.pc = "lost", !.outcome = "none", !.copy = NoCopy]
      BY <2>1 DEF Crash
    <3>2. execs'[j].pc \notin Live /\ execs'[j].outcome = "none"
      BY <1>0, <3>1 DEF Exec, Live
    <3> QED
      BY <1>0, <2>1, <3>2 DEF LedgerRuns
  <2>2. CASE j \notin S
    <3>1. execs'[j] = execs[j]
      BY <2>2 DEF Crash
    <3> QED
      BY <1>0, <2>2, <3>1 DEF LedgerRuns
  <2> QED
    BY <2>1, <2>2
<1>2. LedgerRuns' = [j \in Jobs |-> IF j \in S
                        THEN [LedgerRuns[j] EXCEPT !.executor = "none", !.outcome = "none"]
                        ELSE LedgerRuns[j]]
  <2> HIDE DEF S
  <2> QED
    BY <1>1 DEF LedgerRuns
<1>3. \A j \in S : LedgerRuns[j].executor = "alive"
  BY DEF LedgerRuns
<1>4. Ledger!Lose(S)
  BY <1>2, <1>3 DEF Ledger!Lose, Jobs, Ledger!Jobs
<1> QED
  BY <1>4

\* Every step of the job service is a step of the ledger or leaves it alone.
LEMMA LedgerStep ==
    ASSUME IInv, [Next]_vars
    PROVE  [Ledger!LedgerNext]_LedgerRuns
<1>0. Jobs = Ledger!Jobs /\ Terminal = Ledger!Verdict /\ execs \in [Jobs -> Exec]
  BY DEF Jobs, Ledger!Jobs, Terminal, Ledger!Verdict, IInv, TypeOK
<1>1. CASE UNCHANGED <<rows, execs>>
  BY <1>1, Unseen
<1>2. ASSUME NEW s \in Slots, NEW j \in Jobs, CreateRun(s, j)
      PROVE  [Ledger!LedgerNext]_LedgerRuns
  <2>1. reqs[s].type \in Types
    BY DEF IInv, TypeOK, Req
  <2> QED
    BY <1>0, <1>2, <2>1, CreateOpens DEF Ledger!LedgerNext
<1>3. ASSUME NEW s \in Slots, Reap(s) \/ ClearCommit(s)
      PROVE  [Ledger!LedgerNext]_LedgerRuns
  <2>1. PICK status \in {"failed", "cancelled"} :
            rows' = CloseAll(reqs[s].todo, status) /\ execs' = execs
    BY <1>3 DEF Reap, ClearCommit
  <2>2. reqs[s].todo \in SUBSET Jobs /\ \A j \in reqs[s].todo : rows[j].status # "absent"
    BY <1>3 DEF IInv, TypeOK, Req, ReadingsHold, Reap, ClearCommit
  <2>3. Ledger!ForceClose(reqs[s].todo, status)
    BY <2>1, <2>2, ClosesByForce
  <2> QED
    BY <1>0, <2>2, <2>3 DEF Ledger!LedgerNext, Ledger!Verdict
<1>4. ASSUME NEW s \in Slots, CancelCommit(s)
      PROVE  [Ledger!LedgerNext]_LedgerRuns
  BY <1>0, <1>4, CancelMarks DEF Ledger!LedgerNext
<1>5. ASSUME NEW j \in Jobs, ExecStep(j)
      PROVE  [Ledger!LedgerNext]_LedgerRuns
  <2>1. ASSUME NEW outcome \in Terminal, Ledger!Ends(j, outcome)
        PROVE  Ledger!LedgerNext
    BY <1>0, <2>1 DEF Ledger!LedgerNext
  <2>2. CASE \/ BodyReturns(j)
             \/ BodyRaises(j)
             \/ CheckForCancellation(j) /\ ~MustMark(j)
             \/ MarkLoad(j) /\ Loaded(j).finished
    <3>1. /\ execs[j].pc \in {"body", "mark"} /\ execs'[j].pc = "close"
          /\ execs' = [execs EXCEPT ![j] = execs'[j]] /\ rows' = rows
          /\ execs'[j].outcome \in Terminal
      BY <1>0, <2>2 DEF BodyReturns, BodyRaises, CheckForCancellation, MarkLoad, Raise, Exec, Terminal
    <3> QED
      BY <2>1, <3>1, WorkEnds
  <2>3. CASE \/ CheckForCancellation(j) /\ MustMark(j)
             \/ MarkLoad(j) /\ ~Loaded(j).finished
             \/ CloseLoad(j)
    BY <1>0, <2>3, Unseen DEF CheckForCancellation, MarkLoad, CloseLoad, Exec, Live
  <2>4. CASE MarkCommit(j)
    BY <2>1, <2>4, MarkedEnds DEF Terminal
  <2>5. CASE CloseCommit(j)
    BY <1>0, <2>5, TailCloses DEF Ledger!LedgerNext
  <2>6. CASE CheckForCancellation(j)
    BY <2>2, <2>3, <2>6
  <2>7. CASE MarkLoad(j)
    BY <2>2, <2>3, <2>7
  <2> QED
    BY <1>5, <2>2, <2>3, <2>4, <2>5, <2>6, <2>7 DEF ExecStep
<1>6. ASSUME NEW j \in Jobs, Age(j)
      PROVE  [Ledger!LedgerNext]_LedgerRuns
  BY <1>6, Unseen DEF Age, IInv, TypeOK, Row
<1>7. ASSUME NEW p \in Procs, Crash(p)
      PROVE  [Ledger!LedgerNext]_LedgerRuns
  BY <1>0, <1>7, CrashLoses DEF Ledger!LedgerNext
<1>8. ASSUME NEW p \in Procs, Shutdown(p)
      PROVE  UNCHANGED <<rows, execs>> \/ Crash(p)
  BY <1>8 DEF Shutdown
<1>9. ASSUME NEW s \in Slots, NEW op \in Op, NEW t \in Types, NEW j \in Jobs \cup {0},
             Arrive(s, op, t, j)
      PROVE  UNCHANGED <<rows, execs>>
  BY <1>9 DEF Arrive
<1>10. ASSUME NEW s \in Slots,
              ClearLoad(s) \/ LookForActive(s) \/ TriggerReturns(s) \/ CancelLoad(s)
       PROVE  UNCHANGED <<rows, execs>>
  BY <1>10 DEF ClearLoad, LookForActive, TriggerReturns, CancelLoad
<1>11. CASE vars' = vars
  BY <1>1, <1>11 DEF vars
<1> QED
  BY <1>1, <1>2, <1>3, <1>4, <1>5, <1>6, <1>7, <1>8, <1>9, <1>10, <1>11
  DEF Next, Step, Failure, SlotStep

\* Whatever runs, dies, cancels or clears, the job service only ever does to a run
\* what the ledger of runs allows.
THEOREM ServiceImplementsLedger == Spec => ImplementsLedger
<1>1. IInv /\ [Next]_vars => [Ledger!LedgerNext]_LedgerRuns
  BY LedgerStep
<1> QED
  BY InitLedger, Inductive, <1>1, PTL DEF Spec, ImplementsLedger, Ledger!LedgerSpec

-----------------------------------------------------------------------------
(* The schedule                                                            *)

\* Fields a request leaves out keep the value the row has, so the result is a row, and
\* no merge touches updated_at.
LEMMA MergedType ==
    ASSUME NEW r \in ConfigRow, NEW u \in Update
    PROVE  Merged(r, u) \in ConfigRow /\ Merged(r, u).stamp = r.stamp
  BY DEF Merged, ConfigRow, Update

\* What is in force stays in force when it is applied again.
LEMMA AppliedTwice ==
    ASSUME NEW r, NEW now
    PROVE  Applied(r, Applied(r, now)) = Applied(r, now)
  BY DEF Applied

\* A row that does not raise leaves a schedule the scheduler can hold.
LEMMA AppliedType ==
    ASSUME NEW r \in ConfigRow, ~Raises(r), NEW now \in Scheduled \cup {Off}
    PROVE  Applied(r, now) \in Scheduled \cup {Off}
  BY DEF Applied, Applicable, Raises, ConfigRow, Scheduled, Trigger

\* Only rows that do not raise are ever dealt with, all of them if none does.
LEMMA ProcessedRows ==
    ASSUME NEW given \in SUBSET ScheduledJobs, NEW S \in ProcessedOf(given)
    PROVE  /\ S \subseteq given
           /\ \A j \in S : ~Raises(config[j])
           /\ NoneRaises => S = given
  BY DEF ProcessedOf, NoneRaises

\* Dealing with the rows of S leaves the worker typed, and what it has noted in force.
LEMMA AfterProcessing ==
    ASSUME ScheduleTypeOK, StampsPast, NEW S \in SUBSET ScheduledJobs,
           \A j \in S : ~Raises(config[j])
    PROVE  /\ SeenAfter(S) \in [ScheduledJobs -> 0..MaxEdits \cup {Unset}]
           /\ SchedAfter(S) \in [ScheduledJobs -> Scheduled \cup {Off}]
           /\ \A j \in ScheduledJobs : SeenAfter(S)[j] = Unset \/ SeenAfter(S)[j] <= clock
           /\ \A j \in S : SchedAfter(S)[j] = Applied(config[j], SchedAfter(S)[j])
           /\ \A j \in ScheduledJobs \ S : /\ SchedAfter(S)[j] = sched[j]
                                           /\ SeenAfter(S)[j] = seen[j]
<1> USE DEF ScheduleTypeOK
<1>1. \A j \in S : SchedAfter(S)[j] = Applied(config[j], sched[j])
  BY DEF SchedAfter
<1>2. \A j \in S : SchedAfter(S)[j] \in Scheduled \cup {Off}
  BY <1>1, AppliedType
<1>3. \A j \in S : SchedAfter(S)[j] = Applied(config[j], SchedAfter(S)[j])
  BY <1>1, AppliedTwice
<1>4. SchedAfter(S) \in [ScheduledJobs -> Scheduled \cup {Off}]
  BY <1>2 DEF SchedAfter
<1>5. /\ SeenAfter(S) \in [ScheduledJobs -> 0..MaxEdits \cup {Unset}]
      /\ \A j \in ScheduledJobs : SeenAfter(S)[j] = Unset \/ SeenAfter(S)[j] <= clock
  BY DEF SeenAfter, ConfigRow, StampsPast
<1>6. \A j \in ScheduledJobs \ S : SchedAfter(S)[j] = sched[j] /\ SeenAfter(S)[j] = seen[j]
  BY DEF SchedAfter, SeenAfter
<1> QED
  BY <1>3, <1>4, <1>5, <1>6

\* What a commit makes of a row, given what its session loaded and holds.
CommitRow(old, loaded, new) ==
    [f \in Fields \cup {"stamp"} |-> IF new[f] = loaded[f] THEN old[f] ELSE new[f]]

\* That is a row again, and its stamp is the request's own.
LEMMA CommittedRow ==
    ASSUME NEW old \in ConfigRow, NEW loaded \in ConfigRow, NEW new \in ConfigRow,
           loaded.stamp < new.stamp
    PROVE  /\ CommitRow(old, loaded, new) \in ConfigRow
           /\ CommitRow(old, loaded, new).stamp = new.stamp
<1> USE DEF CommitRow
<1> DEFINE r == CommitRow(old, loaded, new)
           w == [trigger |-> r.trigger, minutes |-> r.minutes, hour |-> r.hour,
                 enabled |-> r.enabled, stamp |-> r.stamp]
<1>1. /\ r.trigger \in Trigger /\ r.minutes \in Minutes \cup {Unset}
      /\ r.hour \in Hours \cup BadHours \cup {Unset} /\ r.enabled \in BOOLEAN
      /\ r.stamp \in 0..MaxEdits
  BY DEF Fields, ConfigRow
<1>2. r.stamp = new.stamp
  BY DEF Fields, ConfigRow
<1>3. w \in ConfigRow
  BY <1>1 DEF ConfigRow
<1>4. r = w
  BY DEF Fields
<1> QED
  BY <1>2, <1>3, <1>4

-----------------------------------------------------------------------------
(* The invariant of the versions                                           *)

\* At first there are only the stamps of the migration.
LEMMA InitVersions == ScheduleInit => ScheduleInv
<1> SUFFICES ASSUME ScheduleInit
             PROVE  ScheduleInv
  OBVIOUS
<1>1. ScheduleTypeOK
  <2>1. Seed \in [ScheduledJobs -> ConfigRow] /\ 0 \in 0..MaxEdits /\ 0 \in 0..MaxCrashes
    BY ScheduleAssumption
  <2>2. NoEdit \in Edit
    BY DEF NoEdit, Edit
  <2> QED
    BY <2>1, <2>2 DEF ScheduleInit, ScheduleTypeOK
<1>2. Begun = {}
  BY DEF ScheduleInit, Begun, NoEdit
<1>3. EditsComplete
  BY <1>2, FS_EmptySet, ScheduleAssumption DEF ScheduleInit, EditsComplete, NoEdit
<1>4. StampsPast
  BY ScheduleAssumption DEF ScheduleInit, StampsPast, NoEdit, ConfigRow
<1>5. StampsFresh /\ DownForgets
  BY DEF ScheduleInit, StampsFresh, DownForgets, NoEdit
<1>6. SeenIsInForce
  BY DEF ScheduleInit, SeenIsInForce
<1> QED
  BY <1>1, <1>3, <1>4, <1>5, <1>6 DEF ScheduleInv, Versions

\* A request loads a row: its clock tick is reserved, and it has no stamp yet.
LEMMA LoadKeeps ==
    ASSUME Versions, NEW e \in Editors, NEW j \in ScheduledJobs, NEW u \in Updates,
           EditLoad(e, j, u)
    PROVE  Versions'
<1> DEFINE r == [pc |-> "loaded", job |-> j, loaded |-> config[j],
                 new |-> Merged(config[j], u)]
<1> USE DEF Versions, EditLoad
<1>1. config[j] \in ConfigRow /\ Merged(config[j], u) \in ConfigRow
  BY MergedType, ScheduleAssumption DEF ScheduleTypeOK
<1>2. edits' = [edits EXCEPT ![e] = r] /\ edits' \in [Editors -> Edit]
  BY <1>1 DEF ScheduleTypeOK, Edit
<1>3. edits'[e] = r /\ \A f \in Editors : f # e => edits'[f] = edits[f]
  BY <1>2 DEF ScheduleTypeOK
<1>4. Begun' = Begun \cup {e} /\ e \notin Begun
  BY <1>3 DEF Begun
<1>5. IsFiniteSet(Begun') /\ Cardinality(Begun') = Cardinality(Begun) + 1
      /\ Cardinality(Begun) \in Nat
  BY <1>4, FS_AddElement, FS_CardinalityType DEF EditsComplete
<1>6. clock' + Cardinality(Begun') <= MaxEdits
  BY <1>5, ScheduleAssumption DEF ScheduleTypeOK
<1>7. EditsComplete'
  BY <1>1, <1>3, <1>5, <1>6 DEF EditsComplete
<1>8. StampsPast'
  BY <1>3 DEF StampsPast, worker
<1>9. StampsFresh' /\ DownForgets'
  BY <1>3 DEF StampsFresh, DownForgets, worker
<1> QED
  BY <1>2, <1>7, <1>8, <1>9 DEF ScheduleTypeOK, worker

\* A request computes its stamp: later than every stamp known, so nobody's.
LEMMA StampKeeps ==
    ASSUME Versions, NEW e \in Editors, EditStamp(e)
    PROVE  Versions'
<1> DEFINE n == [edits[e].new EXCEPT !.stamp = clock + 1]
           r == [edits[e] EXCEPT !.pc = "stamped", !.new = n]
<1> USE DEF Versions, EditStamp
<1>1. Begun' = Begun \ {e} /\ e \in Begun
  BY DEF ScheduleTypeOK, Edit, Begun
<1>2. IsFiniteSet(Begun') /\ Cardinality(Begun') = Cardinality(Begun) - 1
      /\ Cardinality(Begun) \in Nat /\ Cardinality(Begun') \in Nat
  BY <1>1, FS_RemoveElement, FS_CardinalityType DEF EditsComplete
<1>3. clock' = clock + 1 /\ clock' \in 0..MaxEdits /\ clock \in Nat
      /\ clock' + Cardinality(Begun') <= MaxEdits
  BY <1>2, ScheduleAssumption DEF ScheduleTypeOK, EditsComplete
<1>4. /\ edits[e] \in Edit /\ edits[e].job \in ScheduledJobs
      /\ edits[e].loaded \in ConfigRow /\ edits[e].new \in ConfigRow
      /\ edits[e].loaded.stamp <= clock
  BY DEF EditsComplete, ScheduleTypeOK, StampsPast
<1>5. n \in ConfigRow /\ n.stamp = clock + 1
  BY <1>3, <1>4 DEF ConfigRow
<1>6. edits' = [edits EXCEPT ![e] = r]
  BY <1>4 DEF Edit
<1>7. /\ edits'[e].pc = "stamped" /\ edits'[e].new = n /\ edits'[e].job = edits[e].job
      /\ edits'[e].loaded = edits[e].loaded
      /\ \A f \in Editors : f # e => edits'[f] = edits[f]
  BY <1>4, <1>6 DEF ScheduleTypeOK, Edit
<1>8. ScheduleTypeOK'
  BY <1>3, <1>4, <1>5, <1>6 DEF ScheduleTypeOK, Edit, worker
<1>9. EditsComplete'
  BY <1>2, <1>3, <1>4, <1>5, <1>7 DEF EditsComplete
<1>10. \A f \in Editors : edits[f].pc = "stamped" => edits[f].new \in ConfigRow
  BY DEF EditsComplete
<1>11. StampsPast'
  <2>1. \A j \in ScheduledJobs : config[j].stamp \in Nat /\ (seen[j] = Unset \/ seen[j] \in Nat)
    BY DEF ScheduleTypeOK, ConfigRow
  <2>2. \A f \in Editors : edits[f].pc # "idle" => edits[f].loaded.stamp \in Nat
                                                   /\ edits[f].new.stamp \in Nat
    BY DEF EditsComplete, ConfigRow
  <2>3. edits'[e].new.stamp <= clock' /\ edits'[e].loaded.stamp < edits'[e].new.stamp
    BY <1>3, <1>4, <1>5, <1>7 DEF ConfigRow
  <2>4. \A f \in Editors :
            /\ edits[f].pc = "loaded" => edits[f].loaded.stamp <= clock + 1
            /\ edits[f].pc = "stamped" => /\ edits[f].new.stamp <= clock + 1
                                         /\ edits[f].loaded.stamp < edits[f].new.stamp
    BY <1>3, <2>2 DEF StampsPast
  <2>5. \A j \in ScheduledJobs : config[j].stamp <= clock' /\ (seen[j] = Unset \/ seen[j] <= clock')
    BY <1>3, <2>1 DEF StampsPast
  <2> HIDE DEF EditStamp
  <2>6. UNCHANGED <<config, seen>>
    BY DEF EditStamp, worker
  <2> QED
    BY <1>3, <1>7, <2>3, <2>4, <2>5, <2>6 DEF StampsPast
<1>12. StampsFresh'
  <2>1. \A j \in ScheduledJobs : config[j].stamp # n.stamp /\ seen[j] # n.stamp
    BY <1>3, <1>5, ScheduleAssumption DEF StampsPast, ScheduleTypeOK, ConfigRow
  <2>2. \A f \in Editors : edits[f].pc = "stamped" => edits[f].new.stamp # n.stamp
    BY <1>3, <1>5, <1>10 DEF StampsPast, ConfigRow
  <2> HIDE DEF EditStamp
  <2>3. UNCHANGED <<config, seen>>
    BY DEF EditStamp, worker
  <2> HIDE DEF n, r
  <2> QED
    BY <1>7, <2>1, <2>2, <2>3 DEF StampsFresh
<1> QED
  BY <1>8, <1>9, <1>11, <1>12 DEF DownForgets, worker

\* A commit brings the row a stamp nobody has seen, older than the last one or not.
LEMMA CommitKeeps ==
    ASSUME Versions, NEW e \in Editors, EditCommit(e)
    PROVE  /\ Versions'
           /\ \A j \in ScheduledJobs : config'[j] # config[j] => seen'[j] # config'[j].stamp
<1> DEFINE q == edits[e]
           r == CommitRow(config[q.job], q.loaded, q.new)
<1> USE DEF Versions, EditCommit
<1>1. /\ q.pc = "stamped" /\ q.job \in ScheduledJobs
      /\ q.loaded \in ConfigRow /\ q.new \in ConfigRow
      /\ config[q.job] \in ConfigRow /\ q.loaded.stamp < q.new.stamp /\ q.new.stamp <= clock
  BY DEF EditsComplete, ScheduleTypeOK, StampsPast
<1>2. r \in ConfigRow /\ r.stamp = q.new.stamp
  BY <1>1, CommittedRow
<1>3. config' = [config EXCEPT ![q.job] = r]
  BY DEF CommitRow
<1>4. /\ config'[q.job] = r
      /\ \A j \in ScheduledJobs : j # q.job => config'[j] = config[j]
  BY <1>1, <1>3 DEF ScheduleTypeOK
<1>5. /\ edits'[e] = NoEdit
      /\ \A f \in Editors : f # e => edits'[f] = edits[f]
  BY DEF ScheduleTypeOK
<1>6. ScheduleTypeOK'
  BY <1>2, <1>3 DEF ScheduleTypeOK, Edit, NoEdit, worker
<1>7. Begun' = Begun
  BY <1>1, <1>5 DEF Begun, NoEdit
<1>8. EditsComplete'
  BY <1>5, <1>7 DEF EditsComplete, NoEdit
<1>9. StampsPast'
  BY <1>1, <1>2, <1>4, <1>5 DEF StampsPast, NoEdit, worker
<1>10. StampsFresh'
  BY <1>1, <1>2, <1>4, <1>5 DEF StampsFresh, NoEdit, worker
<1>11. \A j \in ScheduledJobs : config'[j] # config[j] => seen'[j] # config'[j].stamp
  BY <1>1, <1>2, <1>4 DEF StampsFresh, worker
<1> QED
  BY <1>6, <1>8, <1>9, <1>10, <1>11 DEF DownForgets, worker

\* The worker: it only ever copies stamps of the table.
LEMMA WorkerKeeps ==
    ASSUME Versions, StartLoaded \/ StartFallback \/ CheckConfigChanges \/ WorkerCrash
    PROVE  Versions'
<1> USE DEF Versions
<1>1. UNCHANGED <<config, edits, clock>>
  BY DEF StartLoaded, StartFallback, CheckConfigChanges, WorkerCrash
<1>2. EditsComplete'
  BY <1>1 DEF EditsComplete, Begun
<1>3. ASSUME NEW S \in SUBSET ScheduledJobs, \A j \in S : ~Raises(config[j]), seen' = SeenAfter(S)
      PROVE  /\ seen' \in [ScheduledJobs -> 0..MaxEdits \cup {Unset}]
             /\ StampsPast' /\ StampsFresh'
  <2>1. /\ seen' \in [ScheduledJobs -> 0..MaxEdits \cup {Unset}]
        /\ \A j \in ScheduledJobs : seen'[j] = Unset \/ seen'[j] <= clock
    BY <1>3, AfterProcessing
  <2>2. \A j \in ScheduledJobs : seen'[j] = config[j].stamp \/ seen'[j] = seen[j]
    BY <1>3 DEF SeenAfter
  <2> QED
    BY <1>1, <2>1, <2>2 DEF StampsPast, StampsFresh
<1>4. CASE StartLoaded
  <2>1. PICK S \in ProcessedOf(ScheduledJobs) :
               /\ seen' = SeenAfter(S)
               /\ sched' = IF S = ScheduledJobs THEN SchedAfter(S) ELSE Fallback
    BY <1>4 DEF StartLoaded
  <2>2. S \in SUBSET ScheduledJobs /\ \A j \in S : ~Raises(config[j])
    BY ProcessedRows
  <2>3. SchedAfter(S) \in [ScheduledJobs -> Scheduled \cup {Off}]
    BY <2>2, AfterProcessing
  <2>4. sched' \in [ScheduledJobs -> Scheduled \cup {Off}]
    BY <2>1, <2>3, ScheduleAssumption
  <2> QED
    BY <1>1, <1>2, <1>3, <1>4, <2>1, <2>2, <2>4 DEF StartLoaded, ScheduleTypeOK, DownForgets
<1>5. CASE StartFallback
  <2>1. Fallback \in [ScheduledJobs -> Scheduled \cup {Off}]
    BY ScheduleAssumption
  <2> QED
    BY <1>1, <1>2, <1>5, <2>1
    DEF StartFallback, ScheduleTypeOK, StampsPast, StampsFresh, DownForgets
<1>6. CASE CheckConfigChanges
  <2>1. PICK S \in ProcessedOf(Changed) : seen' = SeenAfter(S) /\ sched' = SchedAfter(S)
    BY <1>6 DEF CheckConfigChanges
  <2>2. S \in SUBSET ScheduledJobs /\ \A j \in S : ~Raises(config[j])
    BY ProcessedRows DEF Changed
  <2>3. SchedAfter(S) \in [ScheduledJobs -> Scheduled \cup {Off}]
    BY <2>2, AfterProcessing
  <2> QED
    BY <1>1, <1>2, <1>3, <1>6, <2>1, <2>2, <2>3
    DEF CheckConfigChanges, ScheduleTypeOK, DownForgets
<1>7. CASE WorkerCrash
  <2>1. crashes' \in 0..MaxCrashes
    BY <1>7, ScheduleAssumption DEF WorkerCrash, ScheduleTypeOK
  <2>2. /\ sched' \in [ScheduledJobs -> Scheduled \cup {Off}]
        /\ \A j \in ScheduledJobs : seen'[j] = Unset
    BY <1>7 DEF WorkerCrash
  <2>3. \A e \in Editors : edits[e].pc = "stamped" => edits[e].new.stamp # Unset
    BY ScheduleAssumption DEF EditsComplete, ConfigRow
  <2> QED
    BY <1>1, <1>2, <1>7, <2>1, <2>2, <2>3
    DEF WorkerCrash, ScheduleTypeOK, StampsPast, StampsFresh, DownForgets
<1> QED
  BY <1>4, <1>5, <1>6, <1>7

\* Every step keeps the versions in order.
LEMMA VersionsKept == Versions /\ [ScheduleNext]_scheduleVars => Versions'
<1> SUFFICES ASSUME Versions, [ScheduleNext]_scheduleVars
             PROVE  Versions'
  OBVIOUS
<1>1. CASE UNCHANGED scheduleVars
  BY <1>1 DEF scheduleVars, worker, Versions, ScheduleTypeOK, EditsComplete, Begun, StampsPast,
              StampsFresh, DownForgets
<1> QED
  BY <1>1, LoadKeeps, StampKeeps, CommitKeeps, WorkerKeeps DEF ScheduleNext, EditStep

-----------------------------------------------------------------------------
(* What the worker has seen is in force                                    *)

\* Each step that could part the memory of the worker from its scheduler.
LEMMA InForceKept == ScheduleInv /\ NoneRaises /\ [ScheduleNext]_scheduleVars => SeenIsInForce'
<1> SUFFICES ASSUME ScheduleInv, NoneRaises, [ScheduleNext]_scheduleVars
             PROVE  SeenIsInForce'
  OBVIOUS
<1> USE DEF ScheduleInv
<1>1. CASE UNCHANGED <<config, up, sched, seen>>
  BY <1>1 DEF SeenIsInForce, InForce
<1>2. ASSUME NEW e \in Editors, EditCommit(e)
      PROVE  SeenIsInForce'
  <2>1. \A j \in ScheduledJobs : config'[j] # config[j] => seen'[j] # config'[j].stamp
    BY <1>2, CommitKeeps
  <2> QED
    BY <1>2, <2>1 DEF EditCommit, worker, SeenIsInForce, InForce
<1>3. ASSUME NEW S \in SUBSET ScheduledJobs, \A j \in S : ~Raises(config[j]),
             seen' = SeenAfter(S), sched' = SchedAfter(S), UNCHANGED config,
             \A j \in ScheduledJobs \ S : up \/ seen[j] # config[j].stamp
      PROVE  SeenIsInForce'
  <2>1. /\ \A j \in S : sched'[j] = Applied(config[j], sched'[j])
        /\ \A j \in ScheduledJobs \ S : sched'[j] = sched[j] /\ seen'[j] = seen[j]
    BY <1>3, AfterProcessing DEF Versions
  <2> QED
    BY <1>3, <2>1 DEF SeenIsInForce, InForce
<1>4. CASE StartLoaded
  <2>1. PICK S \in ProcessedOf(ScheduledJobs) :
               /\ seen' = SeenAfter(S)
               /\ sched' = IF S = ScheduledJobs THEN SchedAfter(S) ELSE Fallback
    BY <1>4 DEF StartLoaded
  <2>2. S = ScheduledJobs /\ \A j \in S : ~Raises(config[j])
    BY ProcessedRows
  <2> QED
    BY <1>3, <1>4, <2>1, <2>2 DEF StartLoaded
<1>5. CASE StartFallback
  <2>1. \A j \in ScheduledJobs : seen[j] = Unset /\ config[j].stamp # Unset
    BY <1>5, ScheduleAssumption DEF StartFallback, Versions, DownForgets, ScheduleTypeOK, ConfigRow
  <2> QED
    BY <1>5, <2>1 DEF StartFallback, SeenIsInForce
<1>6. CASE CheckConfigChanges
  <2>1. PICK S \in ProcessedOf(Changed) : seen' = SeenAfter(S) /\ sched' = SchedAfter(S)
    BY <1>6 DEF CheckConfigChanges
  <2>2. S \in SUBSET ScheduledJobs /\ \A j \in S : ~Raises(config[j])
    BY ProcessedRows DEF Changed
  <2> QED
    BY <1>3, <1>6, <2>1, <2>2 DEF CheckConfigChanges
<1>7. CASE WorkerCrash
  BY <1>7 DEF WorkerCrash, SeenIsInForce
<1> QED
  BY <1>1, <1>2, <1>4, <1>5, <1>6, <1>7
  DEF ScheduleNext, EditLoad, EditStep, EditStamp, scheduleVars, worker

-----------------------------------------------------------------------------
(* Theorems                                                                *)

\* What the editors and the worker exchange is always a row, a version and a schedule:
\* no merge of partial requests and no commit of some columns makes anything else.
THEOREM SchedulesTyped == ScheduleSpec => []ScheduleTypeOK
<1>1. ScheduleInv => Versions
  BY DEF ScheduleInv
<1>2. Versions => ScheduleTypeOK
  BY DEF Versions
<1> QED
  BY <1>1, <1>2, InitVersions, VersionsKept, PTL DEF ScheduleSpec

\* The memory of the worker is true through crashes, fallbacks and edits that commit in
\* any order, as long as no row holds an hour no trigger accepts: then register_jobs,
\* which remembers the rows it dealt with before one raised and puts the fallback over
\* all of them, never has to.
THEOREM MemoryIsTrue == ScheduleSpec /\ []NoneRaises => []SeenIsInForce
<1>1. ScheduleInv => SeenIsInForce
  BY DEF ScheduleInv
<1>2. ScheduleInv /\ NoneRaises /\ [ScheduleNext]_scheduleVars => ScheduleInv'
  BY VersionsKept, InForceKept DEF ScheduleInv
<1> QED
  BY <1>1, <1>2, InitVersions, PTL DEF ScheduleSpec
=============================================================================
