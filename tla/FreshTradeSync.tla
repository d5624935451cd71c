--------------------------- MODULE FreshTradeSync ---------------------------
(***************************************************************************)
(* fresh_trade_data_sync, the job that runs other jobs: the foundation     *)
(* import, then the raw imports side by side in a thread pool, then the    *)
(* structure snapshots.  Each child goes through trigger_job of the job    *)
(* service, so it may find a run of its type open already and waits for    *)
(* that one instead.  The job service is JobLedger; whoever else starts,   *)
(* cancels, clears or loses runs does so through it as well.               *)
(***************************************************************************)
EXTENDS JobLedger, FiniteSets

CONSTANTS
    foundation, structure,   \* foundation_import_sync, structure_snapshot_sync
    Raw,                     \* FRESH_TRADE_RAW_JOBS
    OthersTypes,             \* types that others start as well
    MaxAttempts,             \* bound: times the refresh is started
    MaxOthers,               \* bound: runs that others open
    MaxOutside               \* bound: times others open, mark, force-close or lose a run

ASSUME FreshAssumption ==
    /\ Types = {foundation, structure} \cup Raw
    /\ foundation # structure /\ {foundation, structure} \cap Raw = {}
    /\ OthersTypes \subseteq Types
    /\ {MaxAttempts, MaxOthers, MaxOutside} \subseteq Nat
    /\ IsFiniteSet(Raw)
    /\ MaxJobs >= MaxAttempts * (Cardinality(Raw) + 2) + MaxOthers

VARIABLES
    pc,         \* where the refresh is
    verdict,    \* how its body ended: returned (success) or raised (failed)
    collected,  \* raw children whose futures as_completed has yielded
    calls,      \* _run_fresh_child_job, per child type
    attempts, others, outside   \* the bounded counters

freshVars == <<runs, pc, verdict, collected, calls, attempts, others, outside>>

\* look, insert: the two halves of trigger_job; running: in _execute_job of its own
\* run; waiting: in _wait_for_fresh_child_job, on somebody else's.
Pending == {"look", "insert", "running", "waiting"}
Call == [pc : Pending \cup {"idle", "returned", "raised"}, job : Jobs \cup {0},
         result : Active \cup Verdict \cup {"none"}]
NoCall == [pc |-> "idle", job |-> 0, result |-> "none"]

Stages == {"foundation", "raw", "draining", "structure"}

FreshTypeOK ==
    /\ LedgerTypeOK
    /\ pc \in Stages \cup {"idle", "done", "lost"}
    /\ verdict \in {"none", "success", "failed"}
    /\ collected \subseteq Raw
    /\ calls \in [Types -> Call]
    /\ attempts \in 0..MaxAttempts
    /\ others \in 0..MaxOthers
    /\ outside \in 0..MaxOutside

FreshInit ==
    /\ LedgerInit
    /\ pc = "idle" /\ verdict = "none" /\ collected = {}
    /\ calls = [k \in Types |-> NoCall]
    /\ attempts = 0 /\ others = 0 /\ outside = 0

\* The runs whose executor is a thread of this refresh.
Own == {calls[k].job : k \in {t \in Types : calls[t].pc = "running"}}

-----------------------------------------------------------------------------
(* One child                                                               *)

\* _get_active_job_run: the newest open run of the type is joined.
Look(k) ==
    /\ calls[k].pc = "look"
    /\ \/ /\ OpenOf(k) = {}
          /\ calls' = [calls EXCEPT ![k].pc = "insert"]
       \/ \E j \in OpenOf(k) :
             /\ \A i \in OpenOf(k) : i <= j
             /\ calls' = [calls EXCEPT ![k].pc = "waiting", ![k].job = j]
    /\ UNCHANGED <<runs, pc, verdict, collected, attempts, others, outside>>

\* _create_job_run; the run is executed by the thread that created it.
Insert(k) ==
    /\ calls[k].pc = "insert"
    /\ \E j \in Jobs :
          /\ Open(j, k)
          /\ calls' = [calls EXCEPT ![k].pc = "running", ![k].job = j]
    /\ UNCHANGED <<pc, verdict, collected, attempts, others, outside>>

\* The work of an own child ends one way or another ...
OwnEnds(k) ==
    /\ calls[k].pc = "running"
    /\ \E v \in Verdict : Ends(calls[k].job, v)
    /\ UNCHANGED <<pc, verdict, collected, calls, attempts, others, outside>>

\* ... its row is closed and trigger_job returns the object it wrote.
OwnReturns(k) ==
    /\ calls[k].pc = "running"
    /\ Closes(calls[k].job)
    /\ calls' = [calls EXCEPT ![k].pc = "returned", ![k].result = runs[calls[k].job].outcome]
    /\ UNCHANGED <<pc, verdict, collected, attempts, others, outside>>

\* A joined run is polled until its row is closed or bears a verdict.
PollJoined(k) ==
    /\ calls[k].pc = "waiting"
    /\ LET r == runs[calls[k].job]
       IN  /\ r.finished \/ r.status \in Verdict
           /\ calls' = [calls EXCEPT ![k].pc = "returned", ![k].result = r.status]
    /\ UNCHANGED <<runs, pc, verdict, collected, attempts, others, outside>>

\* Mutant: the deadline is only looked at once the row is closed.
WaitTimesOutWhenClosed(k) ==
    /\ calls[k].pc = "waiting"
    /\ ~IsOpen(calls[k].job)
    /\ calls' = [calls EXCEPT ![k].pc = "raised"]
    /\ UNCHANGED <<runs, pc, verdict, collected, attempts, others, outside>>

\* FRESH_CHILD_JOB_TIMEOUT_SECONDS is over.
WaitTimesOut(k) ==
    /\ calls[k].pc = "waiting"
    /\ calls' = [calls EXCEPT ![k].pc = "raised"]
    /\ UNCHANGED <<runs, pc, verdict, collected, attempts, others, outside>>

-----------------------------------------------------------------------------
(* The refresh                                                             *)

Over(k) == calls[k].pc \in {"returned", "raised"}
Good(k) == calls[k].pc = "returned" /\ calls[k].result = "success"

\* The children of a stage are submitted together.
Submit(S) == calls' = [k \in Types |-> IF k \in S THEN [NoCall EXCEPT !.pc = "look"]
                                       ELSE calls[k]]

\* The body of the job starts, on a first run or when it is started again.
Start ==
    /\ pc \in {"idle", "done", "lost"}
    /\ attempts < MaxAttempts
    /\ attempts' = attempts + 1
    /\ pc' = "foundation" /\ verdict' = "none" /\ collected' = {}
    /\ calls' = [k \in Types |-> IF k = foundation THEN [NoCall EXCEPT !.pc = "look"]
                                 ELSE NoCall]
    /\ UNCHANGED <<runs, others, outside>>

\* Any child but a successful one ends the refresh (_raise_if_fresh_child_failed).
FoundationDone ==
    /\ pc = "foundation"
    /\ Over(foundation)
    /\ IF Good(foundation)
       THEN pc' = "raw" /\ Submit(Raw) /\ UNCHANGED verdict
       ELSE pc' = "done" /\ verdict' = "failed" /\ UNCHANGED calls
    /\ UNCHANGED <<runs, collected, attempts, others, outside>>

\* Mutants: a child's status is not looked at; the pool is not joined on an error.
CollectUnchecked(k) ==
    /\ pc = "raw"
    /\ k \in Raw \ collected
    /\ Over(k)
    /\ collected' = collected \cup {k}
    /\ UNCHANGED <<runs, pc, verdict, calls, attempts, others, outside>>
CollectWithoutJoin(k) ==
    /\ pc = "raw"
    /\ k \in Raw \ collected
    /\ Over(k)
    /\ IF Good(k)
       THEN collected' = collected \cup {k} /\ UNCHANGED <<pc, verdict>>
       ELSE pc' = "done" /\ verdict' = "failed" /\ UNCHANGED collected
    /\ UNCHANGED <<runs, calls, attempts, others, outside>>

\* as_completed yields futures as they complete; an error leaves the `with` block,
\* which waits for the threads of the pool before the exception goes on.
Collect(k) ==
    /\ pc = "raw"
    /\ k \in Raw \ collected
    /\ Over(k)
    /\ IF Good(k)
       THEN collected' = collected \cup {k} /\ UNCHANGED pc
       ELSE pc' = "draining" /\ UNCHANGED collected
    /\ UNCHANGED <<runs, verdict, calls, attempts, others, outside>>

\* FRESH_PARALLEL_TIMEOUT_SECONDS is over before every future was yielded.
PoolTimesOut ==
    /\ pc = "raw"
    /\ collected # Raw
    /\ pc' = "draining"
    /\ UNCHANGED <<runs, verdict, collected, calls, attempts, others, outside>>

Drained ==
    /\ pc = "draining"
    /\ \A k \in Raw : Over(k)
    /\ pc' = "done" /\ verdict' = "failed"
    /\ UNCHANGED <<runs, collected, calls, attempts, others, outside>>

RawDone ==
    /\ pc = "raw"
    /\ collected = Raw
    /\ pc' = "structure" /\ Submit({structure})
    /\ UNCHANGED <<runs, verdict, collected, attempts, others, outside>>

\* Mutant: the status of the last child is passed on as the refresh's own.
StructureDoneAsChild ==
    /\ pc = "structure"
    /\ calls[structure].pc = "returned"
    /\ pc' = "done" /\ verdict' = calls[structure].result
    /\ UNCHANGED <<runs, collected, calls, attempts, others, outside>>

StructureDone ==
    /\ pc = "structure"
    /\ Over(structure)
    /\ pc' = "done" /\ verdict' = (IF Good(structure) THEN "success" ELSE "failed")
    /\ UNCHANGED <<runs, collected, calls, attempts, others, outside>>

\* The process of the refresh dies, and with it every executor among its threads.
Crash ==
    /\ pc \in Stages
    /\ \E S \in SUBSET {j \in Jobs : runs[j].executor = "alive"} : Own \subseteq S /\ Lose(S)
    /\ pc' = "lost"
    /\ calls' = [k \in Types |-> NoCall]
    /\ UNCHANGED <<verdict, collected, attempts, others, outside>>

-----------------------------------------------------------------------------
(* Everybody else: the scheduler, other requests, the reaper, operators    *)

Meddle ==
    /\ outside < MaxOutside
    /\ outside' = outside + 1
    /\ \/ /\ others < MaxOthers /\ others' = others + 1
          /\ \E j \in Jobs, k \in OthersTypes : Open(j, k)
       \/ /\ UNCHANGED others
          /\ \/ \E j \in Jobs : Mark(j)
             \/ \E j \in Jobs, v \in Verdict : ForceClose({j}, v)
             \/ \E j \in Jobs \ Own : Lose({j})
    /\ UNCHANGED <<pc, verdict, collected, calls, attempts>>

\* The executors of other threads, which may as well hang for ever.
OthersWork ==
    /\ \E j \in Jobs \ Own : Closes(j) \/ \E v \in Verdict : Ends(j, v)
    /\ UNCHANGED <<pc, verdict, collected, calls, attempts, others, outside>>

-----------------------------------------------------------------------------
CallStep(k) == Look(k) \/ Insert(k) \/ PollJoined(k) \/ WaitTimesOut(k)
BodyStep(k) == OwnEnds(k) \/ OwnReturns(k)
RefreshStep ==
    \/ FoundationDone \/ PoolTimesOut \/ Drained \/ RawDone \/ StructureDone
    \/ \E k \in Raw : Collect(k)

FreshNext ==
    \/ RefreshStep \/ Start \/ Crash \/ Meddle \/ OthersWork
    \/ \E k \in Types : CallStep(k) \/ BodyStep(k)

FreshSpec == FreshInit /\ [][FreshNext]_freshVars

\* Threads run and deadlines pass; nothing is assumed of the runs of others.
ThreadFairness ==
    WF_freshVars(RefreshStep) /\ \A k \in Types : WF_freshVars(CallStep(k))

\* The imports the refresh runs itself come to an end.
BodyFairness == \A k \in Types : WF_freshVars(BodyStep(k))

-----------------------------------------------------------------------------
(* Properties                                                              *)

\* What counts as done was done: the run counted for k is one of type k and its work
\* succeeded, whether it was an own run or a joined one and whatever others wrote
\* over its row meanwhile.
Succeeded(k) ==
    /\ Good(k)
    /\ runs[calls[k].job].type = k
    /\ runs[calls[k].job].outcome = "success"

\* The stages of _run_fresh_trade_data_sync build on one another: raw imports are only
\* started on a successful foundation import, structure snapshots on successful raw
\* imports, and the refresh reports success only when all of them succeeded.
StagedOnSuccess ==
    /\ \A k \in Raw : calls[k].pc # "idle" => Succeeded(foundation)
    /\ calls[structure].pc # "idle" => \A k \in Raw : Succeeded(k)
    /\ verdict = "success" => Succeeded(structure)

\* When the refresh is over, early or not, no import it started is still at work (the
\* pool is joined on every way out), so a second refresh cannot meet the first one's.
NothingLeftBehind ==
    pc \in {"idle", "done", "lost"} => \A k \in Types : calls[k].pc \notin Pending

\* The refresh comes to an end although a run it joined hangs or was orphaned by a
\* crash: every wait has a deadline.
RefreshEnds == pc = "foundation" ~> pc \in {"done", "lost"}

-----------------------------------------------------------------------------
(* The inductive invariant, proved in FreshTradeSyncProofs                 *)

\* A row only says success when the executor is gone and left that outcome, which nobody
\* can change any more.
RowsHonest ==
    \A j \in Jobs : runs[j].status = "success" =>
        runs[j].outcome = "success" /\ runs[j].executor = "none"

\* The run behind a call is one of its type; the one behind a good call is final.
CallsHonest ==
    \A k \in Types :
        /\ calls[k].pc \in {"running", "waiting", "returned"} =>
              calls[k].job \in Jobs /\ runs[calls[k].job].type = k
                                    /\ runs[calls[k].job].status # "absent"
        /\ Good(k) => runs[calls[k].job].outcome = "success"
                      /\ runs[calls[k].job].executor = "none"

Untouched(k) == calls[k].pc = "idle"

\* How far the children are at each stage of the refresh.
StagesHonest ==
    /\ pc \in {"idle", "lost"} => \A k \in Types : Untouched(k)
    /\ pc = "foundation" => \A k \in Types \ {foundation} : Untouched(k)
    /\ pc \in {"raw", "draining"} => Good(foundation) /\ Untouched(structure)
    /\ pc = "structure" => Good(foundation) /\ \A k \in Raw : Good(k)
    /\ pc = "done" => \A k \in Types : Over(k) \/ Untouched(k)
    /\ pc \in Stages \cup {"lost", "idle"} => verdict = "none"
    /\ pc \in Stages => \A k \in collected : Good(k)

\* What was staged, in terms of the calls alone.
StagedOnGood ==
    /\ \A k \in Raw : ~Untouched(k) => Good(foundation)
    /\ ~Untouched(structure) => \A k \in Raw : Good(k)
    /\ verdict = "success" => Good(structure)

FreshInv == FreshTypeOK /\ RowsHonest /\ CallsHonest /\ StagesHonest /\ StagedOnGood
=============================================================================
