---------------------------- MODULE MarketDemand ----------------------------
(***************************************************************************)
(* The resolved demand of one target station and one target structure of a *)
(* region (market_demand_resolved), and everyone who writes it:            *)
(*                                                                         *)
(*   - the Adam4EVE import, and a page that computes a station's           *)
(*     opportunities on the spot, replace the rows of the station that     *)
(*     come from Adam4EVE (Refreshers);                                    *)
(*   - the EVE Ref import derives what Adam4EVE does not cover, from rows  *)
(*     it has loaded beforehand (job);                                     *)
(*   - the structure snapshots, and a page of a structure, resolve the     *)
(*     structure's rows one by one (Pollers).                              *)
(*                                                                         *)
(* A figure is what a source says of a type: 0 when it has no row of it, 1 *)
(* when nothing was sold, and otherwise an amount.  The columns of a row   *)
(* that hold figures are written together, and carry the source they are   *)
(* of.  What is deleted and not committed is still there for the others,   *)
(* who wait when they write it.  The inputs change as AdamImports,         *)
(* EveRefHistory and OrderBooks have it; here they just change, the        *)
(* history only by files that are due, and without one an EVE Ref import   *)
(* derives nothing.                                                        *)
(***************************************************************************)
EXTENDS Integers, FiniteSets, FiniteSetsExt

CONSTANTS
    Types,
    RawFigures, PeriodFigures, HistoryFigures, \* bound: the figures of each input
    Interval,     \* _COMMIT_INTERVAL
    Refreshers, Pollers,
    Daily,        \* the refresher that is a daily job
    MaxHappenings \* bound: changes of inputs, pages, early ends, clearings

Figures == RawFigures \cup PeriodFigures \cup HistoryFigures

ASSUME DemandAssumption ==
    /\ IsFiniteSet(Types)
    /\ MaxHappenings \in Nat
    /\ {0} \subseteq Figures /\ Figures \subseteq Nat
    /\ Interval \in Nat \ {0}
    /\ Daily \in Refreshers

VARIABLES
    raw,       \* adam_market_orders_trade_raw, of the station
    period,    \* npc_station_demand_periods and structure_demand_periods
    history,   \* esi_history_daily, of the region
    due,       \* does EVE Ref list a file that is not on record
    rows,      \* market_demand_resolved
    refresh,   \* each refresher's transaction
    job,       \* the EVE Ref import, deriving
    poll,      \* each poller, resolving
    happened   \* the bounded counter

inputs == <<raw, period, history>>
vars == <<raw, period, history, due, rows, refresh, job, poll, happened>>

-----------------------------------------------------------------------------
(* Rows and figures                                                        *)

Station == {"station"} \X Types
Structure == {"structure"} \X Types
Keys == Station \cup Structure
TypeOf(k) == k[2]

Sold(figure) == figure > 1

Sources == {"adam4eve", "npc_station_period", "local_structure", "esi_live",
            "regional_fallback"}
Result(source, figure) == [source |-> source, units |-> <<source, figure>>]
NoRow == [source |-> "none", units |-> <<"none", 0>>]
Rows == [source : Sources, units : Sources \X Figures] \cup {NoRow}

\* The sources of a market's demand, in the order they are asked.
Chain(k) == IF k \in Station THEN <<"adam4eve", "npc_station_period", "esi_live">>
            ELSE <<"local_structure", "esi_live">>

\* What is left when no source has sales: a station's row is deleted.
Rest(k) == IF k \in Station THEN NoRow ELSE Result("regional_fallback", 0)

\* upsert_for_location: the first source that sold something.
Resolved(k, figureOf) ==
    LET sold == {i \in DOMAIN Chain(k) : Sold(figureOf[Chain(k)[i]])}
    IN IF sold = {} THEN Rest(k)
       ELSE Result(Chain(k)[Min(sold)], figureOf[Chain(k)[Min(sold)]])

\* The figures as they are given, Adam4EVE's only where it is asked.
Asked(fromAdam, fromPeriod, fromHistory) ==
    [s \in Sources |-> CASE s = "adam4eve" -> fromAdam
                         [] s = "esi_live" -> fromHistory
                         [] s = "regional_fallback" -> 0
                         [] OTHER -> fromPeriod]
Current(k) == Resolved(k, Asked(raw[TypeOf(k)], period[k], history[TypeOf(k)]))

\* The ORM writes the columns that differ from the row it has loaded.
Written(old, new, now) ==
    IF NoRow \in {old, new} THEN new
    ELSE [source |-> IF new.source # old.source THEN new.source ELSE now.source,
          units |-> IF new.units # old.units THEN new.units ELSE now.units]

\* It can not insert a row that is there, nor update one that is not.
Clashes(k, old, new, gone) ==
    /\ new # NoRow
    /\ IF old = NoRow THEN rows[k] # NoRow ELSE gone

\* Deleting one that is not is a warning only.
Flushed(k, old, new, gone) == IF new = NoRow /\ (old = NoRow \/ gone) THEN rows[k]
                              ELSE Written(old, new, rows[k])

-----------------------------------------------------------------------------
Refresh == [pc : {"idle", "delete", "insert"},
            seen : SUBSET Station,    \* the rows its DELETE has found
            held : SUBSET Station]    \* those it deleted, until it commits
NoRefresh == [pc |-> "idle", seen |-> {}, held |-> {}]

Job == [pc : {"idle", "exclude", "preload", "derive", "commit"},
        left : SUBSET Keys,           \* the keys it has yet to derive
        covered : SUBSET Station,     \* adam_covered_keys
        old : [Keys -> Rows],         \* the rows it has loaded
        period : [Keys -> Figures],   \* the periods it has loaded
        history : [Types -> Figures], \* the history it has loaded
        gone : SUBSET Keys,           \* rows that were deleted since
        pending : SUBSET Keys,        \* keys it has derived and not committed
        new : [Keys -> Rows],         \* and their rows
        alone : BOOLEAN]              \* history: nothing else happened since it looked,
                                      \* and it has not failed
NoJob == [pc |-> "idle", left |-> {}, covered |-> {}, old |-> [k \in Keys |-> NoRow],
          period |-> [k \in Keys |-> 0], history |-> [t \in Types |-> 0],
          gone |-> {}, pending |-> {}, new |-> [k \in Keys |-> NoRow],
          alone |-> FALSE]

Poll == [left : SUBSET Structure,     \* the keys it has yet to resolve
         at : SUBSET Structure,       \* the one whose row it has loaded
         old : Rows, new : Rows, gone : BOOLEAN]
NoPoll == [left |-> {}, at |-> {}, old |-> NoRow, new |-> NoRow, gone |-> FALSE]

DemandTypeOK ==
    /\ raw \in [Types -> Figures] /\ period \in [Keys -> Figures]
    /\ history \in [Types -> Figures] /\ due \in BOOLEAN
    /\ rows \in [Keys -> Rows]
    /\ refresh \in [Refreshers -> Refresh] /\ job \in Job /\ poll \in [Pollers -> Poll]
    /\ happened \in 0..MaxHappenings

Init ==
    /\ raw = [t \in Types |-> 0] /\ history = [t \in Types |-> 0]
    /\ period = [k \in Keys |-> 0] /\ due = TRUE
    /\ rows = [k \in Keys |-> NoRow]
    /\ refresh = [r \in Refreshers |-> NoRefresh]
    /\ job = NoJob
    /\ poll = [p \in Pollers |-> NoPoll]
    /\ happened = 0

Happening == happened < MaxHappenings /\ happened' = happened + 1

Locked == UNION {refresh[r].held : r \in Refreshers}

\* What the others are to know of a commit that deletes rows.
Met(deleted) ==
    /\ job' = [job EXCEPT !.alone = FALSE,
                          !.gone = @ \cup {k \in deleted : job.old[k] # NoRow}]
    /\ poll' = [p \in Pollers |-> [poll[p] EXCEPT !.gone = @ \/ poll[p].at \cap deleted # {}]]
MetQuietly == job' = [job EXCEPT !.alone = FALSE]

-----------------------------------------------------------------------------
(* Replacing the station's rows of Adam4EVE                                *)

\* The DELETE takes its snapshot; the daily job begins again and again, others now and
\* then.
RefreshStart(r) ==
    /\ refresh[r].pc = "idle"
    /\ IF r = Daily THEN UNCHANGED happened ELSE Happening
    /\ refresh' = [refresh EXCEPT ![r].pc = "delete",
                                  ![r].seen = {k \in Station : rows[k].source = "adam4eve"}]
    /\ UNCHANGED <<inputs, due, rows, job, poll>>

\* It waits for rows that another holds, and looks again at those that have changed.
RefreshDelete(r) ==
    /\ refresh[r].pc = "delete" /\ refresh[r].seen \cap Locked = {}
    /\ refresh' = [refresh EXCEPT ![r].pc = "insert", ![r].seen = {},
                      ![r].held = {k \in refresh[r].seen : rows[k].source = "adam4eve"}]
    /\ UNCHANGED <<inputs, due, rows, job, poll, happened>>

\* Mutant: of the types that it had.
InsertedAgain(r) ==
    [k \in Keys |-> IF k \in refresh[r].held /\ Sold(raw[TypeOf(k)])
                    THEN Result("adam4eve", raw[TypeOf(k)])
                    ELSE IF k \in refresh[r].held THEN NoRow ELSE rows[k]]

\* INSERT ... ON CONFLICT DO UPDATE, of the types that sold.
Inserted(r) ==
    [k \in Keys |->
        IF k \in Station /\ Sold(raw[TypeOf(k)]) THEN Result("adam4eve", raw[TypeOf(k)])
        ELSE IF k \in refresh[r].held THEN NoRow ELSE rows[k]]

ToInsert == {k \in Station : Sold(raw[TypeOf(k)])}
HeldByOthers(r) == UNION {refresh[s].held : s \in Refreshers \ {r}}
RefreshInsert(r) ==
    /\ refresh[r].pc = "insert" /\ ToInsert \cap HeldByOthers(r) = {}
    /\ rows' = Inserted(r)
    /\ refresh' = [s \in Refreshers |->
                      IF s = r THEN NoRefresh
                      ELSE [refresh[s] EXCEPT !.seen = @ \ refresh[r].held]]
    /\ Met(refresh[r].held)
    /\ UNCHANGED <<inputs, due, happened>>

-----------------------------------------------------------------------------
(* Deriving demand in the EVE Ref import                                   *)

\* adam_covered_keys
CoveredBy(keys) == {k \in keys \cap Station : raw[TypeOf(k)] # 0}

\* _esi_demand_refresh_keys: keys with recent history, station periods that sold, and live
\* orders whose history shows nothing.  The import gets here when it has loaded the files
\* that were due; a run that finds none is over before it derives anything.
Look ==
    /\ job.pc = "idle" /\ due /\ due' = FALSE
    /\ \E ordered \in SUBSET {k \in Keys : history[TypeOf(k)] = 1} :
        LET keys == {k \in Keys : Sold(history[TypeOf(k)])}
                      \cup {k \in Station : Sold(period[k])} \cup ordered
        IN job' = [NoJob EXCEPT !.pc = "exclude", !.left = keys, !.alone = TRUE,
                                !.covered = CoveredBy(keys)]
    /\ UNCHANGED <<inputs, rows, refresh, poll, happened>>

\* Mutant: what Adam4EVE covers is left to its import.
AllCovered == job.covered

\* adam_covered_and_resolved
CoveredAndResolved == {k \in job.covered : rows[k] # NoRow}

Exclude ==
    /\ job.pc = "exclude"
    /\ job' = [job EXCEPT !.pc = "preload", !.left = @ \ CoveredAndResolved]
    /\ UNCHANGED <<inputs, due, rows, refresh, poll, happened>>

Ended == [NoJob EXCEPT !.alone = job.alone]

\* build_batch_preload
Preload ==
    /\ job.pc = "preload"
    /\ job' = IF job.left = {} THEN Ended
              ELSE [job EXCEPT !.pc = "derive", !.history = history,
                               !.period = [k \in Keys |-> IF k \in job.left \cap Station
                                                          THEN period[k] ELSE 0],
                               !.old = [k \in Keys |-> IF k \in job.left THEN rows[k]
                                                       ELSE NoRow]]
    /\ UNCHANGED <<inputs, due, rows, refresh, poll, happened>>

\* A structure's period and Adam4EVE's rows are read when the key is due.
Derived(k) ==
    Resolved(k, Asked(IF k \in job.covered THEN raw[TypeOf(k)] ELSE 0,
                      IF k \in Station THEN job.period[k] ELSE period[k],
                      job.history[TypeOf(k)]))

\* For Adam4EVE's figures the row is looked up again; one that is loaded stays as it was.
LookedUp(k) == /\ Derived(k).source = "adam4eve"
               /\ job.old[k] = NoRow \/ k \in job.gone
Derive ==
    /\ job.pc = "derive"
    /\ \E k \in job.left :
        job' = [job EXCEPT !.left = @ \ {k}, !.pending = @ \cup {k}, !.new[k] = Derived(k),
                           !.pc = IF \/ Cardinality(job.pending) + 1 = Interval
                                     \/ job.left = {k}
                                  THEN "commit" ELSE "derive",
                           !.old[k] = IF LookedUp(k) THEN rows[k] ELSE @,
                           !.gone = IF LookedUp(k) THEN @ \ {k} ELSE @,
                           !.covered = @ \ {k}, !.period[k] = 0,
                           !.history = IF job.left = {k} THEN NoJob.history ELSE @]
    /\ UNCHANGED <<inputs, due, rows, refresh, poll, happened>>

Clashing == \E k \in job.pending : Clashes(k, job.old[k], job.new[k], k \in job.gone)
Writing == {k \in job.pending : NoRow # job.old[k] \/ NoRow # job.new[k]}
Committed == [k \in Keys |-> IF k \in job.pending
                             THEN Flushed(k, job.old[k], job.new[k], k \in job.gone)
                             ELSE rows[k]]
Removed == {k \in job.pending : job.new[k] = NoRow /\ rows[k] # NoRow /\ Committed[k] = NoRow}

\* The rows are flushed and committed; one clash fails the run.
Commit ==
    /\ job.pc = "commit" /\ Writing \cap Locked = {}
    /\ IF Clashing THEN job' = NoJob /\ UNCHANGED <<rows, refresh>>
       ELSE /\ rows' = Committed
            /\ refresh' = [r \in Refreshers |-> [refresh[r] EXCEPT !.seen = @ \ Removed]]
            /\ job' = IF job.left = {} THEN Ended
                      ELSE [job EXCEPT !.pc = "derive", !.pending = {},
                                       !.new = [k \in Keys |-> NoRow],
                                       !.old = [k \in Keys |-> IF k \in job.left THEN @[k]
                                                               ELSE NoRow],
                                       !.gone = @ \ job.pending]
    /\ UNCHANGED <<inputs, due, poll, happened>>

-----------------------------------------------------------------------------
(* Resolving the structure's rows one by one                               *)

\* _refresh_market_demand_for_locations: a poller resolves some types.
PollStart(p) ==
    /\ poll[p] = NoPoll
    /\ \E keys \in SUBSET Structure \ {{}} : poll' = [poll EXCEPT ![p].left = keys]
    /\ UNCHANGED <<inputs, due, rows, refresh, job, happened>>

PollRead(p) ==
    /\ poll[p].at = {}
    /\ \E k \in poll[p].left :
        poll' = [poll EXCEPT ![p].at = {k}, ![p].left = @ \ {k},
                             ![p].old = rows[k], ![p].new = Current(k)]
    /\ UNCHANGED <<inputs, due, rows, refresh, job, happened>>

PollWrite(p) ==
    /\ \E k \in poll[p].at :
        IF Clashes(k, poll[p].old, poll[p].new, poll[p].gone)
        THEN poll' = [poll EXCEPT ![p] = NoPoll] /\ UNCHANGED <<rows, job>>
        ELSE /\ rows' = [rows EXCEPT ![k] = Flushed(k, poll[p].old, poll[p].new,
                                                    poll[p].gone)]
             /\ poll' = [poll EXCEPT ![p] = [NoPoll EXCEPT !.left = poll[p].left]]
             /\ MetQuietly
    /\ UNCHANGED <<inputs, due, refresh, happened>>

-----------------------------------------------------------------------------
(* What else may happen                                                    *)

\* EVE Ref lists a file that is new or was published again.  (One that came up while an
\* import was at work, or that it could not have (404), is as good as one after it: only
\* the next import asks.)
Publish ==
    /\ job.pc = "idle" /\ ~due /\ due' = TRUE
    /\ UNCHANGED <<inputs, rows, refresh, job, poll, happened>>

\* An import or the order books change what a source says; an import does so between its
\* own refreshes, the one of history by the files that are due.
Change ==
    /\ Happening
    /\ \/ /\ refresh[Daily].pc = "idle"
          /\ \E t \in Types, f \in RawFigures : raw' = [raw EXCEPT ![t] = f]
          /\ UNCHANGED <<period, history>>
       \/ /\ \E k \in Keys, f \in PeriodFigures : period' = [period EXCEPT ![k] = f]
          /\ UNCHANGED <<raw, history>>
       \/ /\ job.pc = "idle" /\ due
          /\ \E t \in Types, f \in HistoryFigures : history' = [history EXCEPT ![t] = f]
          /\ UNCHANGED <<raw, period>>
    /\ inputs' # inputs
    /\ MetQuietly
    /\ UNCHANGED <<due, rows, refresh, poll>>

\* A run is cancelled, fails or dies; what it has not committed is gone.
Fail ==
    /\ Happening
    /\ \/ job.pc # "idle" /\ job' = NoJob /\ UNCHANGED <<refresh, poll>>
       \/ /\ \E r \in Refreshers : /\ refresh[r].pc # "idle"
                                   /\ refresh' = [refresh EXCEPT ![r] = NoRefresh]
          /\ UNCHANGED <<job, poll>>
       \/ /\ \E p \in Pollers : poll[p] # NoPoll /\ poll' = [poll EXCEPT ![p] = NoPoll]
          /\ UNCHANGED <<job, refresh>>
    /\ UNCHANGED <<inputs, due, rows>>

\* The process is told to stop: the poll before a key commits what the run has derived.
Interrupt ==
    /\ job.pc = "derive" /\ job.left # {} /\ job.pending # {} /\ Happening
    /\ Writing \cap Locked = {}
    /\ rows' = IF Clashing THEN rows ELSE Committed
    /\ refresh' = [r \in Refreshers |->
                      [refresh[r] EXCEPT !.seen = IF Clashing THEN @ ELSE @ \ Removed]]
    /\ job' = NoJob
    /\ UNCHANGED <<inputs, due, poll>>

\* clear_job_data: rows and inputs of one job in one transaction, whatever runs; the
\* history is cleared without the demand, and with the record of what is loaded.
Without(keys) == [k \in Keys |-> IF k \in keys THEN NoRow ELSE rows[k]]
ClearAdam ==
    /\ Locked = {}
    /\ rows' = Without(Station) /\ raw' = [t \in Types |-> 0]
    /\ refresh' = [r \in Refreshers |-> [refresh[r] EXCEPT !.seen = {}]]
    /\ Met(Station)
    /\ UNCHANGED <<period, history, due>>
ClearSnapshots ==
    /\ rows' = Without(Structure)
    /\ period' = [k \in Keys |-> IF k \in Structure THEN 0 ELSE period[k]]
    /\ Met(Structure)
    /\ UNCHANGED <<raw, history, due, refresh>>
ClearHistory ==
    /\ history' = [t \in Types |-> 0] /\ due' = TRUE
    /\ MetQuietly
    /\ UNCHANGED <<rows, raw, period, refresh, poll>>
Clear ==
    /\ Happening
    /\ ClearAdam \/ ClearSnapshots \/ ClearHistory

JobStep == Look \/ Exclude \/ Preload \/ Derive \/ Commit
RefreshStep(r) == RefreshDelete(r) \/ RefreshInsert(r)
PollStep(p) == PollRead(p) \/ PollWrite(p)

Next ==
    \/ JobStep
    \/ \E r \in Refreshers : RefreshStart(r) \/ RefreshStep(r)
    \/ \E p \in Pollers : PollStart(p) \/ PollStep(p)
    \/ Publish \/ Change \/ Fail \/ Interrupt \/ Clear

\* Threads run, and the worker starts both imports every day; nothing makes EVE Ref publish.
Spec ==
    /\ Init /\ [][Next]_vars
    /\ SF_vars(JobStep) /\ WF_vars(RefreshStart(Daily))
    /\ \A r \in Refreshers : SF_vars(RefreshStep(r))
    /\ \A p \in Pollers : WF_vars(PollStep(p))

-----------------------------------------------------------------------------
(* Properties                                                              *)

AdamSold(k) == k \in Station /\ Sold(raw[TypeOf(k)])
Covers(k) == k \in Station /\ raw[TypeOf(k)] # 0
HasDemand(k) == Sold(history[TypeOf(k)]) \/ (k \in Station /\ Sold(period[k]))

\* Keys that Adam4EVE covers but are not resolved "must still be processed here, otherwise
\* they fall through both syncs" (service.py:2109): an import that nothing disturbs leaves a
\* row for every key that history or a period has sales of, and the row of the first source
\* that sold, where it is not Adam4EVE's.
NothingFallsThrough ==
    job.pc = "idle" /\ job.alone =>
        \A k \in Keys : HasDemand(k) =>
            /\ rows[k] # NoRow
            /\ ~Covers(k) => rows[k] = Current(k)

\* As long as EVE Ref goes on publishing, and once the inputs stay as they are, every key
\* comes to the row of the first source that sold, figures and all: whatever writers
\* overtook each other, mixed their columns in one row, clashed, waited, failed or were
\* cleared away.  An import that ends early after its last file is on record leaves the
\* demand behind, and so do those after it, until another file is due (service.py:1949);
\* hence the first condition.  Keys that Adam4EVE covers without sales are left out, as are
\* those that nothing has sales of.
DemandSettles ==
    []<>due => <>[](\A k \in Keys : AdamSold(k) \/ (HasDemand(k) /\ ~Covers(k)) => rows[k] = Current(k))
-----------------------------------------------------------------------------
(* The inductive invariant, proved in MarketDemandProofs                   *)

Wanted == {k \in Keys : HasDemand(k)}
Settled(k) == rows[k] # NoRow /\ (~Covers(k) => rows[k] = Current(k))
WellDerived(k) == job.new[k] # NoRow /\ (~Covers(k) => job.new[k] = Current(k))

\* A row that somebody has loaded and that is not there any more is known to be gone, and
\* nobody deletes a structure's row but a clearing: an UPDATE finds its row or fails.
VanishedIsGone ==
    /\ \A k \in job.left \cup job.pending :
          job.old[k] # NoRow /\ rows[k] = NoRow => k \in job.gone
    /\ \A k \in job.pending \cap Structure : job.new[k] # NoRow
    /\ \A p \in Pollers : \A k \in poll[p].at :
          /\ poll[p].old # NoRow /\ rows[k] = NoRow => poll[p].gone
          /\ poll[p].new # NoRow

\* A key is on one list at a time.
OneList == job.left \cap job.pending = {}

\* What an undisturbed import has loaded of a key, it still has when it is due.
LoadedIsThere ==
    /\ job.gone = {}
    /\ \A k \in job.left : k \in job.covered <=> Covers(k)
    /\ job.pc \in {"exclude", "preload"} => job.pending = {}
    /\ job.pc \in {"derive", "commit"} =>
          /\ \A k \in job.left \cup job.pending : job.old[k] = rows[k]
          /\ \A k \in job.left \cap Station : job.period[k] = period[k]
          /\ job.left # {} => job.history = history

\* A key that something was sold of is on a list of such an import until its row is right,
\* or Adam4EVE has one.
NoneDropped ==
    /\ job.pc = "exclude" => Wanted \subseteq job.left
    /\ job.pc = "preload" => \A k \in Wanted \ job.left : Covers(k) /\ rows[k] # NoRow
    /\ job.pc \in {"derive", "commit"} =>
          /\ \A k \in Wanted \ (job.left \cup job.pending) : Settled(k)
          /\ \A k \in Wanted \cap job.pending : WellDerived(k)
    /\ job.pc = "idle" => \A k \in Wanted : Settled(k)

IInv == DemandTypeOK /\ VanishedIsGone /\ OneList /\ (job.alone => LoadedIsThere /\ NoneDropped)
=============================================================================
