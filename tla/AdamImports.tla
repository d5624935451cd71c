----------------------------- MODULE AdamImports -----------------------------
(***************************************************************************)
(* The Adam4EVE imports: market orders (the demand), station prices and    *)
(* station volumes, each published as one file a week.  A file is          *)
(* downloaded once and kept; the demand table is replaced in one           *)
(* transaction and cursors say how far it goes; the price and volume       *)
(* tables are truncated and filled file by file, once a day, and the       *)
(* periods of a station's type, which the pages show, are averages over    *)
(* its latest rows.                                                        *)
(*                                                                         *)
(* Dates are numbers.  A week's file is there from the first day it has    *)
(* rows of and grows by a row a day, so a file is the number of its days;  *)
(* a file whose writing was cut short is a file of fewer days if it was    *)
(* cut between rows, and one that COPY refuses if not.  One run is at work *)
(* at a time: two starts that overlap (OneRunPerStarter of SyncJobs allows *)
(* them) are set aside.                                                    *)
(***************************************************************************)
EXTENDS Integers, FiniteSets, FiniteSetsExt

CONSTANTS
    Weeks,        \* bound: weeks that are published
    WeekDays,     \* days of a week
    Lookback,     \* default_analysis_period_days
    Regions,      \* regions of the target markets
    Traded,       \* the days on which the type of the periods was traded
    MaxFailures,  \* bound: runs cancelled, interrupted, failed or killed
    MaxClears     \* bound: clearings

ASSUME AdamAssumption ==
    /\ {Weeks, WeekDays, Lookback} \subseteq Nat \ {0}
    /\ IsFiniteSet(Regions) /\ Traded \subseteq Nat
    /\ {MaxFailures, MaxClears} \subseteq Nat

VARIABLES
    today,
    files,     \* for each kind and week, the days of its file, or one of those below
    raw,       \* adam_market_orders_trade_raw: the days there are rows of
    marks,     \* each region's cursor (or sync state, before there is a cursor)
    through,   \* the cursor of all regions: synced_through_date, 0 for none
    price, volume,   \* the daily tables: the days there are rows of
    priceThrough,    \* the cursor of the price history, 0 for none
    checked,   \* the cursor of the price history was last marked today
    demand,    \* the days that the resolved demand was derived from
    priced, volumed, \* those that a type's price period and volume period were, if any
    run,
    spoilt,    \* history: what happened to the price table that was checked
    failures, clears \* the bounded counters

periods == <<priced, volumed>>
tables == <<raw, price, volume, demand, periods>>
cursors == <<marks, through, priceThrough, checked>>
outside == <<today, failures, clears>>
vars == <<today, files, raw, marks, through, price, volume, priceThrough, checked, demand,
          periods, run, spoilt, failures, clears>>

-----------------------------------------------------------------------------
(* Dates and files                                                         *)

Dates == 1..(Weeks * WeekDays)
LastDay == Weeks * WeekDays + 1
FirstDate(w) == WeekDays * (w - 1) + 1

\* The Sunday of the week, whatever the file has rows of.
Covered(w) == WeekDays * w

Kinds == {"demand", "price", "volume"}

\* No file, and a file that ends in the middle of a row.
None == -1
Cut == -2

\* The days of the first n days of a week.
FirstOf(w, n) == {d \in Dates : FirstDate(w) <= d /\ d < FirstDate(w) + n}
DatesIn(kind, w) == FirstOf(w, files[kind][w])

\* What Adam4EVE has: rows up to yesterday.
ListedWeeks == {w \in 1..Weeks : FirstDate(w) < today}
OnOffer(w) == Cardinality({d \in FirstOf(w, WeekDays) : d < today})
ExportsSince(since) == {w \in ListedWeeks : Covered(w) > since}

NoMark == [through |-> 0, key |-> 0]
Mark == [through : {0} \cup Dates, key : 0..Weeks]

Run == [pc : {"idle", "list", "fetch demand", "ingest", "mark", "mark all", "history",
              "fetch price", "truncate", "import price", "record", "list volume",
              "fetch volume", "import volume", "resolve", "rebuild"},
        latest : 0..Weeks,           \* latest_demand_export
        since : Int,                 \* demand_since_date, then since_date
        regions : SUBSET Regions,    \* demand_regions, then those to be marked
        exports : SUBSET (1..Weeks), \* the files of the phase
        left : SUBSET (1..Weeks),    \* those it has yet to fetch or to import
        held : BOOLEAN,              \* its TRUNCATE is not committed
        verdict : {"none", "success", "failed"},
        alone : BOOLEAN]             \* history: no clearing since it began
NoRun == [pc |-> "idle", latest |-> 0, since |-> 0, regions |-> {}, exports |-> {},
          left |-> {}, held |-> FALSE, verdict |-> "none", alone |-> TRUE]

AdamTypeOK ==
    /\ today \in 1..LastDay
    /\ files \in [Kinds -> [1..Weeks -> Cut..WeekDays]]
    /\ {raw, price, volume, demand, priced, volumed} \subseteq SUBSET Dates
    /\ marks \in [Regions -> Mark]
    /\ {through, priceThrough} \subseteq {0} \cup Dates
    /\ checked \in BOOLEAN
    /\ run \in Run
    /\ spoilt \in {"no", "rerun", "cleared"}
    /\ failures \in 0..MaxFailures /\ clears \in 0..MaxClears

Ended(verdict) == [NoRun EXCEPT !.verdict = verdict, !.alone = run.alone]

Init ==
    /\ today = 2
    /\ files = [k \in Kinds |-> [w \in 1..Weeks |-> None]]
    /\ raw = {} /\ price = {} /\ volume = {} /\ demand = {} /\ priced = {} /\ volumed = {}
    /\ marks = [r \in Regions |-> NoMark]
    /\ through = 0 /\ priceThrough = 0 /\ checked = FALSE
    /\ run = NoRun
    /\ spoilt = "no"
    /\ failures = 0 /\ clears = 0

-----------------------------------------------------------------------------
(* The demand                                                              *)

\* _adam_demand_sync_since_date, _history_sync_since_date: from the cursor, or without one
\* from the latest row.
SinceDate(cursor, table) ==
    LET last == IF cursor # 0 THEN cursor ELSE Max(table \cup {0})
    IN Max({today - Lookback} \cup IF last = 0 THEN {} ELSE {last - Lookback})
DemandSince == SinceDate(through, raw)

LatestExport == Max(ListedWeeks)

\* A region's synced_through_date, or without one the date of its latest row.
SyncedThrough(r) == IF marks[r].through # 0 THEN marks[r].through ELSE Max(raw \cup {0})

\* Mutant: without a look at the oldest row.
SyncedByCursor(r) == SyncedThrough(r) # 0 /\ SyncedThrough(r) >= Covered(LatestExport)

\* _adam_demand_region_synced_for_export
Synced(r) ==
    /\ SyncedThrough(r) # 0
    /\ raw # {} /\ Min(raw) <= DemandSince
    /\ SyncedThrough(r) >= Covered(LatestExport)
    /\ marks[r].key = LatestExport => SyncedThrough(r) >= DemandSince

ToFetch == {r \in Regions : ~Synced(r)}

\* A region that turns out to be synced is given a sync state if it has nothing.
Begin ==
    /\ run.pc = "idle"
    /\ run' = [NoRun EXCEPT !.pc = IF ToFetch = {} THEN "history" ELSE "list",
                            !.latest = LatestExport, !.since = DemandSince,
                            !.regions = ToFetch]
    /\ marks' = [r \in Regions |->
                    IF marks[r] = NoMark /\ r \notin ToFetch
                    THEN [through |-> SyncedThrough(r), key |-> LatestExport] ELSE marks[r]]
    /\ UNCHANGED <<files, tables, through, priceThrough, checked, spoilt, outside>>

ListDemand ==
    /\ run.pc = "list"
    /\ run' = [run EXCEPT !.pc = "fetch demand", !.exports = ExportsSince(run.since),
                          !.left = ExportsSince(run.since)]
    /\ UNCHANGED <<files, tables, cursors, spoilt, outside>>

FetchOf == [demand |-> "fetch demand", price |-> "fetch price", volume |-> "fetch volume"]
Fetching(kind) == run.pc = FetchOf[kind] /\ run.left # {}
Fetched(kind) == run.pc = FetchOf[kind] /\ run.left = {}

\* get_cached_or_fetch: a file that is there is not downloaded again.
Fetch(kind) ==
    /\ Fetching(kind)
    /\ LET w == Min(run.left)
       IN /\ files' = IF files[kind][w] # None THEN files
                      ELSE [files EXCEPT ![kind][w] = OnOffer(w)]
          /\ run' = [run EXCEPT !.left = @ \ {w}]
    /\ UNCHANGED <<tables, cursors, spoilt, outside>>

\* A file that COPY refuses fails the run, which leaves nothing uncommitted.
Refused ==
    /\ \/ Fetched("demand") /\ \E w \in run.exports : files["demand"][w] = Cut
       \/ /\ run.pc = "import price" /\ run.left # {}
          /\ files["price"][Min(run.left)] = Cut
       \/ /\ run.pc = "import volume" /\ run.left # {}
          /\ files["volume"][Min(run.left)] = Cut
    /\ run' = Ended("failed")
    /\ UNCHANGED <<files, tables, cursors, spoilt, outside>>

\* ingest_market_orders_exports: DELETE, COPY of every file, commit; nothing without files.
Ingest ==
    /\ Fetched("demand") /\ \A w \in run.exports : files["demand"][w] # Cut
    /\ raw' = IF run.exports = {} THEN raw
              ELSE UNION {DatesIn("demand", w) : w \in run.exports}
    /\ run' = [run EXCEPT !.pc = "mark"]
    /\ UNCHANGED <<files, price, volume, demand, periods, cursors, spoilt, outside>>

Later(date, other) == IF date > other THEN date ELSE other
NewestExport == Max(run.exports \cup IF run.exports = {} THEN {run.latest} ELSE {})

\* _record_adam_demand_region_check: a commit for every region, and one for all.
MarkRegion ==
    /\ run.pc = "mark" /\ run.regions # {}
    /\ \E r \in run.regions :
        /\ marks' = [marks EXCEPT ![r] =
                       [through |-> Later(@.through, Covered(NewestExport)),
                        key |-> NewestExport]]
        /\ run' = [run EXCEPT !.regions = @ \ {r}]
    /\ UNCHANGED <<files, tables, through, priceThrough, checked, spoilt, outside>>
MarkAll ==
    /\ run.pc = "mark" /\ run.regions = {}
    /\ through' = Later(through, Covered(NewestExport))
    /\ run' = [run EXCEPT !.pc = "history", !.exports = {}]
    /\ UNCHANGED <<files, tables, marks, priceThrough, checked, spoilt, outside>>

-----------------------------------------------------------------------------
(* Prices, volumes, and the end of a run                                   *)

\* Mutant: a day that was ever checked is.
CheckedEver == priceThrough # 0

\* _history_checked_today
CheckedToday == checked

\* The latest rows of a type, as many as the period has days.
Latest(table) ==
    LET rows == table \cap Traded
    IN {d \in rows : Cardinality({e \in rows : e > d}) < Lookback}

\* Mutant: a type that has a period keeps it.
RefreshedMissing(period, table) == IF period = {} THEN Latest(table) ELSE period

\* refresh_touched_periods_from_history, of the types that the table has rows of: the others
\* keep what they have.
Refreshed(period, table) == IF table \cap Traded = {} THEN period ELSE Latest(table)

\* _history_workset_missing_price_period_keys: of the items on sale, those without a period.
MissingPeriod == priced = {}

\* What was checked today is left alone, unless an item has no price period.
SkipHistory ==
    /\ run.pc = "history" /\ CheckedToday /\ ~MissingPeriod
    /\ run' = [run EXCEPT !.pc = "resolve"]
    /\ UNCHANGED <<files, tables, cursors, spoilt, outside>>

PriceSince == SinceDate(priceThrough, price)
ListPrices ==
    /\ run.pc = "history"
    /\ run' = [run EXCEPT !.pc = "fetch price", !.since = PriceSince,
                          !.exports = ExportsSince(PriceSince),
                          !.left = ExportsSince(PriceSince)]
    /\ UNCHANGED <<files, tables, cursors, spoilt, outside>>

\* TRUNCATE, to be committed with the first file.
TruncatePrices ==
    /\ Fetched("price") /\ run.exports # {}
    /\ run' = [run EXCEPT !.pc = "import price", !.left = run.exports, !.held = TRUE]
    /\ spoilt' = IF checked /\ spoilt = "no" THEN "rerun" ELSE spoilt
    /\ UNCHANGED <<files, tables, cursors, outside>>

\* import_price_csv_to_daily, a commit for every file.
ImportPrices ==
    /\ run.pc = "import price" /\ run.left # {}
    /\ files["price"][Min(run.left)] # Cut
    /\ price' = (IF run.held THEN {} ELSE price) \cup DatesIn("price", Min(run.left))
    /\ run' = [run EXCEPT !.left = @ \ {Min(run.left)}, !.held = FALSE]
    /\ UNCHANGED <<files, raw, volume, demand, periods, cursors, spoilt, outside>>

\* The price periods; without a file only those that are missing.
RefreshPrices ==
    /\ \/ Fetched("price") /\ run.exports = {}
       \/ run.pc = "import price" /\ run.left = {}
    /\ priced' = IF run.exports = {} /\ ~MissingPeriod THEN priced ELSE Refreshed(priced, price)
    /\ run' = [run EXCEPT !.pc = "record"]
    /\ UNCHANGED <<files, raw, price, volume, demand, volumed, cursors, spoilt, outside>>

\* _record_history_check, before the volumes are looked at.
RecordCheck ==
    /\ run.pc = "record"
    /\ priceThrough' = Later(priceThrough, IF run.exports = {} THEN run.since
                                           ELSE Covered(Max(run.exports)))
    /\ checked' = TRUE
    /\ spoilt' = IF run.alone THEN "no" ELSE "cleared"
    /\ run' = [run EXCEPT !.pc = "fetch volume", !.exports = ExportsSince(run.since),
                          !.left = ExportsSince(run.since)]
    /\ UNCHANGED <<files, tables, marks, through, outside>>

\* TRUNCATE, committed with the progress of the run.
TruncateVolumes ==
    /\ Fetched("volume")
    /\ volume' = IF run.exports = {} THEN volume ELSE {}
    /\ run' = [run EXCEPT !.pc = "import volume", !.left = run.exports]
    /\ UNCHANGED <<files, raw, price, demand, periods, cursors, spoilt, outside>>

\* The volume periods, after files were imported.
RefreshedVolumes == IF run.exports = {} THEN volumed ELSE Refreshed(volumed, volume)

\* The files, and then the periods.
ImportVolumes ==
    /\ run.pc = "import volume"
    /\ IF run.left = {}
       THEN /\ run' = [run EXCEPT !.pc = "resolve"]
            /\ volumed' = RefreshedVolumes
            /\ UNCHANGED volume
       ELSE /\ files["volume"][Min(run.left)] # Cut
            /\ volume' = volume \cup DatesIn("volume", Min(run.left))
            /\ run' = [run EXCEPT !.left = @ \ {Min(run.left)}]
            /\ UNCHANGED volumed
    /\ UNCHANGED <<files, raw, price, demand, priced, cursors, spoilt, outside>>

\* Mutant: no refresh after a run that had no file of prices to load.
ResolveIfLoaded ==
    /\ run.pc = "resolve"
    /\ demand' = IF run.exports = {} THEN demand ELSE raw
    /\ run' = [run EXCEPT !.pc = "rebuild"]
    /\ UNCHANGED <<files, raw, price, volume, periods, cursors, spoilt, outside>>

\* refresh_target_markets_from_adam: DELETE and INSERT of the whole, one commit.
Resolve ==
    /\ run.pc = "resolve"
    /\ demand' = raw
    /\ run' = [run EXCEPT !.pc = "rebuild"]
    /\ UNCHANGED <<files, raw, price, volume, periods, cursors, spoilt, outside>>

\* The opportunities are rebuilt (see OpportunityTables), which is the end of the run.
Rebuild ==
    /\ run.pc = "rebuild"
    /\ run' = Ended("success")
    /\ UNCHANGED <<files, tables, cursors, spoilt, outside>>

-----------------------------------------------------------------------------
(* What else may happen                                                    *)

Polls == \/ run.pc \in {"import price", "import volume"} /\ run.left # {}
         \/ run.pc \in {"resolve", "rebuild"}
Failing == failures < MaxFailures /\ failures' = failures + 1

\* A poll finds the run cancelled, a step of it fails, or its process dies: what is not
\* committed is gone.
Fail ==
    /\ run.pc # "idle" /\ Failing
    /\ run' = Ended("failed")
    /\ UNCHANGED <<today, files, tables, cursors, spoilt, clears>>

\* The process is told to stop: the poll marks the run in the session it is given, and
\* commits what is open there, the TRUNCATE included.
Interrupt ==
    /\ Polls /\ Failing
    /\ price' = IF run.held THEN {} ELSE price
    /\ run' = Ended("failed")
    /\ UNCHANGED <<today, files, raw, volume, demand, periods, cursors, spoilt, clears>>

\* The process dies while it writes a file, which stays as it is.
DieWriting(kind) ==
    /\ Fetching(kind) /\ files[kind][Min(run.left)] = None /\ Failing
    /\ \E n \in {Cut} \cup 0..(OnOffer(Min(run.left)) - 1) :
        files' = [files EXCEPT ![kind][Min(run.left)] = n]
    /\ run' = Ended("failed")
    /\ UNCHANGED <<today, tables, cursors, spoilt, clears>>

\* _clear_adam4eve_data: rows and cursors in one transaction, the files and the volume periods
\* stay; it waits for a TRUNCATE that is not committed.
Clear ==
    /\ clears < MaxClears /\ clears' = clears + 1
    /\ ~run.held
    /\ raw' = {} /\ price' = {} /\ volume' = {} /\ demand' = {} /\ priced' = {}
    /\ marks' = [r \in Regions |-> NoMark]
    /\ through' = 0 /\ priceThrough' = 0 /\ checked' = FALSE
    /\ run' = [run EXCEPT !.alone = FALSE]
    /\ spoilt' = "no"
    /\ UNCHANGED <<today, files, volumed, failures>>

\* prepare_trade_period, for a page: first the price periods of its types, and then the demand.
\* Its look at the daily table waits for a TRUNCATE, and keeps one from beginning.
Visit ==
    /\ \/ /\ ~run.held
          /\ priced' = Latest(price) /\ UNCHANGED demand
       \/ /\ demand' = raw /\ UNCHANGED priced
    /\ <<priced, demand>>' # <<priced, demand>>
    /\ UNCHANGED <<today, files, raw, price, volume, volumed, cursors, run, spoilt, failures,
                   clears>>

\* Midnight.  After the last day the days go on and nothing more is published.
Midnight ==
    /\ today < LastDay \/ checked
    /\ today' = IF today < LastDay THEN today + 1 ELSE today
    /\ checked' = FALSE
    /\ UNCHANGED <<files, tables, marks, through, priceThrough, run, spoilt, failures, clears>>

RunStep ==
    \/ Begin \/ ListDemand \/ Refused \/ Ingest \/ MarkRegion \/ MarkAll
    \/ SkipHistory \/ ListPrices \/ TruncatePrices \/ ImportPrices \/ RefreshPrices \/ RecordCheck
    \/ TruncateVolumes \/ ImportVolumes \/ Resolve \/ Rebuild
    \/ \E kind \in Kinds : Fetch(kind)

Next ==
    \/ RunStep \/ Fail \/ Interrupt \/ Clear \/ Visit \/ Midnight
    \/ \E kind \in Kinds : DieWriting(kind)

\* The worker runs the job every day.
Spec == Init /\ [][Next]_vars /\ WF_vars(RunStep) /\ WF_vars(Midnight)

-----------------------------------------------------------------------------
(* Properties                                                              *)

KeptSince(kind, since) == UNION {DatesIn(kind, w) : w \in ExportsSince(since)}

\* DEVLOG.md: files are skipped "only after successful ingestion".  A run that finds every
\* region synced leaves no row behind of the files it would have loaded, whatever runs died
\* between ingesting and marking; and prices that are left alone because they were checked
\* today are all there, as far as the cursor goes, unless a run that imported them again, or
\* met a clearing, spoilt them.
SkipsOnlyIngested ==
    [][/\ Begin /\ run'.pc = "history" => KeptSince("demand", run'.since) \subseteq raw
       /\ SkipHistory /\ spoilt = "no" =>
            \A w \in ExportsSince(PriceSince) :
                Covered(w) <= priceThrough => DatesIn("price", w) \subseteq price]_vars

\* A run that succeeds undisturbed leaves demand and price periods of exactly the rows there
\* are, also when an earlier run changed these and died before it came to the periods, and
\* whatever pages computed from a part of them.  Set aside is a second import of a day that
\* dies: the next run skips it.
DerivedFollows ==
    run.verdict = "success" /\ run.alone /\ run.pc = "idle" =>
        /\ demand = raw
        /\ spoilt = "no" /\ price \cap Traded # {} => priced = Latest(price)

\* Failures, clearings and runs that spoilt a table pass, as long as COPY takes every file
\* that is kept: the tables, and the volume periods with them, are whole again and again.
WholeAgain ==
    []<>(\/ \E kind \in Kinds, w \in 1..Weeks : files[kind][w] = Cut
         \/ /\ KeptSince("demand", DemandSince) \subseteq raw
            /\ KeptSince("price", PriceSince) \subseteq price
            /\ KeptSince("volume", PriceSince) \subseteq volume
            /\ volume \cap Traded # {} => volumed = Latest(volume))

-----------------------------------------------------------------------------
(* The inductive invariant, proved in AdamImportsProofs                    *)

\* The dates that a look back may begin with, and the weeks of an import since one of them.
Sinces == (1 - Lookback)..LastDay
Span(since, last) == {w \in 1..last : Covered(w) > since}

\* A table has exactly the rows of these files, which are there.
Loaded(kind, table, W) ==
    /\ table = UNION {DatesIn(kind, w) : w \in W}
    /\ \A w \in W : files[kind][w] # None

\* The week of yesterday is published.
Calendar == today > 1 /\ today <= Covered(LatestExport) + 1

\* No row and no cursor is of a week that is not listed yet.
Behind(date) == date <= Covered(LatestExport)
NoneAhead ==
    /\ \A d \in raw \cup price \cup {priceThrough, through} : Behind(d)
    /\ \A r \in Regions : Behind(marks[r].through)

\* What a run has listed, fetched and imported so far.
RunInHand ==
    /\ run.exports \subseteq ListedWeeks /\ run.left \subseteq run.exports
    /\ run.held => run.pc = "import price" /\ run.left = run.exports
    /\ run.pc = "list" => run.since \in Sinces /\ run.latest \in Span(run.since, LatestExport)
    /\ run.pc = "mark" => run.exports # {} /\ run.left = {}
    /\ \A kind \in Kinds :
          run.pc = FetchOf[kind] => \A w \in run.exports \ run.left : files[kind][w] # None
    /\ run.pc \in {"import price", "record"} => \A w \in run.exports : files["price"][w] # None

\* The weeks of a run's demand, none of which a region is marked beyond.
DemandPhase ==
    run.pc = "fetch demand" =>
        /\ run.since \in Sinces
        /\ \E last \in run.exports :
              /\ run.exports = Span(run.since, last)
              /\ \A r \in Regions : marks[r].through <= Covered(last)

\* The weeks of its prices, which begin no later than those that will be looked for.
PricePhase ==
    run.pc \in {"fetch price", "import price", "record"} =>
        /\ run.since \in Sinces
        /\ \E last \in run.exports :
              /\ run.exports = Span(run.since, last) /\ priceThrough <= Covered(last)
              /\ run.since <= today - Lookback \/ run.since <= Covered(last) - Lookback

\* The price table of a run that met no clearing: its files, one after the other.
PriceTable ==
    run.alone =>
        /\ run.pc = "import price" /\ ~run.held =>
              price = UNION {DatesIn("price", w) : w \in run.exports \ run.left}
        /\ run.pc = "record" => price = UNION {DatesIn("price", w) : w \in run.exports}

\* Rows of the demand are those of all the weeks of one import, which was the last one, and no
\* region is marked, or about to be marked, beyond it.
RawWhole ==
    raw # {} =>
        \E since \in Sinces, last \in ListedWeeks :
            /\ Loaded("demand", raw, Span(since, last))
            /\ \A r \in Regions : marks[r].through <= Covered(last)
            /\ run.pc = "mark" => \A w \in run.exports : w <= last

\* Nothing is fetched for no region.
NobodyAsks ==
    Regions = {} =>
        /\ run.pc \notin {"list", "fetch demand"}
        /\ \A w \in 1..Weeks : files["demand"][w] = None

PricesFollow == price \cap Traded # {} => priced = Latest(price)

\* Prices that were checked today, and not spoilt since, are those of all the weeks of one import.
PricesWhole ==
    checked /\ spoilt = "no" =>
        /\ run.pc # "import price" /\ PricesFollow
        /\ \E since \in Sinces, last \in ListedWeeks :
              /\ Loaded("price", price, Span(since, last)) /\ priceThrough <= Covered(last)
              /\ \/ since <= today - Lookback
                 \/ priceThrough # 0 /\ since <= priceThrough - Lookback

\* What a run that met no clearing has derived so far.
DerivedSoFar ==
    run.alone =>
        /\ run.pc = "record" => PricesFollow
        /\ (/\ run.pc \in {"fetch volume", "import volume", "resolve", "rebuild"}
            /\ spoilt = "no") => PricesFollow
        /\ run.pc = "rebuild" => demand = raw

IInv ==
    /\ AdamTypeOK /\ Calendar /\ NoneAhead /\ RunInHand /\ DemandPhase /\ PricePhase /\ PriceTable
    /\ RawWhole /\ NobodyAsks /\ PricesWhole /\ DerivedSoFar /\ DerivedFollows
=============================================================================
