# Verification of EveStationTrader

TLA+ models of the parts of EveStationTrader whose correctness depends on
interleavings, crashes and stale reads, with TLC runs on small instances and
TLAPS proofs for every value of the constants. All paths below are relative to
the repository; `service.py` is `backend/app/services/sync/service.py`.

## The system

Two Python processes share one PostgreSQL database at READ COMMITTED.

- The **API** (`backend/app/main.py`, `api/routes/*`) serves the React pages
  from a pool of request threads. A request may start a job on a daemon thread
  (`enqueue_job`), cancel one, clear stale ones, edit a schedule, read the
  dashboard, or read trade opportunities (which may compute them on the spot).
- The **worker** (`workers/tasks/sync_tasks.py`) is an APScheduler
  `BlockingScheduler`; its jobs call `SyncService.trigger_job`, which runs the
  job in the caller's thread, and every five minutes it looks whether a row of
  `job_schedule_config` has changed.

Nothing else connects the two: no lock, no queue, no notification. Every
handler reads rows into an SQLAlchemy session (`expire_on_commit=False`),
works for a while, and commits the columns that differ from what it read.

| component | state | operations | what makes it correct |
|---|---|---|---|
| job service (`service.py:915-1131, 3838-4010`) | `sync_job_runs`; per process the signal handlers and the cancellation event | trigger, enqueue, execute, poll, mark, cancel, reap, clear stale | verdicts are true; no row is left open by a living process; open runs of a type are no more than threads that start it; settled history is not rewritten; runs end |
| full refresh (`service.py:1186-1300`) | its child runs and the thread pool | foundation import, raw imports in parallel, snapshots | a stage only starts on successes; no child outlives it; it ends |
| worker schedule (`sync_tasks.py`, `service.py:4060-4131`) | `job_schedule_config`, the scheduler, `_last_config_versions` | start, fallback, check, PATCH | what is remembered as applied is in force; saved changes come into force |
| opportunity generation (`services/opportunities`, `service.py:2567-3043`, `repositories/trade_repository.py`) | `opportunity_items`, `opportunity_source_summaries` | rebuild job, rebuild on a page's miss, refresh button, clearing | a rebuild leaves one computation's rows; a summary sums up the items beside it |
| history imports (`services/everef`, `services/adam4eve`, `bulk_imports.py`) | history tables, per-file sync state, the download cache | resolve, download, ingest, mark | what is marked as imported is in the tables |
| orders and demand (`esi/orders_ingestion.py`, `npc_stations`, `structures`) | market orders, snapshots, deltas, demand periods | page through a region, diff, derive | every observed change is counted once |
| ESI client (`esi/client.py`) | rate-limit window, ETags | request, retry, paginate | waits end, limits are kept |
| characters and tokens (`characters/service.py`, `auth/service.py`, `core/security.py`) | tokens, PKCE verifiers, synced assets | login, refresh, sync | a rotated token is not lost |
| demand and prices (`demand`, `pricing`) | resolved demand, price and volume periods | resolve by fallback, aggregate | the first source that has data wins; periods follow the daily rows |
| foundation data (`foundation_import.py`, `foundation_data.py`) | regions, systems, stations, items; `locations`, with the orders' import, the characters and the tracking of structures | import in dependency order, insert what is met first, rename | a station and its location agree; a name that is told is not lost to a placeholder; writers of the same place do not block each other |
| trade rules (`domain/rules.py`, `opportunities/generation.py:324-535`) | none | price a day's demand from the ladder of orders, subtract holdings, sum up | the price is that of the cheapest fill; the capital pays for the units |
| frontend (`frontend/src`) | query cache | poll, edit, trigger | it polls the dashboard, which is what reaps stale runs |

### What is hard here

- **No locks between actors.** Every handler reads rows into a session and
  commits later, in another statement order than anybody else. What it decides
  on may be stale by then (`cancel_job`, the reaper, `clear_stale_jobs`, token
  refresh, the EVE Ref import's preloaded demand rows).
- **Commits inside the work.** Progress and stage callbacks commit in the
  session of the work itself, so DELETEs, COPYs and TRUNCATEs become visible,
  and final, halfway through.
- **Two commits where one is meant.** Rows and the record that they are
  loaded; a snapshot and what is derived of it; trades and the periods that sum
  them up. A run may be cancelled, interrupted, cleared or die between any two.
- **Crashes.** A process that dies leaves its rows running. Nothing cleans up
  at start-up; the dashboard's poll does, for those that were asked to cancel.
- **Several writers of one table.** Rebuild job, pages and refresh button; the
  regional and the structure's order import; four writers of resolved demand;
  job, visit, structure client and login of a character; three jobs and a player
  that insert and rename locations.
- **Services that move.** Lists that change while they are paged, files that
  grow, tokens that rotate, tags that say "not modified".

Each of these, at its line, is listed under `hazards` in `PROJECT.json`, with
the properties that cover it.

## Modules

| module | models | kind |
|---|---|---|
| `SyncJobs` | job rows, executors, requests, signals, crashes | detailed specification, properties, inductive invariant |
| `JobLedger` | what the job service promises of its runs | abstract specification |
| `SyncJobsLedger` | the refinement mapping from `SyncJobs` to `JobLedger` | composition |
| `FreshTradeSync` | the full refresh, over `JobLedger` | composition, inductive invariant |
| `ScheduleConfig` | editors, table, worker | specification, properties, inductive invariant |
| `OpportunityTables` | the two opportunity tables of one target and all who compute them | specification, properties, inductive invariant |
| `EveRefHistory` | the EVE Ref history import | specification, properties, inductive invariant |
| `AdamImports` | the Adam4EVE imports, the download cache, and the price and volume periods | specification, properties, inductive invariant |
| `OrderBooks` | regional orders, station trades, structure snapshots, demand periods | specification, properties, inductive invariant |
| `CharacterSync` | tokens and the synchronisation of characters | specification, properties, inductive invariant |
| `MarketDemand` | the resolved demand rows and all who write them | specification, properties, inductive invariant |
| `Universe` | the foundation import, and all who insert and name places | specification, properties, inductive invariant |
| `TradeRules` | price, units and capital of an opportunity and of its summary | operators, checked against reference definitions in `MCTradeRules` |
| `SyncJobsProofs` | | theorems about `SyncJobs`, `SyncJobsLedger` and `ScheduleConfig` |
| `FreshTradeSyncProofs` | | theorems about `FreshTradeSync` and `Universe` |
| `EveRefHistoryProofs`, `AdamImportsProofs`, `CharacterSyncProofs`, `OrderBooksProofs`, `MarketDemandProofs` | | theorems about the module of that name |
| `OpportunityTablesProofs` | | theorems about `OpportunityTables` and `TradeRules` |
| `MC*` and `*.cfg` | | instances for TLC |

`map` in `PROJECT.json` gives the lines that each definition stands for.

### How the modules correspond to the code

**One action per step that others can see.** A handler is cut where it commits,
where it sends a statement, or where it reads something it will use after
another statement. Between two cuts nobody can tell the difference. READ
COMMITTED is modelled as such: a statement sees what was committed when it
began, waits for a row that another transaction has changed, and then looks at
the row again. With `expire_on_commit=False` an object that a session loaded
stays as it was, and an UPDATE names only the columns that were changed.

- `SyncJobs`. `rows` is `sync_job_runs`, `execs` the executor threads with the
  copy of the row their session holds, `reqs` the threads that serve requests
  and the scheduler, `handlers` and `event` the signal handlers and the
  cancellation event of each process. `CancelLoad`/`CancelCommit` are
  `cancel_job` (`service.py:1062-1083`), `Reap` the UPDATE of
  `_finalize_stale_cancelling_jobs` that opens nearly every call,
  `LookForActive`/`CreateRun` the two transactions of `trigger_job` and
  `enqueue_job`, `Poll`, `MarkCommit` and `CloseCommit` the executor.
- `JobLedger` keeps of a run its type, whether it is open, its verdict, and what
  became of its work. `SyncJobsLedger` computes these from `SyncJobs`.
- `FreshTradeSync` instantiates the ledger; `calls` are the coordinator's calls
  of children, `pc` the coordinator, and the bodies of the children are
  environment that may succeed, fail, hang or be lost.
- `ScheduleConfig`. `config` is the table, `edits` the PATCH requests between
  load and commit, `sched` the scheduler's jobs, `seen` is
  `_last_config_versions`.
- `OpportunityTables`. A row holds the number of the run that computed it, and a
  summary the rows it summed up. A run is one of six kinds: the job, a page's
  miss of a whole target, of one source, of one item, the refresh button, a
  clearing; its program counter goes through `generate_for_target`.
- `EveRefHistory`. A version of a day's file stands for its content and size;
  `totals` is `totals.json` as the run read it, `recorded` the sync state.
- `AdamImports`. Dates are numbers, a week's file has a row per day and grows;
  `marks` are the regions' rows of `adam_npc_demand_sync_state`, `through` and
  `priceThrough` the cursors, `files` the cache directory. A period is the set of
  days it was averaged over: `priced` and `volumed` are those of one type that was
  traded on the days of `Traded`. `Visit` is a page, which computes both the price
  period and the demand in between the steps of a run. A page's look at a daily table
  takes a share lock, so it waits for a TRUNCATE that is not committed, and one step
  of a page cannot overlap with one.
- `Universe`. `station` and `place` hold the name of each row of `stations` and
  `locations`: none, a placeholder, or a real one; `unnamed` has the structures that
  `character_accessible_structures` calls by a placeholder. `imp`, `orders` and `sync`
  are the transactions of the foundation import, of the orders' import and of a
  character's synchronisation, with what each has read and inserted but not
  committed. Whoever inserts a key that another session has inserted waits for
  it; the ORM session of a character sends its rows at commit
  (`autoflush=False`), in `plan`. `Deadlock` is PostgreSQL ending one of two
  sessions that wait for each other.
- `TradeRules`. One type at one source. Quantities are counted in parts of a unit,
  `PeriodDays` to the unit, so a day's share of a period's demand is a whole number;
  a price is a pair of a cost and the quantity it buys.
- `OrderBooks`. `market` is EVE's book, `live` is `esi_market_orders`, `ever`
  all trades ever recorded of the region (`trades` those that are kept),
  `snaps` and `changes` the structure's snapshots and deltas. `entered` and
  `traded` are history: what came in, and what was really sold.
- `CharacterSync`. `token` is the stored token, `issued` and `live` what SSO
  gave out and still takes, `sync` the sessions of the job and a visit, `snap`
  the structure client, `callback` a login.
- `MarketDemand`. `raw`, `period` and `history` are the inputs, reduced to what
  they say of a type: nothing, no sales, or an amount. `due` says whether EVE Ref lists
  a file that is not on record: `Look` is the import that has loaded such files and goes on to
  derive. `rows` is
  `market_demand_resolved`; the figures of a row carry the source they are of,
  so that a row whose columns come from two sources can be seen.

## Runs

| run | instance | what it shows |
|---|---|---|
| `jobs_safety` | 2 processes, a request thread and a scheduler thread that both start one job type, 2 rows, ages up to 2 (1.7 million states) | verdicts are true of their runs, no living executor leaves its row open, a type never has more open rows than threads that start it, young runs are left alone, settled history stays |
| `jobs_live` | one row, three slots, two signals or crashes, fairness (25 thousand states) | cancelled runs end also after a crash; runs end unless their process dies; every step refines `JobLedger` |
| `fresh` | four types, two of them raw imports, one foreign run, one attempt each (345 thousand states) | stages only build on successes, nothing outlives the refresh, it ends although a joined run hangs |
| `schedule` | 2 editors, 3 edits, 2 crashes, hours the scheduler takes (131 thousand states) | what is remembered as applied is in force; saved schedules come into force |
| `rebuild` | 3 runs of six kinds over 2 markets, with a failure (122 thousand states) | summaries match items, a whole run that met no other repairs everything, no circle of waits |
| `everef` | 2 days, 2 types, 2 versions, 2 failures, a clearing (829 thousand states) | what is on record is loaded; demand is derived; every file comes in |
| `adam` | 2 regions, 2 weeks of 2 days, a type traded on 3 of them, a failure, a clearing, pages (1 million states) | what is skipped is there; demand and price periods follow the rows whatever pages compute in between; tables and volume periods are made whole |
| `books` | 3 orders, a page each, 2 market moves, 2 days, a failure (2.6 million states) | station trades balance; the structure never claims more than was sold; periods are complete when they move |
| `characters` | 2 characters, one with access, 3 happenings (500 thousand states) | only revoked characters are disabled; another one serves; everyone is synchronised in the end |
| `characters_structures` | one character, nothing happens | **violated** (`StructuresFound`): a structure just seen is not discovered |
| `demand` | one type at a station and a structure, 4 writers, 3 happenings (556 thousand states) | no key falls between the imports; as long as files are published, every key comes to the row of its first source |
| `universe` | 2 stations, one of them published later, a structure that comes to be in the catalog and that the character may dock at, a failure or a description without a name, a clearing (245 thousand states) | a station and its location have one name; a station's name is not lost to a placeholder, and a structure's only where ESI told none; every published station comes in by its name if imports succeed; sessions that wait for each other all end |

The run `rebuild` also evaluates the assumptions of `MCTradeRules`: for every
ladder of up to three orders with prices up to 3, volumes up to 2, shared prices
and ages, and every demand up to more than is on sale (two days to the period),
the running sum over the ladder costs what the cheapest fill costs, and the price
times the units that are left to buy covers what these cost. The summary's
quantity is never below the item's, and its capital does not always pay for it. The
first, the second and the quantity are proved for every ladder and every demand.

Every module has a type invariant. A run checks it where the shape of the state
is easy to get wrong (`jobs_safety`, `fresh`, `schedule`, `everef`,
`characters`); `AdamTypeOK`, `BooksTypeOK`, `DemandTypeOK`, `TablesTypeOK` and
`UniverseTypeOK` are stated as a description of the state and can be added to the
configuration of their run.

**Bounds.** Each bound is a constant of its module and a conjunct of a guard:
runs, rows, ages, failures, crashes, clearings, edits, moves, days. They are
chosen so that every race of the hazards happens at least once. Two
processes and two rows are enough for a request to hold a reading of one run
while another is started, and for two threads that both look first to both start
the type; age 2 passes both thresholds; two days give a file
that was loaded and one that was not; two weeks of two days give a file that
is complete and one that still grows; a page of one order gives a list that
moves between pages; `Interval = 2` with two keys and one type gives a commit
with a row that clashes beside one that does not; `Traded` leaves a day out, so
that the latest rows of a type are not the latest days; two stations in either
order, against a job that holds one and wants the other, give every circle of
waits. Each property has a mutant
of the code's step (`mutants`) that violates it under the same bounds, so none
holds for want of the interesting case. Constants that only name places,
regions, types or threads are model values; no symmetry is used, because most
runs check liveness or distinguish the values by their order.

**Fairness.** Threads of a living process run on: an executor, a request, a
run of a job, a page. Time passes. Beyond that:

- `jobs_live`: the dashboard polls (`useSyncData.ts:10,19,28` refetch every few
  seconds), which is what reaps runs that lost their process. Nothing is assumed of
  operators, crashes or signals. `RunEnds` has the loss of the process as
  an outcome, because nothing closes such a row by itself.
- `fresh`: the children's bodies come to an end (`BodyFairness`, only of those that
  the refresh runs itself; a run it joined may hang).
- `schedule`: a request that loaded a row commits; somebody starts a dead worker
  again; one of the five-minute checks finds the database up.
- `everef`, `adam`, `demand`: the worker starts the imports every day (08:00 and
  09:00, `sync_tasks.py:83-84`), and midnight comes.
- Nothing makes EVE Ref publish, and an EVE Ref import that finds no file to load ends
  before it derives any demand (`service.py:1949`). So one that ends early after its last
  file is on record leaves the demand behind, and those that follow do not make up for
  it (a finding); `DemandSettles` has as its hypothesis that a file becomes due again
  and again.
- `demand` uses strong fairness for the steps that wait for another
  transaction's lock: each time the holder commits the waiter is next in
  PostgreSQL's queue. A holder never waits for ever there, because it only has
  one more statement to run.
- `universe` uses strong fairness for the steps of its three jobs: a session that waits
  gets its turn when the transaction it waits for ends, and whoever comes next to
  insert the place waits for it. Nothing makes a job begin: no schedule imports the
  foundation, only operators do, and one of its imports may be the one that PostgreSQL
  ends, so `NamesComeIn` has as its hypothesis that imports succeed again and
  again.
- Nothing makes a page be visited: `Visit` in `adam` has no fairness.
- `books`, and all the invariants, need none.

## Proofs

Eight modules prove the invariants of their component for every value of its
constants: any number of threads, rows, days, characters, weeks and so on. The
assumption on the constants (`...Assumption` in each module) is that bounds are
numbers and sets of names are finite or disjoint where the code keeps them
apart; what a theorem assumes beyond it is in the third column.

| theorem | property | hypothesis |
|---|---|---|
| `SyncJobsProofs!TypeCorrect` | `TypeOK` | |
| `SyncJobsProofs!VerdictsHonest` | `OutcomeHonest` | |
| `SyncJobsProofs!NoOrphans` | `NoOrphanRow` | |
| `SyncJobsProofs!StartsBounded` | `OneRunPerStarter` | |
| `SyncJobsProofs!YoungUndisturbed` | `YoungRunsUndisturbed` | |
| `SyncJobsProofs!HistoryKept` | `SettledForGood` (of steps) | |
| `SyncJobsProofs!ServiceImplementsLedger` | `ImplementsLedger` (refinement) | |
| `FreshTradeSyncProofs!TypesCorrect` | `FreshTypeOK` | |
| `FreshTradeSyncProofs!StagesBuildOnSuccess` | `StagedOnSuccess` | |
| `FreshTradeSyncProofs!EveryWayOutJoins` | `NothingLeftBehind` | |
| `SyncJobsProofs!SchedulesTyped` | `ScheduleTypeOK` | |
| `SyncJobsProofs!MemoryIsTrue` | `SeenIsInForce` | no row ever holds an hour that `add_job` raises on |
| `EveRefHistoryProofs!HistoryTyped` | `EveRefTypeOK` | |
| `EveRefHistoryProofs!RecordsAreLoaded` | `RecordedIsLoaded` | |
| `EveRefHistoryProofs!SuccessIsDerived` | `WorkIsDerived` | |
| `FreshTradeSyncProofs!TwinsAlways` | `Twins` | |
| `FreshTradeSyncProofs!NamesAreKept` | `NamesKept` (of steps) | |
| `CharacterSyncProofs!TypesCorrect` | `CharactersTypeOK` | |
| `CharacterSyncProofs!RevocationOnly` | `DisabledOnlyIfRevoked` | `OldTokensLive` |
| `CharacterSyncProofs!AnotherAnswers` | `AnotherServes` | `OldTokensLive` |
| `AdamImportsProofs!SuccessDerives` | `DerivedFollows` | `Lookback > 1` |
| `AdamImportsProofs!NothingSkippedInVain` | `SkipsOnlyIngested` (of steps) | `Lookback > 1` |
| `OrderBooksProofs!StationBalances` | `BooksBalance` | |
| `OrderBooksProofs!ClaimsAreSales` | `StructureClaims` | |
| `OrderBooksProofs!DemandCatchesUp` | `CatchesUp` (of steps) | `Period <= Retention` |
| `MarketDemandProofs!NoneFallsThrough` | `NothingFallsThrough` | |
| `OpportunityTablesProofs!TablesTyped` | `TablesTypeOK` | |
| `OpportunityTablesProofs!SummariesMatch` | `SummariesMatchItems` | |
| `OpportunityTablesProofs!WholeRunsRepair` | `WholeRunRepairs` (of steps) | |
| `OpportunityTablesProofs!CheapestLadder` | the cost is the least that the demand can be bought for | orders have ids of their own |
| `OpportunityTablesProofs!CapitalPaysForItem` | an item's capital pays for its units, at any holdings | the same, and there is an order |
| `OpportunityTablesProofs!SummaryIsAhead` | the summary counts no less than the item | orders have ids of their own |

The last three are about operators: they are the assumptions of `MCTradeRules` without its
bounds, and the orders' ids are the table's `UniqueConstraint` (`all_models.py:254`). Four
more hypotheses are needed, and each of them says something of the code.

- *No hour that raises.* `register_jobs` remembers the versions of the rows it
  has dealt with before one raises, and then puts the fallback over all of them
  (`sync_tasks.py:150`, a finding): without the hypothesis `SeenIsInForce` is
  false. It is a hypothesis on the behaviour, `[]NoneRaises`, so a table that
  the API's validation keeps in range satisfies it whatever `BadHours` is.
- *`OldTokensLive`.* Two sessions that loaded the same refresh token both send it. If
  EVE's SSO rejects a token once it has given out another for it, the second
  session takes the rejection for a revocation and disables the character
  (`characters/service.py:113, 137`, a finding). The properties are true where
  SSO keeps accepting a rotated token, as it does now.
- *`Lookback > 1`.* `settings.default_analysis_period_days` is 14 unless somebody changes
  it, and `service.py:1314` lets it be 1. A run on the first day of a week then finds no
  file that ends after yesterday, so it has nothing to import, and with nothing to import
  it refreshes only the periods that are missing: one that a run which died
  left stale stays so for that day (TLC shows it with `Lookback = 1`).
- *`Period <= Retention`.* The trades of a station are deleted after 30 days
  (`deltas.py:206`, a default that no caller changes), and the period is
  `default_analysis_period_days`, 14 unless somebody changes it; nothing keeps it below 30.
  With a longer period the demand is of fewer trades than the window has (TLC shows it with
  `Period = 2`, `Retention = 1`).

The spoilt tables, torn clearings and undisturbed runs that `DerivedFollows`,
`SkipsOnlyIngested`, `RecordedIsLoaded` and `WorkIsDerived` set aside are in
their statements, with what the code does then under Findings.

`ServiceImplementsLedger` maps every behaviour of `SyncJobs`, through
`SyncJobsLedger`, to one of `JobLedger` (its safety part). `FreshTradeSync` is
built on the ledger, so what `StagesBuildOnSuccess` and `EveryWayOutJoins` rely on of
the service's rows is what `SyncJobs` was shown to keep.

Each component ends with the section "The inductive invariant": conjuncts that
are named and that TLC has checked under the bounds of the component's run.
The proofs have a lemma for each conjunct (or for each action, where that is
shorter), `[Next]_vars` preserves the conjunction, and PTL concludes.

### The job service

None of the properties is inductive. `OutcomeHonest` says
nothing of a request that has read a row and will write a verdict into it; one
that read an old run must still be right when it commits. `IInv` adds what
each reader may rely on although others write in between:

- `RowsFollowExecs`: a row exists exactly when its executor was started, and
  an executor that stopped has closed its row;
- `OutcomesSet`: which program counters have an outcome;
- `ReadingsHold`: what a pending reaper, clearing or cancellation has read and
  nobody can undo, that the row exists and that it is at least so old (ages only
  grow);
- `UnclosedVerdicts`: until the executor closes the row, only its age explains
  a verdict in it;
- `StartersEntitled`: a thread between its look and its insert starts a type that
  is its to start.

`OneRunPerStarter` counts, for each type, the open rows and the threads between their
look and their insert: they are no more than the threads that may start the type. That is
the most the code keeps: nothing stops two threads that both look first (a finding),
but a thread that comes later than an insert sees its row. The count is inductive as it
stands: a look only passes when nothing is open, and an insert turns a thread into a row.

Every action keeps each part because of the others. The lemmas say first what the
records are typed as, then what each action does to each part; `IInvStep`
combines them, and each theorem follows with PTL. `SettledForGood` is an action
property: from `IInv` and a settled row, no action's guard picks the row up.
For the refinement, each action is shown to be a ledger step or to leave the
mapped variables alone; a reaping that closes several rows is one ledger step.

### The full refresh

`StagedOnSuccess` looks at runs that the coordinator has only the number of. Its
invariant says that the ledger's rows are honest (`RowsHonest`: a closed run has
an outcome and no executor), that what a call has noted of its run is so and
stays so (`CallsHonest`; a run that ended never changes its outcome again), and
that each stage of the coordinator was reached over calls that ended well
(`StagesHonest`, `StagedOnGood`). Every step of the ledger leaves ended runs
as they are (`LedgerMoves`), which is all that the coordinator relies on of what
others do.

### The schedule

An editor commits a row it may have loaded long ago, so a version does not say
by itself what a row holds. The invariant says that no version that is known anywhere
lies in the future (`StampsPast`) and that one about to be committed is nobody else's: the
row has not had it, no other request carries it and the worker has not seen it
(`StampsFresh`). Then a commit makes the noted version differ from the row's, and one that
is noted and still in the table is in force. `DownForgets` covers restarts.

### EVE Ref

Rows and the record of a day are two commits, and an interruption commits a DELETE
without either. The invariant says that records follow lists and lists only grow
(`ListsGrow`), that the days a run has yet to load are recorded as something older than
what it will record (`TodoBehind`), so that a DELETE of theirs that was committed is
noticed, and that what a run holds of its day is of a version not older than the
listed one (`DayInHand`).

### The universe

`Twins` and `NamesKept` are about tables that five writers share. What each session read
before it writes may be stale when it does. The invariant says that a place the import of
orders has inserted and not committed is in no other session's hands and not in the table
yet (`InsertsPrivate`), and that a row a synchronisation is about to update is there, or
known to be gone (`UpdatesFound`); `Twins` itself is the rest of it. A structure's name is
another matter: the synchronisation writes whatever ESI told, a placeholder where it told
no name, over whatever is there (a finding). So `NamesKept` keeps the names of
stations from everybody, and allows a structure's to be replaced only where the character's
row has no name either (`unnamed`).

### Characters

For `DisabledOnlyIfRevoked` a session that is about to send a token must be right that it is
accepted, although another session may have replaced it since: `HandsGiven` says that
whatever a session or a login has in its hands was given out for that character, and
`TokensLive` that all that was given out is accepted unless the player withdrew it. `HopeLeft` says the same of the candidates of the
structure client that it has yet to ask, `EnabledHaveRows` and `ListsFetched` tie a
session's copy to its character.

### Adam4EVE

A run decides by cursors, and by the first and the last row of a table, what it need not
load. That is right because a table always has the files of *consecutive* weeks: `Span`.
`RawWhole` says that the demand rows are those of all weeks of one import and that no region
is marked, or about to be marked, beyond its last one, although a run marks one region
at a time and may die between two, and although `Begin` itself gives marks to regions that
have none; `PricesWhole` says the same of prices checked today that nothing spoilt,
with the look back that the import began with. `Calendar` says that the week of yesterday is
published, so there always is a file to look at (`LooksBack`), `DemandPhase`, `PricePhase`
and `PriceTable` follow the files of a run from listing to record, and `DerivedSoFar` what
it derived. That a finite set of dates has a first and a last one, which the code's
`min` and `max` rely on, is proved from the library's theorem on well-founded relations
(`LastIsIn`, `FirstIsIn`).

### Opportunity tables

What the tables hold when a run begins may be anything: rows of three runs mixed up,
summaries of items that are gone. The argument follows the one run that met no other
(`alone`), which is all that the properties speak of. `OneAtWork` says that while such a run
is at work nobody else is, so that it never waits, and that as long as nothing is torn every
run is one. `OnItsWay` says what its session sees: what it has deleted so far is all there
was of its scope, in the open transaction or, for the rebuild, in the table with its stage,
and what it has put is what it read. `HasSummed` ties its summaries to that view. Its
commit then replaces exactly its scope: a whole run leaves `Exact` rows, and one of a
single source leaves the other sources as they agreed before. Runs that met somebody need
nothing but their types, as the tables count as torn until the next whole run.

### Order books

`BooksBalance` and `StructureClaims` compare sums over sets of trades with what an order
lost. The fold that the sums are made of is defined by recursion on sets; the first part of
the module proves from its definition, with the library's theorem on well-founded
relations applied to the sizes of finite sets, that one more trade adds its units
(`UnitsOfOneMore`), and the rest only uses that.

The invariant says what EVE's book does (`EveSinks`: what an order lacks was traded
as long as it is there at all), and that every list, snapshot and book that a run or a table
holds is of some earlier time (`ListsPast`), since pages of one list are read at different
times. For a station `RegionSinks` adds that a list under way is not older than the book it
will replace, and `FoundIsDifference` that the trades a run has found are those between
these two, so that a run which dies or starts again counts none twice. For a
structure `ChangesBehind` says that changes are only of snapshots before the last, or up to
it when its run has compared it, and `ClaimsHaveRoom` that what was claimed of an order and
what it is still seen at do not exceed its volume: without it an order that a list missed
and the next one had again could be claimed twice. `DeletedIsOld` is what retention may
take away.

### Resolved demand

Four kinds of writers insert, update and delete the same rows, each from objects its session
loaded earlier. `VanishedIsGone` says that a row which somebody has loaded and which is
there no more is known to be gone, so that its UPDATE fails instead of doing nothing;
`OneList` that a key is due once. For an import that nothing disturbs, `LoadedIsThere` says
that what it loaded of a key it still has when the key is due, and `NoneDropped` follows
each key that something was sold of through exclusion, preloading, deriving and commit:
it is on a list, or its row is right already.

### Trade rules

The cost of a ladder is a fold over a set, as in the order books. The proofs first give sums
over a finite set the laws that the rest uses (`SumOfAny`, `SumsCompare`, `SumOfTimes`), by
an induction over its subsets that is stated of a set of sets (`SubsetInduction`) because the
library's takes an operator. `LadderFills` takes the last order off the ladder to show that
the running sum takes exactly what is asked for. `PriceOfLast` is the heart of it: there is a
price below which the running sum takes all of an order and above which nothing. Any other
way of buying as much moves quantity from below that price to above it, so it costs more
(`CheaperBelow`), which is `CheapestLadder`; and when the same is said of a smaller and a
larger demand, each scaled to the other, it says that the average price rises with the
demand (`AverageRises`), which is why a price taken before holdings are subtracted pays for
what is left.

### Only model-checked

- Liveness, which needs fairness and ENABLED: `CancelledRunEnds`, `RunEnds`, `RefreshEnds`,
  `ChangesApply`, `RunsEnd`, `FilesComeIn`, `WholeAgain`, `EveryCharacterSyncs`,
  `DemandSettles`, `NamesComeIn`, `SessionsEnd`.
- That the capital of a summary need not pay for its quantity, a counterexample that TLC
  finds among small ladders (`SummaryIsAhead` of `MCTradeRules`).

## Findings

What the code does and a document, comment or test says otherwise, or what is
plainly a bug, is under `findings` in `PROJECT.json`, with its line. One is
shown by a run of its own (`characters_structures`). The others were met while modelling, and the properties say which case they set
aside because of them: two starters of one type may both insert
(`service.py:933`); a run cancelled while it closes stays `cancelling`
(`:1076`); a failing schedule row takes the others with it
(`sync_tasks.py:150`); the cache keeps files that were cut short or still grow
(`bulk_imports.py:58, 84`); a day's check is recorded before the volumes are
imported (`service.py:3655`); a type that leaves the window keeps its last price
period (`:3642`), and clearing keeps the volume periods (`:1105`); a run with nothing to load does not derive demand
(`:1949`); a structure described without a name loses the name it had
(`esi/client.py:498`); a refreshed token may be lost or a good one taken for rejected
(`characters/service.py:113, 137`); a demand row may mix the source of one
import with the figures of another (`market_demand.py:720`).

## What is left out

- **Job service**: progress and stage texts; `clear_job_data` against the
  other tables of a running job; database errors in the tails of
  `_execute_job`.
- **Schedule**: rows with an hour out of range (`BadHours` is empty in the run);
  what they do is a finding.
- **Opportunities**: the figures of a row (price, units and capital are in
  `TradeRules`; margins, return and days of supply are not modelled), and the order in which one statement takes its row locks, which PostgreSQL's
  deadlock detection settles by ending one of them (a failure here).
- **EVE Ref**: `RecordedIsLoaded` and `FilesComeIn` set aside clearings that
  meet a run; the demand of a type that lost all its history is kept; rows of
  unknown items or regions, dropped by a JOIN; a file republished with the same
  size, which the code can not tell apart.
- **Adam4EVE**: the directories of years, hub files, and the figures. Every region
  is taken to have rows in every day of a file, and the type of the periods is
  among those that the orders name. A page and a run that write the same period
  at once (the later one fails on the key, and its request or run with it), the
  current price of a period, and the path taken without PostgreSQL.
- **Order books**: one region, structure and type, one run of each kind at a
  time; unknown types, prices, and the path taken without PostgreSQL. Days are whole. The structure's period of 14 days
  and the setting are one `Period`.
- **Characters**: users, `state` and PKCE of a login, retries and the error limit
  of ESI. The names of structures and their tracking are in `Universe`.
- **Universe**: one session of each job (two starters of one type may both run it, see
  Findings); regions, systems and
  items come and go together (a clearing between two statements of an import is
  left out); a structure that is renamed in the game; a second
  player's tracking; the path taken without PostgreSQL (`foundation_data.py`).
- **Trade rules**: rounding of floats, profits, return, days of supply, and the
  averages of a summary.
- **Demand**: one type; the statements of one commit are one step; keys that
  Adam4EVE covers without sales (they keep the row they have, see the finding at
  `service.py:2124`), and keys nothing has sales of. With several types
  two refreshes may wait for each other, and PostgreSQL ends one (a failure).
- **Not modelled**: settings and seed data (one row, and the demonstration data),
  in-transit entries (one row each, read by the generation as `held`), routes
  (thin), models and migrations (mapped where used), the frontend (its polling is a
  fairness assumption, its edits are inputs), and the demand resolver, which only a
  test calls. The error limit and the retries of the ESI client are waits inside
  one request of one process: a request succeeds or fails in the models.

## Plan

1. *Done*: job service, ledger, refinement, full refresh, schedule; opportunity
   tables and trade rules; both history imports and the periods; order books;
   characters; resolved demand; the universe.
2. *Done*: proofs of the job service and its refinement, the full refresh, the schedule,
   both history imports, the universe, the characters, the order books, the resolved
   demand and the opportunity tables: all invariants that the runs check, and all action
   properties; and the trade rules for every ladder.
3. *Left*: several types in `MarketDemand` and several regions in `OrderBooks`.
