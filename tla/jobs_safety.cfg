SPECIFICATION Spec
CONSTANTS
    rebuild = rebuild
    fresh = fresh
    api = api
    worker = worker
    web = web
    web2 = web2
    sched = sched
    Types = {rebuild}
    CappedTypes = {rebuild}
    UncheckedTypes = {}
    Procs = {api, worker}
    Slots = {web, sched}
    ProcOf <- MCProcOf
    MainThread = {sched}
    Triggers <- RebuildFromScheduler
    Enqueues <- RebuildFromApi
    Operators = {web}
    Pollers = {web}
    StaleCancelling = 1
    StaleRunning = 2
    MaxRuntime = 2
    MaxAge = 2
    MaxJobs = 2
INVARIANTS
    TypeOK
    OutcomeHonest
    NoOrphanRow
    OneRunPerStarter
    YoungRunsUndisturbed
PROPERTIES
    SettledForGood
