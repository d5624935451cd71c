SPECIFICATION LiveSpec
CONSTANTS
    rebuild = rebuild
    fresh = fresh
    api = api
    worker = worker
    web = web
    web2 = web2
    sched = sched
    Types = {rebuild, fresh}
    CappedTypes = {rebuild}
    UncheckedTypes = {fresh}
    Procs = {api, worker}
    Slots = {web, web2, sched}
    ProcOf <- MCProcOf
    MainThread = {sched}
    Triggers <- RebuildFromScheduler
    Enqueues <- FreshFromApi
    Operators = {web}
    Pollers = {web2}
    StaleCancelling = 1
    StaleRunning = 2
    MaxRuntime = 2
    MaxAge = 2
    MaxFailures = 2
    MaxJobs = 1
PROPERTIES
    CancelledRunEnds
    RunEnds
    ImplementsLedger
