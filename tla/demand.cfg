\* One type at one station and one structure.
SPECIFICATION Spec
CONSTANTS
    adam = adam
    page = page
    snapshots = snapshots
    visit = visit
    Types = {1}
    RawFigures = {0, 1, 2}
    PeriodFigures = {0, 2}
    HistoryFigures = {0, 1, 2, 3}
    Interval = 2
    Refreshers = {adam, page}
    Pollers = {snapshots}
    Daily = adam
    MaxHappenings = 3
INVARIANT NothingFallsThrough
PROPERTY DemandSettles
