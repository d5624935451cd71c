SPECIFICATION Spec
CONSTANTS
    jita = jita
    amarr = amarr
    ore = ore
    ship = ship
    Sources = {jita, amarr}
    Types = {ore, ship}
    Known = {jita, amarr}
    Markets <- MCMarkets
    Before <- MCBefore
    Kinds = {"rebuild", "refresh", "clear", "miss", "items", "detail"}
    MaxRuns = 3
    MaxMoves = 1
    MaxFailures = 1
    PeriodDays = 2
CHECK_DEADLOCK FALSE
INVARIANTS
    SummariesMatchItems
PROPERTIES
    WholeRunRepairs
    RunsEnd
