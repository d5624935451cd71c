SPECIFICATION Spec
CONSTANTS
    forge = forge
    domain = domain
    Weeks = 2
    WeekDays = 2
    Lookback = 2
    Regions = {forge, domain}
    Traded = {1, 2, 4}
    MaxFailures = 1
    MaxClears = 1
INVARIANTS
    DerivedFollows
PROPERTIES
    SkipsOnlyIngested
    WholeAgain
