SPECIFICATION Spec
CONSTANTS
    ore = ore
    ship = ship
    Days = {1, 2}
    Types = {ore, ship}
    MaxVersion = 2
    MaxFailures = 2
    MaxClears = 1
CHECK_DEADLOCK FALSE
INVARIANTS
    EveRefTypeOK
    RecordedIsLoaded
    WorkIsDerived
PROPERTY FilesComeIn
