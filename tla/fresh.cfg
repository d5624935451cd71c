SPECIFICATION MCLiveSpec
CONSTANTS
    foundation = foundation
    structure = structure
    adam = adam
    esi = esi
    Raw = {adam, esi}
    Types = {foundation, structure, adam, esi}
    OthersTypes = {esi}
    MaxAttempts = 1
    MaxOthers = 1
    MaxOutside = 1
    MaxJobs = 5
CHECK_DEADLOCK FALSE
INVARIANTS
    FreshTypeOK
    StagedOnSuccess
    NothingLeftBehind
PROPERTIES
    RefreshEnds
