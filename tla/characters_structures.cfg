\* One character in the structure, and nothing that disturbs its synchronisation.
SPECIFICATION Spec
CONSTANTS
    Characters = {1}
    Connected = {1}
    Access = {1}
    Scoped = {1}
    Discovered = {}
    OldTokensLive = TRUE
    Bounds <- Quiet
    MaxHappenings = 0
INVARIANT StructuresFound
