\* A job, a visit, the structure client and logins over two characters.
SPECIFICATION Spec
CONSTANTS
    Characters = {1, 2}
    Connected = {1, 2}
    Access = {2}
    Scoped = {1, 2}
    Discovered = {}
    OldTokensLive = TRUE
    Bounds <- Full
    MaxHappenings = 3
INVARIANT CharactersTypeOK
INVARIANT DisabledOnlyIfRevoked
INVARIANT AnotherServes
PROPERTY EveryCharacterSyncs
