SPECIFICATION Spec
CONSTANTS
    jita = jita
    amarr = amarr
    tower = tower
    Stations = {jita, amarr}
    Structures = {tower}
    Catalog = {tower}
    Access = {tower}
    First = {jita}
    MaxFailures = 1
    MaxClears = 1
INVARIANTS
    Twins
PROPERTIES
    NamesKept
    NamesComeIn
    SessionsEnd
