\* Order 1 in the structure and 2 at the station, both in the list of the region.
SPECIFICATION Spec
CONSTANTS
    Orders = {1, 2, 3}
    StructureOrders = {1, 3}
    Listed = {1}
    Late = {3}
    Volume = 2
    PageSize = 1
    Period = 1
    Retention = 1
    RegionRuns = 2
    StructureRuns = 3
    MaxMoves = 2
    MaxDays = 2
    MaxFailures = 1
INVARIANT BooksBalance
INVARIANT StructureClaims
PROPERTY CatchesUp
