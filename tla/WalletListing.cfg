SPECIFICATION ListingSpec
CONSTANTS
    r1 = r1  r2 = r2  r3 = r3  r4 = r4  alice = alice
    k1 = k1  k2 = k2  k3 = k3
    NoKey = NoKey  NoTx = NoTx
    NoQuery = NoQuery  Missing = Missing  Garbage = Garbage
    Users = {alice}
    Requests = {r1, r2, r3}
    Keys = {k1, k2, k3}
    Req <- MovingRequests
    MaxConflictRetries = 1
    FaultyRequests = {}
    MaxFailovers = 1
    Queries <- MCQueries
    DefaultLimit = 2
    MaxInt = 7
    MaxClock = 1
INVARIANTS
    ListingTypeOK PagesMissNothing OrderDiffersAcrossEqualBalances
PROPERTY
    PagesAreSlices
