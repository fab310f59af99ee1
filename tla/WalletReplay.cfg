SPECIFICATION FairSpec
CONSTANTS
    r1 = r1  r2 = r2  r3 = r3  r4 = r4
    alice = alice  bob = bob
    k1 = k1  k2 = k2  k3 = k3
    NoKey = NoKey  NoTx = NoTx
    Users = {alice}
    Requests = {r1, r2, r3}
    Keys = {k1, k2, k3}
    Req <- ExactFundsRequests
    MaxConflictRetries = 3
    FaultyRequests = {}
    MaxFailovers = 0
PROPERTY DuplicatesAreReplayed
