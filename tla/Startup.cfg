SPECIFICATION FairSpec
CONSTANTS
    w1 = w1  w2 = w2  u1 = u1  u2 = u2  None = None
    WalletInstances = {w1, w2}
    UsersInstances = {u1, u2}
    Configured = {w1, w2, u2}
    FaultyInstances = {w1, u1}
    MaxStarts = 3
INVARIANTS
    TypeOK ServingIsPrepared DirtyNeedsFault
PROPERTY
    HealthyStartsServe
