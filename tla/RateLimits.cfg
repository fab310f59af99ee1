SPECIFICATION FairSpec
CONSTANTS
    r1 = r1  r2 = r2  r3 = r3  r4 = r4  r5 = r5
    c1 = c1  c2 = c2
    Requests = {r1, r2, r3, r4, r5}
    Logins = {r1, r2, r3, r4}
    Addresses = {c1, c2}
    RemoteAddr <- MCRemoteAddr
    Limit = 2
    MaxRetries = 2
    FaultyRequests = {r1}
    MaxWindows = 1
INVARIANTS
    TypeOK LimitPerWindow RefusalsAreEarned CounterExpires
PROPERTY
    WindowsClose
