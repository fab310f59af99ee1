SPECIFICATION Spec
CONSTANTS
    alice = alice  bob = bob  carl = carl  l1 = l1
    f1 = f1  f2 = f2  f3 = f3  f4 = f4  o1 = o1  p1 = p1  p2 = p2  p3 = p3  d1 = d1  g1 = g1  s1 = s1
    ann = ann  ben = ben  ann2 = ann2  secret = secret  secret2 = secret2
    Absent = Absent  NoUser = NoUser
    Requests = {alice, bob, l1, f1, f2, f3, f4, o1}
    Req <- RotationsRequests
    FaultyRequests = {alice, l1, f1}
    ExpiringTokens = {alice}
INVARIANTS
    SessionsStayWithTheirUser SessionsEndByTheirOwnToken
PROPERTIES
    SpentTokensStaySpent ImplementsSessions
