SPECIFICATION FairSpec
CONSTANTS
    register = register  login = login  alice = alice
    Calls = {register, login}
    Users = {alice}
    Method <- MCMethod
    UserOf <- MCUserOf
    RetryDelays <- MCRetryDelays
    FaultyCalls = {register, login}
    MaxBalance = 1
INVARIANTS
    TypeOK BalanceIsCurrent ValidUsersHaveWallets
PROPERTIES
    RetriesKeepBalances CallsCountDown ImplementsWalletCalls EveryCallReturns
