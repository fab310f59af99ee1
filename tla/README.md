# A TLA+ verification of the banking monorepo

The repository holds two Go services. **ms-users** keeps users in Postgres and
sessions and rate counters in Redis; **ms-wallet** keeps wallets and
transactions in MongoDB. ms-users calls ms-wallet over gRPC. This directory
models what the two services do to their stores, one database or network call
per step, checks it with TLC on small instances and proves the main results
with TLAPS for every instance.

All paths below are relative to `src/banking-monorepo/`.

## 1. Inventory

| Component | State | Operations | Talks to |
|---|---|---|---|
| ms-wallet transactions (`ms-wallet/internal/usecase/transaction_usecase.go`, `internal/domain/transaction.go`, `internal/repository/mongo_wallet_repository.go`, `internal/transport/http/transaction_handler.go`) | collections `wallets` (user, balance) and `transactions` (unique `idempotency_key`) | `POST /transactions`: lookup by key, then up to 50 times: get or create the wallet, `NewTransaction`, session transaction (`UpdateOne` filtered by the old balance, `InsertOne`), back off on conflict | MongoDB |
| ms-wallet reads (same files) | the same collections | `GET /wallet/balance` (creates the wallet), `GET /transactions` (paging) | MongoDB |
| ms-wallet gRPC server (`ms-wallet/internal/grpc/server.go`) | the same collections | `GetBalance`, `ValidateUser` (creates the wallet), client-certificate check | MongoDB; called by ms-users |
| Wallet client (`ms-users/internal/grpc/wallet_client.go`) | the attempt number of a call | `GetBalance`, `ValidateUser`, each with two retries | ms-wallet |
| Authentication and sessions (`ms-users/internal/usecase/auth_usecase.go`, `internal/transport/http/auth_handler.go`, `internal/infra/jwt/token_service.go`) | none of its own | register, login, refresh, logout | users table, token store, wallet client |
| Profiles (`ms-users/internal/usecase/user_usecase.go`, `internal/transport/http/user_handler.go`) | none of its own | `PATCH`, `DELETE`, `GET` of `/users/{id}`, `GET /users` | users table |
| Users table (`ms-users/internal/repository/postgres_user_repository.go`, `migrations/`) | rows, unique `email`, `is_deleted` | insert, find, update, soft delete | Postgres |
| Token store (`ms-users/internal/repository/redis_token_store.go`) | keys `refresh:<user>:<token>` with a TTL | SET, EXISTS, DEL | Redis |
| Login rate limiter (`ms-users/internal/transport/http/rate_limiter.go`, `internal/repository/redis_rate_limit_counter.go`, `main.go`) | one counter per path and remote address, with a TTL | INCR, EXPIRE, compare | Redis |
| Start-up (`ms-wallet/main.go`, `ms-users/main.go`, `ensureIndexes`, `RunMigrations`) | the indexes of `transactions`, `schema_migrations` and the `users` table, Postgres' advisory lock, the context of `signal.NotifyContext` | environment, ping, three indexes one by one; one migration under a lock, pool, Redis, environment; listen | MongoDB; Postgres |
| JWT and request-id middleware (`pkg/middleware/middleware.go`) | none | accept or refuse an access token | |
| Response helpers, protobuf code, docs endpoints, TLS loading | none | | |

Requests are goroutines of any number of service instances. The instances share
nothing but the stores, so the unit of concurrency in every module is the
request and the unit of atomicity is one call to a store or to the other
service.

### What is hard in this code

- **Optimistic concurrency on the balance.** The balance is read outside the
  session transaction that overwrites it; only the filter
  `balance = balance_before` protects the write, and `WithTransaction` runs its
  callback again on an old draft. Right means: no lost update, no overdraft, the
  wallet document equals the last transaction.
- **Idempotency.** Two lookups outside the transaction and a unique index
  inside it. Right means: a key executes once over all wallets, everybody told
  CREATED is told the one stored transaction, and everybody refused changed
  nothing, also when a commit is applied after its caller got an error.
- **Durability.** Majority read and write concern against failovers that roll
  back. Right means: CREATED survives.
- **Bounded retries.** A request may give up with CONFLICT. Right means: only
  against real progress of others, and every request is answered.
- **Sessions over three systems.** Register writes to Postgres, ms-wallet and
  Redis; refresh does EXISTS, DEL, SET. Right means: a session belongs to one
  user, ends by its own token only and never comes back.
- **Read-modify-write of a profile** against another PATCH and a DELETE. Right
  means: emails unique, deletion final, an edit lost to another edit at worst.
- **A listing that moves.** `created_at` is drawn before the write is tried, pages
  are separate reads by offset, and the offset is a product of two numbers from
  the query string. Right means: who turns the pages misses nothing.
- **Readers against writers of the users table.** Right means: who was told that a
  user is gone is not contradicted later.
- **INCR then EXPIRE.** Right means: no window admits more than the limit, nobody
  is refused for the requests of others, and no counter stays without an expiry.
- **gRPC retries.** Right means: a late or repeated ValidateUser takes nothing
  back, and no answer is taken for that of another attempt.
- **Several instances starting on empty stores**, failing half-way and starting
  again. Right means: nobody serves before indexes and table are there, and one
  instance's failure does not keep healthy ones from starting for good.

PROJECT.json lists these hazards one by one at the line where each bites.

## 2. Modules

| Module | Models | State ↔ code |
|---|---|---|
| `WalletData` | requests, transactions, answers; `domain.NewTransaction` | `Req` is the request body and headers; an `Entry` is a `domain.Transaction` reduced to its request and its two balances; money is in cents, `exp` is the exponent the amount was written with |
| `WalletLedger` | the abstract promise: a ledger per user that grows at its end, and answers about it | none: this is what ms-wallet is for |
| `WalletService` | `POST /transactions` and everything else that touches the wallets | `pc`, `attempt`, `draft`, `answer` are the goroutine; `wallets`, `balance`, `log` the documents; `durable`, `txn`, `sawKey`, `failovers` MongoDB |
| `WalletListing` | `GET /transactions` over the collection `WalletService` writes | adds `clock` and `stamp` (`created_at` of each draft); `query`, `code`, `rows` are the reader; `seen`, `expected` its history |
| `WalletCalls` | the abstract promise of the wallet client: a call takes its answer at one instant | none: `WalletClient` implements it |
| `Sessions` | the abstract promise of ms-users: one session per refresh token, opened for a user who was shown | none: `UserService` implements it |
| `UserService` | register, login, refresh, logout, `GET`, `PATCH`, `DELETE` of users | `users` is the table, `store` the Redis keys, `wallets` the users with a wallet in ms-wallet; `pc`, `user`, `answer` the goroutine |
| `RateLimiter` | the limiter in front of login | `counter`, `ttl` the Redis key of each remote address; `count` what INCR returned to each request; `sent`, `late`, `rearmed` the commands of the Redis client; `window`, `joined`, `applied` the history of windows |
| `WalletClient` | the gRPC client's retry loop and the gRPC server | `tries` is the loop variable `i`, `reply` the answer on the wire, `stray` the attempts that may still arrive, `seen` the history of the balance |
| `Startup` | both `main` functions up to their listeners | `pc` is where `main` of an instance is; `indexes` MongoDB; `lock`, `version`, `table` Postgres; `cancelled` the contexts that are done |
| `MC…` | finite instances of each | |
| `WalletServiceProofs`, `WalletRefinementProofs`, `WalletListingProofs`, `UserServiceProofs`, `UserSessionsProofs`, `RateLimiterProofs`, `WalletClientProofs`, `StartupProofs` | theorems | |

`WalletListing` extends `WalletService`: its step `Write` is a whole step of that
module with the clock read beside it, so every property of the writes is one of
the composition. `WalletClient` and `UserService` meet in two calls, `ValidateUser`
and `GetBalance`: `InitWallet` and `ReadBalance` of `UserService` are one step each
where `WalletClient` has a loop, and an attempt that arrives after its call is
over is the second disjunct of `UseWallet` there.

### WalletService

One action per database round trip of a request: `Lookup`, `ReadWallet`
(`GetOrCreateWallet` with the `NewTransaction` that follows it), `UpdateWallet` /
`UpdateConflict` / `UpdateFails`, `InsertTransaction` / `InsertDuplicate` /
`InsertFails`, `Ack` / `AckFails`, `Relookup`, and the local steps `Submit`,
`LeaveLoop` and `Backoff`. A round trip that fails may have been applied
(`ReadWalletFails`, `UpdateFails`, `InsertFails`, `AckFails`).

MongoDB is external and modelled from how the repository uses it. A session
transaction holds the wallet document from its update to its end (`txn`), a
second writer gets a write conflict, which is a transient error that makes
`WithTransaction` call the callback again. The unique index refuses a key that
the transaction's snapshot holds (a duplicate-key error); a key committed since
the snapshot, or being committed, is a write conflict. A commit that was sent
is applied by `ServerCommit` whatever becomes of the caller, and becomes
majority-committed by `Replicate`, oldest first. `Failover` drops everything
that is not. `Cancel` and `Crash` are the caller hanging up and the instance
stopping; `ExpireTxn` is the server ending what they left behind.

The decimal strings are integers: shopspring's `String` has one form per value,
so equality of strings in the filter is equality of amounts. A `domain.Wallet`
without transactions has balance 0, so `balance` is 0 for a user without a
document. `TouchWallet` is any other call of `GetOrCreateWallet`:
`GET /wallet/balance` and the gRPC `ValidateUser`.

### WalletListing

`LimitOf` and `OffsetOf` are `handleList`'s reading of the query string with the
arithmetic of int64, whose largest value is `MaxInt`: a parameter that does not
parse, is not positive or is missing falls back, a `page` hides the `offset`, and the
product wraps. `List` is one find with majority read concern: `Readable` is the durable
prefix of the log. It sorts by `created_at` descending; the index on
`(user_id, created_at)` leaves documents of one millisecond in the order of their
insertion. A wrapped offset that is negative is refused by MongoDB. All stamps
come from one clock that does not go back, as with the one instance of
`docker-compose.yml`.

### UserService and Sessions

The UUIDs a request draws are named after the request, so `store` is a set of
`<<user, request>>` pairs; an access token is named after the request that was
answered with it. `Presentable` says that callers present tokens they were
given. Access-token expiry is the free choice between `Unauthenticated` and the
handler (`/auth/refresh` accepts an expired token, as `ParseUnvalidated` does).
First and last name are one field. Calls that fail may have been applied. The
wallet client is configured; without one the step `InitWallet` only has its
failing outcome and a login shows no balance. The readers answer from the rows
that are not deleted; `GET /users/{id}` makes a 404 of any error.

`Sessions` says of a session that it is opened once, by a request that showed its
user with a password or with a live session of that user, that a session
presented is over before the next begins, and that callers are only given
sessions that were opened. The refinement mapping is `SessionOf`: a refresh has
*shown* its user from the EXISTS that found its token, a registration or login once
the use case holds its user, and the SET *opens* the session. Two refreshes may
show the same session, since EXISTS and DEL are two calls: the abstract `Present`
therefore does not end the session, only `Open` requires that it is over.

### RateLimiter

The Redis key holds the path and `RemoteAddr`, host *and port*, so a client is
counted once per connection; `Addresses` are those pairs. `PassBy` is what
`rateLimitLogin` does with any other request.

`main.go:62` gives the Redis client an address and nothing else, so it has go-redis's
default of three retries: an INCR whose connection fails is sent up to
`1 + MaxRetries` times. `Increment` is an INCR that is applied and answered;
`IncrementAgain` one that goes unanswered and will be sent again; `IncrementFails` the
last one, or the one at which the context of the request is done. Redis may apply
each unanswered one or not, at once or any time later (`IncrementLate`), also after
the next one, in between those of other requests, or in a later window: a single request
may raise the counter by up to `1 + MaxRetries` and be let through by the error.
`Expire` acts on whatever key there is by then; `ExpireFails` is the EXPIRE whose error
the code does not look at, applied later (`ExpireLate`) or never. `CloseWindow` is the
TTL of one key. A request that is let through ends the model's interest in it: what the
handler does next is `UserService`.

`RefusalsAreEarned` therefore counts a request with a fault `1 + MaxRetries` times. With the
code's numbers, a single login whose INCR was applied four times is enough for the
third login of its window to be refused.

### WalletClient

A call alternates `Send`, `Serve`, `Receive`; `Lose` is a transport error, a
deadline or a cancellation in between, and `ServeStray` an attempt that reaches
the server after the client gave up on it. `ServeFails` is a repository that fails, for
ValidateUser also after its upsert was applied. `Transact` stands for
`POST /transactions`: a credit, a debit, or one that is refused after
`GetOrCreateWallet` has created the wallet. `seen` collects the balances of the user
since its attempt was sent, which is what an answer of that attempt may report.

`WalletCalls` is what Register and Login see of it: a call that has not begun, is
pending, has *taken* its answer from the wallets as they are at that instant, or is
over; what it took may be lost before it returns. The refinement mapping is
`Progress`: a call has taken its answer while the OK of its current attempt is on its
way. An attempt that arrives late is a `Touch`, which can only create a wallet: this
is why `UserService` may have one step where `WalletClient` has a loop, and why
`WalletService` has `TouchWallet` and nothing else for the calls of ms-users.

### Startup

`StartWallet`, `Ping`, `EnsureIndex` (one index per step, in the code's order) and
`Listen` are ms-wallet; `StartUsers`, `AcquireLock` to `MarkClean` and `Connect` are
ms-users. golang-migrate is external: it takes an advisory lock of Postgres, marks
the version dirty, runs the migration, marks it clean and returns `ErrNoChange` when
there is nothing to do, which `RunMigrations` takes for success; a dirty version is
an error. Every error ends the process by `os.Exit`. golang-migrate gives up on a lock that
another instance holds for too long; here that happens to instances with faults only,
so `HealthyStartsServe` is about starts in which nobody keeps the lock for that long. `Signal` is SIGINT or SIGTERM:
`signal.NotifyContext` takes it and only the calls of the start-up look at that
context, so a serving instance is not stopped by it. `Crash` is the kill, after
which Postgres releases the lock.

## 3. What the runs check

| Run | Instance | Shows |
|---|---|---|
| `wallet_contention` | 2 credits and a debit of the same size on one wallet, 2 attempts each, one request with faults, one failover, with fairness; 116,760 states | `LedgerChain`, `BalanceIsLedger`, `BalanceFloor`, `OpenDraftsAreFresh`, `GiveUpNeedsContention`, `EveryRequestAnswered` |
| `wallet_keys` | one key in a request with faults, in its duplicate and on another wallet, a request without a key, a failover; 318,456 states | `AtMostOnce`, `RefusalsAreFinal`, `AnswersAreDurable`, and the refinement `ImplementsLedger` |
| `wallet_listing` | two credits and a debit, a clock of two ticks, a failover, a reader with one of eight queries who turns pages; 807,568 states | `PagesMissNothing`, `PagesAreSlices`, `OrderDiffersAcrossEqualBalances` |
| `wallet_replay` | a debit, its duplicate, funds for one | **violated**: `DuplicatesAreReplayed` |
| `wallet_conflict_code` | three requests with three keys, one attempt each | **violated**: `ConflictMeansKeyInFlight` |
| `user_sessions` | two users, four refreshes (two with one token, one with another user's), a logout, a login; three requests with faults, one token that expires; 134,170 states | `SessionsStayWithTheirUser`, `SessionsEndByTheirOwnToken`, `SpentTokensStaySpent`, and the refinement `ImplementsSessions` |
| `user_profiles` | three registrations (two with one email), three PATCHes, a login, a DELETE, a GET, a listing, a malformed refresh; two of them with faults; 306,402 states | `EmailsAreUnique`, `EditsAreOnlyLostToEdits`, `DeletionIsFinal`, `GoneUsersStayGone` |
| `user_rotation` | a registration and two refreshes with its token, no faults | **violated**: `RotatedTokenIsInvalid` |
| `user_balance` | a registration with faults and a login | **violated**: `BalanceWhenReachable` |
| `rate_limits` | four logins and another request over two connections, limit 2, two retries, two windows each, one request with faults, with fairness; 203,364 states | `LimitPerWindow`, `RefusalsAreEarned`, `CounterExpires`, `WindowsClose` |
| `wallet_calls` | ValidateUser and GetBalance of one user, two retries, balances 0 and 1; 265,101 states | `BalanceIsCurrent`, `ValidUsersHaveWallets`, `RetriesKeepBalances`, `CallsCountDown`, `EveryCallReturns`, and the refinement `ImplementsWalletCalls` |
| `startup` | two instances of each service, three starts each, one of each with faults, one without its environment, with fairness; 130,200 states | `ServingIsPrepared`, `DirtyNeedsFault`, `HealthyStartsServe` |

Each passing run also checks the type invariant of its module, once per module.

### Bounds, and why they are enough

- *Attempts.* `MaxConflictRetries` is 50 in the code and 2 or 3 here: every
  branch of the loop is taken (first attempt, lost attempt and retry, last
  attempt lost). Attempt counts matter to `GiveUpNeedsContention` only, which is
  proved for every value.
- *Requests.* Three on one wallet are the reader, the writer that changes the
  balance under it, and the one that changes it back (the ABA case); a fourth is
  needed for a duplicate beside them.
- *Faults.* `FaultyRequests` bounds who may meet a lost call, a cancellation or a
  crash, not how often. One failover rolls back anything that any number could.
- *Users' requests.* Each table in `MCUserService` names the races it is for.
  Faults are granted to the requests that write in more than one step.
- *Listing.* The query is one of eight in `MCWalletListing`: two walks by one, the
  defaults, a raw offset, the last offset that fits, and products that wrap to a
  negative offset and to 0. With `MaxInt` 7 all of these are within eight of each
  other, as they are within `2^63` in the code; `DefaultLimit` is 2. Three
  transactions fill three pages of one, and `MaxClock` 1 lets a later stamp be
  committed before an earlier one.
- *Limits.* A limit of 2 with three logins on one connection leaves one over the
  limit; one of the three may have its INCR applied three times, before, between or
  after the others' and in either window, so it alone exceeds the limit. `MaxRetries`
  is 2 where go-redis has 3: a first, a middle and a last repetition, and the
  bound that depends on it is proved for every value. The second connection shows that
  its login is counted apart. `MaxWindows` caps how often `CloseWindow` happens: once
  per key, so a command, a number or a decision can be of the window before.
- *Balances.* With `MaxBalance` 1 a balance is left and comes back between the
  attempts of a call, and an answer that is too old differs from the current one.
- *Starts.* The two instances of a service are the one that fails half-way and
  the one that finds what it left; three starts allow to fail, to start again
  and to meet a healthy one.

### Fairness

`wallet_contention` assumes weak fairness of each goroutine's next step and of the
server's steps on each session transaction and each user's replication: the Go
scheduler runs every goroutine, drivers return from every call, MongoDB ends
abandoned transactions and a majority catches up. Nothing is assumed of
`Cancel`, `Crash`, `Failover`, `TouchWallet` or `Submit`. A request that keeps
meeting a write conflict is still answered because whoever holds the wallet
ends its own transaction. `rate_limits` assumes that counted requests go on
(an EXPIRE that fails is one way of going on) and that Redis drops every key that has
a TTL; nothing is assumed of the commands that are late. `wallet_calls` assumes that attempts
are answered or fail and that timers fire. `startup` assumes that a running process
takes its next step, which for one that waits for the migration lock means that it
gets it once the lock is free for good; that nobody holds it for ever follows from
the same assumption about the holder. Nothing is assumed of starts, signals and
crashes. `CHECK_DEADLOCK` stays on everywhere; each module has a `Finished` step for
the state in which nothing is left to do.

### Where the code and its documents disagree

1. `wallet_replay`: `ms-wallet/README.md:229` says a duplicate "returns the cached
   response without re-executing". A duplicate that missed the first lookup is
   validated again on the balance the original left and can be refused with
   INSUFFICIENT_FUNDS (`transaction_usecase.go:56`).
2. `wallet_conflict_code`: `ms-wallet/README.md:152` says 409 means a "request with
   this key is currently in-flight". `ErrConflict` (`transaction_usecase.go:89`)
   is about the balance, whatever the keys.
3. `user_rotation`: the integration test at
   `ms-users/internal/usecase/auth_usecase_integration_test.go:161` says "old refresh
   token invalid after rotation". EXISTS and DEL (`auth_usecase.go:108-118`) are two
   calls, and two overlapping refreshes both succeed.
4. `user_balance`: `ms-users/internal/docs/openapi.yaml:192` says the balance is
   "included when wallet service is reachable". Register inserts the user and then
   asks for the wallet, and only logs it when that fails (`auth_usecase.go`). After a
   registration whose ValidateUser failed, or which ended after its insert, the user
   exists and has no wallet; `GetBalance` makes an error of that and the login has
   no balance, although ms-wallet answered.

Not a matter for TLC: `README.md` and `ms-wallet/README.md:229` place idempotency in
Redis with a 24-hour window, and the latter promises `200 OK` for a replay; the
code keeps keys in MongoDB for ever and answers 201.

## 4. What is proved

All proofs are for any users, requests, keys, tables of requests, retry and
failover bounds. The assumptions are those on the constants (`ReqAssumption`,
`NoTxAssumption`, `NamesAssumption`, `BoundsAssumption`, `AddressAssumption`,
`CallsAssumption`, `InstancesAssumption`, `ListingAssumption`), which TLC evaluates in every run.

**WalletServiceProofs.** None of the safety properties is inductive alone. The
inductive invariant `IInv` has four layers, each proved from those below it:

1. `Shape`: the types, and which variables a program counter allows to be set
   (a draft exists from `update` on; a transaction is only open for requests that
   got that far; `durable` never exceeds the log).
2. `Money`: the log is a chain, the balance document is its last entry, and every
   open session transaction is fresh: it holds the wallet alone and its draft
   starts from the stored balance. The last part is what makes the chain
   inductive: `ServerCommit` appends a draft that was computed long before.
3. `KeysOK`: keys are unique in the log, and a transaction that is committing has
   a key that neither the log nor another committing transaction has.
4. `AnswersOK`: what has been told. CREATED is about a durable entry; a request that
   was refused, or can still be, has committed nothing and has no transaction
   under way.

Theorems: `TypeCorrect`, `LedgerIsChain`, `BalanceMatchesLedger`, `NoOverdraft`,
`OpenDraftsStayFresh`, `KeysExecuteOnce`, `CreatedIsDurable`, `RefusedIsFinal`.

Its last section is about contention. `ConflictIsPaid`: without failovers, a request that
gives up did so against `MaxConflictRetries` commits of its wallet. The balance is
not enough of a witness (it can return to an old value), so the invariant
`AttemptsPaid` counts: every lost attempt and every draft that no longer matches
has a commit of its own in the log.

**WalletRefinementProofs.** `Refinement`: `Spec => ImplementsLedger`. The abstract
ledger is the durable prefix of the log. `Replicate` is `Post` (its guards follow
from the chain, the unique keys and the fact that a refused request is not in the
log), answers are `Confirm`, `Refuse` or `LeaveInDoubt`, a failover and
everything else is a stutter.

**WalletListingProofs.** A find is the listing's order restricted to what matches and
cut at two offsets, so the proofs are about *ranks*: how many matching documents come
before one. `Before` is a strict total order, so ranks are distinct and fill
`0..Cardinality - 1`, the sorted enumeration exists and is the only one, and a page
holds the documents whose ranks lie between its offsets (`PageOfRanks`). On top of
`IInv` of WalletServiceProofs stand three parts:

1. `StampsOK`: no stamp is ahead of the clock, so a draft is not stamped earlier than
   one that was stamped before it.
2. `ReaderInv`: while no error was returned, what was there at the start and has not
   been seen has a rank beyond the end of the page that is shown. It is inductive
   because ranks only grow (`RanksGrow`: documents are added, and what a majority
   read sees is never rolled back), and because the next page begins where this one
   ends or is an error: the next offset is this one plus the limit, whatever has
   wrapped before, or a negative number when that sum leaves int64.
3. `OrderInv`: without failovers, the balance that a live draft starts from is the one
   after some place of the log up to which nothing is stamped later (`DraftOrigin`).
   A document stamped later than one that comes after it in the log is beyond that
   place, and the balance has come back to what it was there.

Theorems: `ListingTyping`, `ReaderMissesNothing`, `PageContents` (division with
remainder turns the two offsets into the page number), `ListingOrder`, and
`ListingIsService`: `ListingSpec => Spec`, so all that is proved of `WalletService`
holds with readers beside it.

**UserServiceProofs.** Again the properties are not inductive, and the invariant is
built in layers:

1. `Shape`: `TypeOK`; `ControlOK`, which kind of request can be where; `PresentedOK`,
   what an accepted request presents was handed out by an answer, which no longer
   changes; `UserOK` and `RowsOK`, the user a request works on has a row, and so has
   the user of every session.
2. `SessionsOK`: `KeysOK`, a Redis key holds the user that the request which stored it
   works on and is answered for, so a token is found under no other user;
   `RotationOK`, a refresh past its EXISTS presents a token of its own user, and one
   past its DEL presents a token that has left Redis; `LoginOK`, the token of a login
   that still reads the balance is there; and `SessionsEndByTheirOwnToken` itself,
   whose witness is the request that sent the DEL.
3. `GoneOK`: a user that a GET without faults did not find has its row deleted
   (rows are never removed, and the row exists because its token was handed out).
   Deletion being final then makes it invisible for every later reader.
4. `WritersOK` and `ColumnsOK`: what a request holds of a row that it writes has the
   columns its payload gave; a column that was given and acknowledged has that value
   still, or the one that a PATCH which has written since holds of it.

Theorems: `TypeCorrect`, `EmailsUnique` (from the constraint being over all rows,
deleted ones included), `DeletionFinal`, `SpentStaysSpent`, `SessionsOfTheirUser`,
`SessionsEndAlone`, `GoneForGood`, `EditsLostToEdits`.

**UserSessionsProofs.** `SessionsImplemented`: `Spec => ImplementsSessions`. The content
is in the steps on Redis: the EXISTS of a refresh that finds its key is `Present`; its
DEL is `End`, or a stutter when another request was faster; its SET is `Open`, whose
guard, that the session it presented is over, is `RotationOK`; a call that fails is
`GiveUp`, also when it was applied, or `Open` with the session never given.
Everything about profiles and wallets is a stutter.

**RateLimiterProofs.** `LimitHolds` rests on the counts of a window being distinct and
at most `counter`. `RefusedForItsOwn` rests on a tally: the counter of the open
window, and every number a request holds of its window, is at most the number of
INCRs applied in that window (`Tallied`), where an application is a pair of a request
and the place it has among that request's own. `Sent` bounds those places: what was
applied and what is late was sent, once without a fault and at most `1 + MaxRetries`
times with one. `TallyBound` then maps the applications of a window into its
requests and the repetitions of those with faults, and compares cardinalities.
`NoLockout` rests on the request that counted 1 being in `expire` or its EXPIRE
done; `TypeCorrect`.

**WalletClientProofs.** `BalancesCurrent` and `ValidUsersFound` follow from `Answered`: the
answer at hand is `Truthful`, of the current attempt: a balance among those `seen` since
that attempt was sent, a valid user with a wallet. It stays so because `seen` takes in
every balance a transaction leaves and wallets are never removed. The steps of calls
and late attempts at most create a wallet without a balance (`Creates`, which is also
`BalancesKept`: no attempt moves money).
`Walletless`, no balance without a wallet, is what makes the late creation of a
wallet harmless. `TypeCorrect` says that no attempt follows the last delay, and
`StepsRunOut` that each step of a call takes at least one from `StepsLeft`, a natural number:
of the liveness property `EveryCallReturns` this leaves only that a call which is not
done can step.

`CallsImplemented`: `Spec => ImplementsWalletCalls`. An attempt that the server answers
with OK is `TakeBalance` or `TakeValidity`; an error that will be tried again is a
stutter, or `Lose` when an OK was on its way; `Send` after a delay finds the call
pending, since it clears the answer of the attempt before; a late attempt is `Touch`,
by `Walletless`.

**StartupProofs.** `Prepared` rests on `Indexed`, each instance of ms-wallet has seen
the indexes before the one it is at, and on `Migrated`, what the holder of the lock
knows of the version and the table; only the holder changes them, so `TypeCorrect`
(the lock is with whoever is at the migration) is part of the same induction.
`DirtyByFault` is proved along with it.

### Only model-checked

- Liveness (`EveryRequestAnswered`, `WindowsClose`, `EveryCallReturns`,
  `HealthyStartsServe`): fairness and ENABLED are out of the prover's reach.

Every other property of a passing run is stated by a theorem.

## 5. Not modelled, and why

- Token signatures, password hashes and UUIDs: taken to be unforgeable and unique.
- Response envelopes, headers, the request id, status wording, logging, docs
  endpoints: formatting, or static files.
- `proto/`: generated code; its two methods are in `WalletClient`.
- Loading of TLS files: what a bad certificate does to a call is `Intercept`.
- Redis and Postgres losing acknowledged writes: the code assumes they do not.
- SET and DEL of a refresh token that the Redis client sends again: they are taken to
  reach Redis before the answer of their call, when a repetition changes nothing. A
  late DEL would be harmless, since every token is drawn once; a late SET could bring
  back a token that was deleted in between, and `SpentTokensStaySpent` and `Sessions`
  say nothing of that. The limiter's commands, whose repetitions do count, are
  modelled as late as they may come.
- Refusals before the first call to a store: tokens that do not parse, bodies and
  amounts that are not valid. They change nothing; where a model has such an exit
  (`HandlerError`, `Unauthenticated`) it stands for all of them. Access tokens that come with
  a refresh are issued ones, so the parse errors of `RefreshToken` do not occur.
- Postgres' connection pool (25 connections): a request that waits for one is a
  request whose next step is late.
- Clocks of several ms-wallet instances that disagree: `WalletListing` has one clock.

## 6. Plan

Done, in this order: `WalletData`, `WalletLedger`, `WalletService` with its runs,
its invariant, refinement and contention proofs; `UserService`;
`RateLimiter`; `WalletClient`; `WalletListing`; `Sessions` and its refinement;
`Startup`; the proofs of `UserService`, `WalletClient`, `Startup` and of the limiter over
several connections; `WalletCalls` and its refinement; the proofs of `WalletListing`.

What would come next: `UserService` composed with `WalletCalls` in place of its own two
steps `InitWallet` and `ReadBalance`; measures like `StepsLeft` for the requests of
`WalletService` and the starts of `Startup`; the limiter composed with `UserService`'s
login.
