----------------------------- MODULE UserService ----------------------------
(***************************************************************************)
(* ms-users: registration, login, refresh, logout, and the user's own      *)
(* GET, PATCH and DELETE, one action per call to Postgres, to Redis or to  *)
(* ms-wallet.  Each request is a process; the processes share the users    *)
(* table, the refresh tokens in Redis and the wallets of ms-wallet.        *)
(*                                                                         *)
(* The UUIDs a request draws are named after the request: the user that r  *)
(* registers is r, the refresh token that r stores is r.  An access token  *)
(* is named after the request that was answered with it; its claims are    *)
(* the sub and email of that answer.                                       *)
(***************************************************************************)
EXTENDS FiniteSets

CONSTANTS
    Requests,       \* the HTTP requests, each sent at most once
    Req,            \* what each of them carries
    Absent,         \* a field that the payload does not have
    NoUser,         \* no domain.User
    FaultyRequests, \* bound: the requests whose calls or instance may fail
    ExpiringTokens  \* bound: the refresh tokens that outlive their TTL

Kinds == {"register", "login", "refresh", "logout", "get", "list", "patch", "delete"}

\* The columns of a user a request may give; first and last name are one.
Fields == {"name", "email", "password"}

\* The values that requests give to columns; domain.User, as far as a request
\* has it; and the rows of the users table.
Values == (UNION {{Req[r][f] : r \in Requests} : f \in Fields}) \ {Absent}

Users == [id: Requests, name: Values \cup {Absent}, email: Values,
          password: Values \cup {Absent}]

Rows == [name: Values, email: Values, password: Values, deleted: BOOLEAN]

ASSUME NamesAssumption ==
    /\ Absent \notin Requests /\ Absent \notin Requests \X Requests
    /\ NoUser \notin Users /\ NoUser \notin Rows

ASSUME ReqAssumption ==
    \A r \in Requests :
        /\ Req[r].kind \in Kinds
        /\ Req[r].access \in Requests \cup {Absent}
        /\ Req[r].refresh \in Requests \cup {Absent}
        /\ Req[r].target \in Requests \cup {Absent}
        /\ Req[r].kind \in {"register", "login"} => Req[r].refresh = Absent

VARIABLES
    pc,       \* where the goroutine that serves the request is
    user,     \* the domain.User it works on
    answer,   \* what it answered
    users,    \* the users table: the row of each id, NoUser when there is none
    store,    \* Redis: the <<user id, refresh token>> pairs that exist
    expired,  \* the refresh tokens whose TTL is over
    wallets   \* the users that have a wallet in ms-wallet

vars == <<pc, user, answer, users, store, expired, wallets>>

-----------------------------------------------------------------------------
Kind(r) == Req[r].kind

\* The answers.  balance tells why a login has none, which the caller does
\* not see: the wallet is missing, or ms-wallet was not reached.  shown is
\* what a GET shows.
NoAnswer == [code |-> "NONE", sub |-> Absent, email |-> Absent,
             balance |-> "none", shown |-> {}]

Codes == {"NONE", "OK", "BAD_REQUEST", "VALIDATION_ERROR", "UNAUTHORIZED", "DUPLICATE",
          "INVALID_CREDENTIALS", "INVALID_TOKEN", "NOT_FOUND", "INTERNAL_ERROR"}

\* r asks for a token pair, and was answered with one.
Opens(r) == Kind(r) \in {"register", "login", "refresh"}
HasPair(r) == Opens(r) /\ answer[r].code = "OK"

\* The claims of the access token that r presents.
Sub(r) == answer[Req[r].access].sub
EmailClaim(r) == answer[Req[r].access].email

\* The Redis key of the refresh token that r presents.
TokenKey(r) == <<Sub(r), Req[r].refresh>>

\* A caller presents tokens that it was given.
Presentable(r) ==
    /\ Req[r].access # Absent => HasPair(Req[r].access)
    /\ Req[r].refresh # Absent => HasPair(Req[r].refresh)

\* The rows that a query with is_deleted = false sees.
Live == {id \in Requests : users[id] # NoUser /\ ~users[id].deleted}

\* A mutant: only the users that are not deleted keep their email.
EmailTakenByLive(email, id) == \E other \in Live \ {id} : users[other].email = email

\* The unique constraint on email, over all rows, refuses it to row id.
EmailTaken(email, id) ==
    \E other \in Requests \ {id} : users[other] # NoUser /\ users[other].email = email

Init ==
    /\ pc = [r \in Requests |-> "idle"]
    /\ user = [r \in Requests |-> NoUser]
    /\ answer = [r \in Requests |-> NoAnswer]
    /\ users = [id \in Requests |-> NoUser]
    /\ store = {}
    /\ expired = {}
    /\ wallets = {}

Goto(r, label) == pc' = [pc EXCEPT ![r] = label]

Reply(r, code) ==
    /\ Goto(r, "done")
    /\ answer' = [answer EXCEPT ![r].code = code]

\* The call that r is in fails, and the handler answers 500.
CallFails(r) == r \in FaultyRequests /\ Reply(r, "INTERNAL_ERROR")

\* The handler answers with the token pair of u.
GrantPair(r, u, balance) ==
    /\ Goto(r, "done")
    /\ answer' = [answer EXCEPT ![r] =
                    [NoAnswer EXCEPT !.code = "OK", !.sub = u.id, !.email = u.email,
                                     !.balance = balance]]

-----------------------------------------------------------------------------
(* The handlers, up to the first call of the use case.                     *)

\* The requests that name a user in their path.
OfOneUser == {"get", "patch", "delete"}

\* The "required" tags of the payload, and a path whose id is a UUID.
WellFormed(r) ==
    CASE Kind(r) = "register" -> \A f \in Fields : Req[r][f] # Absent
      [] Kind(r) = "login" -> Req[r].email # Absent /\ Req[r].password # Absent
      [] Kind(r) = "refresh" -> Req[r].access # Absent /\ Req[r].refresh # Absent
      [] Kind(r) = "logout" -> Req[r].refresh # Absent
      [] Kind(r) \in OfOneUser -> Req[r].target # Absent
      [] OTHER -> TRUE

\* Request r of the given kind arrives and its handler starts.
Accept(r, kind, label) ==
    /\ pc[r] = "idle"
    /\ Kind(r) = kind
    /\ Presentable(r)
    /\ IF WellFormed(r)
       THEN Goto(r, label) /\ UNCHANGED answer
       ELSE Reply(r, IF kind \in OfOneUser THEN "BAD_REQUEST" ELSE "VALIDATION_ERROR")
    /\ UNCHANGED <<user, users, store, expired, wallets>>

SubmitRegister(r) == Accept(r, "register", "create")

SubmitLogin(r) == Accept(r, "login", "find")

SubmitRefresh(r) == Accept(r, "refresh", "exists")

SubmitLogout(r) == Req[r].access # Absent /\ Accept(r, "logout", "delete")

\* Without an access token, or with one that has expired, JWTMiddleware refuses.
Unauthenticated(r) ==
    /\ pc[r] = "idle"
    /\ Kind(r) \in {"logout", "list"} \cup OfOneUser
    /\ Presentable(r)
    /\ Reply(r, "UNAUTHORIZED")
    /\ UNCHANGED <<user, users, store, expired, wallets>>

SubmitGet(r) == Req[r].access # Absent /\ Accept(r, "get", "find")

SubmitList(r) == Req[r].access # Absent /\ Accept(r, "list", "find")

\* PATCH and DELETE are for the user's own row; the use case compares the
\* path with the "sub" claim, and the handler makes a 500 of any error.
SubmitOwn(r, kind, label) ==
    /\ Req[r].access # Absent
    /\ \/ Req[r].target \in {Sub(r), Absent} /\ Accept(r, kind, label)
       \/ /\ Req[r].target \notin {Sub(r), Absent}
          /\ pc[r] = "idle" /\ Kind(r) = kind /\ Presentable(r)
          /\ Reply(r, "INTERNAL_ERROR")
          /\ UNCHANGED <<user, users, store, expired, wallets>>

SubmitPatch(r) == SubmitOwn(r, "patch", "find")

SubmitDelete(r) == SubmitOwn(r, "delete", "remove")

-----------------------------------------------------------------------------
(* AuthUseCase.Register and Login.                                         *)

Row(u) == [name |-> u.name, email |-> u.email, password |-> u.password,
           deleted |-> FALSE]

NewUser(r) == [id |-> r, name |-> Req[r].name, email |-> Req[r].email,
               password |-> Req[r].password]

\* A mutant: INSERT ... ON CONFLICT (email) DO UPDATE.
InsertUserUpserting(r) ==
    LET id == IF EmailTaken(Req[r].email, r)
              THEN CHOOSE other \in Requests : users[other] # NoUser
                                         /\ users[other].email = Req[r].email
              ELSE r
    IN users' = [users EXCEPT ![id] = Row(NewUser(r))]

\* INSERT INTO users.
InsertUser(r) ==
    /\ ~EmailTaken(Req[r].email, r)
    /\ users' = [users EXCEPT ![r] = Row(NewUser(r))]

Create(r) ==
    /\ pc[r] = "create"
    /\ \/ /\ InsertUser(r)
          /\ user' = [user EXCEPT ![r] = NewUser(r)]
          /\ Goto(r, "wallet")
          /\ UNCHANGED answer
       \/ /\ EmailTaken(Req[r].email, r)
          /\ Reply(r, "DUPLICATE")
          /\ UNCHANGED <<user, users>>
    /\ UNCHANGED <<store, expired, wallets>>

\* The insert fails, or only its answer is lost.
CreateFails(r) ==
    /\ pc[r] = "create"
    /\ CallFails(r)
    /\ InsertUser(r) \/ UNCHANGED users
    /\ UNCHANGED <<user, store, expired, wallets>>

\* ValidateUser creates the wallet; Register logs an error and goes on.
InitWallet(r) ==
    /\ pc[r] = "wallet"
    /\ Kind(r) = "register"
    /\ \/ wallets' = wallets \cup {r}
       \/ r \in FaultyRequests /\ UNCHANGED wallets
    /\ Goto(r, "store")
    /\ UNCHANGED <<user, answer, users, store, expired>>

\* FindByEmail and CheckPassword.
FindByEmail(r) ==
    /\ pc[r] = "find"
    /\ Kind(r) = "login"
    /\ \/ \E id \in Live :
            /\ users[id].email = Req[r].email
            /\ IF users[id].password = Req[r].password
               THEN /\ user' = [user EXCEPT ![r] =
                          [id |-> id, name |-> users[id].name, email |-> users[id].email,
                           password |-> users[id].password]]
                    /\ Goto(r, "store")
                    /\ UNCHANGED answer
               ELSE Reply(r, "INVALID_CREDENTIALS") /\ UNCHANGED user
       \/ /\ \A id \in Live : users[id].email # Req[r].email
          /\ Reply(r, "INVALID_CREDENTIALS")
          /\ UNCHANGED user
    /\ UNCHANGED <<users, store, expired, wallets>>

\* GetBalance of the wallet client: an error leaves the balance out.
ReadBalance(r) ==
    /\ pc[r] = "wallet"
    /\ Kind(r) = "login"
    /\ \/ GrantPair(r, user[r], IF user[r].id \in wallets THEN "shown" ELSE "missing")
       \/ r \in FaultyRequests /\ GrantPair(r, user[r], "unreachable")
    /\ UNCHANGED <<user, users, store, expired, wallets>>

-----------------------------------------------------------------------------
(* Refresh tokens: generateTokenPair, RefreshToken and Logout.             *)

\* SET refresh:<user>:<token>, of a token drawn for this answer.  The client
\* may send it twice; both reach Redis before the answer reaches the caller.
StoreToken(r) ==
    /\ pc[r] = "store"
    /\ store' = store \cup {<<user[r].id, r>>}
    /\ IF Kind(r) = "login"
       THEN Goto(r, "wallet") /\ UNCHANGED answer
       ELSE GrantPair(r, user[r], "none")
    /\ UNCHANGED <<user, users, expired, wallets>>

\* A mutant: when the new token cannot be stored the old one is put back.
StoreTokenFailsRestoring(r) ==
    /\ pc[r] = "store"
    /\ CallFails(r)
    /\ store' = IF Kind(r) = "refresh" THEN store \cup {TokenKey(r)} ELSE store
    /\ UNCHANGED <<user, users, expired, wallets>>

\* It fails, or only its answer is lost; what was done before stays done.
StoreTokenFails(r) ==
    /\ pc[r] = "store"
    /\ CallFails(r)
    /\ store' = store \cup {<<user[r].id, r>>} \/ UNCHANGED store
    /\ UNCHANGED <<user, users, expired, wallets>>

\* A mutant: the key does not hold the user.
TokenExistsForAnyone(r) == \E key \in store : key[2] = Req[r].refresh

\* EXISTS refresh:<user>:<token>.  The access tokens that come along are issued
\* ones, whose claims parse.
TokenExists(r) == TokenKey(r) \in store

CheckToken(r) ==
    /\ pc[r] = "exists"
    /\ \/ TokenExists(r) /\ Goto(r, "delete") /\ UNCHANGED answer
       \/ ~TokenExists(r) /\ Reply(r, "INVALID_TOKEN")
       \/ CallFails(r)
    /\ UNCHANGED <<user, users, store, expired, wallets>>

\* A mutant: every session of the user is closed.
DropAllTokens(r) == store' = {key \in store : key[1] # Sub(r)}

\* A mutant: the DEL is sent for a key of another form.
DropNothing(r) == UNCHANGED store

\* DEL refresh:<user>:<token>, which does not say whether there was one.
DropToken(r) == store' = store \ {TokenKey(r)}

DeleteToken(r) ==
    /\ pc[r] = "delete"
    /\ DropToken(r)
    /\ IF Kind(r) = "refresh"
       THEN /\ user' = [user EXCEPT ![r] =
                  [id |-> Sub(r), name |-> Absent, email |-> EmailClaim(r),
                   password |-> Absent]]
            /\ Goto(r, "store")
            /\ UNCHANGED answer
       ELSE Reply(r, "OK") /\ UNCHANGED user
    /\ UNCHANGED <<users, expired, wallets>>

DeleteTokenFails(r) ==
    /\ pc[r] = "delete"
    /\ CallFails(r)
    /\ DropToken(r) \/ UNCHANGED store
    /\ UNCHANGED <<user, users, expired, wallets>>

-----------------------------------------------------------------------------
(* UserUseCase.FindByID, FindAll, Update and Delete.                       *)

Show(r, ids) ==
    /\ Goto(r, "done")
    /\ answer' = [answer EXCEPT ![r].code = "OK", ![r].shown =
           {[id |-> id, name |-> users[id].name, email |-> users[id].email] : id \in ids}]

\* GET /users/{id}: the handler makes a 404 of any error.
ReadUser(r) ==
    /\ pc[r] = "find"
    /\ Kind(r) = "get"
    /\ \/ Req[r].target \in Live /\ Show(r, {Req[r].target})
       \/ (Req[r].target \notin Live \/ r \in FaultyRequests) /\ Reply(r, "NOT_FOUND")
    /\ UNCHANGED <<user, users, store, expired, wallets>>

\* GET /users
ReadUsers(r) ==
    /\ pc[r] = "find"
    /\ Kind(r) = "list"
    /\ Show(r, Live)
    /\ UNCHANGED <<user, users, store, expired, wallets>>

\* A mutant: a field that the payload leaves out is blanked.
MergedBlanking(r, row) ==
    [id |-> Req[r].target, name |-> Req[r].name, email |-> Req[r].email,
     password |-> Req[r].password]

\* The row read, with the fields of the payload in place.
Merged(r, row) ==
    LET New(f) == IF Req[r][f] # Absent THEN Req[r][f] ELSE row[f]
    IN [id |-> Req[r].target, name |-> New("name"), email |-> New("email"),
        password |-> New("password")]

FindByID(r) ==
    /\ pc[r] = "find"
    /\ Kind(r) = "patch"
    /\ \/ /\ Req[r].target \in Live
          /\ user' = [user EXCEPT ![r] = Merged(r, users[Req[r].target])]
          /\ Goto(r, "save")
          /\ UNCHANGED answer
       \/ /\ Req[r].target \notin Live
          /\ Reply(r, "INTERNAL_ERROR")
          /\ UNCHANGED user
    /\ UNCHANGED <<users, store, expired, wallets>>

\* A SELECT that fails, for a login, a listing or a PATCH.
FindFails(r) ==
    /\ pc[r] = "find"
    /\ Kind(r) # "get"
    /\ CallFails(r)
    /\ UNCHANGED <<user, users, store, expired, wallets>>

\* A mutant: the UPDATE does not ask for is_deleted = false.
UpdatableDeleted(r) ==
    /\ users[user[r].id] # NoUser
    /\ ~EmailTaken(user[r].email, user[r].id)

\* The UPDATE finds its row, and the unique constraint lets it.
Updatable(r) == user[r].id \in Live /\ ~EmailTaken(user[r].email, user[r].id)

\* UPDATE users: every column of the row that was read is written back.
WriteUser(r) == users' = [users EXCEPT ![user[r].id] =
                            [Row(user[r]) EXCEPT !.deleted = users[user[r].id].deleted]]

\* A mutant: a row that is not found is written anew.
SaveUserReviving(r) ==
    /\ pc[r] = "save"
    /\ ~EmailTaken(user[r].email, user[r].id)
    /\ users' = [users EXCEPT ![user[r].id] = Row(user[r])]
    /\ Reply(r, "OK")
    /\ UNCHANGED <<user, store, expired, wallets>>

SaveUser(r) ==
    /\ pc[r] = "save"
    /\ \/ Updatable(r) /\ WriteUser(r) /\ Reply(r, "OK")
       \/ ~Updatable(r) /\ Reply(r, "INTERNAL_ERROR") /\ UNCHANGED users
    /\ UNCHANGED <<user, store, expired, wallets>>

SaveUserFails(r) ==
    /\ pc[r] = "save"
    /\ CallFails(r)
    /\ (Updatable(r) /\ WriteUser(r)) \/ UNCHANGED users
    /\ UNCHANGED <<user, store, expired, wallets>>

\* UPDATE users SET is_deleted = true, whether it was or not.
SoftDelete(r) == users' = [users EXCEPT ![Req[r].target].deleted = TRUE]

RemoveUser(r) ==
    /\ pc[r] = "remove"
    /\ SoftDelete(r)
    /\ Reply(r, "OK")
    /\ UNCHANGED <<user, store, expired, wallets>>

RemoveUserFails(r) ==
    /\ pc[r] = "remove"
    /\ CallFails(r)
    /\ SoftDelete(r) \/ UNCHANGED users
    /\ UNCHANGED <<user, store, expired, wallets>>

-----------------------------------------------------------------------------
(* Everything else that touches the stores.                                *)

\* The instance that serves r stops.
Crash(r) ==
    /\ r \in FaultyRequests
    /\ pc[r] \notin {"idle", "done", "crashed"}
    /\ Goto(r, "crashed")
    /\ UNCHANGED <<user, answer, users, store, expired, wallets>>

\* The TTL of the refresh token stored by r is over.
ExpireToken(r) ==
    /\ r \in ExpiringTokens \ expired
    /\ \E key \in store : key[2] = r /\ store' = store \ {key}
    /\ expired' = expired \cup {r}
    /\ UNCHANGED <<pc, user, answer, users, wallets>>

\* ms-wallet creates the wallet when its user calls it with an access token,
\* or when an attempt of ValidateUser whose answer was lost reaches it late.
UseWallet(id) ==
    /\ \/ \E r \in Requests : HasPair(r) /\ answer[r].sub = id
       \/ /\ id \in FaultyRequests /\ Kind(id) = "register"
          /\ user[id] # NoUser /\ pc[id] # "wallet"
    /\ wallets' = wallets \cup {id}
    /\ UNCHANGED <<pc, user, answer, users, store, expired>>

\* No request is left that can go on or can still be sent.
Finished ==
    /\ \A r \in Requests :
          pc[r] \in {"done", "crashed"} \/ (pc[r] = "idle" /\ ~Presentable(r))
    /\ UNCHANGED vars

Submit(r) ==
    \/ SubmitRegister(r) \/ SubmitLogin(r) \/ SubmitRefresh(r) \/ SubmitLogout(r)
    \/ SubmitGet(r) \/ SubmitList(r) \/ SubmitPatch(r) \/ SubmitDelete(r)
    \/ Unauthenticated(r)

Step(r) ==
    \/ Create(r) \/ CreateFails(r) \/ InitWallet(r)
    \/ FindByEmail(r) \/ FindByID(r) \/ FindFails(r) \/ ReadBalance(r)
    \/ ReadUser(r) \/ ReadUsers(r)
    \/ StoreToken(r) \/ StoreTokenFails(r) \/ CheckToken(r)
    \/ DeleteToken(r) \/ DeleteTokenFails(r)
    \/ SaveUser(r) \/ SaveUserFails(r) \/ RemoveUser(r) \/ RemoveUserFails(r)

Next ==
    \/ \E r \in Requests : Submit(r) \/ Step(r) \/ Crash(r) \/ ExpireToken(r)
    \/ \E id \in Requests : UseWallet(id)
    \/ Finished

Spec == Init /\ [][Next]_vars

-----------------------------------------------------------------------------
(* Properties.                                                             *)

Labels == {"idle", "create", "find", "wallet", "store", "exists", "delete",
           "save", "remove", "done", "crashed"}

Answers == [code: Codes, sub: Requests \cup {Absent}, email: Values \cup {Absent},
            balance: {"none", "shown", "missing", "unreachable"},
            shown: SUBSET [id: Requests, name: Values, email: Values]]

\* Type invariant: the shape of the variables.
TypeOK ==
    /\ pc \in [Requests -> Labels]
    /\ user \in [Requests -> Users \cup {NoUser}]
    /\ answer \in [Requests -> Answers]
    /\ users \in [Requests -> Rows \cup {NoUser}]
    /\ store \subseteq Requests \X Requests
    /\ expired \subseteq Requests
    /\ wallets \subseteq Requests

\* The pair that RefreshToken hands out belongs to the user whose refresh
\* token was spent for it, whosever access token came along: sessions are
\* never carried over from one user to another.
SessionsStayWithTheirUser ==
    \A r \in Requests :
        Kind(r) = "refresh" /\ HasPair(r) =>
            answer[r].sub = answer[Req[r].refresh].sub

\* A refresh token that has left Redis never comes back: no rotation, however
\* it fails and whatever overlaps it, revives what a rotation, a logout or the
\* TTL ended.
SpentTokensStaySpent ==
    [][\A r \in Requests :
          HasPair(r) /\ <<answer[r].sub, r>> \notin store =>
              <<answer[r].sub, r>> \notin store']_vars

\* A session ends by its own token or its TTL only: whatever other requests
\* do, a refresh token that was handed out stays in Redis until a refresh or
\* logout that presents it gets as far as the DEL.
SessionsEndByTheirOwnToken ==
    \A r \in Requests :
        HasPair(r) =>
            \/ <<answer[r].sub, r>> \in store
            \/ r \in expired
            \/ \E q \in Requests :
                  /\ Kind(q) \in {"refresh", "logout"}
                  /\ Req[q].refresh = r
                  /\ Sub(q) = answer[r].sub
                  /\ pc[q] \in {"store", "done", "crashed"}
                  /\ answer[q].code \notin
                        {"INVALID_TOKEN", "UNAUTHORIZED", "VALIDATION_ERROR"}

\* How ms-users implements Sessions: the sessions are the keys in Redis.  A
\* refresh has shown its user from its EXISTS on, a registration or a login
\* once the use case has its user, and the SET opens the session.
SessionOf(r) ==
    IF HasPair(r)
    THEN [state |-> "given", user |-> answer[r].sub, by |-> Absent]
    ELSE CASE Opens(r) /\ pc[r] \in {"done", "crashed"} ->
                 [state |-> "over", user |-> Absent, by |-> Absent]
           [] Kind(r) = "login" /\ pc[r] = "wallet" ->
                 [state |-> "opened", user |-> user[r].id, by |-> Absent]
           [] Kind(r) = "refresh" /\ pc[r] \in {"delete", "store"} ->
                 [state |-> "shown", user |-> Sub(r), by |-> TokenKey(r)]
           [] \/ Kind(r) = "register" /\ pc[r] \in {"wallet", "store"}
              \/ Kind(r) = "login" /\ pc[r] = "store" ->
                 [state |-> "shown", user |-> user[r].id, by |-> Absent]
           [] OTHER -> [state |-> "nothing", user |-> Absent, by |-> Absent]

Session == [r \in Requests |-> SessionOf(r)]

S == INSTANCE Sessions WITH
        None <- Absent,
        Presented <- [r \in Requests |-> Req[r].refresh],
        live <- store,
        session <- Session

\* Every pair that is handed out belongs to a session that was opened for its
\* user by a password or by a live refresh token of the same user, and a
\* rotation never leaves the old and the new refresh token valid together.
ImplementsSessions == S!SessionsSpec

\* A soft deletion is final: a PATCH that read the row before neither revives
\* it nor changes it.
DeletionIsFinal ==
    [][\A id \in Requests :
          users[id] # NoUser /\ users[id].deleted => users'[id] = users[id]]_vars

\* A user that was told that it is gone is gone for everybody and for good:
\* no later GET or listing shows it and no later login finds it, whatever
\* edits and registrations were under way.
GoneUsersStayGone ==
    [][\A q, r \in Requests :
          /\ Kind(q) = "get" /\ answer[q].code = "NOT_FOUND" /\ q \notin FaultyRequests
          /\ Req[q].target = Sub(q)
          => /\ \A seen \in answer'[r].shown \ answer[r].shown : seen.id # Sub(q)
             /\ Kind(r) = "login" /\ user'[r] # user[r] => user'[r].id # Sub(q)]_vars

\* No two users ever have the same email, the deleted ones included, so a
\* login finds one user and a registration never takes over an account.
EmailsAreUnique ==
    \A a, b \in Requests :
        /\ users[a] # NoUser /\ users[b] # NoUser
        /\ users[a].email = users[b].email
        => a = b

\* An acknowledged registration or PATCH is undone by nothing but another
\* PATCH of the same user: a column that no longer has the value it was given
\* has the value such a PATCH wrote back.
EditsAreOnlyLostToEdits ==
    \A r \in Requests : \A f \in Fields :
        LET id == user[r].id
            Given == IF Kind(r) = "register" THEN HasPair(r)
                     ELSE Kind(r) = "patch" /\ answer[r].code = "OK" /\ Req[r][f] # Absent
        IN Given /\ users[id][f] # Req[r][f] =>
              \E q \in Requests \ {r} :
                  /\ Kind(q) = "patch"
                  /\ pc[q] \in {"done", "crashed"}
                  /\ user[q] # NoUser
                  /\ user[q].id = id
                  /\ user[q][f] = users[id][f]

\* The test "old refresh token invalid after rotation": a refresh token is
\* exchanged for a new pair once.
RotatedTokenIsInvalid ==
    \A r, q \in Requests :
        /\ Kind(r) = "refresh" /\ Kind(q) = "refresh"
        /\ HasPair(r) /\ HasPair(q)
        /\ Req[r].refresh = Req[q].refresh
        => r = q

\* openapi.yaml of ms-users: a login has the "balance included when wallet
\* service is reachable".
BalanceWhenReachable == \A r \in Requests : answer[r].balance # "missing"
=============================================================================
