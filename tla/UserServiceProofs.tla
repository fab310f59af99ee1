------------------------- MODULE UserServiceProofs --------------------------
(***************************************************************************)
(* Proofs about UserService, for every set of requests, whatever they      *)
(* carry and whichever of them meet faults.                                *)
(***************************************************************************)
EXTENDS UserService, TLAPS

-----------------------------------------------------------------------------
(* The inductive invariant, in layers.                                     *)

\* Where a request is tells of what kind it is, and what it presents.
ControlOK ==
    \A r \in Requests :
        /\ pc[r] = "create" => Kind(r) = "register" /\ \A f \in Fields : Req[r][f] # Absent
        /\ pc[r] = "find" => Kind(r) \in {"login", "get", "list", "patch"}
        /\ pc[r] = "wallet" => Kind(r) \in {"register", "login"}
        /\ pc[r] = "store" => Kind(r) \in {"register", "login", "refresh"}
        /\ pc[r] = "exists" => Kind(r) = "refresh"
        /\ pc[r] = "delete" => Kind(r) \in {"refresh", "logout"}
        /\ pc[r] = "save" => Kind(r) = "patch"
        /\ pc[r] = "remove" => Kind(r) = "delete"
        /\ pc[r] # "done" => answer[r] = NoAnswer

\* What a request that has been accepted presents was handed out before.
PresentedOK ==
    \A r \in Requests :
        /\ pc[r] # "idle" => Presentable(r)
        /\ pc[r] \in {"exists", "delete"} \/ (pc[r] = "store" /\ Kind(r) = "refresh") =>
              Req[r].access \in Requests /\ Req[r].refresh \in Requests
        /\ pc[r] \in {"save", "remove"} \/ (pc[r] = "find" /\ Kind(r) \in OfOneUser) =>
              Req[r].access \in Requests /\ Req[r].target \in Requests
        /\ pc[r] \in {"save", "remove"} \/ (pc[r] = "find" /\ Kind(r) = "patch") =>
              Req[r].target = Sub(r)

\* The user that a request works on has a row; a PATCH has all its columns.
UserOK ==
    \A r \in Requests :
        /\ pc[r] \in {"wallet", "store", "save"} =>
              user[r] \in Users /\ users[user[r].id] # NoUser
        /\ pc[r] \in {"wallet", "store"} /\ Kind(r) = "register" => user[r].id = r
        /\ pc[r] = "store" /\ Kind(r) = "refresh" => user[r].id = Sub(r)
        /\ pc[r] = "save" =>
              user[r].id = Req[r].target /\ user[r].name \in Values /\ user[r].password \in Values

\* A row is made by its registration, and every session is of a row.
RowsOK ==
    \A r \in Requests :
        /\ users[r] # NoUser => Kind(r) = "register" /\ pc[r] \notin {"idle", "create"}
        /\ HasPair(r) => /\ answer[r].sub \in Requests
                         /\ answer[r].email \in Values
                         /\ users[answer[r].sub] # NoUser

Shape == TypeOK /\ ControlOK /\ PresentedOK /\ UserOK /\ RowsOK

-----------------------------------------------------------------------------
(* Facts about the operators of the model.                                 *)

\* The columns that a request gives.
LEMMA ReqFields ==
    ASSUME NEW r \in Requests
    PROVE  /\ Req[r].name \in Values \cup {Absent}
           /\ Req[r].email \in Values \cup {Absent}
           /\ Req[r].password \in Values \cup {Absent}
<1>1. \A f \in Fields : Req[r][f] \in {Req[q][f] : q \in Requests}
  OBVIOUS
<1>2. \A f \in Fields : Req[r][f] \in UNION {{Req[q][g] : q \in Requests} : g \in Fields}
  BY <1>1
<1>3. \A f \in Fields : Req[r][f] \in Values \cup {Absent}
  BY <1>2 DEF Values
<1> QED
  BY <1>3 DEF Fields

\* A full set of columns.
LEMMA GivenFields ==
    ASSUME NEW r \in Requests, \A f \in Fields : Req[r][f] # Absent
    PROVE  /\ NewUser(r) \in Users
           /\ Row(NewUser(r)) \in Rows
           /\ NewUser(r).id = r
<1>1. Req[r].name \in Values /\ Req[r].email \in Values /\ Req[r].password \in Values
  BY ReqFields DEF Fields
<1> QED
  BY <1>1 DEF NewUser, Row, Users, Rows

\* The tokens and ids that a request presents.
LEMMA ReqNames ==
    ASSUME NEW r \in Requests
    PROVE  /\ Kind(r) \in Kinds
           /\ Req[r].access \in Requests \cup {Absent}
           /\ Req[r].refresh \in Requests \cup {Absent}
           /\ Req[r].target \in Requests \cup {Absent}
BY ReqAssumption DEF Kind
-----------------------------------------------------------------------------
(* The shape is kept.                                                      *)

\* A request that arrives is refused at once, or started.
Refused(r) ==
    /\ pc[r] = "idle"
    /\ Presentable(r)
    /\ \E code \in {"BAD_REQUEST", "VALIDATION_ERROR", "UNAUTHORIZED", "INTERNAL_ERROR"} :
          /\ Kind(r) \in {"refresh", "logout"} => code \in {"VALIDATION_ERROR", "UNAUTHORIZED"}
          /\ Reply(r, code)

FirstLabel == [register |-> "create", login |-> "find", refresh |-> "exists",
               logout |-> "delete", get |-> "find", list |-> "find",
               patch |-> "find", delete |-> "remove"]

Started(r) ==
    /\ pc[r] = "idle"
    /\ Presentable(r)
    /\ WellFormed(r)
    /\ Kind(r) \notin {"register", "login"} => Req[r].access \in Requests
    /\ Kind(r) \in {"patch", "delete"} => Req[r].target = Sub(r)
    /\ Goto(r, FirstLabel[Kind(r)])
    /\ UNCHANGED answer

LEMMA GivenByRegister ==
    ASSUME NEW r \in Requests, WellFormed(r), Kind(r) = "register"
    PROVE  \A f \in Fields : Req[r][f] # Absent
BY DEF WellFormed, OfOneUser

LEMMA SubmitCases ==
    ASSUME NEW r \in Requests, Submit(r)
    PROVE  /\ Refused(r) \/ Started(r)
           /\ UNCHANGED <<user, users, store, expired, wallets>>
<1> USE ReqNames DEF Accept, Refused, Started, FirstLabel, OfOneUser, Kinds
<1>1. CASE SubmitRegister(r)
  BY <1>1 DEF SubmitRegister
<1>2. CASE SubmitLogin(r)
  BY <1>2 DEF SubmitLogin
<1>3. CASE SubmitRefresh(r)
  BY <1>3 DEF SubmitRefresh, WellFormed
<1>4. CASE SubmitLogout(r)
  BY <1>4 DEF SubmitLogout
<1>5. CASE SubmitGet(r)
  BY <1>5 DEF SubmitGet
<1>6. CASE SubmitList(r)
  BY <1>6 DEF SubmitList
<1>7. CASE SubmitPatch(r)
  BY <1>7 DEF SubmitPatch, SubmitOwn, WellFormed
<1>8. CASE SubmitDelete(r)
  BY <1>8 DEF SubmitDelete, SubmitOwn, WellFormed
<1>9. CASE Unauthenticated(r)
  BY <1>9 DEF Unauthenticated
<1> QED
  BY <1>1, <1>2, <1>3, <1>4, <1>5, <1>6, <1>7, <1>8, <1>9 DEF Submit

-----------------------------------------------------------------------------
(* What a step of r may do to the stores and to its answer.                *)

Inserted(r) ==
    /\ pc[r] = "create" /\ pc'[r] \in {"wallet", "done"}
    /\ InsertUser(r)

Written(r) == pc[r] = "save" /\ Updatable(r) /\ WriteUser(r)

Removed(r) == pc[r] = "remove" /\ SoftDelete(r)

Stored(r) ==
    /\ pc[r] = "store" /\ pc'[r] \in {"wallet", "done"}
    /\ store' = store \cup {<<user[r].id, r>>}

Dropped(r) ==
    /\ pc[r] = "delete"
    /\ DropToken(r)
    /\ pc'[r] \in {"store", "done"}
    /\ answer'[r].code \in {"NONE", "OK", "INTERNAL_ERROR"}

\* Only three statements change the users table.
LEMMA RowCases ==
    ASSUME TypeOK, NEW r \in Requests, Submit(r) \/ Step(r) \/ Crash(r) \/ ExpireToken(r)
    PROVE  UNCHANGED users \/ Inserted(r) \/ Written(r) \/ Removed(r)
<1>1. CASE Submit(r)
  BY <1>1, SubmitCases DEF Refused, Started, TypeOK, Goto, Reply, CallFails
<1>2. CASE Create(r)
  BY <1>2 DEF Create, Inserted, TypeOK, Goto, Reply, CallFails
<1>3. CASE CreateFails(r)
  BY <1>3 DEF CreateFails, Inserted, TypeOK, Goto, Reply, CallFails
<1>4. CASE SaveUser(r)
  BY <1>4 DEF SaveUser, Written, TypeOK, Goto, Reply, CallFails
<1>5. CASE SaveUserFails(r)
  BY <1>5 DEF SaveUserFails, Written, TypeOK, Goto, Reply, CallFails
<1>6. CASE RemoveUser(r)
  BY <1>6 DEF RemoveUser, Removed, TypeOK, Goto, Reply, CallFails
<1>7. CASE RemoveUserFails(r)
  BY <1>7 DEF RemoveUserFails, Removed, TypeOK, Goto, Reply, CallFails
<1>8. CASE \/ InitWallet(r) \/ FindByEmail(r) \/ FindByID(r)
           \/ FindFails(r) \/ ReadBalance(r) \/ ReadUser(r)
           \/ ReadUsers(r) \/ StoreToken(r) \/ StoreTokenFails(r)
           \/ CheckToken(r) \/ DeleteToken(r) \/ DeleteTokenFails(r)
           \/ Crash(r) \/ ExpireToken(r)
  BY <1>8 DEF InitWallet, FindByEmail, FindByID, FindFails, ReadBalance,
     ReadUser, ReadUsers, StoreToken, StoreTokenFails, CheckToken,
     DeleteToken, DeleteTokenFails, Crash, ExpireToken, TypeOK, Goto, Reply,
     CallFails
<1> QED
  BY <1>1, <1>2, <1>3, <1>4, <1>5, <1>6, <1>7, <1>8 DEF Step

\* Only a SET, a DEL and the time to live change the tokens.
LEMMA StoreCases ==
    ASSUME TypeOK, ControlOK, NEW r \in Requests, Submit(r) \/ Step(r) \/ Crash(r) \/ ExpireToken(r)
    PROVE  UNCHANGED store \/ Stored(r) \/ Dropped(r) \/ ExpireToken(r)
<1>1. CASE Submit(r)
  BY <1>1, SubmitCases DEF Refused, Started, TypeOK, Goto, Reply, CallFails
<1>2. CASE StoreToken(r)
  BY <1>2 DEF StoreToken, Stored, GrantPair, TypeOK, Goto, Reply, CallFails
<1>3. CASE StoreTokenFails(r)
  BY <1>3 DEF StoreTokenFails, Stored, TypeOK, Goto, Reply, CallFails
<1>4. CASE DeleteToken(r)
  BY <1>4 DEF DeleteToken, Dropped, ControlOK, NoAnswer, TypeOK, Goto, Reply, CallFails
<1>5. CASE DeleteTokenFails(r)
  BY <1>5 DEF DeleteTokenFails, Dropped, ControlOK, NoAnswer, TypeOK, Goto, Reply, CallFails
<1>6. CASE ExpireToken(r)
  BY <1>6 DEF ExpireToken, TypeOK, Goto, Reply, CallFails
<1>7. CASE \/ Create(r) \/ CreateFails(r) \/ InitWallet(r)
           \/ FindByEmail(r) \/ FindByID(r) \/ FindFails(r)
           \/ ReadBalance(r) \/ ReadUser(r) \/ ReadUsers(r)
           \/ CheckToken(r) \/ SaveUser(r) \/ SaveUserFails(r)
           \/ RemoveUser(r) \/ RemoveUserFails(r) \/ Crash(r)
  BY <1>7 DEF Create, CreateFails, InitWallet, FindByEmail, FindByID,
     FindFails, ReadBalance, ReadUser, ReadUsers, CheckToken, SaveUser,
     SaveUserFails, RemoveUser, RemoveUserFails, Crash, TypeOK, Goto, Reply,
     CallFails
<1> QED
  BY <1>1, <1>2, <1>3, <1>4, <1>5, <1>6, <1>7 DEF Step

\* A request that has been answered is over, and others are left alone.
LEMMA AnswersStay ==
    ASSUME TypeOK, ControlOK, NEW r \in Requests, Submit(r) \/ Step(r) \/ Crash(r) \/ ExpireToken(r)
    PROVE  /\ \A q \in Requests : answer[q] # NoAnswer => answer'[q] = answer[q] /\ pc'[q] = pc[q]
           /\ \A q \in Requests \ {r} : answer'[q] = answer[q] /\ pc'[q] = pc[q] /\ user'[q] = user[q]
<1> USE DEF TypeOK, ControlOK, Goto, Reply, CallFails
<1>1. CASE Submit(r)
  BY <1>1, SubmitCases DEF Refused, Started
<1>2. CASE Create(r)
  BY <1>2 DEF Create
<1>3. CASE CreateFails(r)
  BY <1>3 DEF CreateFails
<1>4. CASE InitWallet(r)
  BY <1>4 DEF InitWallet
<1>5. CASE FindByEmail(r)
  BY <1>5 DEF FindByEmail
<1>6. CASE FindByID(r)
  BY <1>6 DEF FindByID
<1>7. CASE FindFails(r)
  BY <1>7 DEF FindFails
<1>8. CASE ReadBalance(r)
  BY <1>8 DEF ReadBalance, GrantPair
<1>9. CASE ReadUser(r)
  BY <1>9 DEF ReadUser, Show
<1>10. CASE ReadUsers(r)
  BY <1>10 DEF ReadUsers, Show
<1>11. CASE StoreToken(r)
  BY <1>11 DEF StoreToken, GrantPair
<1>12. CASE StoreTokenFails(r)
  BY <1>12 DEF StoreTokenFails
<1>13. CASE CheckToken(r)
  BY <1>13 DEF CheckToken
<1>14. CASE DeleteToken(r)
  BY <1>14 DEF DeleteToken
<1>15. CASE DeleteTokenFails(r)
  BY <1>15 DEF DeleteTokenFails
<1>16. CASE SaveUser(r)
  BY <1>16 DEF SaveUser
<1>17. CASE SaveUserFails(r)
  BY <1>17 DEF SaveUserFails
<1>18. CASE RemoveUser(r)
  BY <1>18 DEF RemoveUser
<1>19. CASE RemoveUserFails(r)
  BY <1>19 DEF RemoveUserFails
<1>20. CASE Crash(r)
  BY <1>20 DEF Crash
<1>21. CASE ExpireToken(r)
  BY <1>21 DEF ExpireToken
<1> QED
  BY <1>1, <1>2, <1>3, <1>4, <1>5, <1>6, <1>7, <1>8, <1>9, <1>10, <1>11, <1>12, <1>13, <1>14, <1>15, <1>16, <1>17, <1>18, <1>19, <1>20, <1>21 DEF Step

\* A row stays, also in shape; a deleted one stays as it is; a new one is r's.
LEMMA RowFacts ==
    ASSUME Shape, NEW r \in Requests, Submit(r) \/ Step(r) \/ Crash(r) \/ ExpireToken(r)
    PROVE  /\ users' \in [Requests -> Rows \cup {NoUser}]
           /\ \A q \in Requests : users[q] # NoUser =>
                 users'[q] # NoUser /\ (users[q].deleted => users'[q] = users[q])
           /\ \A q \in Requests : users[q] = NoUser /\ users'[q] # NoUser =>
                 q = r /\ pc[r] = "create" /\ pc'[r] \in {"wallet", "done"}
<1> USE DEF Shape
<1>1. users \in [Requests -> Rows \cup {NoUser}] /\ NoUser \notin Rows
  BY NamesAssumption DEF TypeOK
<1>2. CASE UNCHANGED users
  BY <1>1, <1>2
<1>3. CASE Inserted(r)
  <2>1. Row(NewUser(r)) \in Rows
    BY <1>3, GivenFields DEF Inserted, ControlOK
  <2>2. users[r] = NoUser
    BY <1>3 DEF Inserted, RowsOK
  <2> QED
    BY <1>1, <1>3, <2>1, <2>2 DEF Inserted, InsertUser
<1>4. CASE Written(r)
  <2> DEFINE id == user[r].id
             new == [Row(user[r]) EXCEPT !.deleted = users[id].deleted]
  <2>1. user[r] \in Users /\ user[r].name \in Values /\ user[r].password \in Values
    BY <1>4 DEF Written, UserOK
  <2>2. id \in Requests /\ users[id] \in Rows /\ ~users[id].deleted
    BY <1>1, <1>4 DEF Written, Updatable, Live
  <2>3. new \in Rows
    BY <2>1, <2>2 DEF Users, Rows, Row
  <2>4. users' = [users EXCEPT ![id] = new]
    BY <1>4 DEF Written, WriteUser
  <2>5. users[id] # NoUser
    BY <1>1, <2>2
  <2> HIDE DEF id, new
  <2> QED
    BY <1>1, <2>2, <2>3, <2>4, <2>5
<1>5. CASE Removed(r)
  <2> DEFINE id == Req[r].target
             new == [users[id] EXCEPT !.deleted = TRUE]
  <2>1. Req[r].access \in Requests /\ id \in Requests /\ id = answer[Req[r].access].sub
    BY <1>5 DEF Removed, PresentedOK, Sub
  <2>2. HasPair(Req[r].access)
    BY <1>5, <2>1, NamesAssumption DEF Removed, PresentedOK, Presentable
  <2>3. users[id] \in Rows
    BY <1>1, <2>1, <2>2 DEF RowsOK
  <2>4. new \in Rows /\ (users[id].deleted => new = users[id])
    BY <2>3 DEF Rows
  <2>5. users' = [users EXCEPT ![id] = new]
    BY <1>5 DEF Removed, SoftDelete
  <2>6. users[id] # NoUser
    BY <1>1, <2>3
  <2> HIDE DEF id, new
  <2> QED
    BY <1>1, <2>1, <2>3, <2>4, <2>5, <2>6
<1> QED
  BY <1>2, <1>3, <1>4, <1>5, RowCases

\* What a request presents, and whose it is, stays.
LEMMA PresentableStays ==
    ASSUME Shape, NEW r \in Requests, Submit(r) \/ Step(r) \/ Crash(r) \/ ExpireToken(r)
    PROVE  /\ \A q \in Requests : HasPair(q) => HasPair(q)' /\ answer'[q] = answer[q]
           /\ \A q \in Requests : Presentable(q) =>
                 /\ Presentable(q)'
                 /\ Req[q].access \in Requests => answer'[Req[q].access] = answer[Req[q].access]
<1>1. \A q \in Requests : HasPair(q) => HasPair(q)' /\ answer'[q] = answer[q]
  BY AnswersStay DEF Shape, HasPair, NoAnswer
<1> QED
  BY <1>1, ReqNames, NamesAssumption DEF Presentable


\* Labels fit their kinds.
LEMMA ControlStays ==
    ASSUME TypeOK, ControlOK, NEW r \in Requests, Submit(r) \/ Step(r) \/ Crash(r) \/ ExpireToken(r)
    PROVE  ControlOK'
<1> USE DEF TypeOK, ControlOK, Goto, Reply, CallFails
<1>1. CASE Submit(r)
  <2>1. CASE Refused(r)
    BY <2>1 DEF Refused
  <2>2. CASE Started(r)
    <3>1. Kind(r) = "register" => \A f \in Fields : Req[r][f] # Absent
      BY <2>2, GivenByRegister DEF Started
    <3>2. /\ pc' = [pc EXCEPT ![r] = FirstLabel[Kind(r)]]
          /\ answer' = answer /\ answer[r] = NoAnswer
      BY <2>2 DEF Started
    <3> HIDE DEF Goto, Reply, CallFails
    <3> QED
      BY <3>1, <3>2, ReqNames DEF FirstLabel, Kinds
  <2> QED
    BY <1>1, <2>1, <2>2, SubmitCases
<1>2. CASE Create(r)
  BY <1>2 DEF Create
<1>3. CASE CreateFails(r)
  BY <1>3 DEF CreateFails
<1>4. CASE InitWallet(r)
  BY <1>4 DEF InitWallet
<1>5. CASE FindByEmail(r)
  BY <1>5 DEF FindByEmail
<1>6. CASE FindByID(r)
  BY <1>6 DEF FindByID
<1>7. CASE FindFails(r)
  BY <1>7 DEF FindFails
<1>8. CASE ReadBalance(r)
  BY <1>8 DEF ReadBalance, GrantPair
<1>9. CASE ReadUser(r)
  BY <1>9 DEF ReadUser, Show
<1>10. CASE ReadUsers(r)
  BY <1>10 DEF ReadUsers, Show
<1>11. CASE StoreToken(r)
  BY <1>11 DEF StoreToken, GrantPair
<1>12. CASE StoreTokenFails(r)
  BY <1>12 DEF StoreTokenFails
<1>13. CASE CheckToken(r)
  BY <1>13 DEF CheckToken
<1>14. CASE DeleteToken(r)
  BY <1>14 DEF DeleteToken
<1>15. CASE DeleteTokenFails(r)
  BY <1>15 DEF DeleteTokenFails
<1>16. CASE SaveUser(r)
  BY <1>16 DEF SaveUser
<1>17. CASE SaveUserFails(r)
  BY <1>17 DEF SaveUserFails
<1>18. CASE RemoveUser(r)
  BY <1>18 DEF RemoveUser
<1>19. CASE RemoveUserFails(r)
  BY <1>19 DEF RemoveUserFails
<1>20. CASE Crash(r)
  BY <1>20 DEF Crash
<1>21. CASE ExpireToken(r)
  BY <1>21 DEF ExpireToken
<1> QED
  BY <1>1, <1>2, <1>3, <1>4, <1>5, <1>6, <1>7, <1>8, <1>9, <1>10, <1>11, <1>12, <1>13, <1>14, <1>15, <1>16, <1>17, <1>18, <1>19, <1>20, <1>21 DEF Step

\* Where a step takes a request.
LEMMA Moves ==
    ASSUME TypeOK, ControlOK, NEW r \in Requests, Submit(r) \/ Step(r) \/ Crash(r) \/ ExpireToken(r)
    PROVE  \/ pc' = pc /\ answer' = answer /\ user' = user /\ users' = users
           \/ Refused(r)
           \/ Started(r) /\ UNCHANGED <<user, users, store>>
           \/ pc[r] \notin {"idle", "done", "crashed"} /\ pc'[r] \in {"done", "crashed"}
           \/ pc[r] = "create" /\ pc'[r] = "wallet" /\ Create(r)
           \/ pc[r] = "wallet" /\ pc'[r] = "store" /\ InitWallet(r)
           \/ pc[r] = "find" /\ pc'[r] = "store" /\ FindByEmail(r)
           \/ pc[r] = "find" /\ pc'[r] = "save" /\ FindByID(r)
           \/ pc[r] = "store" /\ pc'[r] = "wallet" /\ Kind(r) = "login" /\ StoreToken(r)
           \/ pc[r] = "exists" /\ pc'[r] = "delete" /\ CheckToken(r)
           \/ pc[r] = "delete" /\ pc'[r] = "store" /\ Kind(r) = "refresh" /\ DeleteToken(r)
<1>1. CASE Submit(r)
  BY <1>1, SubmitCases DEF Refused, Started, TypeOK, ControlOK, Goto, Reply, CallFails
<1>2. CASE Create(r)
  BY <1>2 DEF Create, TypeOK, ControlOK, Goto, Reply, CallFails
<1>3. CASE CreateFails(r)
  BY <1>3 DEF CreateFails, TypeOK, ControlOK, Goto, Reply, CallFails
<1>4. CASE InitWallet(r)
  BY <1>4 DEF InitWallet, TypeOK, ControlOK, Goto, Reply, CallFails
<1>5. CASE FindByEmail(r)
  BY <1>5 DEF FindByEmail, TypeOK, ControlOK, Goto, Reply, CallFails
<1>6. CASE FindByID(r)
  BY <1>6 DEF FindByID, TypeOK, ControlOK, Goto, Reply, CallFails
<1>7. CASE FindFails(r)
  BY <1>7 DEF FindFails, TypeOK, ControlOK, Goto, Reply, CallFails
<1>8. CASE ReadBalance(r)
  BY <1>8 DEF ReadBalance, GrantPair, TypeOK, ControlOK, Goto, Reply, CallFails
<1>9. CASE ReadUser(r)
  BY <1>9 DEF ReadUser, Show, TypeOK, ControlOK, Goto, Reply, CallFails
<1>10. CASE ReadUsers(r)
  BY <1>10 DEF ReadUsers, Show, TypeOK, ControlOK, Goto, Reply, CallFails
<1>11. CASE StoreToken(r)
  BY <1>11 DEF StoreToken, GrantPair, TypeOK, ControlOK, Goto, Reply, CallFails
<1>12. CASE StoreTokenFails(r)
  BY <1>12 DEF StoreTokenFails, TypeOK, ControlOK, Goto, Reply, CallFails
<1>13. CASE CheckToken(r)
  BY <1>13 DEF CheckToken, TypeOK, ControlOK, Goto, Reply, CallFails
<1>14. CASE DeleteToken(r)
  BY <1>14 DEF DeleteToken, TypeOK, ControlOK, Goto, Reply, CallFails
<1>15. CASE DeleteTokenFails(r)
  BY <1>15 DEF DeleteTokenFails, TypeOK, ControlOK, Goto, Reply, CallFails
<1>16. CASE SaveUser(r)
  BY <1>16 DEF SaveUser, TypeOK, ControlOK, Goto, Reply, CallFails
<1>17. CASE SaveUserFails(r)
  BY <1>17 DEF SaveUserFails, TypeOK, ControlOK, Goto, Reply, CallFails
<1>18. CASE RemoveUser(r)
  BY <1>18 DEF RemoveUser, TypeOK, ControlOK, Goto, Reply, CallFails
<1>19. CASE RemoveUserFails(r)
  BY <1>19 DEF RemoveUserFails, TypeOK, ControlOK, Goto, Reply, CallFails
<1>20. CASE Crash(r)
  BY <1>20 DEF Crash, TypeOK, ControlOK, Goto, Reply, CallFails
<1>21. CASE ExpireToken(r)
  BY <1>21 DEF ExpireToken, TypeOK, ControlOK, Goto, Reply, CallFails
<1> QED
  BY <1>1, <1>2, <1>3, <1>4, <1>5, <1>6, <1>7, <1>8, <1>9, <1>10, <1>11, <1>12, <1>13, <1>14, <1>15, <1>16, <1>17, <1>18, <1>19, <1>20, <1>21 DEF Step

\* What a request presents stays, and so does whose it is.
LEMMA PresentedStays ==
    ASSUME Shape, NEW r \in Requests, Submit(r) \/ Step(r) \/ Crash(r) \/ ExpireToken(r)
    PROVE  PresentedOK'
<1> USE DEF Shape
<1>1. \A q \in Requests : Presentable(q) =>
         /\ Presentable(q)'
         /\ Req[q].access \in Requests => Sub(q)' = Sub(q)
  BY PresentableStays DEF Sub
<1>2. \A q \in Requests : pc[q] # "idle" => Presentable(q)
  BY DEF PresentedOK
<1>3. \A q \in Requests \ {r} : pc'[q] = pc[q]
  BY AnswersStay
<1>4. CASE pc' = pc
  BY <1>1, <1>4 DEF PresentedOK, OfOneUser
<1>5. CASE pc'[r] \in {"done", "crashed"} /\ Presentable(r)
  BY <1>1, <1>2, <1>3, <1>5 DEF PresentedOK, OfOneUser
<1>6. CASE Started(r)
  <2>1. Kind(r) = "refresh" \/ Kind(r) = "logout" => Req[r].refresh \in Requests
    BY <1>6, ReqNames DEF Started, WellFormed, OfOneUser
  <2>2. Kind(r) \in OfOneUser => Req[r].target \in Requests
    BY <1>6, ReqNames DEF Started, WellFormed, OfOneUser
  <2>3. pc'[r] = FirstLabel[Kind(r)] /\ Kind(r) \in Kinds
    BY <1>6, ReqNames DEF Started, Goto, TypeOK
  <2>4. /\ pc'[r] \in {"exists", "delete"} => Kind(r) \in {"refresh", "logout"}
        /\ pc'[r] \notin {"save", "store"}
        /\ pc'[r] = "remove" => Kind(r) = "delete"
    BY <2>3 DEF FirstLabel, Kinds
  <2>5. Kind(r) \notin {"register", "login"} => Req[r].access \in Requests
    BY <1>6 DEF Started
  <2>6. Kind(r) \in {"patch", "delete"} => Req[r].target = Sub(r)
    BY <1>6 DEF Started
  <2>7. Presentable(r)
    BY <1>6 DEF Started
  <2> QED
    BY <1>1, <1>2, <1>3, <2>1, <2>2, <2>4, <2>5, <2>6, <2>7 DEF PresentedOK, OfOneUser
<1>7. CASE \/ pc[r] = "create" /\ pc'[r] = "wallet" /\ Kind(r) = "register"
           \/ pc[r] = "wallet" /\ pc'[r] = "store" /\ Kind(r) = "register"
           \/ pc[r] = "find" /\ pc'[r] = "store" /\ Kind(r) = "login"
           \/ pc[r] = "find" /\ pc'[r] = "save" /\ Kind(r) = "patch"
           \/ pc[r] = "store" /\ pc'[r] = "wallet"
           \/ pc[r] = "exists" /\ pc'[r] = "delete"
           \/ pc[r] = "delete" /\ pc'[r] = "store" /\ Kind(r) = "refresh"
  BY <1>1, <1>2, <1>3, <1>7 DEF PresentedOK, OfOneUser
<1>8. Refused(r) => pc'[r] \in {"done", "crashed"} /\ Presentable(r)
  BY DEF Refused, Reply, Goto, TypeOK
<1>9. /\ Create(r) => Kind(r) = "register"
      /\ InitWallet(r) => Kind(r) = "register"
      /\ FindByEmail(r) => Kind(r) = "login"
      /\ FindByID(r) => Kind(r) = "patch"
  BY DEF Create, InitWallet, FindByEmail, FindByID, ControlOK
<1> QED
  BY <1>2, <1>4, <1>5, <1>6, <1>7, <1>8, <1>9, Moves

\* The user that r works on, after each step that chooses it.
LEMMA UserStays ==
    ASSUME Shape, NEW r \in Requests, Submit(r) \/ Step(r) \/ Crash(r) \/ ExpireToken(r)
    PROVE  UserOK'
<1> DEFINE Fits(q) ==
       /\ pc'[q] \in {"wallet", "store", "save"} =>
             user'[q] \in Users /\ users'[user'[q].id] # NoUser
       /\ pc'[q] \in {"wallet", "store"} /\ Kind(q) = "register" => user'[q].id = q
       /\ pc'[q] = "store" /\ Kind(q) = "refresh" => user'[q].id = Sub(q)'
       /\ pc'[q] = "save" =>
             /\ user'[q].id = Req[q].target
             /\ user'[q].name \in Values /\ user'[q].password \in Values
<1> SUFFICES \A q \in Requests : Fits(q)
  BY DEF UserOK
<1> USE DEF Shape
<1>1. users \in [Requests -> Rows \cup {NoUser}] /\ NoUser \notin Rows
  BY NamesAssumption DEF TypeOK
<1>2. \A q \in Requests : users[q] # NoUser => users'[q] # NoUser
  BY RowFacts
<1>3. \A q \in Requests : pc[q] # "idle" /\ Req[q].access \in Requests => Sub(q)' = Sub(q)
  BY PresentableStays DEF PresentedOK, Sub
<1>4. \A q \in Requests : pc'[q] = pc[q] /\ user'[q] = user[q] => Fits(q)
  <2> SUFFICES ASSUME NEW q \in Requests, pc'[q] = pc[q], user'[q] = user[q]
               PROVE  Fits(q)
    OBVIOUS
  <2>1. pc[q] \in {"wallet", "store", "save"} =>
           user[q] \in Users /\ users[user[q].id] # NoUser /\ user[q].id \in Requests
    BY DEF UserOK, Users
  <2>2. pc[q] = "store" /\ Kind(q) = "refresh" => user[q].id = Sub(q)'
    BY <1>3 DEF UserOK, PresentedOK
  <2> QED
    BY <1>2, <2>1, <2>2 DEF UserOK
<1>5. \A q \in Requests \ {r} : Fits(q)
  BY <1>4, AnswersStay
<1>6. CASE pc'[r] \notin {"wallet", "store", "save"}
  BY <1>5, <1>6
<1>7. CASE pc' = pc /\ user' = user
  BY <1>4, <1>7
<1>8. CASE pc[r] = "create" /\ pc'[r] = "wallet" /\ Create(r)
  <2>1. user'[r] = NewUser(r) /\ users'[r] = Row(NewUser(r))
    BY <1>1, <1>8, NamesAssumption DEF Create, InsertUser, Reply, Goto, TypeOK
  <2>2. NewUser(r) \in Users /\ Row(NewUser(r)) \in Rows /\ NewUser(r).id = r
    BY <1>8, GivenFields DEF ControlOK
  <2> QED
    BY <1>1, <1>5, <1>8, <2>1, <2>2
<1>9. CASE pc[r] = "wallet" /\ pc'[r] = "store" /\ InitWallet(r)
  <2>1. user' = user /\ users' = users /\ Kind(r) = "register"
    BY <1>9 DEF InitWallet
  <2> QED
    BY <1>5, <1>9, <2>1 DEF UserOK
<1>10. CASE pc[r] = "find" /\ pc'[r] = "store" /\ FindByEmail(r)
  <2>1. PICK id \in Live :
           user' = [user EXCEPT ![r] =
                      [id |-> id, name |-> users[id].name, email |-> users[id].email,
                       password |-> users[id].password]]
    BY <1>10 DEF FindByEmail, Reply, Goto, TypeOK
  <2>2. id \in Requests /\ users[id] \in Rows /\ users'[id] # NoUser
    BY <1>1, <1>2, <2>1 DEF Live
  <2>3. user'[r] = [id |-> id, name |-> users[id].name, email |-> users[id].email,
                    password |-> users[id].password]
    BY <2>1 DEF TypeOK
  <2>4. user'[r] \in Users /\ user'[r].id = id
    BY <2>2, <2>3 DEF Users, Rows
  <2> QED
    BY <1>5, <1>10, <2>2, <2>4 DEF FindByEmail
<1>11. CASE pc[r] = "find" /\ pc'[r] = "save" /\ FindByID(r)
  <2> DEFINE id == Req[r].target
  <2>1. id \in Live /\ user' = [user EXCEPT ![r] = Merged(r, users[id])]
    BY <1>11 DEF FindByID, Reply, Goto, TypeOK
  <2>2. id \in Requests /\ users[id] \in Rows /\ users'[id] # NoUser
    BY <1>1, <1>2, <2>1 DEF Live
  <2>3. user'[r] = Merged(r, users[id])
    BY <2>1 DEF TypeOK
  <2>4. /\ Merged(r, users[id]) \in Users /\ Merged(r, users[id]).id = id
        /\ Merged(r, users[id]).name \in Values
        /\ Merged(r, users[id]).password \in Values
    BY <2>2, ReqFields DEF Merged, Users, Rows
  <2> HIDE DEF id
  <2>5. user'[r].id = Req[r].target
    BY <2>3, <2>4 DEF id
  <2> QED
    BY <1>5, <1>11, <2>2, <2>3, <2>4, <2>5
<1>12. CASE pc[r] = "store" /\ pc'[r] = "wallet" /\ Kind(r) = "login" /\ StoreToken(r)
  <2>1. user' = user /\ users' = users
    BY <1>12 DEF StoreToken
  <2> QED
    BY <1>5, <1>12, <2>1 DEF UserOK
<1>13. CASE pc[r] = "delete" /\ pc'[r] = "store" /\ Kind(r) = "refresh" /\ DeleteToken(r)
  <2>1. /\ users' = users
        /\ user'[r] = [id |-> Sub(r), name |-> Absent, email |-> EmailClaim(r),
                       password |-> Absent]
    BY <1>13 DEF DeleteToken, TypeOK
  <2>2. HasPair(Req[r].access) /\ Req[r].access \in Requests /\ Sub(r)' = Sub(r)
    BY <1>3, <1>13, NamesAssumption DEF PresentedOK, Presentable
  <2>3. Sub(r) \in Requests /\ EmailClaim(r) \in Values /\ users[Sub(r)] # NoUser
    BY <2>2 DEF RowsOK, Sub, EmailClaim
  <2>4. user'[r] \in Users /\ user'[r].id = Sub(r)
    BY <2>1, <2>3 DEF Users
  <2> QED
    BY <1>5, <1>13, <2>1, <2>2, <2>3, <2>4
<1>14. Refused(r) => pc'[r] = "done"
  BY DEF Refused, Reply, Goto, TypeOK
<1>15. Started(r) => pc'[r] \notin {"wallet", "store", "save"}
  BY ReqNames DEF Started, Goto, TypeOK, FirstLabel, Kinds
<1>16. CASE Refused(r) \/ Started(r)
  BY <1>6, <1>14, <1>15, <1>16
<1> QED
  BY <1>6, <1>7, <1>8, <1>9, <1>10, <1>11, <1>12, <1>13, <1>16, Moves

\* What GrantPair answers.
LEMMA PairGranted ==
    ASSUME TypeOK, NEW r \in Requests, NEW u, NEW balance, GrantPair(r, u, balance)
    PROVE  /\ pc' = [pc EXCEPT ![r] = "done"]
           /\ answer'[r].code = "OK" /\ answer'[r].sub = u.id /\ answer'[r].email = u.email
           /\ \A q \in Requests \ {r} : answer'[q] = answer[q]
<1> DEFINE pair == [NoAnswer EXCEPT !.code = "OK", !.sub = u.id, !.email = u.email,
                                    !.balance = balance]
<1>1. pair.code = "OK" /\ pair.sub = u.id /\ pair.email = u.email
  BY DEF NoAnswer
<1>2. answer' = [answer EXCEPT ![r] = pair] /\ pc' = [pc EXCEPT ![r] = "done"]
  BY DEF GrantPair, Goto
<1> HIDE DEF pair
<1>3. answer'[r] = pair /\ \A q \in Requests \ {r} : answer'[q] = answer[q]
  BY <1>2 DEF TypeOK
<1> QED
  BY <1>1, <1>2, <1>3

\* A pair is handed out for the user that r works on, whose token is in place.
LEMMA NewPairs ==
    ASSUME Shape, NEW r \in Requests, Submit(r) \/ Step(r) \/ Crash(r) \/ ExpireToken(r)
    PROVE  /\ \A q \in Requests : HasPair(q)' => HasPair(q) \/ q = r
           /\ HasPair(r)' /\ ~HasPair(r) =>
                 /\ answer'[r].sub = user[r].id /\ answer'[r].email = user[r].email
                 /\ UNCHANGED users
                 /\ \/ pc[r] = "wallet" /\ Kind(r) = "login" /\ UNCHANGED store
                    \/ pc[r] = "store" /\ Kind(r) # "login" /\ Stored(r)
<1> USE DEF Shape, TypeOK, ControlOK, HasPair, Opens, NoAnswer, Goto, Reply, CallFails
<1>1. CASE Submit(r)
  BY <1>1, SubmitCases DEF Refused, Started
<1>2. CASE Create(r)
  BY <1>2 DEF Create
<1>3. CASE CreateFails(r)
  BY <1>3 DEF CreateFails
<1>4. CASE InitWallet(r)
  BY <1>4 DEF InitWallet
<1>5. CASE FindByEmail(r)
  BY <1>5 DEF FindByEmail
<1>6. CASE FindByID(r)
  BY <1>6 DEF FindByID
<1>7. CASE FindFails(r)
  BY <1>7 DEF FindFails
<1>8. CASE ReadBalance(r)
  BY <1>8, PairGranted DEF ReadBalance
<1>9. CASE ReadUser(r)
  BY <1>9 DEF ReadUser, Show
<1>10. CASE ReadUsers(r)
  BY <1>10 DEF ReadUsers, Show
<1>11. CASE StoreToken(r)
  BY <1>11, PairGranted DEF StoreToken, Stored
<1>12. CASE StoreTokenFails(r)
  BY <1>12 DEF StoreTokenFails
<1>13. CASE CheckToken(r)
  BY <1>13 DEF CheckToken
<1>14. CASE DeleteToken(r)
  BY <1>14 DEF DeleteToken
<1>15. CASE DeleteTokenFails(r)
  BY <1>15 DEF DeleteTokenFails
<1>16. CASE SaveUser(r)
  BY <1>16 DEF SaveUser
<1>17. CASE SaveUserFails(r)
  BY <1>17 DEF SaveUserFails
<1>18. CASE RemoveUser(r)
  BY <1>18 DEF RemoveUser
<1>19. CASE RemoveUserFails(r)
  BY <1>19 DEF RemoveUserFails
<1>20. CASE Crash(r)
  BY <1>20 DEF Crash
<1>21. CASE ExpireToken(r)
  BY <1>21 DEF ExpireToken
<1> QED
  BY <1>1, <1>2, <1>3, <1>4, <1>5, <1>6, <1>7, <1>8, <1>9, <1>10, <1>11, <1>12, <1>13, <1>14, <1>15, <1>16, <1>17, <1>18, <1>19, <1>20, <1>21 DEF Step

\* Rows come from registrations, and pairs are of rows.
LEMMA RowsStay ==
    ASSUME Shape, NEW r \in Requests, Submit(r) \/ Step(r) \/ Crash(r) \/ ExpireToken(r)
    PROVE  RowsOK'
<1> USE DEF Shape
<1>1. \A q \in Requests : pc[q] \notin {"idle", "create"} => pc'[q] \notin {"idle", "create"}
  <2>1. \A q \in Requests \ {r} : pc'[q] = pc[q]
    BY AnswersStay
  <2>2. pc[r] \notin {"idle", "create"} => pc'[r] \notin {"idle", "create"}
    BY Moves DEF Refused, Started
  <2> QED
    BY <2>1, <2>2
<1>2. \A q \in Requests :
         users'[q] # NoUser => Kind(q) = "register" /\ pc'[q] \notin {"idle", "create"}
  BY <1>1, RowFacts DEF RowsOK, ControlOK
<1>3. \A q \in Requests : HasPair(q) =>
         /\ answer'[q].sub \in Requests
         /\ answer'[q].email \in Values
         /\ users'[answer'[q].sub] # NoUser
  BY RowFacts, PresentableStays DEF RowsOK
<1>4. ASSUME HasPair(r)', ~HasPair(r)
      PROVE  /\ answer'[r].sub \in Requests
             /\ answer'[r].email \in Values
             /\ users'[answer'[r].sub] # NoUser
  <2>1. pc[r] \in {"wallet", "store"} /\ answer'[r].sub = user[r].id
        /\ answer'[r].email = user[r].email /\ users' = users
    BY <1>4, NewPairs
  <2>2. user[r] \in Users /\ users[user[r].id] # NoUser
    BY <2>1 DEF UserOK
  <2>3. user[r].id \in Requests /\ user[r].email \in Values
    BY <2>2 DEF Users
  <2> QED
    BY <2>1, <2>2, <2>3
<1> QED
  BY <1>2, <1>3, <1>4, NewPairs DEF RowsOK

\* The answers are answers.
LEMMA ReplyType ==
    ASSUME TypeOK, NEW r \in Requests, NEW code \in Codes, Reply(r, code)
    PROVE  answer' \in [Requests -> Answers]
BY DEF Reply, TypeOK, Answers

LEMMA GrantPairType ==
    ASSUME TypeOK, NEW r \in Requests, NEW u \in Users,
           NEW balance \in {"none", "shown", "missing", "unreachable"},
           GrantPair(r, u, balance)
    PROVE  answer' \in [Requests -> Answers]
<1> DEFINE pair == [NoAnswer EXCEPT !.code = "OK", !.sub = u.id, !.email = u.email,
                                    !.balance = balance]
<1>1. pair \in Answers
  BY DEF NoAnswer, Answers, Codes, Users
<1>2. answer' = [answer EXCEPT ![r] = pair]
  BY DEF GrantPair
<1> HIDE DEF pair
<1> QED
  BY <1>1, <1>2 DEF TypeOK

LEMMA ShowType ==
    ASSUME TypeOK, NEW r \in Requests, NEW ids \in SUBSET Live, Show(r, ids)
    PROVE  answer' \in [Requests -> Answers]
<1> DEFINE shown == {[id |-> id, name |-> users[id].name, email |-> users[id].email] : id \in ids}
           new == [answer[r] EXCEPT !.code = "OK", !.shown = shown]
<1>1. \A id \in ids : id \in Requests /\ users[id] \in Rows
  BY NamesAssumption DEF Live, TypeOK
<1>2. shown \subseteq [id: Requests, name: Values, email: Values]
  BY <1>1 DEF Rows
<1>3. answer' = [answer EXCEPT ![r] = new]
  BY DEF Show, TypeOK, Answers
<1> HIDE DEF shown
<1>4. \A a \in Answers : \A s \in SUBSET [id: Requests, name: Values, email: Values] :
         [a EXCEPT !.code = "OK", !.shown = s] \in Answers
  BY DEF Answers, Codes
<1>5. new \in Answers
  BY <1>2, <1>4 DEF TypeOK
<1> HIDE DEF new
<1> QED
  BY <1>3, <1>5 DEF TypeOK

\* So the answers stay in shape.
LEMMA AnswerTypeStays ==
    ASSUME Shape, NEW r \in Requests, Submit(r) \/ Step(r) \/ Crash(r) \/ ExpireToken(r)
    PROVE  answer' \in [Requests -> Answers]
<1> USE DEF Shape, CallFails
<1>1. CASE Submit(r)
  BY <1>1, SubmitCases, ReplyType DEF Refused, Started, TypeOK, Codes
<1>2. CASE Create(r)
  BY <1>2, ReplyType DEF Create, Codes, TypeOK
<1>3. CASE CreateFails(r)
  BY <1>3, ReplyType DEF CreateFails, Codes
<1>4. CASE InitWallet(r)
  BY <1>4 DEF InitWallet, TypeOK
<1>5. CASE FindByEmail(r)
  BY <1>5, ReplyType DEF FindByEmail, Codes, TypeOK
<1>6. CASE FindByID(r)
  BY <1>6, ReplyType DEF FindByID, Codes, TypeOK
<1>7. CASE FindFails(r)
  BY <1>7, ReplyType DEF FindFails, Codes
<1>8. CASE ReadBalance(r)
  BY <1>8, GrantPairType DEF ReadBalance, UserOK
<1>9. CASE ReadUser(r)
  BY <1>9, ShowType, ReplyType DEF ReadUser, Codes, Live
<1>10. CASE ReadUsers(r)
  BY <1>10, ShowType DEF ReadUsers
<1>11. CASE StoreToken(r)
  BY <1>11, GrantPairType DEF StoreToken, UserOK, TypeOK
<1>12. CASE StoreTokenFails(r)
  BY <1>12, ReplyType DEF StoreTokenFails, Codes
<1>13. CASE CheckToken(r)
  BY <1>13, ReplyType DEF CheckToken, Codes, TypeOK
<1>14. CASE DeleteToken(r)
  BY <1>14, ReplyType DEF DeleteToken, Codes, TypeOK
<1>15. CASE DeleteTokenFails(r)
  BY <1>15, ReplyType DEF DeleteTokenFails, Codes
<1>16. CASE SaveUser(r)
  BY <1>16, ReplyType DEF SaveUser, Codes
<1>17. CASE SaveUserFails(r)
  BY <1>17, ReplyType DEF SaveUserFails, Codes
<1>18. CASE RemoveUser(r)
  BY <1>18, ReplyType DEF RemoveUser, Codes
<1>19. CASE RemoveUserFails(r)
  BY <1>19, ReplyType DEF RemoveUserFails, Codes
<1>20. CASE Crash(r)
  BY <1>20 DEF Crash, TypeOK
<1>21. CASE ExpireToken(r)
  BY <1>21 DEF ExpireToken, TypeOK
<1> QED
  BY <1>1, <1>2, <1>3, <1>4, <1>5, <1>6, <1>7, <1>8, <1>9, <1>10, <1>11, <1>12, <1>13, <1>14, <1>15, <1>16, <1>17, <1>18, <1>19, <1>20, <1>21 DEF Step

\* So do the labels, and a request gets another user only where it needs one.
LEMMA LabelTypeStays ==
    ASSUME TypeOK, ControlOK, NEW r \in Requests, Submit(r) \/ Step(r) \/ Crash(r) \/ ExpireToken(r)
    PROVE  /\ pc' \in [Requests -> Labels]
           /\ expired' \subseteq Requests /\ expired \subseteq expired'
           /\ wallets' \subseteq Requests
           /\ \/ user' = user
              \/ /\ pc'[r] \in {"wallet", "store", "save"}
                 /\ \E u : user' = [user EXCEPT ![r] = u]
<1> USE DEF TypeOK, ControlOK, Labels, Goto, Reply, CallFails
<1>1. CASE Submit(r)
  BY <1>1, SubmitCases, ReqNames DEF Refused, Started, FirstLabel, Kinds
<1>2. CASE Create(r)
  BY <1>2 DEF Create
<1>3. CASE CreateFails(r)
  BY <1>3 DEF CreateFails
<1>4. CASE InitWallet(r)
  BY <1>4 DEF InitWallet
<1>5. CASE FindByEmail(r)
  BY <1>5 DEF FindByEmail
<1>6. CASE FindByID(r)
  BY <1>6 DEF FindByID
<1>7. CASE FindFails(r)
  BY <1>7 DEF FindFails
<1>8. CASE ReadBalance(r)
  BY <1>8 DEF ReadBalance, GrantPair
<1>9. CASE ReadUser(r)
  BY <1>9 DEF ReadUser, Show
<1>10. CASE ReadUsers(r)
  BY <1>10 DEF ReadUsers, Show
<1>11. CASE StoreToken(r)
  BY <1>11 DEF StoreToken, GrantPair
<1>12. CASE StoreTokenFails(r)
  BY <1>12 DEF StoreTokenFails
<1>13. CASE CheckToken(r)
  BY <1>13 DEF CheckToken
<1>14. CASE DeleteToken(r)
  BY <1>14 DEF DeleteToken
<1>15. CASE DeleteTokenFails(r)
  BY <1>15 DEF DeleteTokenFails
<1>16. CASE SaveUser(r)
  BY <1>16 DEF SaveUser
<1>17. CASE SaveUserFails(r)
  BY <1>17 DEF SaveUserFails
<1>18. CASE RemoveUser(r)
  BY <1>18 DEF RemoveUser
<1>19. CASE RemoveUserFails(r)
  BY <1>19 DEF RemoveUserFails
<1>20. CASE Crash(r)
  BY <1>20 DEF Crash
<1>21. CASE ExpireToken(r)
  BY <1>21 DEF ExpireToken
<1> QED
  BY <1>1, <1>2, <1>3, <1>4, <1>5, <1>6, <1>7, <1>8, <1>9, <1>10, <1>11, <1>12, <1>13, <1>14, <1>15, <1>16, <1>17, <1>18, <1>19, <1>20, <1>21 DEF Step

\* The stores stay in shape.
LEMMA TypeStays ==
    ASSUME Shape, NEW r \in Requests, Submit(r) \/ Step(r) \/ Crash(r) \/ ExpireToken(r)
    PROVE  TypeOK'
<1> USE DEF Shape
<1>1. user' \in [Requests -> Users \cup {NoUser}]
  <2>1. CASE user' = user
    BY <2>1 DEF TypeOK
  <2>2. CASE pc'[r] \in {"wallet", "store", "save"} /\ \E u : user' = [user EXCEPT ![r] = u]
    <3>1. user'[r] \in Users
      BY <2>2, UserStays DEF UserOK
    <3> QED
      BY <2>2, <3>1 DEF TypeOK
  <2> QED
    BY <2>1, <2>2, LabelTypeStays
<1>2. store' \subseteq Requests \X Requests
  <2>1. CASE Stored(r)
    BY <2>1 DEF Stored, UserOK, Users, TypeOK
  <2>2. CASE UNCHANGED store \/ Dropped(r) \/ ExpireToken(r)
    BY <2>2 DEF Dropped, DropToken, ExpireToken, TypeOK
  <2> QED
    BY <2>1, <2>2, StoreCases
<1> QED
  BY <1>1, <1>2, LabelTypeStays, AnswerTypeStays, RowFacts DEF TypeOK

-----------------------------------------------------------------------------
(* The shape is an invariant, and so is each part of it.                   *)

LEMMA ShapeInit == Init => Shape
BY DEF Init, Shape, TypeOK, ControlOK, PresentedOK, UserOK, RowsOK, Labels, Answers,
       NoAnswer, Codes, HasPair

\* Nothing but the wallets changes without a step of a request.
LEMMA Quiet ==
    ASSUME Shape, (\E id \in Requests : UseWallet(id)) \/ Finished \/ UNCHANGED vars
    PROVE  /\ UNCHANGED <<pc, user, answer, users, store, expired>>
           /\ wallets' \subseteq Requests
BY DEF UseWallet, Finished, vars, Shape, TypeOK

LEMMA ShapeStays == Shape /\ [Next]_vars => Shape'
<1> SUFFICES ASSUME Shape, [Next]_vars PROVE Shape'
  OBVIOUS
<1>1. CASE \E r \in Requests : Submit(r) \/ Step(r) \/ Crash(r) \/ ExpireToken(r)
  BY <1>1, TypeStays, ControlStays, PresentedStays, UserStays, RowsStay DEF Shape
<1>2. CASE (\E id \in Requests : UseWallet(id)) \/ Finished \/ UNCHANGED vars
  BY <1>2, Quiet DEF Shape, TypeOK, ControlOK, PresentedOK, Presentable, UserOK, RowsOK,
                     HasPair, Sub, OfOneUser
<1> QED
  BY <1>1, <1>2 DEF Next

LEMMA ShapeIsInvariant == Spec => []Shape
BY ShapeInit, ShapeStays, PTL DEF Spec

\* The variables keep their shape.
THEOREM TypeCorrect == Spec => []TypeOK
<1>1. Shape => TypeOK
  BY DEF Shape
<1> QED
  BY <1>1, ShapeIsInvariant, PTL

-----------------------------------------------------------------------------
(* The users table.                                                        *)

LEMMA EmailsStayUnique ==
    ASSUME Shape, EmailsAreUnique, NEW r \in Requests,
           Submit(r) \/ Step(r) \/ Crash(r) \/ ExpireToken(r)
    PROVE  EmailsAreUnique'
<1> USE DEF Shape
<1>1. users \in [Requests -> Rows \cup {NoUser}] /\ NoUser \notin Rows
  BY NamesAssumption DEF TypeOK
<1> DEFINE Placed(id, row) ==
       /\ id \in Requests /\ row.email \in Values
       /\ ~EmailTaken(row.email, id)
       /\ users' = [users EXCEPT ![id] = row]
<1>2. ASSUME NEW id, NEW row, Placed(id, row) PROVE EmailsAreUnique'
  BY <1>1, <1>2 DEF EmailsAreUnique, EmailTaken
<1>3. CASE UNCHANGED users
  BY <1>3 DEF EmailsAreUnique
<1>4. CASE Inserted(r)
  <2>1. Row(NewUser(r)).email = Req[r].email
    BY DEF Row, NewUser
  <2>2. Req[r].email \in Values
    BY <1>4, GivenFields DEF Inserted, ControlOK, NewUser, Users
  <2> QED
    BY <1>2, <1>4, <2>1, <2>2 DEF Inserted, InsertUser
<1>5. CASE Written(r)
  <2> DEFINE id == user[r].id
             new == [Row(user[r]) EXCEPT !.deleted = users[id].deleted]
  <2>1. user[r] \in Users /\ id \in Requests /\ ~EmailTaken(user[r].email, id)
    BY <1>5 DEF Written, Updatable, Live, UserOK
  <2>2. new.email = user[r].email
    BY DEF Row
  <2>3. users' = [users EXCEPT ![id] = new]
    BY <1>5 DEF Written, WriteUser
  <2>4. user[r].email \in Values
    BY <2>1 DEF Users
  <2> HIDE DEF id, new
  <2> QED
    BY <1>2, <2>1, <2>2, <2>3, <2>4
<1>6. CASE Removed(r)
  <2> DEFINE id == Req[r].target
  <2>1. users' = [users EXCEPT ![id].deleted = TRUE]
    BY <1>6 DEF Removed, SoftDelete
  <2>2. id \in Requests /\ users[id] \in Rows
    BY <1>1, <1>6, NamesAssumption DEF Removed, PresentedOK, Presentable, RowsOK, Sub
  <2> HIDE DEF id
  <2>3. \A a \in Requests : users'[a] # NoUser => users[a] # NoUser /\ users'[a].email = users[a].email
    BY <1>1, <2>1, <2>2 DEF Rows
  <2> QED
    BY <2>3 DEF EmailsAreUnique
<1> QED
  BY <1>3, <1>4, <1>5, <1>6, RowCases

\* No two users ever have the same email: Register and Update write a row only
\* past the unique constraint, and nothing else writes one.
THEOREM EmailsUnique == Spec => []EmailsAreUnique
<1>1. Init => EmailsAreUnique
  BY DEF Init, EmailsAreUnique
<1>2. Shape /\ EmailsAreUnique /\ [Next]_vars => EmailsAreUnique'
  <2> SUFFICES ASSUME Shape, EmailsAreUnique, [Next]_vars PROVE EmailsAreUnique'
    OBVIOUS
  <2>1. CASE \E r \in Requests : Submit(r) \/ Step(r) \/ Crash(r) \/ ExpireToken(r)
    BY <2>1, EmailsStayUnique
  <2>2. CASE (\E id \in Requests : UseWallet(id)) \/ Finished \/ UNCHANGED vars
    BY <2>2, Quiet DEF EmailsAreUnique
  <2> QED
    BY <2>1, <2>2 DEF Next
<1> QED
  BY <1>1, <1>2, ShapeIsInvariant, PTL DEF Spec

\* A deleted row stays as it is, whatever edits of it were under way.
THEOREM DeletionFinal == Spec => DeletionIsFinal
<1> DEFINE Final == \A id \in Requests :
              users[id] # NoUser /\ users[id].deleted => users'[id] = users[id]
<1>1. Shape /\ [Next]_vars => [Final]_vars
  <2> SUFFICES ASSUME Shape, [Next]_vars PROVE Final
    OBVIOUS
  <2>1. CASE \E r \in Requests : Submit(r) \/ Step(r) \/ Crash(r) \/ ExpireToken(r)
    BY <2>1, RowFacts
  <2>2. CASE (\E id \in Requests : UseWallet(id)) \/ Finished \/ UNCHANGED vars
    BY <2>2, Quiet
  <2> QED
    BY <2>1, <2>2 DEF Next
<1> QED
  BY <1>1, ShapeIsInvariant, PTL DEF Spec, DeletionIsFinal

-----------------------------------------------------------------------------
(* The sessions.                                                           *)

\* What is out of Redis stays out: a SET stores a token that nobody has yet.
THEOREM SpentStaysSpent == Spec => SpentTokensStaySpent
<1> DEFINE Spent == \A r \in Requests :
              HasPair(r) /\ <<answer[r].sub, r>> \notin store =>
                  <<answer[r].sub, r>> \notin store'
<1>1. Shape /\ [Next]_vars => [Spent]_vars
  <2> SUFFICES ASSUME Shape, [Next]_vars PROVE Spent
    OBVIOUS
  <2>1. ASSUME NEW r \in Requests, Submit(r) \/ Step(r) \/ Crash(r) \/ ExpireToken(r)
        PROVE  Spent
    <3>1. Stored(r) => ~HasPair(r)
      BY DEF Stored, Shape, ControlOK, HasPair, NoAnswer
    <3> QED
      BY <2>1, <3>1, StoreCases DEF Shape, Stored, Dropped, DropToken, ExpireToken
  <2>2. CASE (\E id \in Requests : UseWallet(id)) \/ Finished \/ UNCHANGED vars
    BY <2>2, Quiet
  <2> QED
    BY <2>1, <2>2 DEF Next
<1> QED
  BY <1>1, ShapeIsInvariant, PTL DEF Spec, SpentTokensStaySpent,
     HasPair, Opens, Kind

\* A key in Redis belongs to the session of its request.
KeysOK ==
    \A key \in store :
        /\ pc[key[2]] \in {"wallet", "done", "crashed"}
        /\ pc[key[2]] = "wallet" => Kind(key[2]) = "login" /\ key[1] = user[key[2]].id
        /\ HasPair(key[2]) => key[1] = answer[key[2]].sub

\* A refresh that got past the EXISTS presents a token of its own user, and
\* one that got past the DEL has none left.
RotationOK ==
    \A r \in Requests :
        /\ /\ Kind(r) \in {"refresh", "logout"}
           /\ pc[r] # "idle"
           /\ answer[r].code \notin {"VALIDATION_ERROR", "UNAUTHORIZED"}
           => Req[r].access \in Requests /\ Req[r].refresh \in Requests
        /\ Kind(r) = "refresh" /\ (pc[r] \in {"delete", "store"} \/ HasPair(r)) =>
              Sub(r) = answer[Req[r].refresh].sub
        /\ Kind(r) = "refresh" /\ pc[r] = "store" => TokenKey(r) \notin store
        /\ Kind(r) = "refresh" /\ HasPair(r) => answer[r].sub = Sub(r)

\* The token of a login that is about to be answered is in Redis, or was.
LoginOK ==
    \A r \in Requests :
        Kind(r) = "login" /\ pc[r] = "wallet" => <<user[r].id, r>> \in store \/ r \in expired

LEMMA KeysStay ==
    ASSUME Shape, KeysOK, NEW r \in Requests, Submit(r) \/ Step(r) \/ Crash(r) \/ ExpireToken(r)
    PROVE  KeysOK'
<1> USE DEF Shape
<1> DEFINE Good(key) ==
       /\ pc'[key[2]] \in {"wallet", "done", "crashed"}
       /\ pc'[key[2]] = "wallet" => Kind(key[2]) = "login" /\ key[1] = user'[key[2]].id
       /\ HasPair(key[2])' => key[1] = answer'[key[2]].sub
<1>1. ASSUME NEW key \in store PROVE Good(key)
  <2> DEFINE q == key[2]
  <2>1. q \in Requests
    BY DEF TypeOK
  <2>2. /\ pc[q] \in {"wallet", "done", "crashed"}
        /\ pc[q] = "wallet" => Kind(q) = "login" /\ key[1] = user[q].id
        /\ HasPair(q) => key[1] = answer[q].sub
    BY DEF KeysOK
  <2>3. HasPair(q) => key[1] = answer'[q].sub
    BY <2>1, <2>2, PresentableStays
  <2>4. HasPair(q)' /\ ~HasPair(q) => q = r /\ pc[q] = "wallet" /\ answer'[q].sub = user[q].id
    BY <2>1, <2>2, NewPairs
  <2>5. HasPair(q)' => key[1] = answer'[q].sub
    BY <2>2, <2>3, <2>4
  <2>6. q # r => pc'[q] = pc[q] /\ user'[q] = user[q]
    BY <2>1, AnswersStay
  <2>7. q = r => \/ pc'[q] = pc[q] /\ user'[q] = user[q]
                 \/ pc'[q] \in {"done", "crashed"}
    BY <2>2, Moves DEF Refused, Started, InitWallet
  <2> QED
    BY <2>2, <2>5, <2>6, <2>7
<1>2. CASE Stored(r)
  <2> DEFINE key == <<user[r].id, r>>
  <2>1. store' = store \cup {key} /\ pc[r] = "store" /\ pc'[r] \in {"wallet", "done"}
    BY <1>2 DEF Stored
  <2>2. pc'[r] = "wallet" => Kind(r) = "login" /\ user' = user
    BY <2>1, Moves DEF Refused, Started, StoreToken
  <2>3. ~HasPair(r)
    BY <2>1 DEF ControlOK, HasPair, NoAnswer
  <2>4. HasPair(r)' => answer'[r].sub = user[r].id
    BY <2>3, NewPairs
  <2>5. key[1] = user[r].id /\ key[2] = r
    OBVIOUS
  <2> HIDE DEF key
  <2>6. ASSUME NEW k, k = key PROVE Good(k)
    BY <2>1, <2>2, <2>4, <2>5, <2>6
  <2> HIDE DEF Good
  <2>7. \A k \in store' : Good(k)
    BY <1>1, <2>1, <2>6
  <2> QED
    BY <2>7 DEF Good, KeysOK
<1>3. CASE UNCHANGED store \/ Dropped(r) \/ ExpireToken(r)
  <2>1. store' \subseteq store
    BY <1>3 DEF Dropped, DropToken, ExpireToken
  <2> HIDE DEF Good
  <2>2. \A k \in store' : Good(k)
    BY <1>1, <2>1
  <2> QED
    BY <2>2 DEF Good, KeysOK
<1> QED
  BY <1>2, <1>3, StoreCases

\* How a refresh leaves the SET of its new token.
LEMMA StoreLeft ==
    ASSUME Shape, NEW r \in Requests, pc[r] = "store", Kind(r) = "refresh",
           Submit(r) \/ Step(r) \/ Crash(r) \/ ExpireToken(r)
    PROVE  /\ pc'[r] \in {"store", "done", "crashed"}
           /\ answer'[r].code \in {"NONE", "OK", "INTERNAL_ERROR"}
<1> USE DEF Shape, TypeOK, ControlOK, NoAnswer, Goto, Reply, CallFails
<1>1. CASE Submit(r)
  BY <1>1, SubmitCases DEF Refused, Started
<1>2. CASE Create(r)
  BY <1>2 DEF Create
<1>3. CASE CreateFails(r)
  BY <1>3 DEF CreateFails
<1>4. CASE InitWallet(r)
  BY <1>4 DEF InitWallet
<1>5. CASE FindByEmail(r)
  BY <1>5 DEF FindByEmail
<1>6. CASE FindByID(r)
  BY <1>6 DEF FindByID
<1>7. CASE FindFails(r)
  BY <1>7 DEF FindFails
<1>8. CASE ReadBalance(r)
  BY <1>8, PairGranted DEF ReadBalance
<1>9. CASE ReadUser(r)
  BY <1>9 DEF ReadUser, Show
<1>10. CASE ReadUsers(r)
  BY <1>10 DEF ReadUsers, Show
<1>11. CASE StoreToken(r)
  BY <1>11, PairGranted DEF StoreToken
<1>12. CASE StoreTokenFails(r)
  BY <1>12 DEF StoreTokenFails
<1>13. CASE CheckToken(r)
  BY <1>13 DEF CheckToken
<1>14. CASE DeleteToken(r)
  BY <1>14 DEF DeleteToken
<1>15. CASE DeleteTokenFails(r)
  BY <1>15 DEF DeleteTokenFails
<1>16. CASE SaveUser(r)
  BY <1>16 DEF SaveUser
<1>17. CASE SaveUserFails(r)
  BY <1>17 DEF SaveUserFails
<1>18. CASE RemoveUser(r)
  BY <1>18 DEF RemoveUser
<1>19. CASE RemoveUserFails(r)
  BY <1>19 DEF RemoveUserFails
<1>20. CASE Crash(r)
  BY <1>20 DEF Crash
<1>21. CASE ExpireToken(r)
  BY <1>21 DEF ExpireToken
<1> QED
  BY <1>1, <1>2, <1>3, <1>4, <1>5, <1>6, <1>7, <1>8, <1>9, <1>10, <1>11, <1>12, <1>13, <1>14, <1>15, <1>16, <1>17, <1>18, <1>19, <1>20, <1>21 DEF Step

LEMMA RotationStays ==
    ASSUME Shape, KeysOK, RotationOK,
           NEW r \in Requests, Submit(r) \/ Step(r) \/ Crash(r) \/ ExpireToken(r)
    PROVE  RotationOK'
<1> USE DEF Shape
<1> DEFINE Good(q) ==
       /\ /\ Kind(q) \in {"refresh", "logout"}
          /\ pc'[q] # "idle"
          /\ answer'[q].code \notin {"VALIDATION_ERROR", "UNAUTHORIZED"}
          => Req[q].access \in Requests /\ Req[q].refresh \in Requests
       /\ Kind(q) = "refresh" /\ (pc'[q] \in {"delete", "store"} \/ HasPair(q)') =>
             Sub(q)' = answer'[Req[q].refresh].sub
       /\ Kind(q) = "refresh" /\ pc'[q] = "store" => TokenKey(q)' \notin store'
       /\ Kind(q) = "refresh" /\ HasPair(q)' => answer'[q].sub = Sub(q)'
<1>1. \A q \in Requests :
         pc[q] # "idle" /\ Req[q].access \in Requests /\ Req[q].refresh \in Requests =>
            /\ Sub(q)' = Sub(q) /\ TokenKey(q)' = TokenKey(q)
            /\ HasPair(Req[q].refresh)
            /\ answer'[Req[q].refresh] = answer[Req[q].refresh]
  <2> SUFFICES ASSUME NEW q \in Requests, pc[q] # "idle",
                      Req[q].access \in Requests, Req[q].refresh \in Requests
               PROVE  /\ Sub(q)' = Sub(q) /\ TokenKey(q)' = TokenKey(q)
                      /\ HasPair(Req[q].refresh)
                      /\ answer'[Req[q].refresh] = answer[Req[q].refresh]
    OBVIOUS
  <2>1. Presentable(q)
    BY DEF PresentedOK
  <2>2. HasPair(Req[q].refresh)
    BY <2>1, NamesAssumption DEF Presentable
  <2>3. Sub(q)' = Sub(q)
    BY <2>1, PresentableStays DEF Sub
  <2> QED
    BY <2>2, <2>3, PresentableStays DEF TokenKey
<1>3. \A q \in Requests :
            Kind(q) = "refresh" /\ pc[q] = "store" /\ pc'[q] = "store"
         => TokenKey(q)' \notin store'
  <2> SUFFICES ASSUME NEW q \in Requests, Kind(q) = "refresh", pc[q] = "store", pc'[q] = "store"
               PROVE  TokenKey(q)' \notin store'
    OBVIOUS
  <2>1. Req[q].access \in Requests /\ Req[q].refresh \in Requests
    BY DEF PresentedOK
  <2>2. TokenKey(q)' = TokenKey(q) /\ TokenKey(q) \notin store /\ HasPair(Req[q].refresh)
    BY <1>1, <2>1 DEF RotationOK
  <2>3. Stored(r) => Req[q].refresh # r
    BY <2>2 DEF Stored, ControlOK, HasPair, NoAnswer
  <2> QED
    BY <2>2, <2>3, StoreCases DEF Stored, Dropped, DropToken, ExpireToken, TokenKey
<1>4. \A q \in Requests : HasPair(q) => HasPair(q)' /\ answer'[q] = answer[q]
  BY PresentableStays
<1>5. ASSUME NEW q \in Requests, pc'[q] = pc[q], answer'[q] = answer[q]
      PROVE  Good(q)
  <2>1. HasPair(q)' <=> HasPair(q)
    BY <1>5 DEF HasPair, Opens
  <2>2. HasPair(q) => pc[q] # "idle" /\ answer[q].code = "OK"
    BY DEF HasPair, ControlOK, NoAnswer
  <2>3. pc[q] \in {"delete", "store"} => answer[q].code = "NONE"
    BY DEF ControlOK, NoAnswer
  <2>4. Kind(q) = "refresh" /\ (pc[q] \in {"delete", "store"} \/ HasPair(q)) =>
           Req[q].access \in Requests /\ Req[q].refresh \in Requests
    BY <2>2, <2>3 DEF RotationOK
  <2>5. Kind(q) = "refresh" /\ (pc[q] \in {"delete", "store"} \/ HasPair(q)) =>
           Sub(q)' = Sub(q) /\ answer'[Req[q].refresh] = answer[Req[q].refresh]
    BY <1>1, <2>2, <2>4
  <2> QED
    BY <1>3, <1>5, <2>1, <2>5 DEF RotationOK
<1>6. \A q \in Requests \ {r} : Good(q)
  BY <1>5, AnswersStay
<1>7. CASE pc' = pc /\ answer' = answer
  BY <1>5, <1>6, <1>7 DEF RotationOK
<1>8. CASE Refused(r)
  <2>1. /\ pc'[r] = "done" /\ answer'[r].code # "OK"
        /\ Kind(r) \in {"refresh", "logout"} =>
              answer'[r].code \in {"VALIDATION_ERROR", "UNAUTHORIZED"}
    BY <1>8 DEF Refused, Reply, Goto, TypeOK, Answers
  <2>2. ~HasPair(r)'
    BY <2>1 DEF HasPair
  <2>3. Good(r)
    BY <2>1, <2>2
  <2> QED
    BY <1>6, <2>3 DEF RotationOK
<1>9. CASE Started(r)
  <2>1. answer' = answer /\ answer[r] = NoAnswer
    BY <1>9 DEF Started, ControlOK
  <2>2. ~HasPair(r)'
    BY <2>1 DEF HasPair, NoAnswer
  <2>3. Kind(r) \in {"refresh", "logout"} => Req[r].access \in Requests /\ Req[r].refresh \in Requests
    BY <1>9, ReqNames DEF Started, WellFormed, OfOneUser
  <2>4. Kind(r) = "refresh" => pc'[r] = "exists"
    BY <1>9 DEF Started, Goto, TypeOK, FirstLabel
  <2>5. Good(r)
    BY <2>2, <2>3, <2>4
  <2> QED
    BY <1>6, <2>5 DEF RotationOK
\* From here on r was at work.
<1>10. ASSUME pc[r] \notin {"idle", "done"}
       PROVE  /\ Kind(r) \in {"refresh", "logout"} =>
                    Req[r].access \in Requests /\ Req[r].refresh \in Requests
              /\ ~HasPair(r)
  <2>1. answer[r] = NoAnswer
    BY <1>10 DEF ControlOK
  <2> QED
    BY <1>10, <2>1 DEF RotationOK, NoAnswer, HasPair
<1>11. CASE pc[r] = "exists" /\ pc'[r] = "delete" /\ CheckToken(r)
  <2>1. TokenKey(r) \in store /\ answer' = answer
    BY <1>11 DEF CheckToken, TokenExists, Reply, CallFails, Goto, TypeOK
  <2>2. ~HasPair(r)'
    BY <1>10, <1>11, <2>1 DEF HasPair
  <2>3. HasPair(Req[r].refresh) /\ Sub(r)' = Sub(r)
        /\ answer'[Req[r].refresh] = answer[Req[r].refresh]
    BY <1>1, <1>10, <1>11 DEF ControlOK
  <2>4. Sub(r) = answer[Req[r].refresh].sub
    BY <2>1, <2>3 DEF KeysOK, TokenKey
  <2>5. Good(r)
    BY <1>10, <1>11, <2>2, <2>3, <2>4
  <2> QED
    BY <1>6, <2>5 DEF RotationOK
<1>12. CASE pc[r] = "delete" /\ pc'[r] = "store" /\ Kind(r) = "refresh" /\ DeleteToken(r)
  <2>1. store' = store \ {TokenKey(r)} /\ answer' = answer
    BY <1>12 DEF DeleteToken, DropToken
  <2>2. ~HasPair(r)'
    BY <1>10, <1>12, <2>1 DEF HasPair
  <2>3. Sub(r)' = Sub(r) /\ TokenKey(r)' = TokenKey(r)
        /\ answer'[Req[r].refresh] = answer[Req[r].refresh]
    BY <1>1, <1>10, <1>12
  <2>4. Sub(r) = answer[Req[r].refresh].sub
    BY <1>12 DEF RotationOK
  <2>5. Good(r)
    BY <1>10, <1>12, <2>1, <2>2, <2>3, <2>4
  <2> QED
    BY <1>6, <2>5 DEF RotationOK
<1>13. CASE pc[r] \notin {"idle", "done", "crashed"} /\ pc'[r] \in {"done", "crashed"}
  <2>1. ASSUME HasPair(r)', Kind(r) = "refresh"
        PROVE  Sub(r)' = answer'[Req[r].refresh].sub /\ answer'[r].sub = Sub(r)'
    <3>1. pc[r] = "store" /\ answer'[r].sub = user[r].id
      BY <1>10, <1>13, <2>1, NewPairs
    <3>2. user[r].id = Sub(r) /\ Sub(r) = answer[Req[r].refresh].sub
      BY <2>1, <3>1 DEF UserOK, RotationOK
    <3>3. Sub(r)' = Sub(r) /\ answer'[Req[r].refresh] = answer[Req[r].refresh]
      BY <1>1, <1>10, <2>1, <3>1
    <3> QED
      BY <3>1, <3>2, <3>3
  <2>2. Good(r)
    BY <1>10, <1>13, <2>1
  <2> QED
    BY <1>6, <2>2 DEF RotationOK
<1>14. CASE Kind(r) \notin {"refresh", "logout"}
  BY <1>6, <1>14 DEF RotationOK
<1>15. /\ Create(r) \/ InitWallet(r) \/ FindByEmail(r) \/ FindByID(r) =>
             Kind(r) \notin {"refresh", "logout"}
       /\ Kind(r) = "login" => Kind(r) \notin {"refresh", "logout"}
  BY DEF Create, InitWallet, FindByEmail, FindByID, ControlOK
<1> QED
  BY <1>7, <1>8, <1>9, <1>11, <1>12, <1>13, <1>14, <1>15, Moves

\* r has got as far as the DEL of the token of p.
Ended(p, q) ==
    /\ Kind(q) \in {"refresh", "logout"}
    /\ Req[q].refresh = p
    /\ Sub(q) = answer[p].sub
    /\ pc[q] \in {"store", "done", "crashed"}
    /\ answer[q].code \notin {"INVALID_TOKEN", "UNAUTHORIZED", "VALIDATION_ERROR"}

LEMMA EndedStays ==
    ASSUME Shape, RotationOK, NEW r \in Requests,
           Submit(r) \/ Step(r) \/ Crash(r) \/ ExpireToken(r),
           NEW p \in Requests, NEW q \in Requests, HasPair(p), Ended(p, q)
    PROVE  Ended(p, q)'
<1> USE DEF Shape
<1>1. pc[q] # "idle" /\ Req[q].access \in Requests
  BY DEF Ended, RotationOK
<1>2. Sub(q)' = Sub(q) /\ answer'[p] = answer[p]
  BY <1>1, PresentableStays DEF PresentedOK, Sub
<1>3. CASE pc'[q] = pc[q] /\ answer'[q] = answer[q]
  BY <1>2, <1>3 DEF Ended
<1>4. CASE q = r /\ pc[r] = "store"
  <2>1. Kind(r) = "refresh"
    BY <1>4 DEF Ended, ControlOK
  <2>2. /\ pc'[r] \in {"store", "done", "crashed"}
        /\ answer'[r].code \in {"NONE", "OK", "INTERNAL_ERROR"}
    BY <1>4, <2>1, StoreLeft
  <2> QED
    BY <1>2, <1>4, <2>2 DEF Ended
<1>5. q = r /\ pc[r] \in {"done", "crashed"} => pc' = pc /\ answer' = answer
  BY Moves DEF Refused, Started
<1> QED
  BY <1>3, <1>4, <1>5, AnswersStay DEF Ended

LEMMA EndsStay ==
    ASSUME Shape, KeysOK, RotationOK, LoginOK, SessionsEndByTheirOwnToken,
           NEW r \in Requests, Submit(r) \/ Step(r) \/ Crash(r) \/ ExpireToken(r)
    PROVE  LoginOK' /\ SessionsEndByTheirOwnToken'
<1> USE DEF Shape
<1>1. expired \subseteq expired'
  BY LabelTypeStays
\* A key that goes is that of a token whose time is over, or it was presented.
<1>2. ASSUME NEW u, NEW p \in Requests, <<u, p>> \in store, <<u, p>> \notin store'
      PROVE  p \in expired' \/ (HasPair(p) /\ Dropped(r) /\ TokenKey(r) = <<u, p>>)
  <2>1. CASE Dropped(r)
    <3>1. TokenKey(r) = <<u, p>> /\ Req[r].refresh = p
      BY <1>2, <2>1 DEF Dropped, DropToken, TokenKey
    <3>2. HasPair(p)
      BY <2>1, <3>1, NamesAssumption DEF Dropped, PresentedOK, Presentable
    <3> QED
      BY <2>1, <3>1, <3>2
  <2>2. CASE ExpireToken(r)
    BY <1>2, <2>2 DEF ExpireToken
  <2>3. CASE UNCHANGED store \/ Stored(r)
    BY <1>2, <2>3 DEF Stored
  <2> QED
    BY <2>1, <2>2, <2>3, StoreCases
<1>3. LoginOK'
  <2> SUFFICES ASSUME NEW p \in Requests, Kind(p) = "login", pc'[p] = "wallet"
               PROVE  <<user'[p].id, p>> \in store' \/ p \in expired'
    BY DEF LoginOK
  <2>1. CASE pc[p] = "wallet" /\ user'[p] = user[p]
    <3>1. ~HasPair(p)
      BY <2>1 DEF ControlOK, HasPair, NoAnswer
    <3> QED
      BY <1>1, <1>2, <2>1, <3>1 DEF LoginOK
  <2>2. CASE p = r /\ StoreToken(r)
    BY <2>2 DEF StoreToken
  <2>3. \/ pc[p] = "wallet" /\ user'[p] = user[p]
        \/ p = r /\ StoreToken(r)
    <3>1. p # r => pc[p] = "wallet" /\ user'[p] = user[p]
      BY AnswersStay
    <3>2. Refused(r) => pc'[r] = "done"
      BY DEF Refused, Reply, Goto, TypeOK
    <3>3. Started(r) => pc'[r] # "wallet"
      BY ReqNames DEF Started, Goto, TypeOK, FirstLabel, Kinds
    <3>4. Create(r) => Kind(r) = "register"
      BY DEF Create, ControlOK
    <3> QED
      BY <3>1, <3>2, <3>3, <3>4, Moves
  <2> QED
    BY <2>1, <2>2, <2>3
<1>4. SessionsEndByTheirOwnToken'
  <2> SUFFICES ASSUME NEW p \in Requests, HasPair(p)'
               PROVE  \/ <<answer'[p].sub, p>> \in store'
                      \/ p \in expired'
                      \/ \E q \in Requests : Ended(p, q)'
    BY DEF SessionsEndByTheirOwnToken, Ended
  <2>1. CASE HasPair(p)
    <3>1. answer'[p] = answer[p]
      BY <2>1, PresentableStays
    <3>2. \/ <<answer[p].sub, p>> \in store
          \/ p \in expired
          \/ \E q \in Requests : Ended(p, q)
      BY <2>1 DEF SessionsEndByTheirOwnToken, Ended
    <3>3. CASE \E q \in Requests : Ended(p, q)
      BY <2>1, <3>3, EndedStays
    <3>4. CASE Dropped(r) /\ TokenKey(r) = <<answer[p].sub, p>>
      <4>1. pc[r] = "delete" /\ Kind(r) \in {"refresh", "logout"}
        BY <3>4 DEF Dropped, ControlOK
      <4>2. Sub(r)' = Sub(r)
        BY <4>1, PresentableStays DEF PresentedOK, Sub
      <4>3. Sub(r) = answer[p].sub /\ Req[r].refresh = p
        BY <3>4 DEF TokenKey
      <4>4. pc'[r] \in {"store", "done"} /\ answer'[r].code \in {"NONE", "OK", "INTERNAL_ERROR"}
        BY <3>4 DEF Dropped
      <4>5. Ended(p, r)'
        BY <3>1, <4>1, <4>2, <4>3, <4>4 DEF Ended
      <4> QED
        BY <4>5
    <3> QED
      BY <1>1, <1>2, <3>1, <3>2, <3>3, <3>4
  <2>2. CASE ~HasPair(p)
    <3>1. p = r /\ answer'[r].sub = user[r].id
      BY <2>2, NewPairs
    <3>2. CASE pc[r] = "wallet" /\ Kind(r) = "login" /\ UNCHANGED store
      BY <1>1, <3>1, <3>2 DEF LoginOK
    <3>3. CASE Stored(r)
      BY <3>1, <3>3 DEF Stored
    <3> QED
      BY <2>2, <3>1, <3>2, <3>3, NewPairs
  <2> QED
    BY <2>1, <2>2
<1> QED
  BY <1>3, <1>4

SessionsOK == KeysOK /\ RotationOK /\ LoginOK /\ SessionsEndByTheirOwnToken

LEMMA SessionsInvariant == Spec => [](Shape /\ SessionsOK)
<1>1. Init => SessionsOK
  BY DEF Init, SessionsOK, KeysOK, RotationOK, LoginOK, SessionsEndByTheirOwnToken, HasPair,
         NoAnswer
<1>2. Shape /\ SessionsOK /\ [Next]_vars => SessionsOK'
  <2> SUFFICES ASSUME Shape, SessionsOK, [Next]_vars PROVE SessionsOK'
    OBVIOUS
  <2>1. CASE \E r \in Requests : Submit(r) \/ Step(r) \/ Crash(r) \/ ExpireToken(r)
    BY <2>1, KeysStay, RotationStays, EndsStay DEF SessionsOK
  <2>2. CASE (\E id \in Requests : UseWallet(id)) \/ Finished \/ UNCHANGED vars
    BY <2>2, Quiet DEF SessionsOK, KeysOK, RotationOK, LoginOK, SessionsEndByTheirOwnToken,
                       HasPair, Sub, TokenKey
  <2> QED
    BY <2>1, <2>2 DEF Next
<1> QED
  BY <1>1, <1>2, ShapeIsInvariant, PTL DEF Spec

\* A pair that RefreshToken hands out is of the user whose token was spent.
THEOREM SessionsOfTheirUser == Spec => []SessionsStayWithTheirUser
<1>1. SessionsOK => SessionsStayWithTheirUser
  BY DEF SessionsOK, RotationOK, SessionsStayWithTheirUser
<1> QED
  BY <1>1, SessionsInvariant, PTL

\* A refresh token leaves Redis by its own refresh, logout or TTL only.
THEOREM SessionsEndAlone == Spec => []SessionsEndByTheirOwnToken
<1>1. SessionsOK => SessionsEndByTheirOwnToken
  BY DEF SessionsOK
<1> QED
  BY <1>1, SessionsInvariant, PTL

-----------------------------------------------------------------------------
(* Users that are gone.                                                    *)

\* Who was told by the users table that its row is gone has a deleted row.
GoneOK ==
    \A q \in Requests :
        Kind(q) = "get" /\ answer[q].code = "NOT_FOUND" =>
            /\ Req[q].access \in Requests
            /\ pc[q] # "idle"
            /\ q \notin FaultyRequests /\ Req[q].target = Sub(q) =>
                  /\ Sub(q) \in Requests
                  /\ users[Sub(q)] # NoUser /\ users[Sub(q)].deleted

\* Only ReadUser answers NOT_FOUND.
LEMMA NotFound ==
    ASSUME Shape, NEW r \in Requests, Submit(r) \/ Step(r) \/ Crash(r) \/ ExpireToken(r)
    PROVE  Kind(r) = "get" /\ answer'[r].code = "NOT_FOUND" /\ answer[r].code # "NOT_FOUND" =>
              /\ pc[r] = "find" /\ UNCHANGED users
              /\ Req[r].target \notin Live \/ r \in FaultyRequests
<1> USE DEF Shape, TypeOK, ControlOK, NoAnswer, Goto, Reply, CallFails
<1>1. CASE Submit(r)
  BY <1>1, SubmitCases DEF Refused, Started
<1>2. CASE Create(r)
  BY <1>2 DEF Create
<1>3. CASE CreateFails(r)
  BY <1>3 DEF CreateFails
<1>4. CASE InitWallet(r)
  BY <1>4 DEF InitWallet
<1>5. CASE FindByEmail(r)
  BY <1>5 DEF FindByEmail
<1>6. CASE FindByID(r)
  BY <1>6 DEF FindByID
<1>7. CASE FindFails(r)
  BY <1>7 DEF FindFails
<1>8. CASE ReadBalance(r)
  BY <1>8, PairGranted DEF ReadBalance
<1>9. CASE ReadUser(r)
  BY <1>9 DEF ReadUser, Show
<1>10. CASE ReadUsers(r)
  BY <1>10 DEF ReadUsers, Show
<1>11. CASE StoreToken(r)
  BY <1>11, PairGranted DEF StoreToken
<1>12. CASE StoreTokenFails(r)
  BY <1>12 DEF StoreTokenFails
<1>13. CASE CheckToken(r)
  BY <1>13 DEF CheckToken
<1>14. CASE DeleteToken(r)
  BY <1>14 DEF DeleteToken
<1>15. CASE DeleteTokenFails(r)
  BY <1>15 DEF DeleteTokenFails
<1>16. CASE SaveUser(r)
  BY <1>16 DEF SaveUser
<1>17. CASE SaveUserFails(r)
  BY <1>17 DEF SaveUserFails
<1>18. CASE RemoveUser(r)
  BY <1>18 DEF RemoveUser
<1>19. CASE RemoveUserFails(r)
  BY <1>19 DEF RemoveUserFails
<1>20. CASE Crash(r)
  BY <1>20 DEF Crash
<1>21. CASE ExpireToken(r)
  BY <1>21 DEF ExpireToken
<1> QED
  BY <1>1, <1>2, <1>3, <1>4, <1>5, <1>6, <1>7, <1>8, <1>9, <1>10, <1>11, <1>12, <1>13, <1>14, <1>15, <1>16, <1>17, <1>18, <1>19, <1>20, <1>21 DEF Step

LEMMA PairShowsNobody ==
    ASSUME TypeOK, NEW r \in Requests, NEW u, NEW balance, GrantPair(r, u, balance)
    PROVE  answer'[r].shown = {}
<1> DEFINE pair == [NoAnswer EXCEPT !.code = "OK", !.sub = u.id, !.email = u.email,
                                    !.balance = balance]
<1>1. pair.shown = {}
  BY DEF NoAnswer
<1>2. answer' = [answer EXCEPT ![r] = pair]
  BY DEF GrantPair
<1> HIDE DEF pair
<1> QED
  BY <1>1, <1>2 DEF TypeOK

LEMMA ShownIds ==
    ASSUME TypeOK, NEW r \in Requests, NEW ids \in SUBSET Live, Show(r, ids)
    PROVE  \A seen \in answer'[r].shown : seen.id \in Live
<1> DEFINE shown == {[id |-> id, name |-> users[id].name, email |-> users[id].email] : id \in ids}
<1>1. answer'[r].shown = shown
  BY DEF Show, TypeOK, Answers
<1>2. \A seen \in shown : seen.id \in Live
  OBVIOUS
<1> QED
  BY <1>1, <1>2

\* A GET and a login see the rows that are not deleted.
LEMMA Seen ==
    ASSUME Shape, NEW r \in Requests, Submit(r) \/ Step(r) \/ Crash(r) \/ ExpireToken(r)
    PROVE  /\ \A seen \in answer'[r].shown \ answer[r].shown : seen.id \in Live
           /\ Kind(r) = "login" /\ user'[r] # user[r] => user'[r].id \in Live
<1> USE DEF Shape, TypeOK, ControlOK, NoAnswer, Goto, Reply, CallFails
<1>1. CASE Submit(r)
  BY <1>1, SubmitCases DEF Refused, Started
<1>2. CASE Create(r)
  BY <1>2 DEF Create
<1>3. CASE CreateFails(r)
  BY <1>3 DEF CreateFails
<1>4. CASE InitWallet(r)
  BY <1>4 DEF InitWallet
<1>5. CASE FindByEmail(r)
  BY <1>5 DEF FindByEmail
<1>6. CASE FindByID(r)
  BY <1>6 DEF FindByID
<1>7. CASE FindFails(r)
  BY <1>7 DEF FindFails
<1>8. CASE ReadBalance(r)
  BY <1>8, PairShowsNobody DEF ReadBalance
<1>9. CASE ReadUser(r)
  BY <1>9, ShownIds DEF ReadUser
<1>10. CASE ReadUsers(r)
  BY <1>10, ShownIds DEF ReadUsers
<1>11. CASE StoreToken(r)
  BY <1>11, PairShowsNobody DEF StoreToken
<1>12. CASE StoreTokenFails(r)
  BY <1>12 DEF StoreTokenFails
<1>13. CASE CheckToken(r)
  BY <1>13 DEF CheckToken
<1>14. CASE DeleteToken(r)
  BY <1>14 DEF DeleteToken
<1>15. CASE DeleteTokenFails(r)
  BY <1>15 DEF DeleteTokenFails
<1>16. CASE SaveUser(r)
  BY <1>16 DEF SaveUser
<1>17. CASE SaveUserFails(r)
  BY <1>17 DEF SaveUserFails
<1>18. CASE RemoveUser(r)
  BY <1>18 DEF RemoveUser
<1>19. CASE RemoveUserFails(r)
  BY <1>19 DEF RemoveUserFails
<1>20. CASE Crash(r)
  BY <1>20 DEF Crash
<1>21. CASE ExpireToken(r)
  BY <1>21 DEF ExpireToken
<1> QED
  BY <1>1, <1>2, <1>3, <1>4, <1>5, <1>6, <1>7, <1>8, <1>9, <1>10, <1>11, <1>12, <1>13, <1>14, <1>15, <1>16, <1>17, <1>18, <1>19, <1>20, <1>21 DEF Step

LEMMA GoneStays ==
    ASSUME Shape, GoneOK, NEW r \in Requests, Submit(r) \/ Step(r) \/ Crash(r) \/ ExpireToken(r)
    PROVE  GoneOK'
<1> USE DEF Shape
<1> SUFFICES ASSUME NEW q \in Requests, Kind(q) = "get", answer'[q].code = "NOT_FOUND"
             PROVE  /\ Req[q].access \in Requests
                    /\ pc'[q] # "idle"
                    /\ q \notin FaultyRequests /\ Req[q].target = Sub(q)' =>
                          /\ Sub(q)' \in Requests
                          /\ users'[Sub(q)'] # NoUser /\ users'[Sub(q)'].deleted
  BY DEF GoneOK
<1>1. CASE answer[q].code = "NOT_FOUND"
  <2>1. answer[q] # NoAnswer
    BY <1>1 DEF NoAnswer
  <2>2. pc'[q] = pc[q]
    BY <2>1, AnswersStay
  <2>3. Req[q].access \in Requests /\ pc[q] # "idle"
    BY <1>1 DEF GoneOK
  <2>4. Sub(q)' = Sub(q)
    BY <2>3, PresentableStays DEF PresentedOK, Sub
  <2> QED
    BY <1>1, <2>2, <2>3, <2>4, RowFacts DEF GoneOK
<1>2. CASE answer[q].code # "NOT_FOUND"
  <2>1. q = r
    BY <1>2, AnswersStay
  <2>2. /\ pc[r] = "find" /\ UNCHANGED users
        /\ Req[r].target \notin Live \/ r \in FaultyRequests
    BY <1>2, <2>1, NotFound
  <2>3. Req[r].access \in Requests /\ Presentable(r)
    BY <2>1, <2>2 DEF PresentedOK, OfOneUser
  <2>4. Sub(r)' = Sub(r)
    BY <2>3, PresentableStays DEF Sub
  <2>5. Sub(r) \in Requests /\ users[Sub(r)] # NoUser
    BY <2>3, NamesAssumption DEF Presentable, RowsOK, Sub
  <2>6. pc'[r] # "idle"
    BY <2>2, Moves DEF Refused, Started
  <2> QED
    BY <2>1, <2>2, <2>3, <2>4, <2>5, <2>6 DEF Live
<1> QED
  BY <1>1, <1>2

LEMMA GoneInvariant == Spec => [](Shape /\ GoneOK)
<1>1. Init => GoneOK
  BY DEF Init, GoneOK, NoAnswer
<1>2. Shape /\ GoneOK /\ [Next]_vars => GoneOK'
  <2> SUFFICES ASSUME Shape, GoneOK, [Next]_vars PROVE GoneOK'
    OBVIOUS
  <2>1. CASE \E r \in Requests : Submit(r) \/ Step(r) \/ Crash(r) \/ ExpireToken(r)
    BY <2>1, GoneStays
  <2>2. CASE (\E id \in Requests : UseWallet(id)) \/ Finished \/ UNCHANGED vars
    BY <2>2, Quiet DEF GoneOK, Sub
  <2> QED
    BY <2>1, <2>2 DEF Next
<1> QED
  BY <1>1, <1>2, ShapeIsInvariant, PTL DEF Spec

\* Nobody sees a user again, or logs in as it, once it was told that it is gone.
THEOREM GoneForGood == Spec => GoneUsersStayGone
<1> DEFINE Gone == \A q, r \in Requests :
          /\ Kind(q) = "get" /\ answer[q].code = "NOT_FOUND" /\ q \notin FaultyRequests
          /\ Req[q].target = Sub(q)
          => /\ \A seen \in answer'[r].shown \ answer[r].shown : seen.id # Sub(q)
             /\ Kind(r) = "login" /\ user'[r] # user[r] => user'[r].id # Sub(q)
<1>1. Shape /\ GoneOK /\ [Next]_vars => [Gone]_vars
  <2> SUFFICES ASSUME Shape, GoneOK, [Next]_vars PROVE Gone
    OBVIOUS
  <2>1. ASSUME NEW s \in Requests, Submit(s) \/ Step(s) \/ Crash(s) \/ ExpireToken(s)
        PROVE  Gone
    <3>1. \A q \in Requests :
             /\ Kind(q) = "get" /\ answer[q].code = "NOT_FOUND" /\ q \notin FaultyRequests
             /\ Req[q].target = Sub(q)
             => Sub(q) \notin Live
      BY DEF GoneOK, Live
    <3>2. /\ \A seen \in answer'[s].shown \ answer[s].shown : seen.id \in Live
          /\ Kind(s) = "login" /\ user'[s] # user[s] => user'[s].id \in Live
      BY <2>1, Seen
    <3>3. \A r \in Requests \ {s} : answer'[r] = answer[r] /\ user'[r] = user[r]
      BY <2>1, AnswersStay DEF Shape
    <3> QED
      BY <3>1, <3>2, <3>3
  <2>2. CASE (\E id \in Requests : UseWallet(id)) \/ Finished \/ UNCHANGED vars
    BY <2>2, Quiet
  <2> QED
    BY <2>1, <2>2 DEF Next
<1> QED
  BY <1>1, GoneInvariant, PTL DEF Spec, GoneUsersStayGone, Kind, Sub

-----------------------------------------------------------------------------
(* Edits.                                                                  *)

\* What r wrote to column f of the row it worked on, from then on.
Settled(r, f) ==
    /\ user[r] # NoUser
    /\ \/ Kind(r) = "register"
       \/ Kind(r) = "patch" /\ answer[r].code = "OK" /\ Req[r][f] # Absent

Overwritten(r, f) ==
    \E q \in Requests \ {r} :
        /\ Kind(q) = "patch"
        /\ pc[q] \in {"done", "crashed"}
        /\ user[q] # NoUser
        /\ user[q].id = user[r].id
        /\ user[q][f] = users[user[r].id][f]

WritersOK ==
    \A r \in Requests :
        /\ user[r] # NoUser /\ Kind(r) \in {"register", "patch"} =>
              /\ users[user[r].id] # NoUser
              /\ pc[r] \notin {"idle", "create", "find"}
        /\ user[r] # NoUser /\ Kind(r) = "register" => user[r].id = r
        /\ pc[r] = "save" => \A f \in Fields : Req[r][f] # Absent => user[r][f] = Req[r][f]
        /\ Kind(r) = "patch" /\ answer[r].code = "OK" => user[r] # NoUser
        /\ Kind(r) = "register" /\ HasPair(r) => user[r] # NoUser

ColumnsOK ==
    \A r \in Requests : \A f \in Fields :
        Settled(r, f) => users[user[r].id][f] = Req[r][f] \/ Overwritten(r, f)

\* Who takes up a user, and who has it written.
LEMMA Writers ==
    ASSUME Shape, NEW r \in Requests, Submit(r) \/ Step(r) \/ Crash(r) \/ ExpireToken(r)
    PROVE  /\ Kind(r) = "register" /\ user'[r] # user[r] =>
                 pc[r] = "create" /\ pc'[r] = "wallet" /\ user'[r] = NewUser(r) /\ InsertUser(r)
           /\ Kind(r) = "patch" /\ user'[r] # user[r] =>
                 /\ pc[r] = "find" /\ pc'[r] = "save"
                 /\ user'[r] = Merged(r, users[Req[r].target])
           /\ Kind(r) = "patch" /\ answer'[r].code = "OK" /\ answer[r].code # "OK" => Written(r)
           /\ pc[r] = "save" /\ users' # users => pc'[r] = "done"
           /\ pc'[r] = "save" => FindByID(r) \/ (pc[r] = "save" /\ user'[r] = user[r])
<1> USE DEF Shape, TypeOK, ControlOK, NoAnswer, Goto, Reply, CallFails
<1>1. CASE Submit(r)
  BY <1>1, SubmitCases, ReqNames DEF Refused, Started, FirstLabel, Kinds
<1>2. CASE Create(r)
  BY <1>2 DEF Create
<1>3. CASE CreateFails(r)
  BY <1>3 DEF CreateFails
<1>4. CASE InitWallet(r)
  BY <1>4 DEF InitWallet
<1>5. CASE FindByEmail(r)
  BY <1>5 DEF FindByEmail
<1>6. CASE FindByID(r)
  BY <1>6 DEF FindByID
<1>7. CASE FindFails(r)
  BY <1>7 DEF FindFails
<1>8. CASE ReadBalance(r)
  BY <1>8, PairGranted DEF ReadBalance
<1>9. CASE ReadUser(r)
  BY <1>9 DEF ReadUser, Show
<1>10. CASE ReadUsers(r)
  BY <1>10 DEF ReadUsers, Show
<1>11. CASE StoreToken(r)
  BY <1>11, PairGranted DEF StoreToken
<1>12. CASE StoreTokenFails(r)
  BY <1>12 DEF StoreTokenFails
<1>13. CASE CheckToken(r)
  BY <1>13 DEF CheckToken
<1>14. CASE DeleteToken(r)
  BY <1>14 DEF DeleteToken
<1>15. CASE DeleteTokenFails(r)
  BY <1>15 DEF DeleteTokenFails
<1>16. CASE SaveUser(r)
  BY <1>16 DEF SaveUser, Written
<1>17. CASE SaveUserFails(r)
  BY <1>17 DEF SaveUserFails
<1>18. CASE RemoveUser(r)
  BY <1>18 DEF RemoveUser
<1>19. CASE RemoveUserFails(r)
  BY <1>19 DEF RemoveUserFails
<1>20. CASE Crash(r)
  BY <1>20 DEF Crash
<1>21. CASE ExpireToken(r)
  BY <1>21 DEF ExpireToken
<1> QED
  BY <1>1, <1>2, <1>3, <1>4, <1>5, <1>6, <1>7, <1>8, <1>9, <1>10, <1>11, <1>12, <1>13, <1>14, <1>15, <1>16, <1>17, <1>18, <1>19, <1>20, <1>21 DEF Step

LEMMA WritersStay ==
    ASSUME Shape, WritersOK, NEW r \in Requests, Submit(r) \/ Step(r) \/ Crash(r) \/ ExpireToken(r)
    PROVE  WritersOK'
<1> USE DEF Shape
<1>1. \A q \in Requests : pc[q] \notin {"idle", "create", "find"} =>
                          pc'[q] \notin {"idle", "create", "find"}
  <2>1. pc[r] \notin {"idle", "create", "find"} => pc'[r] \notin {"idle", "create", "find"}
    BY Moves DEF Refused, Started
  <2> QED
    BY <2>1, AnswersStay
<1>2. \A q \in Requests : users[q] # NoUser => users'[q] # NoUser
  BY RowFacts
<1>3. UserOK'
  BY UserStays
<1> SUFFICES ASSUME NEW q \in Requests
             PROVE  /\ user'[q] # NoUser /\ Kind(q) \in {"register", "patch"} =>
                          /\ users'[user'[q].id] # NoUser
                          /\ pc'[q] \notin {"idle", "create", "find"}
                    /\ user'[q] # NoUser /\ Kind(q) = "register" => user'[q].id = q
                    /\ pc'[q] = "save" =>
                          \A f \in Fields : Req[q][f] # Absent => user'[q][f] = Req[q][f]
                    /\ Kind(q) = "patch" /\ answer'[q].code = "OK" => user'[q] # NoUser
                    /\ Kind(q) = "register" /\ HasPair(q)' => user'[q] # NoUser
  BY DEF WritersOK
<1>4. q # r => pc'[q] = pc[q] /\ user'[q] = user[q] /\ answer'[q] = answer[q]
  BY AnswersStay
<1>5. CASE user'[q] = user[q]
  <2>1. user[q] # NoUser => user[q].id \in Requests
    BY DEF TypeOK, Users
  <2>2. pc'[q] = "save" => pc[q] = "save" \/ FindByID(q)
    BY <1>4, Writers
  <2>3. Kind(q) = "patch" /\ answer'[q].code = "OK" /\ answer[q].code # "OK" => user[q] # NoUser
    <3>1. Written(q) => user[q] # NoUser
      BY NamesAssumption DEF Written, UserOK
    <3> QED
      BY <1>4, <3>1, Writers
  <2>4. Kind(q) = "register" /\ HasPair(q)' /\ ~HasPair(q) => user[q] # NoUser
    BY NewPairs, NamesAssumption DEF UserOK
  <2>5. FindByID(q) /\ pc'[q] = "save" =>
           \A f \in Fields : Req[q][f] # Absent => user'[q][f] = Req[q][f]
    <3>1. FindByID(q) /\ pc'[q] = "save" => user'[q] = Merged(q, users[Req[q].target])
      BY DEF FindByID, Reply, Goto, TypeOK
    <3>2. \A f \in Fields : Req[q][f] # Absent =>
             Merged(q, users[Req[q].target])[f] = Req[q][f]
      BY DEF Fields, Merged
    <3> QED
      BY <3>1, <3>2
  <2>6. /\ user'[q] # NoUser /\ Kind(q) \in {"register", "patch"} =>
              users'[user'[q].id] # NoUser /\ pc'[q] \notin {"idle", "create", "find"}
        /\ user'[q] # NoUser /\ Kind(q) = "register" => user'[q].id = q
    BY <1>1, <1>2, <1>5, <2>1 DEF WritersOK
  <2>7. pc'[q] = "save" => \A f \in Fields : Req[q][f] # Absent => user'[q][f] = Req[q][f]
    BY <1>5, <2>2, <2>5 DEF WritersOK
  <2> QED
    BY <1>5, <2>3, <2>4, <2>6, <2>7 DEF WritersOK
<1>6. CASE user'[q] # user[q]
  <2>1. q = r
    BY <1>4, <1>6
  <2>2. CASE Kind(q) = "register"
    <3>1. pc'[r] = "wallet"
      BY <1>6, <2>1, <2>2, Writers
    <3> QED
      BY <1>3, <2>1, <2>2, <3>1, NamesAssumption DEF UserOK
  <2>3. CASE Kind(q) = "patch"
    <3>1. pc'[r] = "save" /\ user'[r] = Merged(r, users[Req[r].target])
      BY <1>6, <2>1, <2>3, Writers
    <3>2. \A f \in Fields : Req[r][f] # Absent =>
             Merged(r, users[Req[r].target])[f] = Req[r][f]
      BY DEF Fields, Merged
    <3>3. user'[r] \in Users /\ users'[user'[r].id] # NoUser
      BY <1>3, <3>1 DEF UserOK
    <3> QED
      BY <2>1, <2>3, <3>1, <3>2, <3>3, NamesAssumption
  <2>4. pc'[r] = "save" => Kind(r) = "patch"
    BY ControlStays DEF ControlOK
  <2> QED
    BY <2>1, <2>2, <2>3, <2>4
<1> QED
  BY <1>5, <1>6

LEMMA ColumnsStay ==
    ASSUME Shape, WritersOK, ColumnsOK,
           NEW r \in Requests, Submit(r) \/ Step(r) \/ Crash(r) \/ ExpireToken(r)
    PROVE  ColumnsOK'
<1> USE DEF Shape
<1>1. users \in [Requests -> Rows \cup {NoUser}] /\ NoUser \notin Rows
  BY NamesAssumption DEF TypeOK
<1>2. \A q \in Requests \ {r} : pc'[q] = pc[q] /\ user'[q] = user[q] /\ answer'[q] = answer[q]
  BY AnswersStay
\* r has written its user, all the columns of it.
<1>3. ASSUME Written(r)
      PROVE  /\ user[r].id \in Requests
             /\ \A f \in Fields : users'[user[r].id][f] = user[r][f]
             /\ \A id \in Requests \ {user[r].id} : users'[id] = users[id]
  <2> DEFINE id == user[r].id
             new == [Row(user[r]) EXCEPT !.deleted = users[id].deleted]
  <2>1. id \in Requests /\ users' = [users EXCEPT ![id] = new]
    BY <1>3 DEF Written, Updatable, Live, WriteUser
  <2>2. \A f \in Fields : new[f] = user[r][f]
    BY DEF Row, Fields
  <2> HIDE DEF id, new
  <2>3. users'[id] = new /\ \A i \in Requests \ {id} : users'[i] = users[i]
    BY <1>1, <2>1
  <2> QED
    BY <2>1, <2>2, <2>3 DEF id
<1> SUFFICES ASSUME NEW p \in Requests, NEW f \in Fields, Settled(p, f)'
             PROVE  users'[user'[p].id][f] = Req[p][f] \/ Overwritten(p, f)'
  BY DEF ColumnsOK
<1>4. CASE Settled(p, f)
  <2> DEFINE id == user[p].id
  <2>1. /\ user[p] # NoUser /\ Kind(p) \in {"register", "patch"}
        /\ id \in Requests /\ users[id] # NoUser
    BY <1>4 DEF Settled, WritersOK, TypeOK, Users
  <2>2. user'[p] = user[p]
    BY <1>2, <2>1, Writers DEF WritersOK
  <2>3. users[id][f] = Req[p][f] \/ Overwritten(p, f)
    BY <1>4 DEF ColumnsOK
  <2>4. CASE users'[id][f] = users[id][f]
    <3>1. Overwritten(p, f) => Overwritten(p, f)'
      <4>1. \A q \in Requests : pc[q] \in {"done", "crashed"} =>
               pc'[q] = pc[q] /\ user'[q] = user[q]
        <5>1. pc[r] \in {"done", "crashed"} => pc' = pc /\ user' = user
          BY Moves DEF Refused, Started
        <5> QED
          BY <1>2, <5>1
      <4> QED
        BY <2>2, <2>4, <4>1 DEF Overwritten
    <3> QED
      BY <2>2, <2>3, <2>4, <3>1
  <2>5. CASE Written(r) /\ user[r].id = id /\ users' # users
    <3>1. users'[id][f] = user[r][f]
      BY <1>3, <2>5
    <3>2. pc[r] = "save" /\ Kind(r) = "patch" /\ pc'[r] = "done" /\ user[r] # NoUser
      BY <2>5, Writers, NamesAssumption DEF Written, ControlOK, UserOK
    <3>3. user'[r] = user[r]
      BY <3>2, Writers
    <3>4. p # r
      BY <1>4, <3>2 DEF Settled, ControlOK, NoAnswer
    <3>5. Overwritten(p, f)'
      BY <2>2, <2>5, <3>1, <3>2, <3>3, <3>4 DEF Overwritten
    <3> QED
      BY <3>5
  <2>6. CASE Inserted(r)
    <3>1. users[r] = NoUser
      BY <2>6 DEF Inserted, RowsOK
    <3>2. users'[id] = users[id]
      BY <1>1, <2>1, <2>6, <3>1 DEF Inserted, InsertUser
    <3> QED
      BY <2>4, <3>2
  <2>7. CASE Removed(r)
    <3> DEFINE gone == Req[r].target
    <3>1. users' = [users EXCEPT ![gone].deleted = TRUE]
      BY <2>7 DEF Removed, SoftDelete
    <3>2. gone \in Requests /\ users[gone] \in Rows
      BY <1>1, <2>7, NamesAssumption DEF Removed, PresentedOK, Presentable, RowsOK, Sub
    <3>3. \A row \in Rows : [row EXCEPT !.deleted = TRUE][f] = row[f]
      BY DEF Rows, Fields
    <3> HIDE DEF gone, id
    <3>4. users'[id][f] = users[id][f]
      BY <1>1, <2>1, <3>1, <3>2, <3>3
    <3> QED
      BY <2>4, <3>4
  <2>8. CASE Written(r) /\ user[r].id # id
    BY <1>3, <2>1, <2>4, <2>8
  <2> QED
    BY <2>4, <2>5, <2>6, <2>7, <2>8, RowCases
<1>5. CASE ~Settled(p, f)
  <2>1. p = r
    BY <1>2, <1>5 DEF Settled
  <2>2. CASE Kind(p) = "register"
    <3>1. user'[r] # user[r]
      BY <1>5, <2>1, <2>2 DEF Settled
    <3>2. pc[r] = "create" /\ user'[r] = NewUser(r) /\ InsertUser(r)
      BY <2>1, <2>2, <3>1, Writers
    <3>3. users'[r] = Row(NewUser(r)) /\ NewUser(r).id = r
      BY <1>1, <3>2 DEF InsertUser, NewUser
    <3>4. NewUser(r)[f] = Req[r][f]
      BY DEF NewUser, Fields
    <3>5. Row(NewUser(r))[f] = NewUser(r)[f]
      BY DEF Row, Fields
    <3> QED
      BY <2>1, <3>2, <3>3, <3>4, <3>5
  <2>3. CASE Kind(p) = "patch"
    <3>1. answer'[r].code = "OK" /\ Req[r][f] # Absent
      BY <2>1, <2>3 DEF Settled
    <3>2. answer[r].code # "OK"
      BY <1>5, <2>1, <2>3, <3>1 DEF Settled, WritersOK
    <3>3. Written(r) /\ pc[r] = "save"
      BY <2>1, <2>3, <3>1, <3>2, Writers DEF Written
    <3>4. user'[r] = user[r] /\ user[r][f] = Req[r][f]
      BY <2>1, <2>3, <3>1, <3>3, Writers DEF WritersOK
    <3> QED
      BY <1>3, <2>1, <3>3, <3>4
  <2> QED
    BY <2>2, <2>3 DEF Settled
<1> QED
  BY <1>4, <1>5

LEMMA EditsInvariant == Spec => [](Shape /\ WritersOK /\ ColumnsOK)
<1>1. Init => WritersOK /\ ColumnsOK
  BY DEF Init, WritersOK, ColumnsOK, Settled, HasPair, NoAnswer
<1>2. Shape /\ WritersOK /\ ColumnsOK /\ [Next]_vars => WritersOK' /\ ColumnsOK'
  <2> SUFFICES ASSUME Shape, WritersOK, ColumnsOK, [Next]_vars
               PROVE  WritersOK' /\ ColumnsOK'
    OBVIOUS
  <2>1. CASE \E r \in Requests : Submit(r) \/ Step(r) \/ Crash(r) \/ ExpireToken(r)
    BY <2>1, WritersStay, ColumnsStay
  <2>2. CASE (\E id \in Requests : UseWallet(id)) \/ Finished \/ UNCHANGED vars
    BY <2>2, Quiet DEF WritersOK, ColumnsOK, Settled, Overwritten, HasPair
  <2> QED
    BY <2>1, <2>2 DEF Next
<1> QED
  BY <1>1, <1>2, ShapeIsInvariant, PTL DEF Spec

\* What a registration or a PATCH was told to have written is there, or another
\* PATCH of the same user wrote what is.
THEOREM EditsLostToEdits == Spec => []EditsAreOnlyLostToEdits
<1>1. WritersOK /\ ColumnsOK => EditsAreOnlyLostToEdits
  BY DEF WritersOK, ColumnsOK, EditsAreOnlyLostToEdits, Settled, Overwritten
<1> QED
  BY <1>1, EditsInvariant, PTL
=============================================================================
