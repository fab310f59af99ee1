------------------------- MODULE UserSessionsProofs -------------------------
(***************************************************************************)
(* ms-users implements Sessions, for every set of requests: each of its    *)
(* steps is a step of the sessions in Redis, or changes none of them.      *)
(***************************************************************************)
EXTENDS UserServiceProofs

\* The session of a request, by its kind and its place in the handler.
SessionFacts(r) ==
    /\ HasPair(r) => SessionOf(r) = S!Given(answer[r].sub)
    /\ ~Opens(r) => SessionOf(r) = S!Nothing
    /\ Opens(r) /\ ~HasPair(r) =>
          /\ pc[r] \in {"done", "crashed"} => SessionOf(r) = S!Over
          /\ pc[r] \in {"idle", "create", "find", "exists"} => SessionOf(r) = S!Nothing
          /\ Kind(r) = "login" /\ pc[r] = "wallet" => SessionOf(r) = S!Opened(user[r].id)
          /\ Kind(r) = "refresh" /\ pc[r] \in {"delete", "store"} =>
                SessionOf(r) = S!Shown(Sub(r), TokenKey(r))
          /\ Kind(r) = "register" /\ pc[r] \in {"wallet", "store"} =>
                SessionOf(r) = S!Shown(user[r].id, Absent)
          /\ Kind(r) = "login" /\ pc[r] = "store" =>
                SessionOf(r) = S!Shown(user[r].id, Absent)

LEMMA SessionValues ==
    ASSUME NEW r \in Requests
    PROVE  SessionFacts(r)
<1> USE DEF S!Given, S!Nothing, S!Over, S!Opened, S!Shown, SessionOf
<1>1. CASE HasPair(r)
  <2>1. SessionOf(r) = S!Given(answer[r].sub)
    BY <1>1
  <2>2. Opens(r)
    BY <1>1 DEF HasPair
  <2> HIDE DEF SessionOf
  <2> QED
    BY <1>1, <2>1, <2>2 DEF SessionFacts
<1>2. CASE ~Opens(r)
  <2>1. ~HasPair(r)
    BY <1>2 DEF HasPair
  <2>2. SessionOf(r) = S!Nothing
    BY <1>2, <2>1 DEF Opens
  <2> HIDE DEF SessionOf
  <2> QED
    BY <1>2, <2>1, <2>2 DEF SessionFacts
<1>3. CASE Opens(r) /\ ~HasPair(r)
  BY <1>3 DEF SessionFacts, Opens
<1> QED
  BY <1>1, <1>2, <1>3

LEMMA SessionValuesPrimed ==
    ASSUME NEW r \in Requests
    PROVE  SessionFacts(r)'
<1>1. SessionFacts(r)
  BY SessionValues
<1> QED
  BY <1>1, PTL

\* The session of a request that does not move stays.
LEMMA StillSessions ==
    ASSUME Shape, NEW r \in Requests, Submit(r) \/ Step(r) \/ Crash(r) \/ ExpireToken(r),
           NEW q \in Requests, pc'[q] = pc[q], answer'[q] = answer[q], user'[q] = user[q]
    PROVE  SessionOf(q)' = SessionOf(q)
<1>1. HasPair(q)' <=> HasPair(q)
  BY DEF HasPair, Opens
<1>2. Kind(q) = "refresh" /\ pc[q] \in {"delete", "store"} =>
         Sub(q)' = Sub(q) /\ TokenKey(q)' = TokenKey(q)
  <2>1. Kind(q) = "refresh" /\ pc[q] \in {"delete", "store"} => Sub(q)' = Sub(q)
    BY PresentableStays DEF Shape, PresentedOK, Sub
  <2> QED
    BY <2>1 DEF TokenKey
<1>3. Opens(q)' <=> Opens(q)
  BY DEF Opens
<1>4. CASE HasPair(q)
  <2>1. SessionOf(q) = S!Given(answer[q].sub)
    BY <1>4, SessionValues DEF SessionFacts
  <2>2. SessionOf(q)' = S!Given(answer[q].sub)
    BY <1>1, <1>4, SessionValuesPrimed DEF SessionFacts, S!Given
  <2> QED
    BY <2>1, <2>2
<1>5. CASE ~HasPair(q) /\ ~Opens(q)
  BY <1>5, SessionValues, SessionValuesPrimed, <1>3 DEF SessionFacts, S!Nothing
<1>6. CASE ~HasPair(q) /\ Opens(q)
  <2>1. CASE pc[q] \in {"done", "crashed"}
    BY <1>1, <1>3, <1>6, <2>1, SessionValues, SessionValuesPrimed DEF SessionFacts, S!Over
  <2>2. CASE pc[q] \in {"idle", "create", "find", "exists"}
    BY <1>1, <1>3, <1>6, <2>2, SessionValues, SessionValuesPrimed DEF SessionFacts, S!Nothing
  <2>3. CASE pc[q] \in {"wallet", "delete", "store"}
    BY <1>1, <1>2, <1>3, <1>6, <2>3, SessionValues, SessionValuesPrimed
       DEF SessionFacts, S!Opened, S!Shown, Opens, Shape, ControlOK
  <2> QED
    BY <1>6, <2>1, <2>2, <2>3 DEF Shape, TypeOK, Labels, ControlOK, Opens
<1> QED
  BY <1>4, <1>5, <1>6

-----------------------------------------------------------------------------
(* Every step of ms-users is one of the sessions, or a stutter.            *)

LEMMA RequestSteps ==
    ASSUME Shape, SessionsOK, Shape',
           NEW r \in Requests, Submit(r) \/ Step(r) \/ Crash(r) \/ ExpireToken(r)
    PROVE  S!SessionsNext \/ UNCHANGED S!sessionVars
<1> USE DEF Shape
<1> DEFINE now == SessionOf(r)
           next == SessionOf(r)'
<1>1. \A q \in Requests \ {r} : SessionOf(q)' = SessionOf(q)
  BY AnswersStay, StillSessions
<1>2. \A x : next = x => S!Become(r, x)
  BY <1>1 DEF S!Become, Session
<1>3. Session[r] = now /\ (next = now => Session' = Session)
  BY <1>1 DEF Session
<1>4. SessionFacts(r) /\ SessionFacts(r)'
  BY SessionValues, SessionValuesPrimed
<1>5. Opens(r)' <=> Opens(r)
  BY DEF Opens
<1>6. pc[r] # "done" => ~HasPair(r)
  BY DEF ControlOK, HasPair, NoAnswer
<1> HIDE DEF now, next
\* The sessions stay, and a token goes or none.
<1>7. ASSUME next = now, store' = store \/ \E key \in store : store' = store \ {key}
      PROVE  S!SessionsNext \/ UNCHANGED S!sessionVars
  BY <1>3, <1>7 DEF S!SessionsNext, S!End, S!sessionVars
<1>8. CASE pc' = pc /\ answer' = answer /\ user' = user
  <2>1. next = now
    BY <1>8, StillSessions DEF next, now
  <2>2. ~Stored(r) /\ ~Dropped(r)
    BY <1>8 DEF Stored, Dropped
  <2>3. UNCHANGED store \/ \E key \in store : store' = store \ {key}
    BY <2>2, StoreCases DEF ExpireToken
  <2> QED
    BY <1>7, <2>1, <2>3
<1>9. CASE ~Opens(r)
  <2>1. next = now
    BY <1>4, <1>5, <1>9 DEF SessionFacts, next, now, S!Nothing
  <2>2. ~Stored(r)
    BY <1>9 DEF Stored, ControlOK, Opens
  <2>3. UNCHANGED store \/ \E key \in store : store' = store \ {key}
    BY <2>2, StoreCases DEF ExpireToken, Dropped, DropToken
  <2> QED
    BY <1>7, <2>1, <2>3
\* What r goes through until it is answered, if it opens a session.
<1>10. CASE Refused(r) /\ Opens(r)
  <2>1. pc[r] = "idle" /\ pc'[r] = "done" /\ answer'[r].code # "OK"
    BY <1>10 DEF Refused, Reply, Goto, TypeOK, Answers
  <2>2. now = S!Nothing /\ next = S!Over
    BY <1>4, <1>5, <1>6, <1>10, <2>1 DEF SessionFacts, HasPair, now, next, S!Over
  <2>3. UNCHANGED store
    BY <2>1, StoreCases DEF Stored, Dropped, ExpireToken
  <2>4. S!GiveUp(r)
    BY <1>2, <1>3, <2>2, <2>3 DEF S!GiveUp, S!Nothing
  <2> QED
    BY <2>4 DEF S!SessionsNext
<1>11. CASE Started(r) /\ Opens(r) /\ UNCHANGED <<user, users, store>>
  <2>1. /\ pc[r] = "idle" /\ pc'[r] \in {"create", "find", "exists"}
        /\ answer' = answer
    BY <1>11 DEF Started, Goto, TypeOK, FirstLabel, Opens
  <2>2. now = S!Nothing /\ next = S!Nothing
    BY <1>4, <1>5, <1>6, <1>11, <2>1 DEF SessionFacts, HasPair, now, next, S!Nothing
  <2> QED
    BY <1>7, <1>11, <2>2
<1>12. ASSUME NEW u \in Requests, now = S!Nothing, next = S!Shown(u, Absent),
              Req[r].refresh = Absent, UNCHANGED store
       PROVE  S!SessionsNext
  <2>1. S!Authenticate(r)
    BY <1>2, <1>3, <1>12 DEF S!Authenticate
  <2> QED
    BY <2>1 DEF S!SessionsNext
<1>13. CASE pc[r] = "create" /\ pc'[r] = "wallet" /\ Create(r)
  <2>1. /\ UNCHANGED store /\ Kind(r) = "register" /\ answer' = answer
        /\ user' = [user EXCEPT ![r] = NewUser(r)]
    BY <1>13 DEF Create, ControlOK, Reply, Goto, TypeOK
  <2>2. user'[r].id = r
    BY <2>1 DEF TypeOK, NewUser
  <2>3. ~HasPair(r) /\ ~HasPair(r)' /\ Opens(r)
    BY <1>6, <1>13, <2>1 DEF HasPair, Opens
  <2>4. now = S!Nothing /\ next = S!Shown(r, Absent)
    BY <1>4, <1>5, <1>13, <2>1, <2>2, <2>3 DEF SessionFacts, now, next, S!Shown
  <2>5. Req[r].refresh = Absent
    BY <2>1, ReqAssumption DEF Kind
  <2> QED
    BY <1>12, <2>1, <2>4, <2>5
<1>14. CASE pc[r] = "wallet" /\ pc'[r] = "store" /\ InitWallet(r)
  <2>1. /\ UNCHANGED store /\ Kind(r) = "register" /\ answer' = answer /\ user' = user
    BY <1>14 DEF InitWallet
  <2>2. ~HasPair(r) /\ ~HasPair(r)' /\ Opens(r)
    BY <1>6, <1>14, <2>1 DEF HasPair, Opens
  <2>3. next = now
    BY <1>4, <1>5, <1>14, <2>1, <2>2 DEF SessionFacts, now, next, S!Shown
  <2> QED
    BY <1>7, <2>1, <2>3
<1>15. CASE pc[r] = "find" /\ pc'[r] = "store" /\ FindByEmail(r)
  <2>1. /\ UNCHANGED store /\ Kind(r) = "login" /\ answer' = answer
    BY <1>15 DEF FindByEmail, Reply, Goto, TypeOK
  <2>2. user'[r].id \in Requests
    BY <1>15 DEF UserOK, Users
  <2>3. ~HasPair(r) /\ ~HasPair(r)' /\ Opens(r)
    BY <1>6, <1>15, <2>1 DEF HasPair, Opens
  <2>4. now = S!Nothing /\ next = S!Shown(user'[r].id, Absent)
    BY <1>4, <1>5, <1>15, <2>1, <2>3 DEF SessionFacts, now, next, S!Shown
  <2>5. Req[r].refresh = Absent
    BY <2>1, ReqAssumption DEF Kind
  <2> QED
    BY <1>12, <2>1, <2>2, <2>4, <2>5
<1>16. CASE pc[r] = "exists" /\ pc'[r] = "delete" /\ CheckToken(r)
  <2>1. /\ UNCHANGED store /\ Kind(r) = "refresh" /\ answer' = answer /\ TokenKey(r) \in store
    BY <1>16 DEF CheckToken, TokenExists, CallFails, Reply, Goto, ControlOK, TypeOK
  <2>2. ~HasPair(r) /\ ~HasPair(r)' /\ Opens(r)
    BY <1>6, <1>16, <2>1 DEF HasPair, Opens
  <2>3. Sub(r)' = Sub(r) /\ TokenKey(r)' = TokenKey(r)
    BY <1>16, PresentableStays DEF PresentedOK, Sub, TokenKey
  <2>4. now = S!Nothing /\ next = S!Shown(Sub(r), TokenKey(r))
    BY <1>4, <1>5, <1>16, <2>1, <2>2, <2>3 DEF SessionFacts, now, next, S!Shown
  <2>5. TokenKey(r)[1] = Sub(r) /\ TokenKey(r)[2] = Req[r].refresh
    BY DEF TokenKey
  <2>6. S!Present(r)
    BY <1>2, <1>3, <2>1, <2>4, <2>5 DEF S!Present
  <2> QED
    BY <2>6 DEF S!SessionsNext
<1>17. CASE pc[r] = "delete" /\ pc'[r] = "store" /\ Kind(r) = "refresh" /\ DeleteToken(r)
  <2>1. answer' = answer /\ store' = store \ {TokenKey(r)}
    BY <1>17 DEF DeleteToken, DropToken
  <2>2. ~HasPair(r) /\ ~HasPair(r)' /\ Opens(r)
    BY <1>6, <1>17, <2>1 DEF HasPair, Opens
  <2>3. Sub(r)' = Sub(r) /\ TokenKey(r)' = TokenKey(r)
    BY <1>17, PresentableStays DEF PresentedOK, Sub, TokenKey
  <2>4. next = now
    BY <1>4, <1>5, <1>17, <2>1, <2>2, <2>3 DEF SessionFacts, now, next, S!Shown
  <2> QED
    BY <1>7, <2>1, <2>4
\* The SET, by which the session of r is opened; by is what r presented.
<1>18. ASSUME pc[r] = "store"
       PROVE  /\ now = S!Shown(user[r].id, IF Kind(r) = "refresh" THEN TokenKey(r) ELSE Absent)
              /\ (IF Kind(r) = "refresh" THEN TokenKey(r) ELSE Absent) \notin store
  <2>1. ~HasPair(r) /\ Opens(r)
    BY <1>6, <1>18 DEF ControlOK, Opens
  <2>2. CASE Kind(r) = "refresh"
    <3>1. user[r].id = Sub(r) /\ TokenKey(r) \notin store
      BY <1>18, <2>2 DEF UserOK, SessionsOK, RotationOK
    <3> QED
      BY <1>4, <1>18, <2>1, <2>2, <3>1 DEF SessionFacts, now
  <2>3. CASE Kind(r) \in {"register", "login"}
    <3>1. Absent \notin store
      BY NamesAssumption DEF TypeOK
    <3> QED
      BY <1>4, <1>18, <2>1, <2>3, <3>1 DEF SessionFacts, now
  <2> QED
    BY <2>1, <2>2, <2>3 DEF Opens
<1>19. ASSUME Stored(r),
              next \in {S!Given(user[r].id), S!Opened(user[r].id), S!Over}
       PROVE  S!SessionsNext
  <2>1. store' = store \cup {<<user[r].id, r>>} /\ pc[r] = "store"
    BY <1>19 DEF Stored
  <2>2. now.state = "shown" /\ now.user = user[r].id /\ now.by \notin store
    BY <1>18, <2>1 DEF S!Shown
  <2>3. S!Open(r)
    BY <1>2, <1>3, <1>19, <2>1, <2>2 DEF S!Open
  <2> QED
    BY <2>3 DEF S!SessionsNext
<1>20. CASE pc[r] = "store" /\ pc'[r] = "wallet" /\ Kind(r) = "login" /\ StoreToken(r)
  <2>1. Stored(r) /\ user' = user /\ answer' = answer
    BY <1>20 DEF StoreToken, Stored
  <2>2. ~HasPair(r)' /\ Opens(r)
    BY <1>6, <1>20, <2>1 DEF HasPair, Opens
  <2>3. next = S!Opened(user[r].id)
    BY <1>4, <1>5, <1>20, <2>1, <2>2 DEF SessionFacts, next, S!Opened
  <2> QED
    BY <1>19, <2>1, <2>3
<1>21. CASE /\ Opens(r)
            /\ pc[r] \notin {"idle", "done", "crashed"} /\ pc'[r] \in {"done", "crashed"}
  <2>1. ~HasPair(r) /\ ~ExpireToken(r)
    BY <1>6, <1>21 DEF ExpireToken
  <2>2. CASE HasPair(r)'
    <3>1. answer'[r].sub = user[r].id
      BY <2>1, <2>2, NewPairs
    <3>2. next = S!Given(user[r].id)
      BY <1>4, <2>2, <3>1 DEF SessionFacts, next, S!Given
    <3>3. CASE pc[r] = "wallet" /\ Kind(r) = "login" /\ UNCHANGED store
      <4>1. now = S!Opened(user[r].id)
        BY <1>4, <1>21, <2>1, <3>3 DEF SessionFacts, now
      <4>2. S!Give(r)
        BY <1>2, <1>3, <3>2, <3>3, <4>1 DEF S!Give, S!Opened
      <4> QED
        BY <4>2 DEF S!SessionsNext
    <3>4. CASE Stored(r)
      BY <1>19, <3>2, <3>4
    <3> QED
      BY <2>1, <2>2, <3>3, <3>4, NewPairs
  <2>3. CASE ~HasPair(r)'
    <3>1. next = S!Over
      BY <1>4, <1>5, <1>21, <2>3 DEF SessionFacts, next, S!Over
    <3>2. CASE Stored(r)
      BY <1>19, <3>1, <3>2
    <3>3. now.state \in {"nothing", "shown", "opened"}
      BY <1>4, <1>21, <2>1 DEF SessionFacts, now, S!Nothing, S!Shown, S!Opened,
                               TypeOK, Labels, ControlOK, Opens
    <3>4. CASE UNCHANGED store
      <4>1. S!GiveUp(r)
        BY <1>2, <1>3, <3>1, <3>3, <3>4 DEF S!GiveUp
      <4> QED
        BY <4>1 DEF S!SessionsNext
    <3>5. CASE Dropped(r)
      <4>1. pc[r] = "delete" /\ Kind(r) = "refresh" /\ store' = store \ {TokenKey(r)}
        BY <1>21, <3>5 DEF Dropped, DropToken, ControlOK, Opens
      <4>2. now.by = TokenKey(r)
        BY <1>4, <1>21, <2>1, <4>1 DEF SessionFacts, now, S!Shown
      <4>3. S!GiveUp(r)
        BY <1>2, <1>3, <3>1, <3>3, <4>1, <4>2 DEF S!GiveUp
      <4> QED
        BY <4>3 DEF S!SessionsNext
    <3> QED
      BY <2>1, <3>2, <3>4, <3>5, StoreCases
  <2> QED
    BY <2>2, <2>3
<1>22. FindByID(r) => ~Opens(r)
  BY DEF FindByID, Opens
<1> QED
  BY <1>8, <1>9, <1>10, <1>11, <1>13, <1>14, <1>15, <1>16, <1>17, <1>20, <1>21, <1>22, Moves

\* Every session that a caller is given was opened for its user, by a password
\* or by a live refresh token of the same user that is gone by then.
THEOREM SessionsImplemented == Spec => ImplementsSessions
<1>1. Init => S!SessionsInit
  <2>1. ASSUME Init, NEW r \in Requests PROVE SessionOf(r) = S!Nothing
    <3>1. ~HasPair(r) /\ pc[r] = "idle"
      BY <2>1 DEF Init, HasPair, NoAnswer
    <3> QED
      BY <3>1, SessionValues DEF SessionFacts
  <2> QED
    BY <2>1 DEF S!SessionsInit, Session, Init
<1>2. Shape /\ Shape' /\ SessionsOK /\ [Next]_vars => [S!SessionsNext]_S!sessionVars
  <2> SUFFICES ASSUME Shape, Shape', SessionsOK, [Next]_vars
               PROVE  S!SessionsNext \/ UNCHANGED S!sessionVars
    OBVIOUS
  <2>1. CASE \E r \in Requests : Submit(r) \/ Step(r) \/ Crash(r) \/ ExpireToken(r)
    BY <2>1, RequestSteps
  <2>2. CASE (\E id \in Requests : UseWallet(id)) \/ Finished \/ UNCHANGED vars
    BY <2>2, Quiet DEF S!sessionVars, Session, SessionOf, HasPair, Sub, TokenKey
  <2> QED
    BY <2>1, <2>2 DEF Next
<1> QED
  BY <1>1, <1>2, SessionsInvariant, PTL DEF Spec, ImplementsSessions, S!SessionsSpec
=============================================================================
