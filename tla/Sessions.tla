------------------------------ MODULE Sessions ------------------------------
(***************************************************************************)
(* What ms-users promises of its sessions, without saying how: a session   *)
(* is a refresh token that belongs to one user.  It is opened once, by a   *)
(* request that has shown who its user is, with a password or with a       *)
(* session of that user that was live; a session that was presented is     *)
(* over before the one that follows it begins, and what is over stays so.  *)
(* A caller is only given a session that has been opened.                  *)
(*                                                                         *)
(* UserService is shown to implement this specification.                   *)
(***************************************************************************)
CONSTANTS
    Requests,  \* each may open one session, which is named after it
    Presented, \* the session that each request presents, None if it has none
    None

VARIABLES
    live,    \* the sessions that exist, <<user, session>>
    session  \* how far each request is with the session it may open

sessionVars == <<live, session>>

\* A request has shown nothing yet; it has shown its user, with a password or
\* with a session; it has opened its session; its caller was given the
\* session; or it is over without that.
Nothing == [state |-> "nothing", user |-> None, by |-> None]
Shown(u, key) == [state |-> "shown", user |-> u, by |-> key]
Opened(u) == [state |-> "opened", user |-> u, by |-> None]
Given(u) == [state |-> "given", user |-> u, by |-> None]
Over == [state |-> "over", user |-> None, by |-> None]

SessionsInit == live = {} /\ session = [r \in Requests |-> Nothing]

\* The first conjunct follows from the second; it is there for TLC, which
\* refuses most candidates by it.
Become(r, s) == session'[r] = s /\ session' = [session EXCEPT ![r] = s]

\* A registration or a login shows its user by itself.
Authenticate(r) ==
    /\ session[r] = Nothing /\ Presented[r] = None
    /\ UNCHANGED live
    /\ \E u \in Requests : Become(r, Shown(u, None))

\* A refresh does so by a session that is live, whose user it takes over.
Present(r) ==
    /\ session[r] = Nothing
    /\ UNCHANGED live
    /\ \E key \in live : key[2] = Presented[r] /\ Become(r, Shown(key[1], key))

\* The caller is given the session that is opened at once, later or never.
Open(r) ==
    LET u == session[r].user
    IN /\ session[r].state = "shown"
       /\ session[r].by \notin live
       /\ live' = live \cup {<<u, r>>}
       /\ Become(r, Given(u)) \/ Become(r, Opened(u)) \/ Become(r, Over)

Give(r) ==
    /\ session[r].state = "opened"
    /\ UNCHANGED live
    /\ Become(r, Given(session[r].user))

\* r fails, perhaps after the session it presented was ended for it.
GiveUp(r) ==
    /\ session[r].state \in {"nothing", "shown", "opened"}
    /\ live' \in {live, live \ {session[r].by}}
    /\ Become(r, Over)

\* A rotation, a logout or the time to live ends a session.
End == \E key \in live : live' = live \ {key} /\ UNCHANGED session

SessionsNext ==
    \/ \E r \in Requests :
          Authenticate(r) \/ Present(r) \/ Open(r) \/ Give(r) \/ GiveUp(r)
    \/ End

SessionsSpec == SessionsInit /\ [][SessionsNext]_sessionVars
=============================================================================
