---------------------------- MODULE WalletClient ----------------------------
(***************************************************************************)
(* The gRPC client of ms-users and the gRPC server of ms-wallet: GetBalance *)
(* and ValidateUser, tried again after a delay when ms-wallet cannot be    *)
(* reached.  An attempt may reach the server although its answer does not  *)
(* come back, and as late as after the next one.  Meanwhile transactions   *)
(* change the balances.                                                    *)
(***************************************************************************)
EXTENDS Integers, Sequences

CONSTANTS
    Calls,       \* the calls of the client, one by each Register or Login
    Users,       \* wallet owners
    Method,      \* "GetBalance" or "ValidateUser"
    UserOf,      \* the user each call is about
    RetryDelays, \* retryDelays: <<100, 200>> milliseconds in the code
    FaultyCalls, \* bound: the calls that may meet an error or a done context
    MaxBalance   \* bound: the highest balance transactions leave

ASSUME CallsAssumption ==
    /\ Method \in [Calls -> {"GetBalance", "ValidateUser"}]
    /\ UserOf \in [Calls -> Users]
    /\ RetryDelays \in Seq(Nat)
    /\ MaxBalance \in Nat

VARIABLES
    pc,      \* where the goroutine that makes the call is
    tries,   \* the loop variable i of the client
    reply,   \* what the server sent for the current attempt
    result,  \* what the client returns
    wallets, \* the users that have a wallet
    balance, \* their balances, 0 without one
    stray,   \* the calls of which a lost attempt may still reach the server
    seen     \* history: the user's balances while the last attempt was under way

vars == <<pc, tries, reply, result, wallets, balance, stray, seen>>

\* status.Code of a gRPC error.
Retryable == {"Unavailable", "DeadlineExceeded"}
Final == {"Internal", "PermissionDenied", "Unauthenticated"}

Nothing == [code |-> "None", value |-> 0]
OK(value) == [code |-> "OK", value |-> value]
Error(code) == [code |-> code, value |-> 0]

\* ValidateUserResponse.is_valid, as a number.
Valid == 1
Invalid == 0

Init ==
    /\ pc = [c \in Calls |-> "idle"]
    /\ tries = [c \in Calls |-> 0]
    /\ reply = [c \in Calls |-> Nothing]
    /\ result = [c \in Calls |-> Nothing]
    /\ wallets = {}
    /\ balance = [u \in Users |-> 0]
    /\ stray = {}
    /\ seen = [c \in Calls |-> {}]

Goto(c, label) == pc' = [pc EXCEPT ![c] = label]

Return(c, r) == Goto(c, "done") /\ result' = [result EXCEPT ![c] = r]

-----------------------------------------------------------------------------
(* The server.                                                             *)

Reply(c, r) == reply' = [reply EXCEPT ![c] = r] /\ Goto(c, "answered")

\* WalletServer.GetBalance: a user without a wallet is an Internal error.
ServeGetBalance(c) ==
    /\ Method[c] = "GetBalance"
    /\ Reply(c, IF UserOf[c] \in wallets THEN OK(balance[UserOf[c]]) ELSE Error("Internal"))
    /\ UNCHANGED <<wallets, balance>>

\* A mutant: the wallet is written anew.
CreateWalletReplacing(u) ==
    /\ wallets' = wallets \cup {u}
    /\ balance' = [balance EXCEPT ![u] = 0]

\* GetOrCreateWallet
CreateWallet(u) ==
    /\ wallets' = wallets \cup {u}
    /\ balance' = [balance EXCEPT ![u] = IF u \in wallets THEN @ ELSE 0]

ServeValidateUser(c) ==
    /\ Method[c] = "ValidateUser"
    /\ CreateWallet(UserOf[c])
    /\ Reply(c, OK(Valid))

\* A mutant: the error of GetOrCreateWallet is overlooked.
ServeFailsValid(c) ==
    /\ c \in FaultyCalls
    /\ Reply(c, IF Method[c] = "ValidateUser" THEN OK(Valid) ELSE Error("Internal"))
    /\ UNCHANGED <<wallets, balance>>

\* The repository fails, though a wallet may have been created: an Internal
\* error of GetBalance, but no error of ValidateUser, which says that the user
\* is not valid.
ServeFails(c) ==
    /\ c \in FaultyCalls
    /\ Reply(c, IF Method[c] = "ValidateUser" THEN OK(Invalid) ELSE Error("Internal"))
    /\ \/ Method[c] = "ValidateUser" /\ CreateWallet(UserOf[c])
       \/ UNCHANGED <<wallets, balance>>

\* CNInterceptor refuses a client certificate that is not of ms-users.
Intercept(c) ==
    /\ c \in FaultyCalls
    /\ \E code \in {"PermissionDenied", "Unauthenticated"} : Reply(c, Error(code))
    /\ UNCHANGED <<wallets, balance>>

Serve(c) ==
    /\ pc[c] = "sent"
    /\ ServeGetBalance(c) \/ ServeValidateUser(c) \/ ServeFails(c) \/ Intercept(c)
    /\ UNCHANGED <<tries, result, stray, seen>>

-----------------------------------------------------------------------------
(* The client.                                                             *)

\* A mutant: an answer that is already there is taken for the new attempt's.
SendKeepingReply(c) ==
    /\ pc[c] \in {"idle", "next"}
    /\ seen' = [seen EXCEPT ![c] = {balance[UserOf[c]]}]
    /\ Goto(c, IF reply[c] = Nothing THEN "sent" ELSE "answered")
    /\ UNCHANGED <<tries, reply, result, wallets, balance, stray>>

Send(c) ==
    /\ pc[c] \in {"idle", "next"}
    /\ seen' = [seen EXCEPT ![c] = {balance[UserOf[c]]}]
    /\ reply' = [reply EXCEPT ![c] = Nothing]
    /\ Goto(c, "sent")
    /\ UNCHANGED <<tries, result, wallets, balance, stray>>

\* A mutant: the loop ends one attempt too late.
TriesLeftOffByOne(c) == tries[c] <= Len(RetryDelays)

TriesLeft(c) == tries[c] < Len(RetryDelays)

\* What the client does with an error.
Fail(c, code) ==
    IF code \in Retryable /\ TriesLeft(c)
    THEN Goto(c, "waiting") /\ UNCHANGED result
    ELSE Return(c, Error(code))

Receive(c) ==
    /\ pc[c] = "answered"
    /\ IF reply[c].code = "OK" THEN Return(c, reply[c]) ELSE Fail(c, reply[c].code)
    /\ UNCHANGED <<tries, reply, wallets, balance, stray, seen>>

\* The connection fails, before the server saw the attempt or after, or the
\* context is done.
Lose(c) ==
    /\ pc[c] \in {"sent", "answered"}
    /\ c \in FaultyCalls
    /\ \E code \in Retryable \cup {"Canceled"} : Fail(c, code)
    /\ stray' = IF pc[c] = "sent" THEN stray \cup {c} ELSE stray
    /\ UNCHANGED <<tries, reply, wallets, balance, seen>>

\* A mutant: the attempts are not counted.
WakeUncounted(c) ==
    /\ pc[c] = "waiting"
    /\ Goto(c, "next")
    /\ UNCHANGED <<tries, reply, result, wallets, balance, stray, seen>>

\* time.After(retryDelays[i]) fires, or the context is done first.
Wake(c) ==
    /\ pc[c] = "waiting"
    /\ \/ tries' = [tries EXCEPT ![c] = @ + 1] /\ Goto(c, "next") /\ UNCHANGED result
       \/ c \in FaultyCalls /\ Return(c, Error("Canceled")) /\ UNCHANGED tries
    /\ UNCHANGED <<reply, wallets, balance, stray, seen>>

\* A transaction of ms-wallet, a credit, a debit or one that is refused, which
\* creates the wallet when there is none.
Transact(u) ==
    /\ wallets' = wallets \cup {u}
    /\ \E b \in 0..MaxBalance : balance' = [balance EXCEPT ![u] = b]
    /\ seen' = [c \in Calls |-> IF UserOf[c] = u /\ pc[c] \in {"sent", "answered"}
                                THEN seen[c] \cup {balance'[u]} ELSE seen[c]]
    /\ UNCHANGED <<pc, tries, reply, result, stray>>

\* An attempt the client has given up on reaches the server after all, or
\* never; its answer has nowhere to go.
ServeStray(c) ==
    /\ c \in stray
    /\ stray' = stray \ {c}
    /\ \/ Method[c] = "ValidateUser" /\ CreateWallet(UserOf[c])
       \/ UNCHANGED <<wallets, balance>>
    /\ UNCHANGED <<pc, tries, reply, result, seen>>

Finished == (\A c \in Calls : pc[c] = "done") /\ UNCHANGED vars

Step(c) == Send(c) \/ Serve(c) \/ Receive(c) \/ Lose(c) \/ Wake(c)

Next ==
    \/ \E c \in Calls : Step(c) \/ ServeStray(c)
    \/ \E u \in Users : Transact(u)
    \/ Finished

Spec == Init /\ [][Next]_vars

\* Attempts are answered or fail, and timers fire.
FairSpec == Spec /\ \A c \in Calls : WF_vars(Step(c))

-----------------------------------------------------------------------------
Results == [code: {"None", "OK", "Canceled"} \cup Retryable \cup Final, value: Nat]

\* Type invariant: the shape of the variables.
TypeOK ==
    /\ pc \in [Calls -> {"idle", "sent", "answered", "waiting", "next", "done"}]
    /\ tries \in [Calls -> 0..Len(RetryDelays)]
    /\ reply \in [Calls -> Results]
    /\ result \in [Calls -> Results]
    /\ wallets \subseteq Users
    /\ balance \in [Users -> Nat]
    /\ stray \subseteq Calls
    /\ seen \in [Calls -> SUBSET Nat]

\* The balance a login shows is one that the wallet had while the last attempt
\* was under way: no answer to an earlier attempt is taken for it.
BalanceIsCurrent ==
    \A c \in Calls :
        Method[c] = "GetBalance" /\ result[c].code = "OK" => result[c].value \in seen[c]

\* Trying ValidateUser again moves no money: an attempt whose answer was lost
\* may have created a wallet that has been paid into since, and neither the
\* next attempt nor one that comes late resets it.
RetriesKeepBalances ==
    [][pc' # pc \/ stray' # stray => UNCHANGED balance]_vars

\* A user is only found valid when its wallet exists, so registration leaves a
\* wallet behind whenever it was told so.
ValidUsersHaveWallets ==
    \A c \in Calls :
        Method[c] = "ValidateUser" /\ result[c] = OK(Valid) => UserOf[c] \in wallets

\* How many steps a call has left at most: four for each attempt and its delay.
StepsLeft(c) ==
    LET stage == [idle |-> 4, next |-> 4, sent |-> 3, answered |-> 2, waiting |-> 1]
    IN IF pc[c] = "done" THEN 0 ELSE 4 * (Len(RetryDelays) - tries[c]) + stage[pc[c]]

\* No call is under way for ever: whatever happens to it, in whatever order,
\* brings it nearer to its end, and what others do does not move it.
CallsCountDown ==
    [][\A c \in Calls :
          IF UNCHANGED <<pc[c], tries[c], reply[c], result[c]>>
          THEN StepsLeft(c)' = StepsLeft(c)
          ELSE 0 <= StepsLeft(c)' /\ StepsLeft(c)' < StepsLeft(c)]_vars

\* Every call returns: neither errors nor delays keep Login or Register waiting.
EveryCallReturns == \A c \in Calls : pc[c] = "sent" ~> pc[c] = "done"

\* How far a call is, for whoever makes it: it has taken its answer while the
\* OK of its current attempt is on its way.
Progress(c) ==
    LET is(state, value) == [state |-> state, value |-> value]
    IN IF pc[c] = "idle" THEN is("not begun", 0)
       ELSE IF pc[c] = "answered" /\ reply[c].code = "OK" THEN is("taken", reply[c].value)
       ELSE IF pc[c] # "done" THEN is("pending", 0)
       ELSE IF result[c].code = "OK" THEN is("returned", result[c].value)
       ELSE is("failed", 0)

Abstract == INSTANCE WalletCalls WITH call <- [c \in Calls |-> Progress(c)]

\* A call that is tried again, whose attempts are lost or come late, is to its
\* caller one call that takes its answer at one instant; and all that other
\* attempts do to ms-wallet is to create a wallet.
ImplementsWalletCalls == Abstract!CallsSpec
=============================================================================
