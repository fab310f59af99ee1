------------------------- MODULE WalletClientProofs -------------------------
(***************************************************************************)
(* What WalletClient guarantees for every number of calls and users, every *)
(* list of retry delays and every balance.                                 *)
(***************************************************************************)
EXTENDS WalletClient, TLAPS

\* An answer to a call is true: a balance is one the wallet had while the
\* attempt was under way, a user found valid has a wallet.
Truthful(c, r) ==
    r.code = "OK" =>
        /\ Method[c] = "GetBalance" => r.value \in seen[c]
        /\ Method[c] = "ValidateUser" /\ r.value = Valid => UserOf[c] \in wallets

\* The answer at hand is that of the current attempt, and nothing is returned
\* before the end.
Answered ==
    \A c \in Calls :
        /\ pc[c] = "answered" => Truthful(c, reply[c])
        /\ Truthful(c, result[c])
        /\ result[c].code = "OK" => pc[c] = "done"

\* Who waits has an attempt left; an attempt has seen the present balance.
Attempting ==
    \A c \in Calls :
        /\ pc[c] = "waiting" => tries[c] < Len(RetryDelays)
        /\ pc[c] = "sent" => balance[UserOf[c]] \in seen[c]

\* Without a wallet there is no balance, so creating one takes nothing.
Walletless == \A u \in Users : u \notin wallets => balance[u] = 0

IInv == TypeOK /\ Answered /\ Attempting /\ Walletless

-----------------------------------------------------------------------------
\* What an error can be of.
Codes == {"None", "Canceled"} \cup Retryable \cup Final

LEMMA CallTypes ==
    /\ Len(RetryDelays) \in Nat
    /\ \A c \in Calls : UserOf[c] \in Users /\ Method[c] \in {"GetBalance", "ValidateUser"}
  BY CallsAssumption

LEMMA ResultTypes ==
    /\ \A code \in Codes :
          Error(code) \in Results /\ Error(code).code # "OK"
    /\ \A v \in Nat : OK(v) \in Results /\ OK(v).code = "OK" /\ OK(v).value = v
    /\ Nothing \in Results /\ Nothing.code # "OK"
  BY DEF Results, Codes, Error, OK, Nothing, Final, Retryable

LEMMA InitIInv == Init => IInv
<1> SUFFICES ASSUME Init PROVE IInv
  OBVIOUS
<1>1. TypeOK
  BY CallTypes, ResultTypes DEF Init, TypeOK
<1>2. \A c \in Calls : Nothing.code # "OK" /\ reply[c] = Nothing /\ result[c] = Nothing
  BY ResultTypes DEF Init
<1>3. Answered
  BY <1>2 DEF Answered, Truthful
<1>4. Attempting /\ Walletless
  BY CallTypes DEF Init, Attempting, Walletless
<1> QED
  BY <1>1, <1>3, <1>4 DEF IInv

-----------------------------------------------------------------------------
(* The wallets.                                                            *)

\* What every step of a call does to the wallets: they are only created.
Creates ==
    /\ wallets \subseteq wallets' /\ wallets' \subseteq Users
    /\ UNCHANGED balance
    /\ Walletless'

\* GetOrCreateWallet leaves a wallet that is there as it is.
LEMMA CreateWalletCreates ==
    ASSUME IInv, NEW u \in Users, CreateWallet(u)
    PROVE  Creates /\ u \in wallets'
<1>1. wallets' = wallets \cup {u}
  BY DEF CreateWallet
<1>2. /\ balance \in [Users -> Nat]
      /\ balance' = [balance EXCEPT ![u] = IF u \in wallets THEN @ ELSE 0]
      /\ u \notin wallets => balance[u] = 0
  BY DEF CreateWallet, IInv, TypeOK, Walletless
<1>3. UNCHANGED balance
  BY <1>2
<1> QED
  BY <1>1, <1>3 DEF Creates, IInv, TypeOK, Walletless

LEMMA SameCreates ==
    ASSUME IInv, UNCHANGED <<wallets, balance>>
    PROVE  Creates
  BY DEF Creates, IInv, TypeOK, Walletless

\* A true answer stays true while wallets are created and balances are seen.
LEMMA TruthfulStays ==
    ASSUME wallets \subseteq wallets', NEW c \in Calls, NEW r,
           seen[c] \subseteq seen'[c], Truthful(c, r)
    PROVE  r.code = "OK" =>
              /\ Method[c] = "GetBalance" => r.value \in seen'[c]
              /\ Method[c] = "ValidateUser" /\ r.value = Valid => UserOf[c] \in wallets'
  BY DEF Truthful

-----------------------------------------------------------------------------
(* The calls.                                                              *)

\* A step of a call, in the end of which what it holds is true.
LEMMA CallMoves ==
    ASSUME IInv, Creates, NEW c \in Calls,
           NEW label \in {"sent", "answered", "waiting", "next", "done"}, Goto(c, label),
           NEW rep \in Results, reply' = [reply EXCEPT ![c] = rep],
           NEW res \in Results, result' = [result EXCEPT ![c] = res],
           NEW n \in 0..Len(RetryDelays), tries' = [tries EXCEPT ![c] = n],
           seen' \in [Calls -> SUBSET Nat], \A d \in Calls \ {c} : seen'[d] = seen[d],
           stray' \subseteq Calls,
           label = "sent" => balance[UserOf[c]] \in seen'[c],
           label = "waiting" => n < Len(RetryDelays),
           label = "answered" => Truthful(c, rep)',
           Truthful(c, res)', res.code = "OK" => label = "done"
    PROVE  IInv'
<1>1. \A d \in Calls : /\ pc'[d] = IF d = c THEN label ELSE pc[d]
                       /\ reply'[d] = IF d = c THEN rep ELSE reply[d]
                       /\ result'[d] = IF d = c THEN res ELSE result[d]
                       /\ tries'[d] = IF d = c THEN n ELSE tries[d]
  BY DEF IInv, TypeOK, Goto
<1>2. TypeOK'
  BY DEF IInv, TypeOK, Goto, Creates
<1>3. ASSUME NEW d \in Calls, d # c
      PROVE  /\ pc'[d] = "answered" => Truthful(d, reply[d])'
             /\ Truthful(d, result[d])'
             /\ pc'[d] = "sent" => balance'[UserOf[d]] \in seen'[d]
  <2>1. /\ seen'[d] = seen[d] /\ balance' = balance /\ wallets \subseteq wallets'
        /\ pc'[d] = pc[d] /\ reply'[d] = reply[d] /\ result'[d] = result[d]
    BY <1>1, <1>3 DEF Creates
  <2>2. /\ pc[d] = "answered" => Truthful(d, reply[d])
        /\ Truthful(d, result[d])
        /\ pc[d] = "sent" => balance[UserOf[d]] \in seen[d]
    BY DEF IInv, Answered, Attempting
  <2> QED
    BY <2>1, <2>2, TruthfulStays DEF Truthful
<1>4. Answered'
  <2>1. ASSUME NEW d \in Calls
        PROVE  /\ pc'[d] = "answered" => Truthful(d, reply[d])'
               /\ Truthful(d, result[d])'
               /\ result'[d].code = "OK" => pc'[d] = "done"
    <3>1. CASE d = c
      BY <1>1, <3>1 DEF Truthful
    <3>2. CASE d # c
      BY <1>1, <1>3, <3>2 DEF IInv, Answered
    <3> QED
      BY <3>1, <3>2
  <2> QED
    BY <2>1 DEF Answered
<1>5. Attempting'
  BY <1>1, <1>3 DEF IInv, Attempting, Creates
<1>6. Walletless'
  BY DEF Creates
<1> QED
  BY <1>2, <1>4, <1>5, <1>6 DEF IInv

\* What every step of a call finds.
LEMMA CallState ==
    ASSUME IInv, NEW c \in Calls, pc[c] # "done"
    PROVE  /\ reply[c] \in Results /\ result[c] \in Results /\ result[c].code # "OK"
           /\ reply = [reply EXCEPT ![c] = reply[c]]
           /\ result = [result EXCEPT ![c] = result[c]]
           /\ tries = [tries EXCEPT ![c] = tries[c]]
           /\ tries[c] \in 0..Len(RetryDelays)
           /\ seen \in [Calls -> SUBSET Nat]
           /\ UserOf[c] \in Users /\ balance[UserOf[c]] \in Nat
  BY CallTypes DEF IInv, TypeOK, Answered

LEMMA SendKeepsIInv ==
    ASSUME IInv, NEW c \in Calls, Send(c)
    PROVE  IInv'
<1>1. /\ Goto(c, "sent") /\ reply' = [reply EXCEPT ![c] = Nothing]
      /\ seen' = [seen EXCEPT ![c] = {balance[UserOf[c]]}]
      /\ UNCHANGED <<tries, result, wallets, balance, stray>>
      /\ pc[c] # "done"
  BY DEF Send
<1>3. /\ seen' \in [Calls -> SUBSET Nat] /\ \A d \in Calls \ {c} : seen'[d] = seen[d]
      /\ balance[UserOf[c]] \in seen'[c]
  BY <1>1, CallState
<1>4. Creates
  BY <1>1, SameCreates
<1>5. stray' \subseteq Calls
  BY <1>1 DEF IInv, TypeOK
<1>6. PICK res \in Results, n \in 0..Len(RetryDelays) :
         /\ result' = [result EXCEPT ![c] = res] /\ res.code # "OK"
         /\ tries' = [tries EXCEPT ![c] = n]
  BY <1>1, CallState
<1>7. Truthful(c, res)' /\ Nothing \in Results
  BY <1>6, ResultTypes DEF Truthful
<1> QED
  BY <1>1, <1>3, <1>4, <1>5, <1>6, <1>7, CallMoves

\* The server answers, or fails to; a wallet it finds or creates is there.
LEMMA ServeKeepsIInv ==
    ASSUME IInv, NEW c \in Calls, Serve(c)
    PROVE  IInv'
<1>1. pc[c] = "sent" /\ UNCHANGED <<tries, result, stray, seen>>
  BY DEF Serve
<1>2. \E rep \in Results :
         /\ reply' = [reply EXCEPT ![c] = rep] /\ Goto(c, "answered")
         /\ Creates /\ Truthful(c, rep)'
  <2>1. CASE ServeGetBalance(c)
    <3>1. Creates
      BY <2>1, SameCreates DEF ServeGetBalance
    <3>2. CASE UserOf[c] \in wallets
      <4>1. Reply(c, OK(balance[UserOf[c]])) /\ UNCHANGED <<wallets, balance>>
        BY <2>1, <3>2 DEF ServeGetBalance
      <4>2. PICK v \in Nat : v = balance[UserOf[c]]
        BY <1>1, CallState
      <4>3. Truthful(c, OK(v))'
        BY <1>1, <2>1, <4>1, <4>2, ResultTypes, CallState
           DEF Truthful, ServeGetBalance, IInv, Attempting
      <4> QED
        BY <3>1, <4>1, <4>2, <4>3, ResultTypes DEF Reply
    <3>3. CASE UserOf[c] \notin wallets
      <4>1. Reply(c, Error("Internal"))
        BY <2>1, <3>3 DEF ServeGetBalance
      <4>2. Error("Internal") \in Results /\ Error("Internal").code # "OK"
        BY ResultTypes DEF Codes, Final
      <4>3. Truthful(c, Error("Internal"))'
        BY <4>2 DEF Truthful, Error
      <4> QED
        BY <3>1, <4>1, <4>2, <4>3 DEF Reply
    <3> QED
      BY <3>2, <3>3
  <2>2. CASE ServeValidateUser(c)
    <3>1. Creates /\ UserOf[c] \in wallets'
      BY <1>1, <2>2, CreateWalletCreates, CallState DEF ServeValidateUser
    <3>2. Truthful(c, OK(Valid))'
      BY <2>2, <3>1 DEF Truthful, ServeValidateUser
    <3>3. OK(Valid) \in Results
      BY ResultTypes DEF Valid
    <3> QED
      BY <2>2, <3>1, <3>2, <3>3 DEF ServeValidateUser, Reply
  <2>3. CASE ServeFails(c)
    <3>1. Creates
      BY <1>1, <2>3, CreateWalletCreates, SameCreates, CallState DEF ServeFails
    <3>2. CASE Method[c] = "ValidateUser"
      <4>1. Reply(c, OK(Invalid)) /\ OK(Invalid) \in Results /\ OK(Invalid).value # Valid
        BY <2>3, <3>2, ResultTypes DEF ServeFails, Invalid, Valid
      <4>2. Truthful(c, OK(Invalid))'
        BY <3>2, <4>1 DEF Truthful, OK, Invalid, Valid
      <4> QED
        BY <3>1, <4>1, <4>2 DEF Reply
    <3>3. CASE Method[c] # "ValidateUser"
      <4>1. Reply(c, Error("Internal"))
        BY <2>3, <3>3 DEF ServeFails
      <4>2. Error("Internal") \in Results /\ Error("Internal").code # "OK"
        BY ResultTypes DEF Codes, Final
      <4>3. Truthful(c, Error("Internal"))'
        BY <4>2 DEF Truthful, Error
      <4> QED
        BY <3>1, <4>1, <4>2, <4>3 DEF Reply
    <3> QED
      BY <3>2, <3>3
  <2>4. CASE Intercept(c)
    <3>1. Creates
      BY <2>4, SameCreates DEF Intercept
    <3>2. PICK code \in {"PermissionDenied", "Unauthenticated"} : Reply(c, Error(code))
      BY <2>4 DEF Intercept
    <3>3. Error(code) \in Results /\ Error(code).code # "OK"
      BY ResultTypes DEF Codes, Final
    <3>4. Truthful(c, Error(code))'
      BY <3>3 DEF Truthful, Error
    <3> QED
      BY <3>1, <3>2, <3>3, <3>4 DEF Reply
  <2> QED
    BY <2>1, <2>2, <2>3, <2>4 DEF Serve
<1>3. PICK rep \in Results :
         /\ reply' = [reply EXCEPT ![c] = rep] /\ Goto(c, "answered")
         /\ Creates /\ Truthful(c, rep)'
  BY <1>2
<1>4. \A d \in Calls \ {c} : seen'[d] = seen[d]
  BY <1>1
<1>5. PICK res \in Results, n \in 0..Len(RetryDelays) :
         /\ result' = [result EXCEPT ![c] = res] /\ res.code # "OK"
         /\ tries' = [tries EXCEPT ![c] = n]
  BY <1>1, CallState
<1>6. Truthful(c, res)' /\ seen' \in [Calls -> SUBSET Nat] /\ stray' \subseteq Calls
  BY <1>1, <1>5 DEF Truthful, IInv, TypeOK
<1> QED
  BY <1>1, <1>3, <1>4, <1>5, <1>6, CallMoves

\* A step that leaves the wallets and what the call has seen alone, and of
\* which the call learns what the server sent or an error.
LEMMA ClientMoves ==
    ASSUME IInv, NEW c \in Calls, pc[c] # "done",
           NEW label \in {"waiting", "next", "done"}, Goto(c, label),
           NEW res \in Results, result' = [result EXCEPT ![c] = res],
           NEW n \in 0..Len(RetryDelays), tries' = [tries EXCEPT ![c] = n],
           label = "waiting" => n < Len(RetryDelays),
           Truthful(c, res), res.code = "OK" => label = "done",
           stray' \subseteq Calls, UNCHANGED <<reply, wallets, balance, seen>>
    PROVE  IInv'
<1>1. Creates
  BY SameCreates
<1>2. Truthful(c, res)'
  BY DEF Truthful
<1> QED
  BY <1>1, <1>2, CallState, CallMoves DEF Truthful

LEMMA FailKeepsIInv ==
    ASSUME IInv, NEW c \in Calls, pc[c] # "done",
           NEW code \in Codes, Fail(c, code),
           stray' \subseteq Calls, UNCHANGED <<tries, reply, wallets, balance, seen>>
    PROVE  IInv'
<1>1. tries' = [tries EXCEPT ![c] = tries[c]] /\ tries[c] \in 0..Len(RetryDelays)
  BY CallState
<1>2. CASE code \in Retryable /\ TriesLeft(c)
  <2>1. Goto(c, "waiting") /\ UNCHANGED result
    BY <1>2 DEF Fail
  <2>2. result' = [result EXCEPT ![c] = result[c]] /\ Truthful(c, result[c])
    BY <2>1, CallState DEF Truthful
  <2> QED
    BY <1>1, <1>2, <2>1, <2>2, CallState, ClientMoves DEF TriesLeft
<1>3. CASE ~(code \in Retryable /\ TriesLeft(c))
  <2>1. Return(c, Error(code))
    BY <1>3 DEF Fail
  <2>2. Error(code) \in Results /\ Error(code).code # "OK"
    BY ResultTypes
  <2>3. Truthful(c, Error(code))
    BY <2>2 DEF Truthful
  <2> QED
    BY <1>1, <2>1, <2>2, <2>3, ClientMoves DEF Return
<1> QED
  BY <1>2, <1>3

LEMMA ReceiveKeepsIInv ==
    ASSUME IInv, NEW c \in Calls, Receive(c)
    PROVE  IInv'
<1>1. pc[c] = "answered" /\ UNCHANGED <<tries, reply, wallets, balance, stray, seen>>
  BY DEF Receive
<1>2. stray' \subseteq Calls /\ reply[c] \in Results /\ Truthful(c, reply[c])
  BY <1>1, CallState DEF IInv, TypeOK, Answered
<1>3. CASE reply[c].code = "OK"
  <2>1. Goto(c, "done") /\ result' = [result EXCEPT ![c] = reply[c]]
    BY <1>3 DEF Receive, Return
  <2> QED
    BY <1>1, <1>2, <2>1, CallState, ClientMoves
<1>4. CASE reply[c].code # "OK"
  <2>1. PICK code : code = reply[c].code
    OBVIOUS
  <2>2. code \in Codes /\ Fail(c, code)
    BY <1>2, <1>4, <2>1 DEF Receive, Results, Codes
  <2> QED
    BY <1>1, <1>2, <2>2, FailKeepsIInv
<1> QED
  BY <1>3, <1>4

LEMMA LoseKeepsIInv ==
    ASSUME IInv, NEW c \in Calls, Lose(c)
    PROVE  IInv'
<1>1. pc[c] # "done" /\ UNCHANGED <<tries, reply, wallets, balance, seen>>
  BY DEF Lose
<1>2. PICK code \in Retryable \cup {"Canceled"} : Fail(c, code)
  BY DEF Lose
<1>3. stray' \subseteq Calls
  BY DEF Lose, IInv, TypeOK
<1> QED
  BY <1>1, <1>2, <1>3, FailKeepsIInv DEF Codes

LEMMA WakeKeepsIInv ==
    ASSUME IInv, NEW c \in Calls, Wake(c)
    PROVE  IInv'
<1>1. pc[c] = "waiting" /\ UNCHANGED <<reply, wallets, balance, stray, seen>>
  BY DEF Wake
<1>2. stray' \subseteq Calls /\ tries[c] < Len(RetryDelays)
  BY <1>1 DEF IInv, TypeOK, Attempting
<1>3. CASE /\ tries' = [tries EXCEPT ![c] = @ + 1]
           /\ Goto(c, "next") /\ UNCHANGED result
  <2>1. PICK n \in 0..Len(RetryDelays) : n = tries[c] + 1
    BY <1>1, <1>2, CallState, CallTypes
  <2>2. tries' = [tries EXCEPT ![c] = n]
    BY <1>3, <2>1
  <2>3. result' = [result EXCEPT ![c] = result[c]] /\ Truthful(c, result[c])
    BY <1>1, <1>3, CallState DEF Truthful
  <2> QED
    BY <1>1, <1>2, <1>3, <2>2, <2>3, CallState, ClientMoves
<1>4. CASE Return(c, Error("Canceled")) /\ UNCHANGED tries
  <2>1. Error("Canceled") \in Results /\ Error("Canceled").code # "OK"
    BY ResultTypes DEF Codes
  <2>2. tries' = [tries EXCEPT ![c] = tries[c]]
    BY <1>1, <1>4, CallState
  <2>3. Truthful(c, Error("Canceled"))
    BY <2>1 DEF Truthful
  <2> QED
    BY <1>1, <1>2, <1>4, <2>1, <2>2, <2>3, CallState, ClientMoves DEF Return
<1> QED
  BY <1>3, <1>4 DEF Wake

\* Late attempts and transactions leave the calls alone, and what a
\* transaction makes of a balance is seen.
LEMMA OthersKeepIInv ==
    ASSUME IInv, UNCHANGED <<pc, tries, reply, result>>, stray' \subseteq Calls,
           wallets \subseteq wallets', wallets' \subseteq Users, Walletless',
           balance' \in [Users -> Nat], seen' \in [Calls -> SUBSET Nat],
           \A c \in Calls : /\ seen[c] \subseteq seen'[c]
                            /\ pc[c] = "sent" => balance'[UserOf[c]] \in seen'[c]
    PROVE  IInv'
<1>1. TypeOK'
  BY DEF IInv, TypeOK
<1>2. ASSUME NEW c \in Calls
      PROVE  /\ pc[c] = "answered" => Truthful(c, reply[c])'
             /\ Truthful(c, result[c])'
  <2>1. Truthful(c, result[c]) /\ (pc[c] = "answered" => Truthful(c, reply[c]))
    BY DEF IInv, Answered
  <2> QED
    BY <2>1, TruthfulStays DEF Truthful
<1>3. Answered'
  BY <1>2 DEF IInv, Answered, Truthful
<1>4. Attempting'
  BY DEF IInv, Attempting
<1> QED
  BY <1>1, <1>3, <1>4 DEF IInv

LEMMA CreatingKeepsIInv ==
    ASSUME IInv, Creates, stray' \subseteq Calls,
           UNCHANGED <<pc, tries, reply, result, seen>>
    PROVE  IInv'
<1>1. balance' \in [Users -> Nat] /\ seen' \in [Calls -> SUBSET Nat]
  BY DEF IInv, TypeOK, Creates
<1>2. \A c \in Calls : /\ seen[c] \subseteq seen'[c]
                       /\ pc[c] = "sent" => balance'[UserOf[c]] \in seen'[c]
  BY DEF IInv, Attempting, Creates
<1> QED
  BY <1>1, <1>2, OthersKeepIInv DEF Creates

LEMMA ServeStrayCreates ==
    ASSUME IInv, NEW c \in Calls, ServeStray(c)
    PROVE  Creates
  BY CreateWalletCreates, SameCreates, CallTypes DEF ServeStray

LEMMA TransactKeepsIInv ==
    ASSUME IInv, NEW u \in Users, Transact(u)
    PROVE  IInv'
<1>1. PICK b \in 0..MaxBalance : balance' = [balance EXCEPT ![u] = b]
  BY DEF Transact
<1>2. /\ balance \in [Users -> Nat] /\ wallets \subseteq Users
      /\ seen \in [Calls -> SUBSET Nat] /\ b \in Nat
  BY CallsAssumption DEF IInv, TypeOK
<1>3. /\ wallets' = wallets \cup {u}
      /\ \A v \in Users : balance'[v] = IF v = u THEN b ELSE balance[v]
      /\ seen' = [c \in Calls |-> IF UserOf[c] = u /\ pc[c] \in {"sent", "answered"}
                                 THEN seen[c] \cup {b} ELSE seen[c]]
  BY <1>1, <1>2 DEF Transact
<1>4. balance' \in [Users -> Nat] /\ seen' \in [Calls -> SUBSET Nat] /\ Walletless'
  <2>1. balance' \in [Users -> Nat]
    BY <1>1, <1>2
  <2>2. seen' \in [Calls -> SUBSET Nat]
    BY <1>2, <1>3
  <2>3. Walletless'
    BY <1>3 DEF IInv, Walletless
  <2> QED
    BY <2>1, <2>2, <2>3
<1>5. ASSUME NEW c \in Calls
      PROVE  /\ seen[c] \subseteq seen'[c]
             /\ pc[c] = "sent" => balance'[UserOf[c]] \in seen'[c]
  <2>1. UserOf[c] \in Users /\ (pc[c] = "sent" => balance[UserOf[c]] \in seen[c])
    BY CallTypes DEF IInv, Attempting
  <2> QED
    BY <1>3, <2>1
<1>6. stray' \subseteq Calls /\ UNCHANGED <<pc, tries, reply, result>>
  BY DEF Transact, IInv, TypeOK
<1> QED
  BY <1>2, <1>3, <1>4, <1>5, <1>6, OthersKeepIInv

\* What every step but a transaction does to the wallets.
LEMMA NextCreates ==
    ASSUME IInv, [Next]_vars
    PROVE  Creates \/ \E u \in Users : Transact(u)
<1>1. ASSUME NEW c \in Calls, Serve(c)
      PROVE  Creates
  <2>1. UserOf[c] \in Users
    BY CallTypes
  <2> QED
    BY <1>1, <2>1, CreateWalletCreates, SameCreates
       DEF Serve, ServeGetBalance, ServeValidateUser, ServeFails, Intercept
<1>2. ASSUME NEW c \in Calls, Send(c) \/ Receive(c) \/ Lose(c) \/ Wake(c)
      PROVE  Creates
  BY <1>2, SameCreates DEF Send, Receive, Lose, Wake
<1>3. CASE UNCHANGED vars
  BY <1>3, SameCreates DEF vars
<1> QED
  BY <1>1, <1>2, <1>3, ServeStrayCreates DEF Next, Step, Finished

LEMMA NextIInv == IInv /\ [Next]_vars => IInv'
<1> SUFFICES ASSUME IInv, [Next]_vars PROVE IInv'
  OBVIOUS
<1>1. ASSUME NEW c \in Calls, ServeStray(c)
      PROVE  IInv'
  <2>1. stray' \subseteq Calls /\ UNCHANGED <<pc, tries, reply, result, seen>>
    BY <1>1 DEF ServeStray, IInv, TypeOK
  <2> QED
    BY <1>1, <2>1, ServeStrayCreates, CreatingKeepsIInv
<1>2. CASE UNCHANGED vars
  <2>1. stray' \subseteq Calls /\ UNCHANGED <<pc, tries, reply, result, seen, wallets, balance>>
    BY <1>2 DEF vars, IInv, TypeOK
  <2> QED
    BY <2>1, SameCreates, CreatingKeepsIInv
<1> QED
  BY <1>1, <1>2, TransactKeepsIInv, SendKeepsIInv, ServeKeepsIInv, ReceiveKeepsIInv,
     LoseKeepsIInv, WakeKeepsIInv DEF Next, Step, Finished

-----------------------------------------------------------------------------
LEMMA Inductive == Spec => []IInv
<1> QED
  BY InitIInv, NextIInv, PTL DEF Spec

\* The loop variable stays within the list of delays it indexes.
THEOREM TypeCorrect == Spec => []TypeOK
<1>1. IInv => TypeOK
  BY DEF IInv
<1> QED
  BY <1>1, Inductive, PTL

\* The balance a login shows is one of the time its last attempt was under way.
THEOREM BalancesCurrent == Spec => []BalanceIsCurrent
<1>1. IInv => BalanceIsCurrent
  BY DEF IInv, Answered, Truthful, BalanceIsCurrent
<1> QED
  BY <1>1, Inductive, PTL

\* Who is told that a user is valid can rely on the wallet.
THEOREM ValidUsersFound == Spec => []ValidUsersHaveWallets
<1>1. OK(Valid).code = "OK" /\ OK(Valid).value = Valid
  BY DEF OK
<1>2. IInv => ValidUsersHaveWallets
  BY <1>1 DEF IInv, Answered, Truthful, ValidUsersHaveWallets
<1> QED
  BY <1>2, Inductive, PTL

\* No attempt, first, repeated or late, moves any money.
THEOREM BalancesKept == Spec => RetriesKeepBalances
<1>1. IInv /\ [Next]_vars =>
        [pc' # pc \/ stray' # stray => UNCHANGED balance]_vars
  BY NextCreates DEF Creates, Transact
<1> QED
  BY <1>1, Inductive, PTL DEF Spec, RetriesKeepBalances

-----------------------------------------------------------------------------
(* The refinement of WalletCalls.                                          *)

calls == [c \in Calls |-> Progress(c)]

\* The progress of a call, by the place of its goroutine.
ProgressFacts(c) ==
    /\ pc[c] = "idle" => Progress(c) = Abstract!NotBegun
    /\ pc[c] \in {"sent", "waiting", "next"} => Progress(c) = Abstract!Pending
    /\ pc[c] = "answered" /\ reply[c].code = "OK" =>
          Progress(c) = Abstract!Taken(reply[c].value)
    /\ pc[c] = "answered" /\ reply[c].code # "OK" => Progress(c) = Abstract!Pending
    /\ pc[c] = "done" /\ result[c].code = "OK" =>
          Progress(c) = Abstract!Returned(result[c].value)
    /\ pc[c] = "done" /\ result[c].code # "OK" => Progress(c) = Abstract!Failed

LEMMA ProgressNow ==
    ASSUME NEW c \in Calls
    PROVE  ProgressFacts(c)
<1> USE DEF Progress
<1>1. pc[c] = "idle" => Progress(c) = Abstract!NotBegun
  BY DEF Abstract!NotBegun
<1>2. ASSUME pc[c] \in {"sent", "waiting", "next"}
      PROVE  Progress(c) = Abstract!Pending
  <2>1. pc[c] # "idle" /\ pc[c] # "answered" /\ pc[c] # "done"
    BY <1>2
  <2> QED
    BY <2>1 DEF Abstract!Pending
<1>3. pc[c] = "answered" /\ reply[c].code = "OK" =>
         Progress(c) = Abstract!Taken(reply[c].value)
  BY DEF Abstract!Taken
<1>4. pc[c] = "answered" /\ reply[c].code # "OK" => Progress(c) = Abstract!Pending
  BY DEF Abstract!Pending
<1>5. pc[c] = "done" /\ result[c].code = "OK" =>
         Progress(c) = Abstract!Returned(result[c].value)
  BY DEF Abstract!Returned
<1>6. pc[c] = "done" /\ result[c].code # "OK" => Progress(c) = Abstract!Failed
  BY DEF Abstract!Failed
<1> HIDE DEF Progress
<1> QED
  BY <1>1, <1>2, <1>3, <1>4, <1>5, <1>6 DEF ProgressFacts

LEMMA ProgressThen ==
    ASSUME NEW c \in Calls
    PROVE  ProgressFacts(c)'
<1>1. ProgressFacts(c)
  BY ProgressNow
<1> QED
  BY <1>1, PTL

\* A step of c is one of its own progress.
LEMMA OnlyOneMoves ==
    ASSUME NEW c \in Calls,
           \A d \in Calls \ {c} : /\ pc'[d] = pc[d]
                                  /\ reply'[d] = reply[d]
                                  /\ result'[d] = result[d]
    PROVE  calls' = [calls EXCEPT ![c] = Progress(c)']
<1>1. ASSUME NEW d \in Calls \ {c}
      PROVE  Progress(d)' = Progress(d)
  <2>1. pc'[d] = pc[d] /\ reply'[d] = reply[d] /\ result'[d] = result[d]
    OBVIOUS
  <2> QED
    BY <2>1 DEF Progress
<1> QED
  BY <1>1 DEF calls

\* The abstract step c takes, from its progress before and after.
LEMMA AbstractStep ==
    ASSUME NEW c \in Calls, UNCHANGED <<wallets, balance>>,
           calls' = [calls EXCEPT ![c] = Progress(c)'],
           \/ Progress(c)' = Progress(c)
           \/ Progress(c) = Abstract!NotBegun /\ Progress(c)' = Abstract!Pending
           \/ Progress(c).state = "taken" /\ Progress(c)' = Abstract!Pending
           \/ /\ Progress(c).state = "taken"
              /\ Progress(c)' = Abstract!Returned(Progress(c).value)
           \/ Progress(c).state \in {"pending", "taken"} /\ Progress(c)' = Abstract!Failed
    PROVE  [Abstract!CallsNext]_<<wallets, balance, calls>>
<1>1. calls[c] = Progress(c)
  BY DEF calls
<1>2. CASE Progress(c)' = Progress(c)
  <2>1. calls' = calls
    BY <1>1, <1>2 DEF calls
  <2> QED
    BY <2>1
<1>3. CASE Progress(c)' # Progress(c)
  <2>1. \/ Abstract!Begin(c) \/ Abstract!Lose(c) \/ Abstract!Return(c) \/ Abstract!Fail(c)
    BY <1>1, <1>3 DEF Abstract!Begin, Abstract!Lose, Abstract!Return, Abstract!Fail,
       Abstract!Become, calls
  <2> QED
    BY <2>1 DEF Abstract!CallsNext
<1> QED
  BY <1>2, <1>3

LEMMA StateNames ==
    /\ \A v : Abstract!Taken(v).state = "taken" /\ Abstract!Taken(v).value = v
    /\ Abstract!Pending.state = "pending"
  BY DEF Abstract!Taken, Abstract!Pending

\* What a step of c leaves of the other calls.
LEMMA OthersStay ==
    ASSUME IInv, NEW c \in Calls, Step(c)
    PROVE  calls' = [calls EXCEPT ![c] = Progress(c)']
<1> USE DEF IInv, TypeOK, Goto
<1>1. CASE Send(c)
  BY <1>1, OnlyOneMoves DEF Send
<1>2. CASE Serve(c)
  BY <1>2, OnlyOneMoves
     DEF Serve, ServeGetBalance, ServeValidateUser, ServeFails, Intercept, Reply
<1>3. CASE Receive(c) \/ Lose(c)
  BY <1>3, OnlyOneMoves DEF Receive, Lose, Fail, Return
<1>4. CASE Wake(c)
  BY <1>4, OnlyOneMoves DEF Wake, Return
<1> QED
  BY <1>1, <1>2, <1>3, <1>4 DEF Step

\* An error is the end of the call or not to be seen.
LEMMA FailRefines ==
    ASSUME IInv, NEW c \in Calls, Step(c), pc[c] \in {"sent", "answered", "waiting"},
           UNCHANGED <<wallets, balance>>,
           \/ pc'[c] \in {"waiting", "next"}
           \/ pc'[c] = "done" /\ result'[c].code # "OK"
    PROVE  [Abstract!CallsNext]_<<wallets, balance, calls>>
<1>1. ProgressFacts(c) /\ ProgressFacts(c)'
  BY ProgressNow, ProgressThen
<1>2. Progress(c) = Abstract!Pending \/ Progress(c) = Abstract!Taken(reply[c].value)
  BY <1>1 DEF ProgressFacts
<1>3. Progress(c)' = Abstract!Pending \/ Progress(c)' = Abstract!Failed
  <2>1. CASE pc'[c] \in {"waiting", "next"}
    BY <1>1, <2>1 DEF ProgressFacts, Abstract!Pending
  <2>2. CASE pc'[c] = "done" /\ result'[c].code # "OK"
    BY <1>1, <2>2 DEF ProgressFacts, Abstract!Failed
  <2> QED
    BY <2>1, <2>2
<1>4. Progress(c).state \in {"pending", "taken"}
  BY <1>2, StateNames
<1> QED
  BY <1>2, <1>3, <1>4, OthersStay, AbstractStep, StateNames

\* What a call is sent or returns is there for it.
LEMMA ReplyIs ==
    ASSUME IInv, NEW c \in Calls, NEW r
    PROVE  /\ Reply(c, r) => reply'[c] = r
           /\ Return(c, r) => result'[c] = r /\ pc'[c] = "done"
  BY DEF Reply, Return, Goto, IInv, TypeOK

\* A call that fails waits for its next attempt or returns the error.
LEMMA ErrorEnds ==
    ASSUME IInv, NEW c \in Calls, NEW code \in Codes, Fail(c, code)
    PROVE  \/ pc'[c] = "waiting"
           \/ pc'[c] = "done" /\ result'[c].code # "OK"
<1>1. Error(code).code # "OK"
  BY ResultTypes
<1> QED
  BY <1>1 DEF Fail, Return, Goto, IInv, TypeOK

LEMMA SendRefines ==
    ASSUME IInv, NEW c \in Calls, Send(c)
    PROVE  [Abstract!CallsNext]_<<wallets, balance, calls>>
<1>1. /\ pc[c] \in {"idle", "next"} /\ pc'[c] = "sent"
      /\ UNCHANGED <<wallets, balance>>
      /\ Step(c)
  BY DEF Send, Goto, IInv, TypeOK, Step
<1>2. Progress(c)' = Abstract!Pending
  BY <1>1, ProgressThen DEF ProgressFacts, Abstract!Pending
<1>3. Progress(c) = Abstract!NotBegun \/ Progress(c) = Abstract!Pending
  BY <1>1, ProgressNow DEF ProgressFacts
<1> QED
  BY <1>1, <1>2, <1>3, OthersStay, AbstractStep

LEMMA ServeRefines ==
    ASSUME IInv, NEW c \in Calls, Serve(c)
    PROVE  [Abstract!CallsNext]_<<wallets, balance, calls>>
<1>1. /\ pc[c] = "sent" /\ pc'[c] = "answered"
      /\ calls' = [calls EXCEPT ![c] = Progress(c)']
      /\ calls[c] = Abstract!Pending /\ Progress(c) = Abstract!Pending
      /\ UserOf[c] \in Users
  <2>1. pc[c] = "sent" /\ pc'[c] = "answered"
    BY DEF Serve, ServeGetBalance, ServeValidateUser, ServeFails, Intercept, Reply, Goto,
           IInv, TypeOK
  <2>2. Progress(c) = Abstract!Pending
    BY <2>1, ProgressNow DEF ProgressFacts
  <2> QED
    BY <2>1, <2>2, OthersStay, CallTypes DEF Step, calls
<1>2. ASSUME NEW v, reply'[c] = OK(v)
      PROVE  Progress(c)' = Abstract!Taken(v)
  <2>1. reply'[c].code = "OK" /\ reply'[c].value = v
    BY <1>2 DEF OK
  <2>2. Progress(c)' = Abstract!Taken(reply'[c].value)
    BY <1>1, <2>1, ProgressThen DEF ProgressFacts, Abstract!Taken
  <2> QED
    BY <2>1, <2>2 DEF Abstract!Taken
<1>3. ASSUME NEW code \in Codes, reply'[c] = Error(code), UNCHANGED <<wallets, balance>>
      PROVE  [Abstract!CallsNext]_<<wallets, balance, calls>>
  <2>1. reply'[c].code # "OK"
    BY <1>3, ResultTypes
  <2>2. Progress(c)' = Progress(c)
    BY <1>1, <2>1, ProgressThen DEF ProgressFacts, Abstract!Pending
  <2> QED
    BY <1>1, <1>3, <2>2, AbstractStep
<1>4. CASE ServeGetBalance(c)
  <2>1. CASE UserOf[c] \in wallets
    <3>1. reply'[c] = OK(balance[UserOf[c]]) /\ UNCHANGED <<wallets, balance>>
          /\ Method[c] = "GetBalance"
      BY <1>4, <2>1, ReplyIs DEF ServeGetBalance
    <3>2. Abstract!TakeBalance(c)
      BY <1>1, <1>2, <2>1, <3>1 DEF Abstract!TakeBalance, Abstract!Become, calls
    <3> QED
      BY <3>2 DEF Abstract!CallsNext
  <2>2. CASE UserOf[c] \notin wallets
    <3>1. reply'[c] = Error("Internal") /\ UNCHANGED <<wallets, balance>>
      BY <1>4, <2>2, ReplyIs DEF ServeGetBalance
    <3> QED
      BY <1>3, <3>1 DEF Codes, Final
  <2> QED
    BY <2>1, <2>2
<1>5. CASE ServeValidateUser(c)
  <2>1. /\ reply'[c] = OK(1) /\ Method[c] = "ValidateUser"
        /\ wallets' = wallets \cup {UserOf[c]}
    BY <1>5, ReplyIs DEF ServeValidateUser, CreateWallet, Valid
  <2>2. UNCHANGED balance
    BY <1>1, <1>5, CreateWalletCreates DEF Creates, ServeValidateUser
  <2>3. Abstract!TakeValidity(c)
    BY <1>1, <1>2, <2>1, <2>2 DEF Abstract!TakeValidity, Abstract!Become, calls
  <2> QED
    BY <2>3 DEF Abstract!CallsNext
<1>6. CASE ServeFails(c)
  <2>1. /\ UNCHANGED balance
        /\ wallets' = wallets \/ wallets' = wallets \cup {UserOf[c]}
        /\ Method[c] # "ValidateUser" => wallets' = wallets
    BY <1>1, <1>6, CreateWalletCreates DEF ServeFails, CreateWallet, Creates
  <2>2. CASE Method[c] = "ValidateUser"
    <3>1. reply'[c] = OK(0)
      BY <1>6, <2>2, ReplyIs DEF ServeFails, Invalid
    <3>2. Abstract!TakeValidity(c)
      BY <1>1, <1>2, <2>1, <2>2, <3>1 DEF Abstract!TakeValidity, Abstract!Become, calls
    <3> QED
      BY <3>2 DEF Abstract!CallsNext
  <2>3. CASE Method[c] # "ValidateUser"
    <3>1. reply'[c] = Error("Internal") /\ UNCHANGED <<wallets, balance>>
      BY <1>6, <2>1, <2>3, ReplyIs DEF ServeFails
    <3> QED
      BY <1>3, <3>1 DEF Codes, Final
  <2> QED
    BY <2>2, <2>3
<1>7. CASE Intercept(c)
  <2>1. PICK code \in {"PermissionDenied", "Unauthenticated"} : reply'[c] = Error(code)
    BY <1>7, ReplyIs DEF Intercept
  <2> QED
    BY <1>3, <1>7, <2>1 DEF Intercept, Codes, Final
<1> QED
  BY <1>4, <1>5, <1>6, <1>7 DEF Serve

LEMMA ReceiveRefines ==
    ASSUME IInv, NEW c \in Calls, Receive(c)
    PROVE  [Abstract!CallsNext]_<<wallets, balance, calls>>
<1>1. pc[c] = "answered" /\ UNCHANGED <<wallets, balance>> /\ Step(c)
  BY DEF Receive, Step
<1>2. CASE reply[c].code = "OK"
  <2>1. pc'[c] = "done" /\ result'[c] = reply[c]
    BY <1>2 DEF Receive, Return, Goto, IInv, TypeOK
  <2>2. Progress(c) = Abstract!Taken(reply[c].value)
    BY <1>1, <1>2, ProgressNow DEF ProgressFacts
  <2>3. Progress(c)' = Abstract!Returned(reply[c].value)
    BY <1>2, <2>1, ProgressThen DEF ProgressFacts, Abstract!Returned
  <2>4. Progress(c).state = "taken" /\ Progress(c).value = reply[c].value
    BY <2>2, StateNames
  <2> QED
    BY <1>1, <2>3, <2>4, OthersStay, AbstractStep
<1>3. CASE reply[c].code # "OK"
  <2>1. PICK code : code = reply[c].code
    OBVIOUS
  <2>2. code \in Codes /\ Fail(c, code)
    BY <1>1, <1>3, <2>1, CallState DEF Receive, Results, Codes
  <2> QED
    BY <1>1, <2>2, ErrorEnds, FailRefines
<1> QED
  BY <1>2, <1>3

LEMMA LoseRefines ==
    ASSUME IInv, NEW c \in Calls, Lose(c)
    PROVE  [Abstract!CallsNext]_<<wallets, balance, calls>>
<1>1. pc[c] \in {"sent", "answered"} /\ UNCHANGED <<wallets, balance>> /\ Step(c)
  BY DEF Lose, Step
<1>2. PICK code \in Codes : Fail(c, code)
  BY DEF Lose, Codes
<1> QED
  BY <1>1, <1>2, ErrorEnds, FailRefines

LEMMA WakeRefines ==
    ASSUME IInv, NEW c \in Calls, Wake(c)
    PROVE  [Abstract!CallsNext]_<<wallets, balance, calls>>
<1>1. pc[c] = "waiting" /\ UNCHANGED <<wallets, balance>> /\ Step(c)
  BY DEF Wake, Step
<1>2. pc'[c] = "next" \/ (pc'[c] = "done" /\ result'[c] = Error("Canceled"))
  BY ReplyIs DEF Wake, Goto, IInv, TypeOK
<1>3. Error("Canceled").code # "OK"
  BY ResultTypes DEF Codes
<1> QED
  BY <1>1, <1>2, <1>3, FailRefines

\* The instants at which calls take their answers are the servings of their
\* last attempts.
THEOREM CallsImplemented == Spec => ImplementsWalletCalls
<1>1. Init => Abstract!CallsInit
  <2> SUFFICES ASSUME Init PROVE Abstract!CallsInit
    OBVIOUS
  <2>1. ASSUME NEW c \in Calls
        PROVE  Progress(c) = Abstract!NotBegun
    <3>1. pc[c] = "idle"
      BY DEF Init
    <3> QED
      BY <3>1, ProgressNow DEF ProgressFacts
  <2>2. calls = [c \in Calls |-> Abstract!NotBegun]
    BY <2>1 DEF calls
  <2> QED
    BY <2>2 DEF Init, Abstract!CallsInit, calls
<1>2. IInv /\ [Next]_vars => [Abstract!CallsNext]_<<wallets, balance, calls>>
  <2> SUFFICES ASSUME IInv, [Next]_vars
               PROVE  [Abstract!CallsNext]_<<wallets, balance, calls>>
    OBVIOUS
  <2>1. ASSUME UNCHANGED <<pc, reply, result>>
        PROVE  calls' = calls
    BY <2>1 DEF calls, Progress
  <2>2. ASSUME NEW c \in Calls, ServeStray(c)
        PROVE  [Abstract!CallsNext]_<<wallets, balance, calls>>
    <3>1. UserOf[c] \in Users /\ calls' = calls
      BY <2>1, <2>2, CallTypes DEF ServeStray
    <3>2. CASE CreateWallet(UserOf[c])
      <4>1. wallets' = wallets \cup {UserOf[c]} /\ UNCHANGED balance
        BY <3>1, <3>2, CreateWalletCreates DEF Creates, CreateWallet
      <4>2. Abstract!Touch(UserOf[c])
        BY <3>1, <4>1 DEF Abstract!Touch, calls
      <4> QED
        BY <3>1, <4>2 DEF Abstract!CallsNext
    <3>3. CASE UNCHANGED <<wallets, balance>>
      BY <3>1, <3>3
    <3> QED
      BY <2>2, <3>2, <3>3 DEF ServeStray
  <2>3. ASSUME NEW u \in Users, Transact(u)
        PROVE  [Abstract!CallsNext]_<<wallets, balance, calls>>
    <3>1. PICK b \in 0..MaxBalance : balance' = [balance EXCEPT ![u] = b]
      BY <2>3 DEF Transact
    <3>2. balance'[u] = b /\ b \in Nat
      BY <3>1, CallsAssumption DEF IInv, TypeOK
    <3>3. wallets' = wallets \cup {u} /\ calls' = calls
      BY <2>1, <2>3 DEF Transact
    <3>4. Abstract!Transact(u)
      BY <3>1, <3>2, <3>3 DEF Abstract!Transact, calls
    <3> QED
      BY <3>4 DEF Abstract!CallsNext
  <2>4. CASE UNCHANGED vars
    BY <2>1, <2>4 DEF vars
  <2> QED
    BY <2>2, <2>3, <2>4, SendRefines, ServeRefines, ReceiveRefines, LoseRefines,
       WakeRefines DEF Next, Step, Finished
<1>3. Abstract!CallsInit /\ [][Abstract!CallsNext]_<<wallets, balance, calls>>
         => ImplementsWalletCalls
  BY DEF ImplementsWalletCalls, Abstract!CallsSpec, Abstract!callVars, calls
<1> QED
  BY <1>1, <1>2, <1>3, Inductive, PTL DEF Spec

-----------------------------------------------------------------------------
(* How long a call can take.                                               *)

\* What a step does to a call it is about: it goes on within the attempt, the
\* delay ends and the next attempt begins, or the call is over.
Advances(c) ==
    /\ pc[c] # "done"
    /\ \/ tries'[c] = tries[c] /\ \/ pc[c] \in {"idle", "next"} /\ pc'[c] = "sent"
                                  \/ pc[c] = "sent" /\ pc'[c] = "answered"
                                  \/ pc[c] \in {"sent", "answered"} /\ pc'[c] = "waiting"
                                  \/ pc'[c] = "done"
       \/ tries'[c] = tries[c] + 1 /\ pc[c] = "waiting" /\ pc'[c] = "next"

SameCall(c) == UNCHANGED <<pc[c], tries[c], reply[c], result[c]>>

LEMMA StepAdvances ==
    ASSUME IInv, NEW c \in Calls, Step(c)
    PROVE  Advances(c) /\ \A d \in Calls \ {c} : SameCall(d)
<1> USE DEF IInv, TypeOK, Advances, SameCall, Goto, Return
<1>1. CASE Send(c)
  BY <1>1 DEF Send
<1>2. CASE Serve(c)
  BY <1>2 DEF Serve, ServeGetBalance, ServeValidateUser, ServeFails, Intercept, Reply
<1>3. CASE Receive(c)
  BY <1>3 DEF Receive, Fail
<1>4. CASE Lose(c)
  BY <1>4 DEF Lose, Fail
<1>5. CASE Wake(c)
  BY <1>5 DEF Wake
<1> QED
  BY <1>1, <1>2, <1>3, <1>4, <1>5 DEF Step

\* How long each place of the program is from the end.
Stage == [idle |-> 4, next |-> 4, sent |-> 3, answered |-> 2, waiting |-> 1]

LEMMA StageIs ==
    /\ Stage["idle"] = 4 /\ Stage["next"] = 4 /\ Stage["sent"] = 3
    /\ Stage["answered"] = 2 /\ Stage["waiting"] = 1
  BY DEF Stage

LEMMA StepsLeftIs ==
    ASSUME NEW c \in Calls
    PROVE  /\ pc[c] = "done" => StepsLeft(c) = 0
           /\ pc[c] # "done" =>
                StepsLeft(c) = 4 * (Len(RetryDelays) - tries[c]) + Stage[pc[c]]
           /\ pc'[c] = "done" => StepsLeft(c)' = 0
           /\ pc'[c] # "done" =>
                StepsLeft(c)' = 4 * (Len(RetryDelays) - tries'[c]) + Stage[pc'[c]]
  BY Zenon DEF StepsLeft, Stage

LEMMA AdvancingCountsDown ==
    ASSUME IInv, IInv', NEW c \in Calls, Advances(c)
    PROVE  0 <= StepsLeft(c)' /\ StepsLeft(c)' < StepsLeft(c)
<1>1. /\ Len(RetryDelays) \in Nat
      /\ tries[c] \in 0..Len(RetryDelays) /\ tries'[c] \in 0..Len(RetryDelays)
  BY CallTypes DEF IInv, TypeOK
<1>2. pc[c] \in {"idle", "sent", "answered", "waiting", "next", "done"}
  BY DEF IInv, TypeOK
<1>3. PICK left \in Nat : left = Len(RetryDelays) - tries[c]
  BY <1>1
<1>4. PICK before \in 1..4 : before = Stage[pc[c]] /\ StepsLeft(c) = 4 * left + before
  BY <1>2, <1>3, StepsLeftIs, StageIs DEF Advances
<1>5. CASE pc'[c] = "done"
  <2>1. StepsLeft(c)' = 0
    BY <1>5, StepsLeftIs
  <2> QED
    BY <1>4, <2>1
<1>6. CASE pc'[c] # "done" /\ tries'[c] = tries[c]
  <2>1. /\ pc[c] \in {"idle", "next"} => pc'[c] \in {"sent"}
        /\ pc[c] = "sent" => pc'[c] \in {"answered", "waiting"}
        /\ pc[c] = "answered" => pc'[c] \in {"waiting"}
        /\ pc[c] \in {"idle", "next", "sent", "answered"}
    BY <1>1, <1>2, <1>6 DEF Advances
  <2>2. PICK after \in 1..4 : after = Stage[pc'[c]]
    BY <2>1, StageIs
  <2>3. after < before
    BY <1>4, <2>1, <2>2, StageIs
  <2>4. StepsLeft(c)' = 4 * left + after
    BY <1>3, <1>6, <2>2, StepsLeftIs
  <2> QED
    BY <1>4, <2>3, <2>4
<1>7. CASE pc[c] = "waiting" /\ pc'[c] = "next" /\ tries'[c] = tries[c] + 1
  <2>1. before = 1 /\ Stage[pc'[c]] = 4
    BY <1>4, <1>7, StageIs
  <2>2. StepsLeft(c)' = 4 * (Len(RetryDelays) - (tries[c] + 1)) + 4
    BY <1>7, <2>1, StepsLeftIs
  <2>3. Len(RetryDelays) - (tries[c] + 1) = left - 1
    BY <1>1, <1>3
  <2>4. StepsLeft(c)' = 4 * left
    BY <2>2, <2>3
  <2> QED
    BY <1>4, <2>1, <2>4
<1> QED
  BY <1>1, <1>5, <1>6, <1>7 DEF Advances

\* A call ends after at most four steps for each attempt, and nothing that
\* others do gives it more.
THEOREM StepsRunOut == Spec => CallsCountDown
<1>1. ASSUME IInv, IInv', [Next]_vars, NEW c \in Calls
      PROVE  IF UNCHANGED <<pc[c], tries[c], reply[c], result[c]>>
             THEN StepsLeft(c)' = StepsLeft(c)
             ELSE 0 <= StepsLeft(c)' /\ StepsLeft(c)' < StepsLeft(c)
  <2>1. SameCall(c) \/ Advances(c)
    BY <1>1, StepAdvances
       DEF Next, ServeStray, Transact, Finished, vars, SameCall
  <2>2. SameCall(c) => StepsLeft(c)' = StepsLeft(c)
    BY DEF SameCall, StepsLeft
  <2>3. Advances(c) => ~SameCall(c)
    BY DEF Advances, SameCall
  <2> QED
    BY <1>1, <2>1, <2>2, <2>3, AdvancingCountsDown DEF SameCall
<1>2. IInv /\ IInv' /\ [Next]_vars =>
        [\A c \in Calls :
            IF UNCHANGED <<pc[c], tries[c], reply[c], result[c]>>
            THEN StepsLeft(c)' = StepsLeft(c)
            ELSE 0 <= StepsLeft(c)' /\ StepsLeft(c)' < StepsLeft(c)]_vars
  BY <1>1
<1> QED
  BY <1>2, Inductive, PTL DEF Spec, CallsCountDown
=============================================================================
