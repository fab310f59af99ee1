---------------------------- MODULE WalletCalls ----------------------------
(***************************************************************************)
(* What the wallet client promises ms-users, without saying how: a call    *)
(* has not begun, is pending, has taken its answer, or is over.  It takes  *)
(* its answer at one instant, from the wallets as they are then; what it   *)
(* took may be lost before it returns, and then it takes anew or fails.    *)
(* All that a lost or late attempt leaves behind is a wallet that is new.  *)
(*                                                                         *)
(* WalletClient is shown to implement this specification.                  *)
(***************************************************************************)
EXTENDS Integers

CONSTANTS Calls, Users, Method, UserOf

VARIABLES
    wallets, \* the users that have a wallet
    balance, \* their balances, 0 without one
    call     \* how far each call is

callVars == <<wallets, balance, call>>

NotBegun == [state |-> "not begun", value |-> 0]
Pending == [state |-> "pending", value |-> 0]
Taken(v) == [state |-> "taken", value |-> v]
Returned(v) == [state |-> "returned", value |-> v]
Failed == [state |-> "failed", value |-> 0]

CallsInit ==
    /\ wallets = {}
    /\ balance = [u \in Users |-> 0]
    /\ call = [c \in Calls |-> NotBegun]

Become(c, s) == call' = [call EXCEPT ![c] = s]

Begin(c) ==
    /\ call[c] = NotBegun
    /\ Become(c, Pending)
    /\ UNCHANGED <<wallets, balance>>

\* GetBalance takes the balance of a wallet that exists.
TakeBalance(c) ==
    /\ call[c] = Pending
    /\ Method[c] = "GetBalance"
    /\ UserOf[c] \in wallets
    /\ Become(c, Taken(balance[UserOf[c]]))
    /\ UNCHANGED <<wallets, balance>>

\* ValidateUser takes 1 when the user has a wallet from then on, or 0 when
\* that could not be found out.
TakeValidity(c) ==
    /\ call[c] = Pending
    /\ Method[c] = "ValidateUser"
    /\ \/ Become(c, Taken(1)) /\ wallets' = wallets \cup {UserOf[c]}
       \/ Become(c, Taken(0)) /\ wallets' \in {wallets, wallets \cup {UserOf[c]}}
    /\ UNCHANGED balance

Lose(c) ==
    /\ call[c].state = "taken"
    /\ Become(c, Pending)
    /\ UNCHANGED <<wallets, balance>>

Return(c) ==
    /\ call[c].state = "taken"
    /\ Become(c, Returned(call[c].value))
    /\ UNCHANGED <<wallets, balance>>

Fail(c) ==
    /\ call[c].state \in {"pending", "taken"}
    /\ Become(c, Failed)
    /\ UNCHANGED <<wallets, balance>>

\* A wallet is created and nothing is paid into it.
Touch(u) == wallets' = wallets \cup {u} /\ UNCHANGED <<balance, call>>

\* A transaction, whatever it makes of the balance of u.
Transact(u) ==
    /\ wallets' = wallets \cup {u}
    /\ balance'[u] \in Nat
    /\ balance' = [balance EXCEPT ![u] = balance'[u]]
    /\ UNCHANGED call

CallsNext ==
    \/ \E c \in Calls :
          Begin(c) \/ TakeBalance(c) \/ TakeValidity(c) \/ Lose(c) \/ Return(c) \/ Fail(c)
    \/ \E u \in Users : Touch(u) \/ Transact(u)

CallsSpec == CallsInit /\ [][CallsNext]_callVars
=============================================================================
