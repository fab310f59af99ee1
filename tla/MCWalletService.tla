--------------------------- MODULE MCWalletService --------------------------
(***************************************************************************)
(* Small instances of WalletService.                                       *)
(***************************************************************************)
EXTENDS WalletService, TLC

CONSTANTS r1, r2, r3, r4, alice, bob, k1, k2, k3

Request(u, k, t, a) == [user |-> u, key |-> k, type |-> t, amount |-> a, exp |-> 0]

\* Three distinct requests on one wallet: the debit is covered by either
\* credit, and the balance returns to a value it had before.
Contention ==
    (r1 :> Request(alice, k1, "CREDIT", 1)) @@
    (r2 :> Request(alice, k2, "CREDIT", 1)) @@
    (r3 :> Request(alice, k3, "DEBIT", 1))

\* A debit, its duplicate, and a credit that covers only one of them.
ExactFunds ==
    (r1 :> Request(alice, k1, "DEBIT", 1)) @@
    (r2 :> Request(alice, k1, "DEBIT", 1)) @@
    (r3 :> Request(alice, k2, "CREDIT", 1))

\* One key used by a request, by its duplicate and on another wallet, and a
\* request without a key.
OneKey ==
    (r1 :> Request(alice, k1, "CREDIT", 2)) @@
    (r2 :> Request(alice, k1, "CREDIT", 2)) @@
    (r3 :> Request(bob, k1, "CREDIT", 1)) @@
    (r4 :> Request(bob, NoKey, "CREDIT", 1))

\* TLC keeps the value of a definition but evaluates the body of what a cfg
\* substitutes for a constant at every use: the cfgs name these.
ContentionRequests == Contention
ExactFundsRequests == ExactFunds
OneKeyRequests == OneKey
=============================================================================
