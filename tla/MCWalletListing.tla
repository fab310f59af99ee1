-------------------------- MODULE MCWalletListing --------------------------
(***************************************************************************)
(* A small instance of WalletListing: integers from -8 to 7, pages of one or  *)
(* two transactions, and queries at the edges of the arithmetic.           *)
(***************************************************************************)
EXTENDS WalletListing, TLC

CONSTANTS r1, r2, r3, r4, alice, k1, k2, k3, Garbage

Request(k, t, a) == [user |-> alice, key |-> k, type |-> t, amount |-> a, exp |-> 0]

\* Two credits and a debit that returns the balance to a value it had.
MovingWallet ==
    (r1 :> Request(k1, "CREDIT", 1)) @@
    (r2 :> Request(k2, "DEBIT", 1)) @@
    (r3 :> Request(k3, "CREDIT", 1)) 

Query(t, l, p, o) == [user |-> alice, type |-> t, limit |-> l, page |-> p, offset |-> o]

\* Two walks, one of them filtered; a walk with the default limit, whatever
\* is said of the offset; a raw offset; the last offset that fits, and
\* products that wrap to a negative one and to 0.
EdgeQueries ==
    {Query(Missing, 1, 1, Missing), Query("CREDIT", 1, 1, Missing),
     Query(Missing, 0, Garbage, 1), Query(Missing, Garbage, Missing, 1),
     Query(Missing, 7, 2, Missing), Query(Missing, 2, 3, Missing),
     Query(Missing, 7, 3, Missing), Query(Missing, 4, 5, Missing)}

MovingRequests == MovingWallet
MCQueries == EdgeQueries
=============================================================================
