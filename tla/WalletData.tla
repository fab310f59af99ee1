----------------------------- MODULE WalletData -----------------------------
(***************************************************************************)
(* The data ms-wallet works on: requests, transactions and answers, and    *)
(* the pure functions of its domain package.  Shared by the abstract       *)
(* ledger (WalletLedger) and by the service (WalletService).               *)
(*                                                                         *)
(* Money is in cents.  A transaction keeps the request that built it and   *)
(* the two balances; its other columns (user, key, type, amount) are       *)
(* copied from that request.                                               *)
(***************************************************************************)
EXTENDS Integers, Sequences

CONSTANTS
    Users,      \* wallet owners: the "sub" claim of the caller's token
    Requests,   \* POST /transactions requests, each sent at most once
    Keys,       \* values of the Idempotency-Key header
    NoKey,      \* the header is absent
    NoTx,       \* no transaction
    Req         \* what each request asks for

\* amount is the value in cents, exp the exponent it was written with.
RequestForm ==
    [user: Users, key: Keys \cup {NoKey}, type: STRING, amount: Int, exp: Int]

ASSUME ReqAssumption == Req \in [Requests -> RequestForm]

Entry == [by: Requests, before: Int, after: Int]

ASSUME NoTxAssumption == NoTx \notin Entry

UserOf(r) == Req[r].user
KeyOf(r) == Req[r].key

\* The transactions in a family of per-user sequences that carry key k.
Carrying(l, k) ==
    {e \in UNION {{l[u][i] : i \in 1..Len(l[u])} : u \in Users} : KeyOf(e.by) = k}

\* The balance a sequence of transactions leaves; a new wallet has none.
BalanceOf(s) == IF Len(s) = 0 THEN 0 ELSE s[Len(s)].after

-----------------------------------------------------------------------------
(* domain.NewTransaction                                                   *)

Types == {"CREDIT", "DEBIT"}

BalanceAfter(r, b) ==
    IF Req[r].type = "CREDIT" THEN b + Req[r].amount ELSE b - Req[r].amount

\* A mutant: the floor check is lost.
NewTransactionErrorNoFloor(r, b) ==
    IF Req[r].amount <= 0 THEN "INVALID_AMOUNT"
    ELSE IF Req[r].exp < -2 THEN "INVALID_PRECISION"
    ELSE "NONE"

\* The first check that fails on a balance of b, "NONE" when all pass.
NewTransactionError(r, b) ==
    IF Req[r].amount <= 0 THEN "INVALID_AMOUNT"
    ELSE IF Req[r].exp < -2 THEN "INVALID_PRECISION"
    ELSE IF Req[r].type \notin Types THEN "INVALID_TYPE"
    ELSE IF Req[r].type = "DEBIT" /\ BalanceAfter(r, b) < 0 THEN "INSUFFICIENT_FUNDS"
    ELSE "NONE"

NewTransaction(r, b) == [by |-> r, before |-> b, after |-> BalanceAfter(r, b)]

-----------------------------------------------------------------------------
(* Answers                                                                 *)

\* The answers that promise the request changed nothing.
Refusals == {"MISSING_IDEMPOTENCY_KEY", "VALIDATION_ERROR", "INVALID_AMOUNT",
             "INVALID_PRECISION", "INVALID_TYPE", "INSUFFICIENT_FUNDS",
             "DUPLICATE", "CONFLICT"}

\* The answers after which the caller cannot tell whether it took effect.
Unknowns == {"TIMEOUT", "INTERNAL_ERROR"}

Codes == {"NONE", "CREATED"} \cup Refusals \cup Unknowns

Answers == [code: Codes, tx: Entry \cup {NoTx}]

NoAnswer == [code |-> "NONE", tx |-> NoTx]
=============================================================================
