---------------------------- MODULE WalletLedger ----------------------------
(***************************************************************************)
(* What ms-wallet promises its callers, without saying how: each user has  *)
(* a ledger, a sequence of transactions that only grows at its end.  An    *)
(* idempotency key is posted at most once over all the ledgers, every      *)
(* transaction starts from the balance the previous one left, no balance   *)
(* goes below zero, and a request that is told CREATED is told of a        *)
(* transaction that is on a ledger under the key it presented.             *)
(*                                                                         *)
(* WalletService is shown to implement this specification.                 *)
(***************************************************************************)
EXTENDS WalletData

VARIABLES
    ledger,     \* [Users -> Seq(Entry)]
    answer      \* [Requests -> Answers]

ledgerVars == <<ledger, answer>>

LedgerInit ==
    /\ ledger = [u \in Users |-> <<>>]
    /\ answer = [r \in Requests |-> NoAnswer]

\* The transaction of r goes to the end of its user's ledger.  A request that
\* was refused never posts: a refusal is final.
Post(r) ==
    LET u == UserOf(r)
        b == BalanceOf(ledger[u])
    IN /\ Carrying(ledger, KeyOf(r)) = {}
       /\ answer[r].code \notin Refusals
       /\ NewTransactionError(r, b) = "NONE"
       /\ ledger' = [ledger EXCEPT ![u] = Append(@, NewTransaction(r, b))]
       /\ UNCHANGED answer

Reply(r, code, tx) ==
    /\ answer[r] = NoAnswer
    /\ answer' = [answer EXCEPT ![r] = [code |-> code, tx |-> tx]]
    /\ UNCHANGED ledger

\* r is told of the posted transaction of its key, its own or an earlier one.
Confirm(r) == \E tx \in Carrying(ledger, KeyOf(r)) : Reply(r, "CREATED", tx)

\* r is told it changed nothing, and it did not.
Refuse(r) ==
    /\ \A i \in 1..Len(ledger[UserOf(r)]) : ledger[UserOf(r)][i].by # r
    /\ \E code \in Refusals : Reply(r, code, NoTx)

\* r is not told whether it took effect.
LeaveInDoubt(r) == \E code \in Unknowns : Reply(r, code, NoTx)

LedgerNext == \E r \in Requests : Post(r) \/ Confirm(r) \/ Refuse(r) \/ LeaveInDoubt(r)

LedgerSpec == LedgerInit /\ [][LedgerNext]_ledgerVars
=============================================================================
