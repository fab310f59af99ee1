---------------------------- MODULE WalletService ---------------------------
(***************************************************************************)
(* POST /transactions of ms-wallet: the handler, the use case with its     *)
(* optimistic retry loop, and the MongoDB repository, one action per       *)
(* database round trip.  Any number of service instances serve the         *)
(* requests; they share nothing but the database, so each request is a     *)
(* process.                                                                *)
(*                                                                         *)
(* MongoDB is modelled from how the code uses it (external).  A session    *)
(* transaction holds the wallet document from its first write to its end;  *)
(* a second writer gets a write conflict.  A commit is applied by the      *)
(* primary, becomes majority-committed later, and can be rolled back by a  *)
(* failover until then.  The code asks for majority read and write         *)
(* concern, so it reads and acknowledges majority-committed transactions.  *)
(***************************************************************************)
EXTENDS WalletData

CONSTANTS
    MaxConflictRetries, \* maxConflictRetries: 50 in the code
    FaultyRequests,     \* bound: the requests whose caller, instance or
                        \* connection may fail
    MaxFailovers        \* bound: how many times the primary changes

ASSUME BoundsAssumption == MaxConflictRetries \in Nat /\ MaxFailovers \in Nat

VARIABLES
    pc,         \* where the goroutine that serves the request is
    attempt,    \* the loop counter of the use case
    cancelled,  \* the requests whose context is done
    draft,      \* the domain.Transaction the request is trying to write
    answer,     \* what the handler answered
    wallets,    \* the users that have a document in "wallets"
    balance,    \* the balance field of those documents, 0 without one
    log,        \* each user's documents in "transactions", in commit order
    durable,    \* how many of them are majority-committed
    txn,        \* the server side of the request's session transaction
    sawKey,     \* whether its snapshot holds the request's idempotency key
    failovers   \* how many times the primary has changed

vars == <<pc, attempt, cancelled, draft, answer, wallets, balance, log,
          durable, txn, sawKey, failovers>>

documents == <<wallets, balance, log, durable>>
sessions == <<txn, sawKey>>
environment == <<cancelled, failovers>>

-----------------------------------------------------------------------------
\* The transactions that no failover can roll back.
DurableLog == [u \in Users |-> [i \in 1..durable[u] |-> log[u][i]]]

CommittedBy(r) == \E i \in 1..Len(log[UserOf(r)]) : log[UserOf(r)][i].by = r

DurablyCommittedBy(r) ==
    \E i \in 1..durable[UserOf(r)] : log[UserOf(r)][i].by = r

\* Some committed transaction, of any user, carries key k.
KeyCommitted(k) == Carrying(log, k) # {}

\* A mutant: the index on idempotency_key is not unique.
KeyIsFree(r) == FALSE

\* The unique index on idempotency_key, over the transactions of all users,
\* holds the key of r, or another transaction is about to add it.
KeyTaken(r) ==
    \/ KeyCommitted(KeyOf(r))
    \/ \E q \in Requests \ {r} : txn[q] = "committing" /\ KeyOf(q) = KeyOf(r)

\* The wallet of r is being written by another session transaction.
WalletHeld(r) == \E q \in Requests \ {r} : txn[q] # "none" /\ UserOf(q) = UserOf(r)

\* A mutant: the update filters on user_id only.
MatchesAnyBalance(r) == UserOf(r) \in wallets

\* The filter of the update: the balance is the one the draft starts from.
Matches(r) ==
    /\ UserOf(r) \in wallets
    /\ balance[UserOf(r)] = draft[r].before

-----------------------------------------------------------------------------
Init ==
    /\ pc = [r \in Requests |-> "idle"]
    /\ attempt = [r \in Requests |-> 0]
    /\ cancelled = {}
    /\ draft = [r \in Requests |-> NoTx]
    /\ answer = [r \in Requests |-> NoAnswer]
    /\ wallets = {}
    /\ balance = [u \in Users |-> 0]
    /\ log = [u \in Users |-> <<>>]
    /\ durable = [u \in Users |-> 0]
    /\ txn = [r \in Requests |-> "none"]
    /\ sawKey = [r \in Requests |-> FALSE]
    /\ failovers = 0

Goto(r, label) == pc' = [pc EXCEPT ![r] = label]

Answer(r, code, tx) ==
    /\ Goto(r, "done")
    /\ answer' = [answer EXCEPT ![r] = [code |-> code, tx |-> tx]]

\* A mutant: a failed database call is reported as a conflict.
FailureIsConflict(r) == {"CONFLICT"}

\* What the handler makes of a failed database call: a context error is a
\* TIMEOUT, any other an INTERNAL_ERROR.
FailureCodes(r) ==
    {"INTERNAL_ERROR"} \cup (IF r \in cancelled THEN {"TIMEOUT"} ELSE {})

\* The database call r is in fails.
CallFails(r) ==
    /\ r \in FaultyRequests
    /\ \E code \in FailureCodes(r) : Answer(r, code, NoTx)

-----------------------------------------------------------------------------
(* The handler and the use case.                                           *)

\* The checks of the handler, in its order; of the others, of the token, the
\* body and the amount, each ends the request in the same way.
HandlerError(r) ==
    IF KeyOf(r) = NoKey THEN "MISSING_IDEMPOTENCY_KEY"
    ELSE IF Req[r].type \notin Types THEN "VALIDATION_ERROR"
    ELSE "NONE"

Submit(r) ==
    /\ pc[r] = "idle"
    /\ IF HandlerError(r) = "NONE"
       THEN Goto(r, "lookup") /\ UNCHANGED answer
       ELSE Answer(r, HandlerError(r), NoTx)
    /\ UNCHANGED <<attempt, draft, documents, sessions, environment>>

\* The stored transaction of r's key is the answer (majority read).
AnswerStored(r) ==
    \E tx \in Carrying(DurableLog, KeyOf(r)) : Answer(r, "CREATED", tx)

\* The first FindByIdempotencyKey.
Lookup(r) ==
    /\ pc[r] = "lookup"
    /\ \/ AnswerStored(r)
       \/ Carrying(DurableLog, KeyOf(r)) = {} /\ Goto(r, "loop") /\ UNCHANGED answer
       \/ CallFails(r)
    /\ UNCHANGED <<attempt, draft, documents, sessions, environment>>

\* A mutant: one attempt too many.
AttemptsLeftOffByOne(r) == attempt[r] <= MaxConflictRetries

\* The loop condition of the use case.
AttemptsLeft(r) == attempt[r] < MaxConflictRetries

\* The head of the loop: no attempt is left, or the context is done.
LeaveLoop(r) ==
    /\ pc[r] = "loop"
    /\ \/ ~AttemptsLeft(r) /\ Answer(r, "CONFLICT", NoTx)
       \/ AttemptsLeft(r) /\ r \in cancelled /\ Answer(r, "TIMEOUT", NoTx)
    /\ UNCHANGED <<attempt, draft, documents, sessions, environment>>

\* A mutant: the upsert sets the balance of a wallet that exists, too.
UpsertWalletResetting(u) ==
    /\ wallets' = wallets \cup {u}
    /\ balance' = [balance EXCEPT ![u] = 0]

\* findOneAndUpdate with upsert and $setOnInsert: an existing document is kept.
UpsertWallet(u) ==
    /\ wallets' = wallets \cup {u}
    /\ balance' = [balance EXCEPT ![u] = IF u \in wallets THEN @ ELSE 0]

\* GetOrCreateWallet, and NewTransaction on the balance it returns.
ReadWallet(r) ==
    LET b == balance'[UserOf(r)]
        error == NewTransactionError(r, b)
    IN /\ pc[r] = "loop"
       /\ AttemptsLeft(r)
       /\ r \notin cancelled
       /\ UpsertWallet(UserOf(r))
       /\ IF error # "NONE"
          THEN Answer(r, error, NoTx) /\ UNCHANGED draft
          ELSE /\ draft' = [draft EXCEPT ![r] = NewTransaction(r, b)]
               /\ Goto(r, "update")
               /\ UNCHANGED answer
       /\ UNCHANGED <<attempt, log, durable, sessions, environment>>

\* GetOrCreateWallet fails; the upsert may have been applied.
ReadWalletFails(r) ==
    /\ pc[r] = "loop"
    /\ AttemptsLeft(r)
    /\ CallFails(r)
    /\ UpsertWallet(UserOf(r)) \/ UNCHANGED <<wallets, balance>>
    /\ UNCHANGED <<attempt, draft, log, durable, sessions, environment>>

-----------------------------------------------------------------------------
(* repository.CreateTransaction: the session transaction.                  *)

\* The server reports a transient error: WithTransaction runs its callback
\* again on the same draft, until it gives up and returns the error.
TransientError(r) ==
    \/ Goto(r, "update") /\ UNCHANGED answer
    \/ \E code \in FailureCodes(r) : Answer(r, code, NoTx)

\* The session's transaction is aborted and lets go of the wallet.
Abort(r) ==
    /\ txn' = [txn EXCEPT ![r] = "none"]
    /\ sawKey' = [sawKey EXCEPT ![r] = FALSE]

\* UpdateOne opens the transaction, its snapshot, and holds the wallet.
UpdateWallet(r) ==
    /\ pc[r] = "update"
    /\ Matches(r)
    /\ ~WalletHeld(r)
    /\ txn' = [txn EXCEPT ![r] = "open"]
    /\ sawKey' = [sawKey EXCEPT ![r] = KeyCommitted(KeyOf(r))]
    /\ Goto(r, "insert")
    /\ UNCHANGED <<attempt, draft, answer, documents, environment>>

\* A mutant: a write conflict uses up an attempt, too.
UpdateConflictAlsoWhenHeld(r) ==
    /\ pc[r] = "update"
    /\ ~Matches(r) \/ WalletHeld(r)
    /\ Goto(r, "backoff")
    /\ UNCHANGED <<attempt, draft, answer, documents, sessions, environment>>

\* It matches no document: ErrConflict.
UpdateConflict(r) ==
    /\ pc[r] = "update"
    /\ ~Matches(r)
    /\ Goto(r, "backoff")
    /\ UNCHANGED <<attempt, draft, answer, documents, sessions, environment>>

\* It fails: another transaction holds the wallet, or the call is lost, when
\* the server may have opened the transaction all the same.
UpdateFails(r) ==
    /\ pc[r] = "update"
    /\ \/ Matches(r) /\ WalletHeld(r) /\ TransientError(r) /\ UNCHANGED txn
       \/ CallFails(r) /\ UNCHANGED txn
       \/ /\ CallFails(r)
          /\ Matches(r) /\ ~WalletHeld(r)
          /\ txn' = [txn EXCEPT ![r] = "open"]
    /\ UNCHANGED <<attempt, draft, documents, sawKey, environment>>

\* InsertOne; the callback returns and WithTransaction sends the commit.
InsertTransaction(r) ==
    /\ pc[r] = "insert"
    /\ txn[r] = "open"
    /\ ~KeyTaken(r)
    /\ txn' = [txn EXCEPT ![r] = "committing"]
    /\ Goto(r, "ack")
    /\ UNCHANGED <<attempt, draft, answer, documents, sawKey, environment>>

\* The unique index refuses a key the snapshot holds: ErrDuplicate.
InsertDuplicate(r) ==
    /\ pc[r] = "insert"
    /\ txn[r] = "open"
    /\ sawKey[r]
    /\ Abort(r)
    /\ Goto(r, "relookup")
    /\ UNCHANGED <<attempt, draft, answer, documents, environment>>

\* The insert fails.  A key that another transaction is committing, or has
\* committed since the snapshot, is a write conflict; a transaction that the
\* server no longer knows is a transient error as well.  The abort of a lost
\* connection does not reach the server.
InsertFails(r) ==
    /\ pc[r] = "insert"
    /\ \/ /\ txn[r] = "open"
          /\ ~sawKey[r]
          /\ KeyTaken(r)
          /\ TransientError(r) /\ Abort(r)
       \/ txn[r] = "none" /\ TransientError(r) /\ UNCHANGED sessions
       \/ CallFails(r) /\ (Abort(r) \/ UNCHANGED sessions)
    /\ UNCHANGED <<attempt, draft, documents, environment>>

\* The primary applies the commit, whatever has become of the caller.
ServerCommit(r) ==
    LET u == UserOf(r)
    IN /\ txn[r] = "committing"
       /\ log' = [log EXCEPT ![u] = Append(@, draft[r])]
       /\ balance' = [balance EXCEPT ![u] = draft[r].after]
       /\ Abort(r)
       /\ UNCHANGED <<pc, attempt, draft, answer, wallets, durable, environment>>

\* A mutant: the commit is acknowledged by the primary alone.
AckUnreplicated(r) ==
    /\ pc[r] = "ack"
    /\ CommittedBy(r)
    /\ Answer(r, "CREATED", draft[r])
    /\ UNCHANGED <<attempt, draft, documents, sessions, environment>>

\* The commit is acknowledged by a majority.
Ack(r) ==
    /\ pc[r] = "ack"
    /\ DurablyCommittedBy(r)
    /\ Answer(r, "CREATED", draft[r])
    /\ UNCHANGED <<attempt, draft, documents, sessions, environment>>

\* It is not: the server lost the transaction, or the caller lost the answer.
AckFails(r) ==
    /\ pc[r] = "ack"
    /\ \/ txn[r] = "none" /\ ~CommittedBy(r) /\ TransientError(r)
       \/ CallFails(r)
    /\ UNCHANGED <<attempt, draft, documents, sessions, environment>>

\* ErrDuplicate: the second FindByIdempotencyKey, which also misses a
\* transaction that is not majority-committed yet.
Relookup(r) ==
    /\ pc[r] = "relookup"
    /\ \/ AnswerStored(r)
       \/ /\ r \in FaultyRequests \/ Carrying(DurableLog, KeyOf(r)) = {}
          /\ Answer(r, "DUPLICATE", NoTx)
    /\ UNCHANGED <<attempt, draft, documents, sessions, environment>>

\* A mutant: the write is tried again as it was, and no attempt is counted.
BackoffToUpdate(r) ==
    /\ pc[r] = "backoff"
    /\ Goto(r, "update")
    /\ UNCHANGED <<attempt, draft, answer, documents, sessions, environment>>

\* ErrConflict: the jittered timer fires, or the context is done first.
Backoff(r) ==
    /\ pc[r] = "backoff"
    /\ \/ /\ attempt' = [attempt EXCEPT ![r] = @ + 1]
          /\ Goto(r, "loop")
          /\ UNCHANGED answer
       \/ /\ r \in cancelled
          /\ Answer(r, "TIMEOUT", NoTx)
          /\ UNCHANGED attempt
    /\ UNCHANGED <<draft, documents, sessions, environment>>

-----------------------------------------------------------------------------
(* Everything else that touches the wallets, and what can go wrong.        *)

\* GET /wallet/balance and the ValidateUser call of ms-users.
TouchWallet(u) ==
    /\ UpsertWallet(u)
    /\ UNCHANGED <<pc, attempt, draft, answer, log, durable, sessions, environment>>

\* The caller hangs up.
Cancel(r) ==
    /\ r \in FaultyRequests \ cancelled
    /\ pc[r] \notin {"idle", "done", "crashed"}
    /\ cancelled' = cancelled \cup {r}
    /\ UNCHANGED <<pc, attempt, draft, answer, documents, sessions, failovers>>

\* The instance that serves r stops; its open transaction stays on the server.
Crash(r) ==
    /\ r \in FaultyRequests
    /\ pc[r] \notin {"idle", "done", "crashed"}
    /\ Goto(r, "crashed")
    /\ UNCHANGED <<attempt, draft, answer, documents, sessions, environment>>

\* The server aborts a transaction that has lost its client.
ExpireTxn(r) ==
    /\ txn[r] # "none"
    /\ pc[r] \in {"done", "crashed"}
    /\ Abort(r)
    /\ UNCHANGED <<pc, attempt, draft, answer, documents, environment>>

\* One more transaction of u is on a majority of the members.
Replicate(u) ==
    /\ durable[u] < Len(log[u])
    /\ durable' = [durable EXCEPT ![u] = @ + 1]
    /\ UNCHANGED <<pc, attempt, draft, answer, wallets, balance, log, sessions, environment>>

\* A new primary: what no majority had is gone, and so are the transactions.
Failover ==
    /\ failovers < MaxFailovers
    /\ failovers' = failovers + 1
    /\ log' = DurableLog
    /\ balance' = [u \in Users |-> BalanceOf(DurableLog[u])]
    /\ \E kept \in SUBSET wallets :
          /\ {u \in Users : durable[u] > 0} \subseteq kept
          /\ wallets' = kept
    /\ txn' = [r \in Requests |-> "none"]
    /\ sawKey' = [r \in Requests |-> FALSE]
    /\ UNCHANGED <<pc, attempt, cancelled, draft, answer, durable>>

\* Every request has been dealt with and nothing is left to do.
Finished ==
    /\ \A r \in Requests : pc[r] \in {"done", "crashed"} /\ txn[r] = "none"
    /\ \A u \in Users : durable[u] = Len(log[u])
    /\ UNCHANGED vars

\* What the goroutine that serves r does next.
Step(r) ==
    \/ Lookup(r) \/ LeaveLoop(r) \/ ReadWallet(r) \/ ReadWalletFails(r)
    \/ UpdateWallet(r) \/ UpdateConflict(r) \/ UpdateFails(r)
    \/ InsertTransaction(r) \/ InsertDuplicate(r) \/ InsertFails(r)
    \/ Ack(r) \/ AckFails(r) \/ Relookup(r) \/ Backoff(r)

Server(r) == ServerCommit(r) \/ ExpireTxn(r)

Next ==
    \/ \E r \in Requests : Submit(r) \/ Step(r) \/ Server(r) \/ Cancel(r) \/ Crash(r)
    \/ \E u \in Users : TouchWallet(u) \/ Replicate(u)
    \/ Failover
    \/ Finished

Spec == Init /\ [][Next]_vars

\* The Go scheduler runs every goroutine, every database call returns, the
\* server ends every transaction and the members catch up.
Fairness ==
    /\ \A r \in Requests : WF_vars(Step(r)) /\ WF_vars(Server(r))
    /\ \A u \in Users : WF_vars(Replicate(u))

FairSpec == Spec /\ Fairness

-----------------------------------------------------------------------------
(* Properties.                                                             *)

Labels == {"idle", "lookup", "loop", "update", "insert", "ack", "relookup",
           "backoff", "done", "crashed"}

\* Type invariant: the shape of the variables.
TypeOK ==
    /\ pc \in [Requests -> Labels]
    /\ attempt \in [Requests -> 0..MaxConflictRetries]
    /\ cancelled \subseteq Requests
    /\ draft \in [Requests -> Entry \cup {NoTx}]
    /\ answer \in [Requests -> Answers]
    /\ wallets \subseteq Users
    /\ balance \in [Users -> Int]
    /\ log \in [Users -> Seq(Entry)]
    /\ durable \in [Users -> Nat]
    /\ txn \in [Requests -> {"none", "open", "committing"}]
    /\ sawKey \in [Requests -> BOOLEAN]
    /\ failovers \in 0..MaxFailovers

\* Every transaction starts from the balance the one before it left, and was
\* valid on that balance: however requests, write conflicts, lost commits and
\* failovers interleave, the update filter of CreateTransaction lets no
\* transaction through that was computed from another balance.
LedgerChain ==
    \A u \in Users : \A i \in 1..Len(log[u]) :
        LET tx == log[u][i]
        IN /\ UserOf(tx.by) = u
           /\ tx.before = IF i = 1 THEN 0 ELSE log[u][i - 1].after
           /\ NewTransactionError(tx.by, tx.before) = "NONE"
           /\ tx.after = BalanceAfter(tx.by, tx.before)

\* The balance document agrees with the transactions: the two collections are
\* written by one session transaction and never drift apart.
BalanceIsLedger ==
    \A u \in Users :
        /\ balance[u] = BalanceOf(log[u])
        /\ Len(log[u]) > 0 => u \in wallets

\* No balance is negative at any moment (business rule "Balance floor").
BalanceFloor == \A u \in Users : balance[u] >= 0

\* An idempotency key executes at most once, over the wallets of all users,
\* whatever duplicates, retries, reruns and late commits there are.
AtMostOnce ==
    \A u, v \in Users : \A i \in 1..Len(log[u]), j \in 1..Len(log[v]) :
        KeyOf(log[u][i].by) = KeyOf(log[v][j].by) => u = v /\ i = j

\* CREATED is only ever said of a transaction that carries the caller's key
\* and that no failover can take back, with the very balances it was stored
\* with: all the duplicates of a request are told the same transaction.
AnswersAreDurable ==
    \A r \in Requests :
        answer[r].code = "CREATED" =>
            answer[r].tx \in Carrying(DurableLog, KeyOf(r))

\* A refusal is final: the refused request has committed nothing and has no
\* open transaction that the server could still commit.
RefusalsAreFinal ==
    \A r \in Requests :
        answer[r].code \in Refusals => ~CommittedBy(r) /\ txn[r] = "none"

\* A session transaction that is open holds its wallet alone, and the balance
\* it will overwrite is still the one its draft was computed from.
OpenDraftsAreFresh ==
    \A r \in Requests :
        txn[r] # "none" =>
            /\ UserOf(r) \in wallets
            /\ balance[UserOf(r)] = draft[r].before
            /\ ~WalletHeld(r)

\* CONFLICT is only said after as many transactions of the same wallet went
\* through: each lost attempt was lost to a commit, never to another loser.
GiveUpNeedsContention ==
    \A r \in Requests :
        answer[r].code = "CONFLICT" /\ failovers = 0 =>
            Len(log[UserOf(r)]) >= MaxConflictRetries

\* Every request whose instance survives is answered.
EveryRequestAnswered ==
    \A r \in Requests : pc[r] = "lookup" ~> pc[r] \in {"done", "crashed"}

\* ms-wallet/README.md says a duplicate "returns the cached response without
\* re-executing": a request whose key is already on the ledger is not refused.
DuplicatesAreReplayed ==
    [][\A r \in Requests :
          Carrying(DurableLog, KeyOf(r)) # {} =>
              ~(answer[r] = NoAnswer /\ answer'[r].code \in Refusals)]_vars

\* ms-wallet/README.md says 409 means a "request with this key is currently
\* in-flight": whoever is told CONFLICT shares its key with another request.
ConflictMeansKeyInFlight ==
    \A r \in Requests :
        answer[r].code = "CONFLICT" =>
            \E q \in Requests \ {r} : KeyOf(q) = KeyOf(r) /\ pc[q] # "idle"

Ledger == INSTANCE WalletLedger WITH ledger <- DurableLog

\* The service implements the abstract ledger: its durable transactions are
\* the ledger, and its answers are the ledger's.
ImplementsLedger == Ledger!LedgerSpec
=============================================================================
