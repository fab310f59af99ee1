------------------------ MODULE WalletServiceProofs -------------------------
(***************************************************************************)
(* Proofs about WalletService, for every set of users, requests and keys,  *)
(* every retry limit and every number of failovers.                        *)
(***************************************************************************)
EXTENDS WalletService, TLAPS

-----------------------------------------------------------------------------
(* The inductive invariant, in three layers.                               *)

\* The draft of r is what NewTransaction makes of the balance it was read on.
IsDraft(r) ==
    /\ draft[r] \in Entry
    /\ draft[r] = NewTransaction(r, draft[r].before)
    /\ NewTransactionError(r, draft[r].before) = "NONE"

\* Where the goroutine is tells what it holds.
ControlOK ==
    \A r \in Requests :
        /\ pc[r] \in {"update", "insert", "ack"} \/ txn[r] # "none" => IsDraft(r)
        /\ txn[r] = "open" => pc[r] \in {"insert", "done", "crashed"}
        /\ txn[r] = "committing" => pc[r] \in {"ack", "done", "crashed"}
        /\ pc[r] \in {"update", "insert", "ack", "relookup", "backoff"} =>
              attempt[r] < MaxConflictRetries
        /\ pc[r] # "done" => answer[r] = NoAnswer

\* No more is durable than was committed.
DurableBound == \A u \in Users : durable[u] <= Len(log[u])

Shape == TypeOK /\ ControlOK /\ DurableBound

-----------------------------------------------------------------------------
(* Facts about the operators of the model.                                 *)

\* The records of Req have the fields the service reads.
LEMMA ReqFields ==
    ASSUME NEW r \in Requests
    PROVE  /\ UserOf(r) \in Users
           /\ KeyOf(r) \in Keys \cup {NoKey}
           /\ Req[r].amount \in Int
           /\ Req[r].exp \in Int
BY ReqAssumption DEF RequestForm, UserOf, KeyOf

\* What Carrying collects.
LEMMA CarryingDef ==
    ASSUME NEW l, NEW k, NEW e
    PROVE  e \in Carrying(l, k) <=>
              /\ KeyOf(e.by) = k
              /\ \E u \in Users : \E i \in 1..Len(l[u]) : e = l[u][i]
BY DEF Carrying

\* NewTransaction makes a transaction of the request.
LEMMA NewTransactionType ==
    ASSUME NEW r \in Requests, NEW b \in Int
    PROVE  /\ BalanceAfter(r, b) \in Int
           /\ NewTransaction(r, b) \in Entry
           /\ NewTransaction(r, b).by = r
           /\ NewTransaction(r, b).before = b
BY ReqFields DEF BalanceAfter, NewTransaction, Entry

\* The codes of the domain errors are refusals.
LEMMA ErrorCodes ==
    ASSUME NEW r \in Requests, NEW b
    PROVE  NewTransactionError(r, b) # "NONE" => NewTransactionError(r, b) \in Refusals
BY DEF NewTransactionError, Refusals

\* A prefix of a ledger is a ledger.
LEMMA PrefixSeq ==
    ASSUME NEW S, NEW s \in Seq(S), NEW n \in Nat, n <= Len(s)
    PROVE  /\ [i \in 1..n |-> s[i]] \in Seq(S)
           /\ Len([i \in 1..n |-> s[i]]) = n
<1> DEFINE p == [i \in 1..n |-> s[i]]
<1>1. p \in [1..n -> S]
  OBVIOUS
<1>2. p \in Seq(S)
  BY <1>1
<1>3. DOMAIN p = 1..n /\ DOMAIN p = 1..Len(p) /\ Len(p) \in Nat
  BY <1>2
<1>4. Len(p) = n
  BY <1>3
<1> QED
  BY <1>2, <1>4

\* The durable log is a family of ledgers.
LEMMA DurableLogType ==
    ASSUME TypeOK, DurableBound
    PROVE  /\ DurableLog \in [Users -> Seq(Entry)]
           /\ \A u \in Users : /\ Len(DurableLog[u]) = durable[u]
                               /\ \A i \in 1..durable[u] : DurableLog[u][i] = log[u][i]
<1> SUFFICES ASSUME NEW u \in Users
             PROVE  /\ DurableLog[u] \in Seq(Entry)
                    /\ Len(DurableLog[u]) = durable[u]
                    /\ \A i \in 1..durable[u] : DurableLog[u][i] = log[u][i]
  BY DEF DurableLog
<1>1. log[u] \in Seq(Entry) /\ durable[u] \in Nat /\ durable[u] <= Len(log[u])
  BY DEF TypeOK, DurableBound
<1> QED
  BY <1>1, PrefixSeq DEF DurableLog

-----------------------------------------------------------------------------
(* The first layer: types, control and drafts.                             *)

LEMMA InitShape == Init => Shape
<1> SUFFICES ASSUME Init PROVE Shape
  OBVIOUS
<1>1. TypeOK
  BY BoundsAssumption DEF Init, TypeOK, Labels, Answers, NoAnswer, Codes
<1>2. ControlOK /\ DurableBound
  BY DEF Init, ControlOK, DurableBound
<1> QED
  BY <1>1, <1>2 DEF Shape

\* An answer keeps the shape of the variables it sets.
LEMMA AnswerShape ==
    ASSUME TypeOK, NEW r \in Requests, NEW code \in Codes,
           NEW tx \in Entry \cup {NoTx}, Answer(r, code, tx)
    PROVE  /\ pc' \in [Requests -> Labels]
           /\ answer' \in [Requests -> Answers]
<1>1. [code |-> code, tx |-> tx] \in Answers
  BY DEF Answers
<1> QED
  BY <1>1 DEF TypeOK, Answer, Goto, Labels

LEMMA GotoShape ==
    ASSUME TypeOK, NEW r \in Requests, NEW label \in Labels, Goto(r, label)
    PROVE  pc' \in [Requests -> Labels]
BY DEF TypeOK, Goto

LEMMA FailureShape ==
    ASSUME TypeOK, NEW r \in Requests
    PROVE  /\ CallFails(r) => /\ pc' \in [Requests -> Labels]
                              /\ answer' \in [Requests -> Answers]
           /\ TransientError(r) => /\ pc' \in [Requests -> Labels]
                                   /\ answer' \in [Requests -> Answers]
<1>1. FailureCodes(r) \subseteq Codes
  BY DEF FailureCodes, Codes, Unknowns
<1>2. \A code \in FailureCodes(r) :
         Answer(r, code, NoTx) => /\ pc' \in [Requests -> Labels]
                                  /\ answer' \in [Requests -> Answers]
  BY <1>1, AnswerShape
<1>3. Goto(r, "update") => pc' \in [Requests -> Labels]
  BY GotoShape DEF Labels
<1> QED
  BY <1>2, <1>3 DEF CallFails, TransientError, TypeOK

LEMMA StoredShape ==
    ASSUME TypeOK, DurableBound, NEW r \in Requests, AnswerStored(r)
    PROVE  /\ pc' \in [Requests -> Labels]
           /\ answer' \in [Requests -> Answers]
<1>1. \A tx \in Carrying(DurableLog, KeyOf(r)) : tx \in Entry
  BY DurableLogType, CarryingDef
<1> QED
  BY <1>1, AnswerShape DEF AnswerStored, Codes

LEMMA ShapeSubmit ==
    ASSUME Shape, NEW r \in Requests, Submit(r)
    PROVE  Shape'
<1> USE DEF Shape, Submit, documents, sessions, environment
<1>1. HandlerError(r) # "NONE" => HandlerError(r) \in Codes
  BY DEF HandlerError, Codes, Refusals
<1>2. pc' \in [Requests -> Labels] /\ answer' \in [Requests -> Answers]
  BY <1>1, AnswerShape, GotoShape DEF TypeOK, Labels
<1>3. TypeOK'
  BY <1>2 DEF TypeOK
<1>4. ControlOK'
  BY DEF TypeOK, ControlOK, IsDraft, Goto, Answer
<1>5. DurableBound'
  BY DEF DurableBound
<1> QED
  BY <1>3, <1>4, <1>5

LEMMA ShapeLookup ==
    ASSUME Shape, NEW r \in Requests, Lookup(r)
    PROVE  Shape'
<1> USE DEF Shape, Lookup, documents, sessions, environment
<1>1. pc' \in [Requests -> Labels] /\ answer' \in [Requests -> Answers]
  BY StoredShape, GotoShape, FailureShape DEF TypeOK, Labels
<1>2. TypeOK'
  BY <1>1 DEF TypeOK
<1>3. ControlOK'
  BY DEF TypeOK, ControlOK, IsDraft, Goto, Answer, AnswerStored, CallFails
<1>4. DurableBound'
  BY DEF DurableBound
<1> QED
  BY <1>2, <1>3, <1>4

LEMMA ShapeLeaveLoop ==
    ASSUME Shape, NEW r \in Requests, LeaveLoop(r)
    PROVE  Shape'
<1> USE DEF Shape, LeaveLoop, documents, sessions, environment
<1>1. pc' \in [Requests -> Labels] /\ answer' \in [Requests -> Answers]
  BY AnswerShape DEF Codes, Refusals, Unknowns
<1>2. TypeOK'
  BY <1>1 DEF TypeOK
<1>3. ControlOK'
  BY DEF TypeOK, ControlOK, IsDraft, Goto, Answer
<1>4. DurableBound'
  BY DEF DurableBound
<1> QED
  BY <1>2, <1>3, <1>4

LEMMA ShapeReadWallet ==
    ASSUME Shape, NEW r \in Requests, ReadWallet(r)
    PROVE  Shape'
<1> USE DEF Shape, ReadWallet, documents, sessions, environment
<1> DEFINE b == balance'[UserOf(r)]
           error == NewTransactionError(r, b)
<1>1. balance' \in [Users -> Int] /\ wallets' \subseteq Users /\ b \in Int
  BY ReqFields DEF UpsertWallet, TypeOK
<1>2. NewTransaction(r, b) \in Entry /\ NewTransaction(r, b).before = b
  BY <1>1, NewTransactionType
<1>3. error # "NONE" => error \in Codes
  BY ErrorCodes DEF Codes
<1>4. pc' \in [Requests -> Labels] /\ answer' \in [Requests -> Answers]
  <2>1. CASE error # "NONE"
    BY <2>1, <1>3, AnswerShape
  <2>2. CASE error = "NONE"
    BY <2>2, GotoShape DEF TypeOK, Labels
  <2> QED
    BY <2>1, <2>2
<1>5. draft' \in [Requests -> Entry \cup {NoTx}]
  BY <1>2 DEF TypeOK
<1>6. TypeOK'
  BY <1>1, <1>4, <1>5 DEF TypeOK
<1>7. ControlOK'
  <2>1. CASE error # "NONE"
    BY <2>1, ZenonT(60) DEF TypeOK, ControlOK, IsDraft, Goto, Answer
  <2>2. CASE error = "NONE"
    BY <2>2, <1>2, SMTT(30) DEF TypeOK, ControlOK, IsDraft, Goto, AttemptsLeft
  <2> QED
    BY <2>1, <2>2
<1>8. DurableBound'
  BY DEF DurableBound
<1> QED
  BY <1>6, <1>7, <1>8

LEMMA ShapeReadWalletFails ==
    ASSUME Shape, NEW r \in Requests, ReadWalletFails(r)
    PROVE  Shape'
<1> USE DEF Shape, ReadWalletFails, documents, sessions, environment
<1>1. TypeOK'
  BY FailureShape, ReqFields DEF TypeOK, UpsertWallet
<1>2. ControlOK'
  BY DEF TypeOK, ControlOK, IsDraft, Goto, Answer, CallFails
<1>3. DurableBound'
  BY DEF DurableBound
<1> QED
  BY <1>1, <1>2, <1>3

LEMMA ShapeUpdateWallet ==
    ASSUME Shape, NEW r \in Requests, UpdateWallet(r)
    PROVE  Shape'
<1> USE DEF Shape, UpdateWallet, documents, sessions, environment
<1>1. TypeOK'
  <2>1. pc' \in [Requests -> Labels]
    BY GotoShape DEF Labels
  <2>2. sawKey' \in [Requests -> BOOLEAN]
    <3>1. KeyCommitted(KeyOf(r)) \in BOOLEAN
      BY DEF KeyCommitted
    <3> QED
      BY <3>1 DEF TypeOK
  <2> QED
    BY <2>1, <2>2 DEF TypeOK
<1>2. ControlOK'
  BY DEF TypeOK, ControlOK, IsDraft, Goto, Answer
<1>3. DurableBound'
  BY DEF DurableBound
<1> QED
  BY <1>1, <1>2, <1>3

LEMMA ShapeUpdateConflict ==
    ASSUME Shape, NEW r \in Requests, UpdateConflict(r)
    PROVE  Shape'
<1> USE DEF Shape, UpdateConflict, documents, sessions, environment
<1>1. TypeOK'
  BY GotoShape DEF TypeOK, Labels
<1>2. ControlOK'
  BY DEF TypeOK, ControlOK, IsDraft, Goto, Answer
<1>3. DurableBound'
  BY DEF DurableBound
<1> QED
  BY <1>1, <1>2, <1>3

LEMMA ShapeUpdateFails ==
    ASSUME Shape, NEW r \in Requests, UpdateFails(r)
    PROVE  Shape'
<1> USE DEF Shape, UpdateFails, documents, sessions, environment
<1>1. TypeOK'
  BY FailureShape DEF TypeOK
<1>2. ControlOK'
  BY ZenonT(60) DEF TypeOK, ControlOK, IsDraft, Goto, Answer, CallFails, TransientError
<1>3. DurableBound'
  BY DEF DurableBound
<1> QED
  BY <1>1, <1>2, <1>3

LEMMA ShapeInsertTransaction ==
    ASSUME Shape, NEW r \in Requests, InsertTransaction(r)
    PROVE  Shape'
<1> USE DEF Shape, InsertTransaction, documents, sessions, environment
<1>1. TypeOK'
  BY GotoShape DEF TypeOK, Labels
<1>2. ControlOK'
  BY DEF TypeOK, ControlOK, IsDraft, Goto, Answer
<1>3. DurableBound'
  BY DEF DurableBound
<1> QED
  BY <1>1, <1>2, <1>3

LEMMA ShapeInsertDuplicate ==
    ASSUME Shape, NEW r \in Requests, InsertDuplicate(r)
    PROVE  Shape'
<1> USE DEF Shape, InsertDuplicate, documents, sessions, environment
<1>1. TypeOK'
  BY GotoShape DEF TypeOK, Labels, Abort
<1>2. ControlOK'
  BY DEF TypeOK, ControlOK, IsDraft, Goto, Answer, Abort
<1>3. DurableBound'
  BY DEF DurableBound
<1> QED
  BY <1>1, <1>2, <1>3

LEMMA ShapeInsertFails ==
    ASSUME Shape, NEW r \in Requests, InsertFails(r)
    PROVE  Shape'
<1> USE DEF Shape, InsertFails, documents, sessions, environment
<1>1. TypeOK'
  BY FailureShape DEF TypeOK, Abort
<1>2. ControlOK'
  BY DEF TypeOK, ControlOK, IsDraft, Goto, Answer, CallFails, TransientError, Abort
<1>3. DurableBound'
  BY DEF DurableBound
<1> QED
  BY <1>1, <1>2, <1>3

LEMMA ShapeServerCommit ==
    ASSUME Shape, NEW r \in Requests, ServerCommit(r)
    PROVE  Shape'
<1> USE DEF Shape, ServerCommit, documents, sessions, environment
<1>1. TypeOK'
  <2>1. UserOf(r) \in Users /\ draft[r] \in Entry /\ draft[r].after \in Int
    BY ReqFields DEF TypeOK, ControlOK, IsDraft, Entry
  <2>2. log' \in [Users -> Seq(Entry)]
    BY <2>1 DEF TypeOK
  <2>3. balance' \in [Users -> Int]
    BY <2>1 DEF TypeOK
  <2> QED
    BY <2>2, <2>3 DEF TypeOK, Abort
<1>2. ControlOK'
  BY DEF TypeOK, ControlOK, IsDraft, Abort
<1>3. DurableBound'
  BY DEF DurableBound, TypeOK, ControlOK, IsDraft
<1> QED
  BY <1>1, <1>2, <1>3

LEMMA ShapeAck ==
    ASSUME Shape, NEW r \in Requests, Ack(r)
    PROVE  Shape'
<1> USE DEF Shape, Ack, documents, sessions, environment
<1>1. TypeOK'
  BY AnswerShape DEF TypeOK, Codes, ControlOK, IsDraft
<1>2. ControlOK'
  BY DEF TypeOK, ControlOK, IsDraft, Goto, Answer
<1>3. DurableBound'
  BY DEF DurableBound
<1> QED
  BY <1>1, <1>2, <1>3

LEMMA ShapeAckFails ==
    ASSUME Shape, NEW r \in Requests, AckFails(r)
    PROVE  Shape'
<1> USE DEF Shape, AckFails, documents, sessions, environment
<1>1. TypeOK'
  BY FailureShape DEF TypeOK
<1>2. ControlOK'
  BY DEF TypeOK, ControlOK, IsDraft, Goto, Answer, CallFails, TransientError
<1>3. DurableBound'
  BY DEF DurableBound
<1> QED
  BY <1>1, <1>2, <1>3

LEMMA ShapeRelookup ==
    ASSUME Shape, NEW r \in Requests, Relookup(r)
    PROVE  Shape'
<1> USE DEF Shape, Relookup, documents, sessions, environment
<1>1. TypeOK'
  BY StoredShape, AnswerShape DEF TypeOK, Codes, Refusals
<1>2. ControlOK'
  BY DEF TypeOK, ControlOK, IsDraft, Goto, Answer, AnswerStored
<1>3. DurableBound'
  BY DEF DurableBound
<1> QED
  BY <1>1, <1>2, <1>3

LEMMA ShapeBackoff ==
    ASSUME Shape, NEW r \in Requests, Backoff(r)
    PROVE  Shape'
<1> USE DEF Shape, Backoff, documents, sessions, environment
<1>1. TypeOK'
  <2>1. attempt[r] + 1 \in 0..MaxConflictRetries
    BY BoundsAssumption DEF TypeOK, ControlOK
  <2>2. attempt' \in [Requests -> 0..MaxConflictRetries]
    BY <2>1 DEF TypeOK
  <2>3. pc' \in [Requests -> Labels] /\ answer' \in [Requests -> Answers]
    BY AnswerShape, GotoShape DEF TypeOK, Labels, Codes, Unknowns
  <2> QED
    BY <2>2, <2>3 DEF TypeOK
<1>2. ControlOK'
  BY DEF TypeOK, ControlOK, IsDraft, Goto, Answer
<1>3. DurableBound'
  BY DEF DurableBound
<1> QED
  BY <1>1, <1>2, <1>3

LEMMA ShapeTouchWallet ==
    ASSUME Shape, NEW u \in Users, TouchWallet(u)
    PROVE  Shape'
<1> USE DEF Shape, TouchWallet, documents, sessions, environment
<1>1. TypeOK'
  BY DEF TypeOK, UpsertWallet
<1>2. ControlOK'
  BY DEF ControlOK, IsDraft
<1>3. DurableBound'
  BY DEF DurableBound
<1> QED
  BY <1>1, <1>2, <1>3

LEMMA ShapeCancel ==
    ASSUME Shape, NEW r \in Requests, Cancel(r)
    PROVE  Shape'
<1> USE DEF Shape, Cancel, documents, sessions, environment
<1>1. TypeOK'
  BY DEF TypeOK
<1>2. ControlOK'
  BY DEF ControlOK, IsDraft
<1>3. DurableBound'
  BY DEF DurableBound
<1> QED
  BY <1>1, <1>2, <1>3

LEMMA ShapeCrash ==
    ASSUME Shape, NEW r \in Requests, Crash(r)
    PROVE  Shape'
<1> USE DEF Shape, Crash, documents, sessions, environment
<1>1. TypeOK'
  BY GotoShape DEF TypeOK, Labels
<1>2. ControlOK'
  BY DEF TypeOK, ControlOK, IsDraft, Goto, Answer
<1>3. DurableBound'
  BY DEF DurableBound
<1> QED
  BY <1>1, <1>2, <1>3

LEMMA ShapeExpireTxn ==
    ASSUME Shape, NEW r \in Requests, ExpireTxn(r)
    PROVE  Shape'
<1> USE DEF Shape, ExpireTxn, documents, sessions, environment
<1>1. TypeOK'
  BY DEF TypeOK, Abort
<1>2. ControlOK'
  BY DEF TypeOK, ControlOK, IsDraft, Abort
<1>3. DurableBound'
  BY DEF DurableBound
<1> QED
  BY <1>1, <1>2, <1>3

LEMMA ShapeReplicate ==
    ASSUME Shape, NEW u \in Users, Replicate(u)
    PROVE  Shape'
<1> USE DEF Shape, Replicate, documents, sessions, environment
<1>1. TypeOK'
  BY DEF TypeOK
<1>2. ControlOK'
  BY DEF ControlOK, IsDraft
<1>3. DurableBound'
  BY DEF DurableBound, TypeOK
<1> QED
  BY <1>1, <1>2, <1>3

LEMMA BalanceOfType ==
    ASSUME NEW s \in Seq(Entry)
    PROVE  BalanceOf(s) \in Int
<1>1. CASE Len(s) = 0
  BY <1>1 DEF BalanceOf
<1>2. CASE Len(s) # 0
  <2>1. Len(s) \in 1..Len(s)
    BY <1>2
  <2>2. s[Len(s)] \in Entry
    BY <2>1
  <2> QED
    BY <1>2, <2>2 DEF BalanceOf, Entry
<1> QED
  BY <1>1, <1>2

LEMMA ShapeFailover ==
    ASSUME Shape, Failover
    PROVE  Shape'
<1> USE DEF Shape, Failover
<1>1. log' \in [Users -> Seq(Entry)]
  BY DurableLogType
<1>2. balance' \in [Users -> Int]
  BY DurableLogType, BalanceOfType
<1>3. wallets' \subseteq Users
  BY DEF TypeOK
<1>4. failovers' \in 0..MaxFailovers
  BY BoundsAssumption DEF TypeOK
<1>5. TypeOK'
  BY <1>1, <1>2, <1>3, <1>4 DEF TypeOK
<1>6. ControlOK'
  BY DEF TypeOK, ControlOK, IsDraft
<1>7. DurableBound'
  BY DurableLogType DEF DurableBound, TypeOK
<1> QED
  BY <1>5, <1>6, <1>7

LEMMA ShapeNext ==
    ASSUME Shape, [Next]_vars
    PROVE  Shape'
<1>1. CASE UNCHANGED vars
  BY <1>1 DEF Shape, TypeOK, ControlOK, IsDraft, DurableBound, vars
<1>2. ASSUME NEW r \in Requests, Step(r)
      PROVE  Shape'
  BY <1>2, ShapeLookup, ShapeLeaveLoop, ShapeReadWallet, ShapeReadWalletFails,
     ShapeUpdateWallet, ShapeUpdateConflict, ShapeUpdateFails, ShapeInsertTransaction,
     ShapeInsertDuplicate, ShapeInsertFails, ShapeAck, ShapeAckFails, ShapeRelookup,
     ShapeBackoff DEF Step
<1>3. ASSUME NEW r \in Requests,
             Submit(r) \/ Server(r) \/ Cancel(r) \/ Crash(r)
      PROVE  Shape'
  BY <1>3, ShapeSubmit, ShapeServerCommit, ShapeExpireTxn, ShapeCancel, ShapeCrash
     DEF Server
<1>4. ASSUME NEW u \in Users, TouchWallet(u) \/ Replicate(u)
      PROVE  Shape'
  BY <1>4, ShapeTouchWallet, ShapeReplicate
<1>5. CASE Failover
  BY <1>5, ShapeFailover
<1>6. CASE Finished
  BY <1>6, <1>1 DEF Finished
<1> QED
  BY <1>1, <1>2, <1>3, <1>4, <1>5, <1>6 DEF Next

\* Type correctness: in every state of every behaviour the variables have
\* their types, the retry counter never passes the limit, and a goroutine that
\* is about to write has a draft that passed the domain checks.
THEOREM Typing == Spec => []Shape
<1>1. Init => Shape
  BY InitShape
<1>2. Shape /\ [Next]_vars => Shape'
  BY ShapeNext
<1> QED
  BY <1>1, <1>2, PTL DEF Spec

THEOREM TypeCorrect == Spec => []TypeOK
<1>1. Shape => TypeOK
  BY DEF Shape
<1> QED
  BY <1>1, Typing, PTL

-----------------------------------------------------------------------------
(* What a step of a goroutine leaves alone.                                *)

\* An upsert that finds the document, or adds one without money, keeps every
\* balance.
LEMMA UpsertKeepsBalances ==
    ASSUME Shape, BalanceIsLedger, NEW u \in Users, UpsertWallet(u)
    PROVE  balance' = balance /\ wallets \subseteq wallets'
<1>1. u \notin wallets => Len(log[u]) = 0 /\ balance[u] = 0
  BY DEF BalanceIsLedger, BalanceOf, Shape, TypeOK
<1> QED
  BY <1>1 DEF UpsertWallet, Shape, TypeOK

\* The actions of request r, the server's commit apart.
Local(r) == Submit(r) \/ Step(r) \/ Cancel(r) \/ Crash(r) \/ ExpireTxn(r)

\* They write no transaction and no balance, concern no other request, and
\* open a session transaction only on a matching wallet that nobody holds.
Framed(r) ==
    /\ UNCHANGED <<log, durable, balance, failovers>>
    /\ wallets \subseteq wallets'
    /\ \A q \in Requests \ {r} :
          /\ pc'[q] = pc[q]
          /\ txn'[q] = txn[q]
          /\ draft'[q] = draft[q]
          /\ answer'[q] = answer[q]
    /\ txn'[r] # "none" =>
          /\ draft'[r] = draft[r]
          /\ txn[r] # "none" \/ (Matches(r) /\ ~WalletHeld(r))
    /\ txn'[r] = "committing" => txn[r] = "committing" \/ ~KeyTaken(r)
    /\ pc[r] \in {"insert", "ack", "done", "crashed"} => draft'[r] = draft[r]
    /\ pc[r] = "done" => answer' = answer /\ txn'[r] \in {"none", txn[r]}

LEMMA FrameLocal ==
    ASSUME Shape, BalanceIsLedger, NEW r \in Requests, Local(r)
    PROVE  Framed(r)
<1> USE DEF Shape, Framed, documents, sessions, environment, TypeOK
<1>1. CASE Submit(r)
  BY <1>1 DEF Submit, Goto, Answer
<1>2. CASE Lookup(r)
  BY <1>2 DEF Lookup, AnswerStored, CallFails, Goto, Answer
<1>3. CASE LeaveLoop(r)
  BY <1>3 DEF LeaveLoop, Goto, Answer
<1>4. CASE ReadWallet(r)
  BY <1>4, UpsertKeepsBalances, ReqFields DEF ReadWallet, Goto, Answer, ControlOK
<1>5. CASE ReadWalletFails(r)
  BY <1>5, UpsertKeepsBalances, ReqFields DEF ReadWalletFails, CallFails, Goto, Answer
<1>6. CASE UpdateWallet(r)
  BY <1>6 DEF UpdateWallet, Goto
<1>7. CASE UpdateConflict(r)
  BY <1>7 DEF UpdateConflict, Goto
<1>8. CASE UpdateFails(r)
  BY <1>8 DEF UpdateFails, TransientError, CallFails, Goto, Answer
<1>9. CASE InsertTransaction(r)
  BY <1>9 DEF InsertTransaction, Goto
<1>10. CASE InsertDuplicate(r)
  BY <1>10 DEF InsertDuplicate, Goto, Abort
<1>11. CASE InsertFails(r)
  BY <1>11 DEF InsertFails, TransientError, CallFails, Goto, Answer, Abort
<1>12. CASE Ack(r)
  BY <1>12 DEF Ack, Goto, Answer
<1>13. CASE AckFails(r)
  BY <1>13 DEF AckFails, TransientError, CallFails, Goto, Answer
<1>14. CASE Relookup(r)
  BY <1>14 DEF Relookup, AnswerStored, Goto, Answer
<1>15. CASE Backoff(r)
  BY <1>15 DEF Backoff, Goto, Answer
<1>16. CASE Cancel(r)
  BY <1>16 DEF Cancel
<1>17. CASE Crash(r)
  BY <1>17 DEF Crash, Goto
<1>18. CASE ExpireTxn(r)
  BY <1>18 DEF ExpireTxn, Abort
<1> QED
  BY <1>1, <1>2, <1>3, <1>4, <1>5, <1>6, <1>7, <1>8, <1>9, <1>10, <1>11, <1>12,
     <1>13, <1>14, <1>15, <1>16, <1>17, <1>18 DEF Local, Step

-----------------------------------------------------------------------------
(* The second layer: the ledgers and the balances.  The update filter       *)
(* compares balances, not versions, so a wallet may have changed and        *)
(* changed back since the draft was made; what makes the commit safe is     *)
(* OpenDraftsAreFresh: from the update to the end of the transaction nobody *)
(* else holds the wallet and its balance is the draft's.                    *)

\* No transaction leaves a negative balance.
FloorOK == \A u \in Users : \A i \in 1..Len(log[u]) : log[u][i].after >= 0

Money == LedgerChain /\ BalanceIsLedger /\ OpenDraftsAreFresh /\ FloorOK

LEMMA InitMoney == Init => Money
BY DEF Init, Money, LedgerChain, BalanceIsLedger, OpenDraftsAreFresh, FloorOK, BalanceOf

\* The domain checks keep a balance that was not negative that way.
LEMMA FloorKept ==
    ASSUME NEW r \in Requests, NEW b \in Int, b >= 0,
           NewTransactionError(r, b) = "NONE"
    PROVE  BalanceAfter(r, b) >= 0
BY ReqFields DEF NewTransactionError, BalanceAfter, Types

LEMMA MoneyFloor ==
    ASSUME Shape, Money
    PROVE  BalanceFloor
<1> SUFFICES ASSUME NEW u \in Users PROVE balance[u] >= 0
  BY DEF BalanceFloor
<1>1. balance[u] = BalanceOf(log[u]) /\ log[u] \in Seq(Entry)
  BY DEF Money, BalanceIsLedger, Shape, TypeOK
<1>2. CASE Len(log[u]) = 0
  BY <1>1, <1>2 DEF BalanceOf
<1>3. CASE Len(log[u]) # 0
  <2>1. Len(log[u]) \in 1..Len(log[u])
    BY <1>1, <1>3
  <2> QED
    BY <1>1, <1>3, <2>1 DEF BalanceOf, Money, FloorOK
<1> QED
  BY <1>2, <1>3

LEMMA MoneyLocal ==
    ASSUME Shape, Money, NEW r \in Requests, Local(r)
    PROVE  Money'
<1>1. Framed(r)
  BY FrameLocal DEF Money
<1>2. LedgerChain' /\ BalanceIsLedger' /\ FloorOK'
  BY <1>1 DEF Framed, Money, LedgerChain, BalanceIsLedger, FloorOK
<1>3. OpenDraftsAreFresh'
  BY <1>1 DEF Framed, Money, OpenDraftsAreFresh, Matches, WalletHeld
<1> QED
  BY <1>2, <1>3 DEF Money

LEMMA MoneyServerCommit ==
    ASSUME Shape, Money, NEW r \in Requests, ServerCommit(r)
    PROVE  Money'
<1> DEFINE u == UserOf(r)
           d == draft[r]
<1>1. /\ u \in Users
      /\ log[u] \in Seq(Entry)
      /\ d \in Entry
  BY ReqFields DEF Shape, TypeOK, ControlOK, IsDraft, ServerCommit
<1>2. /\ d = NewTransaction(r, d.before)
      /\ NewTransactionError(r, d.before) = "NONE"
      /\ d.before = BalanceOf(log[u])
      /\ u \in wallets
      /\ balance[u] = d.before
  <2>1. txn[r] # "none"
    BY DEF ServerCommit
  <2>2. IsDraft(r)
    BY <2>1 DEF Shape, ControlOK
  <2>3. Matches(r)
    BY <2>1 DEF Money, OpenDraftsAreFresh, Matches
  <2> QED
    BY <2>2, <2>3, <1>1 DEF IsDraft, Matches, Money, BalanceIsLedger
<1>3. /\ d.by = r
      /\ d.after = BalanceAfter(r, d.before)
      /\ d.before \in Int
      /\ d.before >= 0
  BY <1>1, <1>2, MoneyFloor DEF NewTransaction, BalanceFloor, Entry
<1>4. d.after >= 0
  BY <1>2, <1>3, FloorKept
<1>5. /\ log' = [log EXCEPT ![u] = Append(@, d)]
      /\ balance' = [balance EXCEPT ![u] = d.after]
      /\ wallets' = wallets /\ draft' = draft
      /\ txn' = [txn EXCEPT ![r] = "none"]
  BY DEF ServerCommit, Abort
<1>6. /\ Len(log'[u]) = Len(log[u]) + 1
      /\ log'[u][Len(log[u]) + 1] = d
      /\ \A i \in 1..Len(log[u]) : log'[u][i] = log[u][i]
      /\ \A v \in Users \ {u} : log'[v] = log[v]
  BY <1>1, <1>5 DEF Shape, TypeOK
<1>7. LedgerChain'
  <2> SUFFICES ASSUME NEW v \in Users, NEW i \in 1..Len(log'[v])
               PROVE  LET tx == log'[v][i]
                      IN /\ UserOf(tx.by) = v
                         /\ tx.before = IF i = 1 THEN 0 ELSE log'[v][i - 1].after
                         /\ NewTransactionError(tx.by, tx.before) = "NONE"
                         /\ tx.after = BalanceAfter(tx.by, tx.before)
    BY DEF LedgerChain
  <2>1. CASE v # u \/ i <= Len(log[u])
    <3>1. i \in 1..Len(log[v]) /\ log'[v][i] = log[v][i]
      BY <2>1, <1>1, <1>6
    <3>2. i # 1 => log'[v][i - 1] = log[v][i - 1]
      <4>1. i # 1 => i - 1 \in 1..Len(log[v])
        BY <3>1 DEF Shape, TypeOK
      <4>2. CASE v # u
        BY <4>2, <1>6
      <4>3. CASE v = u
        BY <4>1, <4>3, <1>6
      <4> QED
        BY <4>2, <4>3
    <3> QED
      BY <3>1, <3>2 DEF Money, LedgerChain
  <2>2. CASE v = u /\ i = Len(log[u]) + 1
    <3>1. log'[v][i] = d
      BY <2>2, <1>6
    <3>2. d.before = IF i = 1 THEN 0 ELSE log'[v][i - 1].after
      <4>1. CASE Len(log[u]) = 0
        BY <4>1, <2>2, <1>2 DEF BalanceOf
      <4>2. CASE Len(log[u]) # 0
        <5>1. i # 1 /\ i - 1 = Len(log[u]) /\ i - 1 \in 1..Len(log[u])
          BY <4>2, <2>2, <1>1
        <5>2. log'[v][i - 1] = log[u][Len(log[u])]
          BY <5>1, <2>2, <1>6
        <5> QED
          BY <5>1, <5>2, <4>2, <1>2 DEF BalanceOf
      <4> QED
        BY <4>1, <4>2
    <3> QED
      BY <3>1, <3>2, <2>2, <1>2, <1>3
  <2> QED
    BY <2>1, <2>2, <1>1, <1>6
<1>8. BalanceIsLedger'
  BY <1>1, <1>2, <1>5, <1>6 DEF Money, BalanceIsLedger, BalanceOf, Shape, TypeOK
<1>9. FloorOK'
  BY <1>1, <1>4, <1>6 DEF Money, FloorOK
<1>10. OpenDraftsAreFresh'
  BY <1>5 DEF Money, OpenDraftsAreFresh, Matches, WalletHeld, Shape, TypeOK, ServerCommit
<1> QED
  BY <1>7, <1>8, <1>9, <1>10 DEF Money

LEMMA MoneyFailover ==
    ASSUME Shape, Money, Failover
    PROVE  Money'
<1>1. \A u \in Users :
         /\ log'[u] = DurableLog[u]
         /\ Len(log'[u]) = durable[u]
         /\ durable[u] \in Nat
         /\ durable[u] <= Len(log[u])
         /\ Len(log[u]) \in Nat
         /\ \A i \in 1..durable[u] : log'[u][i] = log[u][i]
  BY DurableLogType DEF Failover, Shape, TypeOK, DurableBound
<1>2. LedgerChain'
  <2> SUFFICES ASSUME NEW v \in Users, NEW i \in 1..Len(log'[v])
               PROVE  LET tx == log'[v][i]
                      IN /\ UserOf(tx.by) = v
                         /\ tx.before = IF i = 1 THEN 0 ELSE log'[v][i - 1].after
                         /\ NewTransactionError(tx.by, tx.before) = "NONE"
                         /\ tx.after = BalanceAfter(tx.by, tx.before)
    BY DEF LedgerChain
  <2>1. i \in 1..Len(log[v]) /\ log'[v][i] = log[v][i]
    BY <1>1
  <2>2. i # 1 => log'[v][i - 1] = log[v][i - 1]
    BY <1>1
  <2> QED
    BY <2>1, <2>2 DEF Money, LedgerChain
<1>3. FloorOK'
  BY <1>1 DEF Money, FloorOK
<1>4. BalanceIsLedger'
  BY <1>1 DEF Failover, BalanceIsLedger
<1>5. OpenDraftsAreFresh'
  BY DEF Failover, OpenDraftsAreFresh
<1> QED
  BY <1>2, <1>3, <1>4, <1>5 DEF Money

LEMMA MoneyNext ==
    ASSUME Shape, Money, [Next]_vars
    PROVE  Money'
<1> USE DEF Money
<1>1. CASE UNCHANGED vars
  BY <1>1 DEF LedgerChain, BalanceIsLedger, FloorOK, OpenDraftsAreFresh, Matches,
              WalletHeld, vars
<1>2. ASSUME NEW r \in Requests, Local(r) \/ ServerCommit(r)
      PROVE  Money'
  BY <1>2, MoneyLocal, MoneyServerCommit
<1>3. ASSUME NEW u \in Users, TouchWallet(u)
      PROVE  Money'
  BY <1>3, UpsertKeepsBalances
     DEF TouchWallet, LedgerChain, BalanceIsLedger, FloorOK, OpenDraftsAreFresh,
         Matches, WalletHeld, sessions
<1>4. ASSUME NEW u \in Users, Replicate(u)
      PROVE  Money'
  BY <1>4 DEF Replicate, LedgerChain, BalanceIsLedger, FloorOK, OpenDraftsAreFresh,
              Matches, WalletHeld, sessions
<1>5. CASE Failover
  BY <1>5, MoneyFailover
<1>6. CASE Finished
  BY <1>6, <1>1 DEF Finished
<1> QED
  BY <1>1, <1>2, <1>3, <1>4, <1>5, <1>6 DEF Next, Local, Server

LEMMA MoneyInvariant == Spec => [](Shape /\ Money)
<1>1. Init => Shape /\ Money
  BY InitShape, InitMoney
<1>2. Shape /\ Money /\ [Next]_vars => (Shape /\ Money)'
  BY ShapeNext, MoneyNext
<1> QED
  BY <1>1, <1>2, PTL DEF Spec

\* Every ledger is a chain: each transaction starts from the balance the one
\* before it left, and was valid on it.
THEOREM LedgerIsChain == Spec => []LedgerChain
<1>1. Shape /\ Money => LedgerChain
  BY DEF Money
<1> QED
  BY <1>1, MoneyInvariant, PTL

\* The wallet document always holds the balance of the user's ledger.
THEOREM BalanceMatchesLedger == Spec => []BalanceIsLedger
<1>1. Shape /\ Money => BalanceIsLedger
  BY DEF Money
<1> QED
  BY <1>1, MoneyInvariant, PTL

\* No wallet is ever overdrawn.
THEOREM NoOverdraft == Spec => []BalanceFloor
<1>1. Shape /\ Money => BalanceFloor
  BY MoneyFloor
<1> QED
  BY <1>1, MoneyInvariant, PTL

\* A transaction that the server may still commit holds its wallet alone, on
\* the balance its draft was made from.
THEOREM OpenDraftsStayFresh == Spec => []OpenDraftsAreFresh
<1>1. Shape /\ Money => OpenDraftsAreFresh
  BY DEF Money
<1> QED
  BY <1>1, MoneyInvariant, PTL

-----------------------------------------------------------------------------
(* The third layer: idempotency keys.  While a commit is under way its key  *)
(* is neither committed nor being committed by anyone else, which is what   *)
(* the unique index ensures when the document is inserted.                  *)

CommitsAreExclusive ==
    \A r \in Requests : txn[r] = "committing" => ~KeyTaken(r)

KeysOK == AtMostOnce /\ CommitsAreExclusive

LEMMA CarryingSome ==
    ASSUME NEW l, NEW k
    PROVE  Carrying(l, k) # {} <=>
              \E u \in Users : \E i \in 1..Len(l[u]) : KeyOf(l[u][i].by) = k
<1>1. ASSUME NEW e \in Carrying(l, k)
      PROVE  \E u \in Users : \E i \in 1..Len(l[u]) : KeyOf(l[u][i].by) = k
  BY <1>1, CarryingDef
<1>2. ASSUME NEW u \in Users, NEW i \in 1..Len(l[u]), KeyOf(l[u][i].by) = k
      PROVE  l[u][i] \in Carrying(l, k)
  BY <1>2, CarryingDef
<1> QED
  BY <1>1, <1>2

LEMMA KeyCommittedDef ==
    ASSUME NEW k
    PROVE  KeyCommitted(k) <=>
              \E u \in Users : \E i \in 1..Len(log[u]) : KeyOf(log[u][i].by) = k
BY CarryingSome DEF KeyCommitted

LEMMA KeyCommittedDefNext ==
    ASSUME NEW k
    PROVE  KeyCommitted(k)' <=>
              \E u \in Users : \E i \in 1..Len(log'[u]) : KeyOf(log'[u][i].by) = k
BY CarryingSome DEF KeyCommitted

LEMMA InitKeys == Init => KeysOK
BY DEF Init, KeysOK, AtMostOnce, CommitsAreExclusive

LEMMA KeysLocal ==
    ASSUME Shape, Money, KeysOK, NEW r \in Requests, Local(r)
    PROVE  KeysOK'
<1>1. Framed(r)
  BY FrameLocal DEF Money
<1>2. AtMostOnce'
  BY <1>1 DEF Framed, KeysOK, AtMostOnce
<1>3. ASSUME NEW q \in Requests, txn'[q] = "committing"
      PROVE  ~KeyTaken(q)'
  <2>1. KeyCommitted(KeyOf(q))' <=> KeyCommitted(KeyOf(q))
    BY <1>1 DEF Framed, KeyCommitted
  <2>2. \A p \in Requests : txn'[p] = "committing" => txn[p] = "committing" \/ ~KeyTaken(p)
    BY <1>1 DEF Framed
  <2>3. \A p \in Requests : txn'[p] = "committing" => ~KeyTaken(p)
    BY <2>2 DEF KeysOK, CommitsAreExclusive
  <2>4. ~KeyCommitted(KeyOf(q))'
    BY <1>3, <2>1, <2>3 DEF KeyTaken
  <2>5. ASSUME NEW p \in Requests \ {q}, txn'[p] = "committing", KeyOf(p) = KeyOf(q)
        PROVE  FALSE
    <3>1. ~KeyTaken(p) /\ ~KeyTaken(q)
      BY <1>3, <2>3, <2>5
    <3>2. txn[q] # "committing" /\ txn[p] # "committing"
      BY <3>1, <2>5 DEF KeyTaken
    <3>3. p = r /\ q = r
      BY <3>2, <1>1, <1>3, <2>5 DEF Framed
    <3> QED
      BY <3>3
  <2> QED
    BY <2>4, <2>5 DEF KeyTaken
<1> QED
  BY <1>2, <1>3 DEF KeysOK, CommitsAreExclusive

LEMMA KeysServerCommit ==
    ASSUME Shape, Money, KeysOK, NEW r \in Requests, ServerCommit(r)
    PROVE  KeysOK'
<1> DEFINE u == UserOf(r)
           d == draft[r]
<1>1. u \in Users /\ log[u] \in Seq(Entry) /\ d \in Entry /\ d.by = r
  BY ReqFields DEF Shape, TypeOK, ControlOK, IsDraft, ServerCommit, NewTransaction
<1>2. /\ Len(log[u]) \in Nat
      /\ Len(log'[u]) = Len(log[u]) + 1
      /\ log'[u][Len(log[u]) + 1] = d
      /\ \A i \in 1..Len(log[u]) : log'[u][i] = log[u][i]
      /\ \A v \in Users \ {u} : log'[v] = log[v]
  BY <1>1 DEF Shape, TypeOK, ServerCommit
<1>3. ~KeyTaken(r)
  BY DEF KeysOK, CommitsAreExclusive, ServerCommit
<1>4. \A v \in Users : \A i \in 1..Len(log[v]) : KeyOf(log[v][i].by) # KeyOf(r)
  BY <1>3, KeyCommittedDef DEF KeyTaken
<1>5. \A v \in Users : \A i \in 1..Len(log'[v]) :
         \/ i \in 1..Len(log[v]) /\ log'[v][i] = log[v][i]
         \/ v = u /\ i = Len(log[u]) + 1 /\ log'[v][i].by = r
  BY <1>1, <1>2
<1>6. AtMostOnce'
  <2> SUFFICES ASSUME NEW v \in Users, NEW w \in Users,
                      NEW i \in 1..Len(log'[v]), NEW j \in 1..Len(log'[w]),
                      KeyOf(log'[v][i].by) = KeyOf(log'[w][j].by)
               PROVE  v = w /\ i = j
    BY DEF AtMostOnce
  <2>1. CASE /\ i \in 1..Len(log[v]) /\ log'[v][i] = log[v][i]
             /\ j \in 1..Len(log[w]) /\ log'[w][j] = log[w][j]
    BY <2>1 DEF KeysOK, AtMostOnce
  <2>2. CASE /\ i \in 1..Len(log[v]) /\ log'[v][i] = log[v][i]
             /\ log'[w][j].by = r
    BY <2>2, <1>4
  <2>3. CASE /\ j \in 1..Len(log[w]) /\ log'[w][j] = log[w][j]
             /\ log'[v][i].by = r
    BY <2>3, <1>4
  <2>4. /\ \/ i \in 1..Len(log[v]) /\ log'[v][i] = log[v][i]
           \/ v = u /\ i = Len(log[u]) + 1 /\ log'[v][i].by = r
        /\ \/ j \in 1..Len(log[w]) /\ log'[w][j] = log[w][j]
           \/ w = u /\ j = Len(log[u]) + 1 /\ log'[w][j].by = r
    BY <1>5
  <2> QED
    BY <2>1, <2>2, <2>3, <2>4
<1>7. ASSUME NEW q \in Requests, txn'[q] = "committing"
      PROVE  ~KeyTaken(q)'
  <2>1. q # r /\ txn[q] = "committing"
    BY <1>7 DEF ServerCommit, Abort, Shape, TypeOK
  <2>2. KeyOf(q) # KeyOf(r) /\ ~KeyTaken(q)
    BY <2>1, <1>3 DEF KeysOK, CommitsAreExclusive, KeyTaken
  <2>3. ~KeyCommitted(KeyOf(q))'
    BY <2>2, <1>5, KeyCommittedDef, KeyCommittedDefNext DEF KeyTaken
  <2>4. \A p \in Requests : txn'[p] = "committing" => txn[p] = "committing"
    BY DEF ServerCommit, Abort, Shape, TypeOK
  <2> QED
    BY <2>2, <2>3, <2>4 DEF KeyTaken
<1> QED
  BY <1>6, <1>7 DEF KeysOK, CommitsAreExclusive

LEMMA KeysFailover ==
    ASSUME Shape, KeysOK, Failover
    PROVE  KeysOK'
<1>1. \A u \in Users :
         /\ Len(log'[u]) = durable[u]
         /\ \A i \in 1..durable[u] : i \in 1..Len(log[u]) /\ log'[u][i] = log[u][i]
  BY DurableLogType DEF Failover, Shape, TypeOK, DurableBound
<1>2. AtMostOnce'
  <2> SUFFICES ASSUME NEW v \in Users, NEW w \in Users,
                      NEW i \in 1..Len(log'[v]), NEW j \in 1..Len(log'[w]),
                      KeyOf(log'[v][i].by) = KeyOf(log'[w][j].by)
               PROVE  v = w /\ i = j
    BY DEF AtMostOnce
  <2>1. /\ i \in 1..Len(log[v]) /\ log'[v][i] = log[v][i]
        /\ j \in 1..Len(log[w]) /\ log'[w][j] = log[w][j]
    BY <1>1
  <2> QED
    BY <2>1 DEF KeysOK, AtMostOnce
<1>3. CommitsAreExclusive'
  BY DEF Failover, CommitsAreExclusive
<1> QED
  BY <1>2, <1>3 DEF KeysOK

LEMMA KeysNext ==
    ASSUME Shape, Money, KeysOK, [Next]_vars
    PROVE  KeysOK'
<1>1. ASSUME log' = log, txn' = txn
      PROVE  KeysOK'
  BY <1>1 DEF KeysOK, AtMostOnce, CommitsAreExclusive, KeyTaken, KeyCommitted
<1>2. ASSUME NEW r \in Requests, Local(r) \/ ServerCommit(r)
      PROVE  KeysOK'
  BY <1>2, KeysLocal, KeysServerCommit
<1>3. ASSUME NEW u \in Users, TouchWallet(u) \/ Replicate(u)
      PROVE  KeysOK'
  BY <1>1, <1>3 DEF TouchWallet, Replicate, sessions
<1>4. CASE Failover
  BY <1>4, KeysFailover
<1>5. CASE Finished \/ UNCHANGED vars
  BY <1>1, <1>5 DEF Finished, vars
<1> QED
  BY <1>2, <1>3, <1>4, <1>5 DEF Next, Local, Server

-----------------------------------------------------------------------------
(* The fourth layer: what the callers are told.  A request that has a      *)
(* committed transaction is past the point where it could make another     *)
(* draft, and the transaction is its draft.                                *)

CommittedDrafts ==
    \A r \in Requests : \A i \in 1..Len(log[UserOf(r)]) :
        log[UserOf(r)][i].by = r =>
            /\ pc[r] \in {"ack", "done", "crashed"}
            /\ log[UserOf(r)][i] = draft[r]

AnswersOK == CommittedDrafts /\ AnswersAreDurable /\ RefusalsAreFinal

IInv == Shape /\ Money /\ KeysOK /\ AnswersOK

LEMMA InitAnswers == Init => AnswersOK
<1> SUFFICES ASSUME Init PROVE AnswersOK
  OBVIOUS
<1>1. \A r \in Requests : answer[r].code = "NONE"
  BY DEF Init, NoAnswer
<1>2. CommittedDrafts
  BY ReqFields DEF Init, CommittedDrafts
<1> QED
  BY <1>1, <1>2 DEF AnswersOK, AnswersAreDurable, RefusalsAreFinal, Refusals

\* What a request may be told: a durable transaction of its key, a refusal
\* when it holds and has committed nothing, or nothing certain.
Justified(r, code, tx) ==
    \/ code = "CREATED" /\ tx \in Carrying(DurableLog, KeyOf(r))
    \/ code \in Refusals /\ tx = NoTx /\ ~CommittedBy(r) /\ txn'[r] = "none"
    \/ code \in Unknowns /\ tx = NoTx

Told(r) ==
    \/ answer' = answer
    \/ \E code, tx :
          /\ answer' = [answer EXCEPT ![r] = [code |-> code, tx |-> tx]]
          /\ Justified(r, code, tx)

LEMMA LocalTells ==
    ASSUME IInv, NEW r \in Requests, Local(r)
    PROVE  Told(r)
<1> USE DEF IInv, Shape, documents, sessions, environment
<1>1. ASSUME NEW code, NEW tx, Answer(r, code, tx), Justified(r, code, tx)
      PROVE  Told(r)
  BY <1>1 DEF Answer, Told
<1>2. CallFails(r) => Told(r)
  BY <1>1 DEF CallFails, FailureCodes, Unknowns, Justified
<1>3. TransientError(r) => Told(r)
  BY <1>1 DEF TransientError, FailureCodes, Unknowns, Justified, Told
<1>4. AnswerStored(r) => Told(r)
  BY <1>1 DEF AnswerStored, Justified
<1>5. pc[r] \in {"idle", "lookup", "loop", "relookup", "backoff"} =>
         ~CommittedBy(r) /\ txn[r] = "none"
  BY DEF AnswersOK, CommittedDrafts, CommittedBy, ControlOK, TypeOK
<1>6. CASE Submit(r)
  BY <1>6, <1>1, <1>5 DEF Submit, HandlerError, Refusals, Justified, Told
<1>7. CASE Lookup(r)
  BY <1>7, <1>2, <1>4 DEF Lookup, Told
<1>8. CASE LeaveLoop(r)
  BY <1>8, <1>1, <1>5 DEF LeaveLoop, Refusals, Unknowns, Justified
<1>9. CASE ReadWallet(r)
  BY <1>9, <1>1, <1>5, ErrorCodes DEF ReadWallet, Justified, Told
<1>10. CASE ReadWalletFails(r)
  BY <1>10, <1>2 DEF ReadWalletFails
<1>11. CASE UpdateFails(r)
  BY <1>11, <1>2, <1>3 DEF UpdateFails
<1>12. CASE InsertFails(r)
  BY <1>12, <1>2, <1>3 DEF InsertFails
<1>13. CASE Ack(r)
  <2>1. PICK i \in 1..durable[UserOf(r)] : log[UserOf(r)][i].by = r
    BY <1>13 DEF Ack, DurablyCommittedBy
  <2>2. i \in 1..Len(log[UserOf(r)])
    BY ReqFields DEF DurableBound, TypeOK
  <2>3. log[UserOf(r)][i] = draft[r]
    BY <2>1, <2>2 DEF AnswersOK, CommittedDrafts
  <2>4. DurableLog[UserOf(r)][i] = draft[r] /\ i \in 1..Len(DurableLog[UserOf(r)])
    BY <2>3, DurableLogType, ReqFields
  <2>5. draft[r] \in Carrying(DurableLog, KeyOf(r))
    BY <2>1, <2>3, <2>4, ReqFields, CarryingDef
  <2> QED
    BY <1>13, <1>1, <2>5 DEF Ack, Justified
<1>14. CASE AckFails(r)
  BY <1>14, <1>2, <1>3 DEF AckFails
<1>15. CASE Relookup(r)
  BY <1>15, <1>1, <1>4, <1>5 DEF Relookup, Refusals, Justified
<1>16. CASE Backoff(r)
  BY <1>16, <1>1 DEF Backoff, Unknowns, Justified, Told
<1>17. CASE UpdateWallet(r) \/ UpdateConflict(r) \/ InsertTransaction(r) \/
            InsertDuplicate(r) \/ Cancel(r) \/ Crash(r) \/ ExpireTxn(r)
  BY <1>17 DEF UpdateWallet, UpdateConflict, InsertTransaction, InsertDuplicate,
               Cancel, Crash, ExpireTxn, Told
<1> QED
  BY <1>6, <1>7, <1>8, <1>9, <1>10, <1>11, <1>12, <1>13, <1>14, <1>15, <1>16, <1>17
     DEF Local, Step

\* A request that has committed stays past its commit.
LEMMA CommittedStays ==
    ASSUME IInv, NEW r \in Requests, Local(r), CommittedBy(r)
    PROVE  pc'[r] \in {"ack", "done", "crashed"}
<1> USE DEF IInv, Shape, TypeOK, Goto, Answer
<1>1. pc[r] \in {"ack", "done", "crashed"}
  BY DEF AnswersOK, CommittedDrafts, CommittedBy
<1>2. CASE Step(r)
  BY <1>1, <1>2 DEF Step, Lookup, LeaveLoop, ReadWallet, ReadWalletFails,
     UpdateWallet, UpdateConflict, UpdateFails, InsertTransaction, InsertDuplicate,
     InsertFails, Ack, AckFails, TransientError, CallFails, Relookup, Backoff
<1>3. CASE Submit(r) \/ Cancel(r) \/ Crash(r) \/ ExpireTxn(r)
  BY <1>1, <1>3 DEF Submit, Cancel, Crash, ExpireTxn
<1> QED
  BY <1>2, <1>3 DEF Local

LEMMA AnswersLocal ==
    ASSUME IInv, NEW r \in Requests, Local(r)
    PROVE  AnswersOK'
<1>1. Framed(r) /\ Told(r)
  BY FrameLocal, LocalTells DEF IInv, Money
<1>2. answer'[r] = answer[r] \/ Justified(r, answer'[r].code, answer'[r].tx)
  BY <1>1 DEF Told, IInv, Shape, TypeOK
<1>3. CommittedDrafts'
  <2> SUFFICES ASSUME NEW q \in Requests, NEW i \in 1..Len(log'[UserOf(q)]),
                      log'[UserOf(q)][i].by = q
               PROVE  /\ pc'[q] \in {"ack", "done", "crashed"}
                      /\ log'[UserOf(q)][i] = draft'[q]
    BY DEF CommittedDrafts
  <2>1. /\ i \in 1..Len(log[UserOf(q)])
        /\ log[UserOf(q)][i].by = q
        /\ log'[UserOf(q)][i] = log[UserOf(q)][i]
    BY <1>1 DEF Framed
  <2>2. pc[q] \in {"ack", "done", "crashed"} /\ log[UserOf(q)][i] = draft[q]
    BY <2>1 DEF IInv, AnswersOK, CommittedDrafts
  <2>3. CASE q # r
    BY <2>1, <2>2, <2>3, <1>1 DEF Framed
  <2>4. CASE q = r
    BY <2>1, <2>2, <2>4, <1>1, CommittedStays DEF Framed, CommittedBy
  <2> QED
    BY <2>3, <2>4
<1>4. AnswersAreDurable'
  <2>1. DurableLog' = DurableLog
    BY <1>1 DEF Framed, DurableLog
  <2> QED
    BY <1>1, <1>2, <2>1
       DEF IInv, AnswersOK, AnswersAreDurable, Framed, Justified, Refusals, Unknowns
<1>5. RefusalsAreFinal'
  <2> SUFFICES ASSUME NEW q \in Requests, answer'[q].code \in Refusals
               PROVE  ~CommittedBy(q)' /\ txn'[q] = "none"
    BY DEF RefusalsAreFinal
  <2>1. CommittedBy(q)' <=> CommittedBy(q)
    BY <1>1 DEF Framed, CommittedBy
  <2>2. answer[q].code \in Refusals =>
           ~CommittedBy(q) /\ txn[q] = "none" /\ pc[q] = "done"
    BY DEF IInv, AnswersOK, RefusalsAreFinal, Shape, ControlOK, NoAnswer, Refusals
  <2> QED
    BY <1>1, <1>2, <2>1, <2>2 DEF Framed, Justified, Refusals, Unknowns
<1> QED
  BY <1>3, <1>4, <1>5 DEF AnswersOK

\* A commit, one more durable transaction or a failover keep the transactions
\* that are durable.
LEMMA DurableStays ==
    ASSUME Shape, Shape',
           \A u \in Users : /\ durable[u] <= durable'[u]
                            /\ \A i \in 1..durable[u] : log'[u][i] = log[u][i],
           NEW k, NEW e \in Carrying(DurableLog, k)
    PROVE  e \in Carrying(DurableLog', k)
<1>1. PICK u \in Users : \E i \in 1..Len(DurableLog[u]) : e = DurableLog[u][i]
  BY CarryingDef
<1>2. PICK i \in 1..Len(DurableLog[u]) : e = DurableLog[u][i]
  BY <1>1
<1>3. i \in 1..durable[u] /\ e = log[u][i] /\ durable[u] \in Nat /\ durable'[u] \in Nat
  BY <1>2, DurableLogType DEF Shape, TypeOK
<1>4. i \in 1..durable'[u] /\ log'[u][i] = e
  BY <1>3
<1>5. i \in 1..Len(DurableLog'[u]) /\ DurableLog'[u][i] = e
  <2>1. /\ log'[u] \in Seq(Entry)
        /\ durable'[u] \in Nat
        /\ durable'[u] <= Len(log'[u])
    BY DEF Shape, TypeOK, DurableBound
  <2>2. Len([j \in 1..durable'[u] |-> log'[u][j]]) = durable'[u]
    BY <2>1, PrefixSeq
  <2> QED
    BY <1>4, <2>1, <2>2 DEF DurableLog
<1> QED
  BY <1>2, <1>5, CarryingDef

LEMMA AnswersServerCommit ==
    ASSUME IInv, Shape', NEW r \in Requests, ServerCommit(r)
    PROVE  AnswersOK'
<1> DEFINE u == UserOf(r)
<1>1. /\ u \in Users
      /\ log[u] \in Seq(Entry)
      /\ Len(log[u]) \in Nat
      /\ draft[r] \in Entry
      /\ draft[r].by = r
      /\ pc[r] \in {"ack", "done", "crashed"}
  BY ReqFields DEF IInv, Shape, TypeOK, ControlOK, IsDraft, ServerCommit, NewTransaction
<1>2. /\ Len(log'[u]) = Len(log[u]) + 1
      /\ log'[u][Len(log[u]) + 1] = draft[r]
      /\ \A i \in 1..Len(log[u]) : log'[u][i] = log[u][i]
      /\ \A v \in Users \ {u} : log'[v] = log[v]
      /\ UNCHANGED <<pc, draft, answer, durable>>
  BY <1>1 DEF IInv, Shape, TypeOK, ServerCommit
<1>3. \A v \in Users : \A i \in 1..Len(log'[v]) :
         \/ i \in 1..Len(log[v]) /\ log'[v][i] = log[v][i]
         \/ v = u /\ log'[v][i] = draft[r]
  BY <1>1, <1>2
<1>4. CommittedDrafts'
  <2> SUFFICES ASSUME NEW q \in Requests, NEW i \in 1..Len(log'[UserOf(q)]),
                      log'[UserOf(q)][i].by = q
               PROVE  /\ pc'[q] \in {"ack", "done", "crashed"}
                      /\ log'[UserOf(q)][i] = draft'[q]
    BY DEF CommittedDrafts
  <2>1. UserOf(q) \in Users
    BY ReqFields
  <2>2. CASE i \in 1..Len(log[UserOf(q)]) /\ log'[UserOf(q)][i] = log[UserOf(q)][i]
    BY <2>2, <1>2 DEF IInv, AnswersOK, CommittedDrafts
  <2>3. CASE log'[UserOf(q)][i] = draft[r]
    BY <2>3, <1>1, <1>2
  <2> QED
    BY <2>1, <2>2, <2>3, <1>3
<1>5. AnswersAreDurable'
  <2>1. \A v \in Users : /\ durable[v] <= durable'[v]
                         /\ \A i \in 1..durable[v] : log'[v][i] = log[v][i]
    <3> SUFFICES ASSUME NEW v \in Users
                 PROVE  /\ durable[v] <= durable'[v]
                        /\ \A i \in 1..durable[v] : log'[v][i] = log[v][i]
      OBVIOUS
    <3>1. /\ durable'[v] = durable[v] /\ durable[v] \in Nat
          /\ durable[v] <= Len(log[v]) /\ Len(log[v]) \in Nat
      BY <1>2 DEF IInv, Shape, TypeOK, DurableBound
    <3>2. \A i \in 1..durable[v] : i \in 1..Len(log[v])
      BY <3>1
    <3> QED
      BY <3>1, <3>2, <1>2
  <2>2. \A q \in Requests : answer[q].code = "CREATED" =>
           answer[q].tx \in Carrying(DurableLog', KeyOf(q))
    BY <2>1, DurableStays DEF IInv, AnswersOK, AnswersAreDurable
  <2> QED
    BY <1>2, <2>2 DEF AnswersAreDurable
<1>6. RefusalsAreFinal'
  <2> SUFFICES ASSUME NEW q \in Requests, answer'[q].code \in Refusals
               PROVE  ~CommittedBy(q)' /\ txn'[q] = "none"
    BY DEF RefusalsAreFinal
  <2>1. ~CommittedBy(q) /\ txn[q] = "none"
    BY <1>2 DEF IInv, AnswersOK, RefusalsAreFinal
  <2>2. q # r
    BY <2>1 DEF ServerCommit
  <2>3. ~CommittedBy(q)'
    BY <2>1, <2>2, <1>1, <1>3, ReqFields DEF CommittedBy
  <2> QED
    BY <2>1, <2>2, <2>3 DEF ServerCommit, Abort, IInv, Shape, TypeOK
<1> QED
  BY <1>4, <1>5, <1>6 DEF AnswersOK

LEMMA AnswersReplicate ==
    ASSUME IInv, Shape', NEW u \in Users, Replicate(u)
    PROVE  AnswersOK'
<1>1. /\ UNCHANGED <<pc, draft, answer, log, txn>>
      /\ durable' = [durable EXCEPT ![u] = @ + 1]
  BY DEF Replicate, sessions
<1>2. CommittedDrafts' /\ RefusalsAreFinal'
  BY <1>1 DEF IInv, AnswersOK, CommittedDrafts, RefusalsAreFinal, CommittedBy
<1>3. \A v \in Users : /\ durable[v] <= durable'[v]
                       /\ \A i \in 1..durable[v] : log'[v][i] = log[v][i]
  BY <1>1 DEF IInv, Shape, TypeOK
<1>4. \A q \in Requests : answer[q].code = "CREATED" =>
         answer[q].tx \in Carrying(DurableLog', KeyOf(q))
  BY <1>3, DurableStays DEF IInv, AnswersOK, AnswersAreDurable
<1>5. AnswersAreDurable'
  BY <1>1, <1>4 DEF AnswersAreDurable
<1> QED
  BY <1>2, <1>5 DEF AnswersOK

LEMMA AnswersFailover ==
    ASSUME IInv, Shape', Failover
    PROVE  AnswersOK'
<1>1. \A u \in Users :
         /\ Len(log'[u]) = durable[u]
         /\ durable'[u] = durable[u] /\ durable[u] \in Nat
         /\ \A i \in 1..durable[u] : i \in 1..Len(log[u]) /\ log'[u][i] = log[u][i]
  BY DurableLogType DEF Failover, IInv, Shape, TypeOK, DurableBound
<1>2. UNCHANGED <<pc, draft, answer>> /\ \A r \in Requests : txn'[r] = "none"
  BY DEF Failover
<1>3. \A r \in Requests : \A i \in 1..Len(log'[UserOf(r)]) :
         /\ i \in 1..Len(log[UserOf(r)])
         /\ log'[UserOf(r)][i] = log[UserOf(r)][i]
  BY <1>1, ReqFields
<1>4. CommittedDrafts'
  BY <1>2, <1>3 DEF IInv, AnswersOK, CommittedDrafts
<1>5. RefusalsAreFinal'
  BY <1>2, <1>3 DEF IInv, AnswersOK, RefusalsAreFinal, CommittedBy
<1>6. \A q \in Requests : answer[q].code = "CREATED" =>
         answer[q].tx \in Carrying(DurableLog', KeyOf(q))
  BY <1>1, DurableStays DEF IInv, AnswersOK, AnswersAreDurable
<1>7. AnswersAreDurable'
  BY <1>2, <1>6 DEF AnswersAreDurable
<1> QED
  BY <1>4, <1>5, <1>7 DEF AnswersOK

LEMMA InitIInv == Init => IInv
BY InitShape, InitMoney, InitKeys, InitAnswers DEF IInv

LEMMA NextIInv ==
    ASSUME IInv, [Next]_vars
    PROVE  IInv'
<1>1. Shape' /\ Money' /\ KeysOK'
  BY ShapeNext, MoneyNext, KeysNext DEF IInv
<1>2. ASSUME UNCHANGED <<pc, draft, answer, log, durable, txn>>
      PROVE  AnswersOK'
  BY <1>2 DEF IInv, AnswersOK, CommittedDrafts, AnswersAreDurable, RefusalsAreFinal,
              CommittedBy, DurableLog
<1>3. AnswersOK'
  <2>1. ASSUME NEW r \in Requests, Local(r) \/ ServerCommit(r)
        PROVE  AnswersOK'
    BY <2>1, <1>1, AnswersLocal, AnswersServerCommit
  <2>2. ASSUME NEW u \in Users, TouchWallet(u)
        PROVE  AnswersOK'
    BY <2>2, <1>2 DEF TouchWallet, sessions
  <2>3. ASSUME NEW u \in Users, Replicate(u)
        PROVE  AnswersOK'
    BY <2>3, <1>1, AnswersReplicate
  <2>4. CASE Failover
    BY <2>4, <1>1, AnswersFailover
  <2>5. CASE Finished \/ UNCHANGED vars
    BY <2>5, <1>2 DEF Finished, vars
  <2> QED
    BY <2>1, <2>2, <2>3, <2>4, <2>5 DEF Next, Local, Server
<1> QED
  BY <1>1, <1>3 DEF IInv

LEMMA IInvInvariant == Spec => []IInv
<1>1. Init => IInv
  BY InitIInv
<1>2. IInv /\ [Next]_vars => IInv'
  BY NextIInv
<1> QED
  BY <1>1, <1>2, PTL DEF Spec

\* A key executes at most once, over the wallets of all users.
THEOREM KeysExecuteOnce == Spec => []AtMostOnce
<1>1. IInv => AtMostOnce
  BY DEF IInv, KeysOK
<1> QED
  BY <1>1, IInvInvariant, PTL

\* CREATED is said of durable transactions of the caller's key only.
THEOREM CreatedIsDurable == Spec => []AnswersAreDurable
<1>1. IInv => AnswersAreDurable
  BY DEF IInv, AnswersOK
<1> QED
  BY <1>1, IInvInvariant, PTL

\* A request that was refused has no effect, then or later.
THEOREM RefusedIsFinal == Spec => []RefusalsAreFinal
<1>1. IInv => RefusalsAreFinal
  BY DEF IInv, AnswersOK
<1> QED
  BY <1>1, IInvInvariant, PTL

-----------------------------------------------------------------------------
(* CONFLICT needs contention.  While the primary does not change, a lost   *)
(* attempt is paid for by a committed transaction of the same wallet: the  *)
(* balance can only have moved away from the draft's by a commit, and a    *)
(* write conflict between two transactions that are both open costs        *)
(* nobody an attempt.  So a request that uses up its attempts has seen as  *)
(* many transactions go through.                                           *)

AttemptPaid(r) ==
    LET u == UserOf(r)
    IN /\ pc[r] \notin {"done", "crashed"} => attempt[r] <= Len(log[u])
       /\ pc[r] = "update" =>
             /\ u \in wallets
             /\ balance[u] # draft[r].before => attempt[r] < Len(log[u])
       /\ pc[r] = "backoff" => attempt[r] < Len(log[u])
       /\ pc[r] = "insert" => txn[r] = "open"
       /\ pc[r] = "ack" => txn[r] = "committing" \/ CommittedBy(r)
       /\ answer[r].code = "CONFLICT" => Len(log[u]) >= MaxConflictRetries

AttemptsPaid == failovers = 0 => \A r \in Requests : AttemptPaid(r)

LEMMA InitPaid == Init => AttemptsPaid
BY ReqFields DEF Init, AttemptsPaid, AttemptPaid, NoAnswer

\* The step of another request leaves r's account as it is.
LEMMA PaidOthers ==
    ASSUME IInv, NEW q \in Requests, Local(q), NEW r \in Requests \ {q}, AttemptPaid(r)
    PROVE  AttemptPaid(r)'
<1>1. Framed(q)
  BY FrameLocal DEF IInv, Money
<1>2. attempt'[r] = attempt[r]
  BY DEF Local, Step, Submit, Lookup, LeaveLoop, ReadWallet, ReadWalletFails,
     UpdateWallet, UpdateConflict, UpdateFails, InsertTransaction, InsertDuplicate,
     InsertFails, Ack, AckFails, Relookup, Backoff, Cancel, Crash, ExpireTxn,
     IInv, Shape, TypeOK
<1> QED
  BY <1>1, <1>2 DEF Framed, AttemptPaid, CommittedBy

LEMMA PaidOwn ==
    ASSUME IInv, failovers = 0, NEW r \in Requests, Local(r), AttemptPaid(r)
    PROVE  AttemptPaid(r)'
<1> DEFINE u == UserOf(r)
<1>1. Framed(r) /\ u \in Users
  BY FrameLocal, ReqFields DEF IInv, Money
<1>2. /\ log' = log /\ balance' = balance /\ wallets \subseteq wallets'
      /\ Len(log[u]) \in Nat
  BY <1>1 DEF Framed, IInv, Shape, TypeOK
<1>3. attempt[r] \in Nat /\ attempt[r] <= MaxConflictRetries /\ MaxConflictRetries \in Nat
  BY BoundsAssumption DEF IInv, Shape, TypeOK
<1> USE <1>2, <1>3 DEF IInv, Shape, TypeOK, AttemptPaid, CommittedBy, Goto, Answer,
                       documents, sessions, environment
<1>4. CASE Submit(r)
  BY <1>4 DEF Submit, HandlerError
<1>5. CASE Lookup(r)
  BY <1>5 DEF Lookup, AnswerStored, CallFails, FailureCodes
<1>6. CASE LeaveLoop(r)
  BY <1>6 DEF LeaveLoop, AttemptsLeft
<1>7. CASE ReadWallet(r)
  <2>1. NewTransactionError(r, balance'[u]) # "CONFLICT"
    BY DEF NewTransactionError
  <2>2. u \in wallets'
    BY <1>7 DEF ReadWallet, UpsertWallet
  <2>3. NewTransaction(r, balance'[u]).before = balance'[u]
    BY DEF NewTransaction
  <2> QED
    BY <1>7, <2>1, <2>2, <2>3 DEF ReadWallet
<1>8. CASE ReadWalletFails(r)
  BY <1>8 DEF ReadWalletFails, CallFails, FailureCodes
<1>9. CASE UpdateWallet(r)
  BY <1>9 DEF UpdateWallet
<1>10. CASE UpdateConflict(r)
  BY <1>10 DEF UpdateConflict, Matches
<1>11. CASE UpdateFails(r)
  BY <1>11 DEF UpdateFails, CallFails, TransientError, FailureCodes, Matches
<1>12. CASE InsertTransaction(r)
  BY <1>12 DEF InsertTransaction
<1>13. CASE InsertDuplicate(r)
  BY <1>13 DEF InsertDuplicate, Abort
<1>14. CASE InsertFails(r)
  BY <1>14 DEF InsertFails, CallFails, TransientError, FailureCodes, Abort, Money,
              OpenDraftsAreFresh, Matches
<1>15. CASE Ack(r)
  BY <1>15 DEF Ack
<1>16. CASE AckFails(r)
  BY <1>16 DEF AckFails, CallFails, TransientError, FailureCodes
<1>17. CASE Relookup(r)
  BY <1>17 DEF Relookup, AnswerStored
<1>18. CASE Backoff(r)
  BY <1>18 DEF Backoff
<1>19. CASE Cancel(r)
  BY <1>19 DEF Cancel
<1>20. CASE Crash(r)
  BY <1>20 DEF Crash
<1>21. CASE ExpireTxn(r)
  BY <1>21 DEF ExpireTxn, Abort
<1> QED
  BY <1>4, <1>5, <1>6, <1>7, <1>8, <1>9, <1>10, <1>11, <1>12, <1>13, <1>14, <1>15,
     <1>16, <1>17, <1>18, <1>19, <1>20, <1>21 DEF Local, Step

\* A commit moves the balance, and pays for whoever it makes lose.
LEMMA PaidServerCommit ==
    ASSUME IInv, NEW q \in Requests, ServerCommit(q), NEW r \in Requests, AttemptPaid(r)
    PROVE  AttemptPaid(r)'
<1> DEFINE u == UserOf(r)
<1>1. /\ u \in Users /\ log[u] \in Seq(Entry) /\ Len(log[u]) \in Nat
      /\ attempt[r] \in Nat /\ MaxConflictRetries \in Nat
      /\ draft[q] \in Entry
  BY ReqFields, BoundsAssumption DEF IInv, Shape, TypeOK, ControlOK, IsDraft, ServerCommit
<1>2. UNCHANGED <<pc, attempt, draft, answer, wallets>>
  BY DEF ServerCommit
<1>3. CASE UserOf(q) # u
  <2>1. log'[u] = log[u] /\ balance'[u] = balance[u] /\ txn'[r] = txn[r]
    BY <1>3, <1>1 DEF ServerCommit, Abort, IInv, Shape, TypeOK
  <2> QED
    BY <2>1, <1>2 DEF AttemptPaid, CommittedBy
<1>4. CASE UserOf(q) = u
  <2>1. /\ Len(log'[u]) = Len(log[u]) + 1
        /\ log'[u][Len(log[u]) + 1] = draft[q]
        /\ \A i \in 1..Len(log[u]) : log'[u][i] = log[u][i]
    BY <1>1, <1>4 DEF ServerCommit, IInv, Shape, TypeOK
  <2>2. CommittedBy(r) => CommittedBy(r)'
    BY <2>1, <1>1 DEF CommittedBy
  <2>3. r # q => txn'[r] = txn[r]
    BY DEF ServerCommit, Abort, IInv, Shape, TypeOK
  <2>4. r = q => CommittedBy(r)' /\ pc[r] # "insert"
    <3>1. txn[q] = "committing"
      BY DEF ServerCommit
    <3>2. IsDraft(q) /\ pc[q] # "insert"
      BY <3>1 DEF IInv, Shape, ControlOK
    <3>3. draft[q].by = q
      BY <3>2 DEF IsDraft, NewTransaction
    <3> QED
      BY <3>2, <3>3, <2>1, <1>1, <1>4 DEF CommittedBy
  <2> QED
    BY <2>1, <2>2, <2>3, <2>4, <1>1, <1>2 DEF AttemptPaid
<1> QED
  BY <1>3, <1>4

LEMMA PaidNext ==
    ASSUME IInv, AttemptsPaid, [Next]_vars
    PROVE  AttemptsPaid'
<1> SUFFICES ASSUME failovers' = 0, NEW r \in Requests PROVE AttemptPaid(r)'
  BY DEF AttemptsPaid
<1>1. CASE Failover
  BY <1>1 DEF Failover, IInv, Shape, TypeOK
<1>2. ASSUME failovers = 0, NEW q \in Requests, Local(q) \/ ServerCommit(q)
      PROVE  AttemptPaid(r)'
  BY <1>2, PaidOthers, PaidOwn, PaidServerCommit DEF AttemptsPaid
<1>3. ASSUME failovers = 0, NEW u \in Users, TouchWallet(u) \/ Replicate(u)
      PROVE  AttemptPaid(r)'
  <2>1. balance' = balance /\ wallets \subseteq wallets'
    BY <1>3, UpsertKeepsBalances DEF TouchWallet, Replicate, IInv, Money
  <2> QED
    BY <1>3, <2>1 DEF TouchWallet, Replicate, sessions, AttemptsPaid, AttemptPaid,
                      CommittedBy
<1>4. CASE Finished \/ UNCHANGED vars
  BY <1>4 DEF Finished, vars, AttemptsPaid, AttemptPaid, CommittedBy
<1>5. CASE \E q \in Requests : Local(q) \/ ServerCommit(q)
  <2>1. failovers' = failovers
    BY <1>5, FrameLocal DEF Framed, IInv, Money, ServerCommit, environment
  <2> QED
    BY <1>5, <1>2, <2>1
<1>6. CASE \E u \in Users : TouchWallet(u) \/ Replicate(u)
  <2>1. failovers' = failovers
    BY <1>6 DEF TouchWallet, Replicate, environment
  <2> QED
    BY <1>6, <1>3, <2>1
<1> QED
  BY <1>1, <1>4, <1>5, <1>6 DEF Next, Local, Server

\* A caller that is told CONFLICT lost to that many committed transactions of
\* its wallet, for every number of contenders and every retry limit.
THEOREM ConflictIsPaid == Spec => []GiveUpNeedsContention
<1>1. Init => AttemptsPaid
  BY InitPaid
<1>2. IInv /\ AttemptsPaid /\ [Next]_vars => AttemptsPaid'
  BY PaidNext
<1>3. AttemptsPaid => GiveUpNeedsContention
  BY DEF AttemptsPaid, AttemptPaid, GiveUpNeedsContention
<1> QED
  BY <1>1, <1>2, <1>3, IInvInvariant, PTL DEF Spec
=============================================================================
