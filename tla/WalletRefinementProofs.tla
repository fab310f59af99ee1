----------------------- MODULE WalletRefinementProofs -----------------------
(***************************************************************************)
(* The service implements the abstract ledger: under the mapping that      *)
(* takes the ledger to be the durable transactions, Init is the ledger's   *)
(* Init and every step is a Post, an answer, or a stuttering step.  A      *)
(* transaction is posted when it becomes majority-committed, not when the  *)
(* primary applies it, so a failover is a stuttering step.                 *)
(***************************************************************************)
EXTENDS WalletServiceProofs, SequenceTheorems

\* The ledger's operators, as the service names them.
LEMMA SameData ==
    /\ \A l, k : Ledger!Carrying(l, k) = Carrying(l, k)
    /\ \A s : Ledger!BalanceOf(s) = BalanceOf(s)
    /\ \A r : Ledger!UserOf(r) = UserOf(r) /\ Ledger!KeyOf(r) = KeyOf(r)
    /\ \A r, b : /\ Ledger!NewTransaction(r, b) = NewTransaction(r, b)
                 /\ Ledger!NewTransactionError(r, b) = NewTransactionError(r, b)
    /\ Ledger!Refusals = Refusals
    /\ Ledger!Unknowns = Unknowns
    /\ Ledger!NoAnswer = NoAnswer
BY DEF Ledger!Carrying, Carrying, Ledger!BalanceOf, BalanceOf, Ledger!UserOf, UserOf,
       Ledger!KeyOf, KeyOf, Ledger!NewTransaction, NewTransaction, Ledger!BalanceAfter,
       BalanceAfter, Ledger!NewTransactionError, NewTransactionError, Ledger!Types, Types,
       Ledger!Refusals, Refusals, Ledger!Unknowns, Unknowns, Ledger!NoAnswer, NoAnswer

LEMMA InitRefines == Init => Ledger!LedgerInit
<1> SUFFICES ASSUME Init PROVE Ledger!LedgerInit
  OBVIOUS
<1>1. Shape
  BY InitShape
<1>2. \A u \in Users : DurableLog[u] \in Seq(Entry) /\ Len(DurableLog[u]) = 0
  BY <1>1, DurableLogType DEF Init, Shape
<1>3. \A u \in Users : DurableLog[u] = <<>>
  BY <1>2, EmptySeq
<1>4. DurableLog = [u \in Users |-> <<>>]
  BY <1>3 DEF DurableLog
<1> QED
  BY <1>4, SameData DEF Ledger!LedgerInit, Init

\* What a goroutine does answers a request, or is a stuttering step.
LEMMA LocalRefines ==
    ASSUME IInv, NEW r \in Requests, Local(r)
    PROVE  [Ledger!LedgerNext]_(Ledger!ledgerVars)
<1>1. Framed(r) /\ Told(r)
  BY FrameLocal, LocalTells DEF IInv, Money
<1>2. DurableLog' = DurableLog
  BY <1>1 DEF Framed, DurableLog
<1>3. CASE answer' = answer
  BY <1>2, <1>3 DEF Ledger!ledgerVars
<1>4. CASE answer' # answer
  <2>1. PICK code, tx :
           /\ answer' = [answer EXCEPT ![r] = [code |-> code, tx |-> tx]]
           /\ Justified(r, code, tx)
    BY <1>1, <1>4 DEF Told
  <2>2. answer[r] = NoAnswer
    BY <1>1, <1>4 DEF Framed, IInv, Shape, ControlOK
  <2>3. Ledger!Reply(r, code, tx)
    BY <2>1, <2>2, <1>2, SameData DEF Ledger!Reply
  <2>4. CASE code = "CREATED" /\ tx \in Carrying(DurableLog, KeyOf(r))
    BY <2>3, <2>4, SameData DEF Ledger!Confirm, Ledger!LedgerNext
  <2>5. CASE code \in Refusals /\ tx = NoTx /\ ~CommittedBy(r)
    <3>1. \A i \in 1..Len(DurableLog[UserOf(r)]) : DurableLog[UserOf(r)][i].by # r
      <4>1. UserOf(r) \in Users
        BY ReqFields
      <4>2. /\ Len(DurableLog[UserOf(r)]) = durable[UserOf(r)]
            /\ \A i \in 1..durable[UserOf(r)] :
                  DurableLog[UserOf(r)][i] = log[UserOf(r)][i]
        BY <4>1, DurableLogType DEF IInv, Shape
      <4>3. \A i \in 1..durable[UserOf(r)] : i \in 1..Len(log[UserOf(r)])
        BY <4>1 DEF IInv, Shape, TypeOK, DurableBound
      <4> QED
        BY <2>5, <4>2, <4>3 DEF CommittedBy
    <3>2. Ledger!Refuse(r)
      BY <2>3, <2>5, <3>1, SameData DEF Ledger!Refuse
    <3> QED
      BY <3>2 DEF Ledger!LedgerNext
  <2>6. CASE code \in Unknowns /\ tx = NoTx
    BY <2>3, <2>6, SameData DEF Ledger!LeaveInDoubt, Ledger!LedgerNext
  <2> QED
    BY <2>1, <2>4, <2>5, <2>6 DEF Justified
<1> QED
  BY <1>3, <1>4

\* The primary's commit adds nothing durable yet.
LEMMA ServerCommitRefines ==
    ASSUME IInv, NEW r \in Requests, ServerCommit(r)
    PROVE  UNCHANGED Ledger!ledgerVars
<1>1. /\ UserOf(r) \in Users
      /\ log' = [log EXCEPT ![UserOf(r)] = Append(@, draft[r])]
      /\ durable' = durable /\ answer' = answer
      /\ draft[r] \in Entry
  BY ReqFields DEF ServerCommit, IInv, Shape, ControlOK, IsDraft
<1>2. \A u \in Users : \A i \in 1..durable[u] : log'[u][i] = log[u][i]
  <2> SUFFICES ASSUME NEW u \in Users, NEW i \in 1..durable[u]
               PROVE  log'[u][i] = log[u][i]
    OBVIOUS
  <2>1. log[u] \in Seq(Entry) /\ i \in 1..Len(log[u])
    BY DEF IInv, Shape, TypeOK, DurableBound
  <2> QED
    BY <1>1, <2>1 DEF IInv, Shape, TypeOK
<1>3. \A u \in Users :
         [i \in 1..durable'[u] |-> log'[u][i]] = [i \in 1..durable[u] |-> log[u][i]]
  BY <1>1, <1>2
<1>4. DurableLog' = DurableLog
  BY <1>3 DEF DurableLog
<1> QED
  BY <1>1, <1>4 DEF Ledger!ledgerVars

\* Becoming durable is the Post of the request that built the transaction.
LEMMA ReplicateRefines ==
    ASSUME IInv, Shape', NEW u \in Users, Replicate(u)
    PROVE  Ledger!LedgerNext
<1> DEFINE n == durable[u] + 1
           e == log[u][n]
           r == e.by
<1>1. /\ durable[u] \in Nat
      /\ durable[u] < Len(log[u])
      /\ log[u] \in Seq(Entry)
      /\ n \in 1..Len(log[u])
      /\ e \in Entry
      /\ r \in Requests
      /\ log' = log /\ answer' = answer
      /\ durable' = [durable EXCEPT ![u] = n]
  <2>1. /\ durable[u] \in Nat
        /\ durable[u] < Len(log[u])
        /\ log[u] \in Seq(Entry)
    BY DEF Replicate, IInv, Shape, TypeOK
  <2>2. n \in 1..Len(log[u])
    BY <2>1
  <2>3. e \in Entry
    BY <2>1, <2>2, ElementOfSeq
  <2>4. r \in Requests
    BY <2>3 DEF Entry
  <2> QED
    BY <2>1, <2>2, <2>3, <2>4 DEF Replicate
<1>2. /\ UserOf(r) = u
      /\ e.before = IF n = 1 THEN 0 ELSE log[u][n - 1].after
      /\ NewTransactionError(r, e.before) = "NONE"
      /\ e.after = BalanceAfter(r, e.before)
  BY <1>1 DEF IInv, Money, LedgerChain
<1>3. /\ \A v \in Users : Len(DurableLog[v]) = durable[v]
      /\ \A v \in Users : \A i \in 1..durable[v] : DurableLog[v][i] = log[v][i]
      /\ DurableLog \in [Users -> Seq(Entry)]
  BY DurableLogType DEF IInv, Shape
<1>4. BalanceOf(DurableLog[u]) = e.before
  <2>1. CASE durable[u] = 0
    BY <2>1, <1>1, <1>2, <1>3 DEF BalanceOf
  <2>2. CASE durable[u] # 0
    <3>1. n # 1 /\ n - 1 = durable[u] /\ durable[u] \in 1..durable[u]
      BY <2>2, <1>1
    <3> QED
      BY <3>1, <2>2, <1>2, <1>3 DEF BalanceOf
  <2> QED
    BY <2>1, <2>2
<1>5. e = NewTransaction(r, BalanceOf(DurableLog[u]))
  BY <1>1, <1>2, <1>4 DEF NewTransaction, Entry
<1>6. Carrying(DurableLog, KeyOf(r)) = {}
  <2> SUFFICES ASSUME NEW v \in Users, NEW i \in 1..Len(DurableLog[v]),
                      KeyOf(DurableLog[v][i].by) = KeyOf(r)
               PROVE  FALSE
    BY CarryingSome
  <2>1. i \in 1..durable[v] /\ DurableLog[v][i] = log[v][i]
    BY <1>3
  <2>2. durable[v] \in Nat /\ log[v] \in Seq(Entry) /\ durable[v] <= Len(log[v])
    BY DEF IInv, Shape, TypeOK, DurableBound
  <2>3. i \in 1..Len(log[v])
    <3> HIDE DEF n
    <3> QED
      BY <2>1, <2>2
  <2>4. v = u /\ i = n
    <3>1. KeyOf(log[u][n].by) = KeyOf(log[v][i].by)
      BY <2>1
    <3> QED
      BY <3>1, <2>3, <1>1 DEF IInv, KeysOK, AtMostOnce
  <2> QED
    BY <2>1, <2>4, <1>1
<1>7. answer[r].code \notin Refusals
  <2>1. CommittedBy(r)
    BY <1>1, <1>2 DEF CommittedBy
  <2> QED
    BY <2>1, <1>1 DEF IInv, AnswersOK, RefusalsAreFinal
<1>8. DurableLog' = [DurableLog EXCEPT ![u] = Append(@, e)]
  <2>1. ASSUME NEW v \in Users, v # u
        PROVE  DurableLog'[v] = DurableLog[v]
    BY <2>1, <1>1 DEF DurableLog, IInv, Shape, TypeOK
  <2>2. DurableLog'[u] = Append(DurableLog[u], e)
    <3> DEFINE p == [i \in 1..n |-> log[u][i]]
               a == Append(DurableLog[u], e)
    <3>1. DurableLog'[u] = p
      <4>1. durable'[u] = n /\ log'[u] = log[u]
        BY <1>1 DEF IInv, Shape, TypeOK
      <4> QED
        BY <4>1 DEF DurableLog
    <3>2. n \in Nat /\ n <= Len(log[u]) /\ log[u] \in Seq(Entry)
      BY <1>1
    <3>3. p \in Seq(Entry) /\ Len(p) = n
      BY <3>2, PrefixSeq
    <3>4. DurableLog[u] \in Seq(Entry) /\ Len(DurableLog[u]) = durable[u]
      BY <1>3
    <3>5. /\ a \in Seq(Entry)
          /\ Len(a) = n
          /\ \A i \in 1..durable[u] : a[i] = DurableLog[u][i]
          /\ a[n] = e
      BY <1>1, <3>4, AppendProperties
    <3>6. \A i \in 1..n : p[i] = a[i]
      BY <1>1, <1>3, <3>5
    <3>7. p = a
      <4> HIDE DEF p, a
      <4> QED
        BY <3>3, <3>5, <3>6, SeqEqual
    <3> QED
      BY <3>1, <3>7
  <2>3. DurableLog' = [v \in Users |-> DurableLog'[v]]
    BY DEF DurableLog
  <2> QED
    BY <2>1, <2>2, <2>3, <1>3
<1>9. Ledger!Post(r)
  BY <1>1, <1>2, <1>4, <1>5, <1>6, <1>7, <1>8, SameData DEF Ledger!Post
<1> QED
  BY <1>1, <1>9 DEF Ledger!LedgerNext

\* A failover takes back only what the ledger never held.
LEMMA FailoverRefines ==
    ASSUME IInv, Failover
    PROVE  UNCHANGED Ledger!ledgerVars
<1>1. \A u \in Users : \A i \in 1..durable[u] : log'[u][i] = log[u][i]
  BY DurableLogType DEF Failover, IInv, Shape
<1>2. DurableLog' = DurableLog
  BY <1>1 DEF DurableLog, Failover
<1> QED
  BY <1>2 DEF Failover, Ledger!ledgerVars

LEMMA NextRefines ==
    ASSUME IInv, IInv', [Next]_vars
    PROVE  [Ledger!LedgerNext]_(Ledger!ledgerVars)
<1>1. ASSUME UNCHANGED <<log, durable, answer>>
      PROVE  UNCHANGED Ledger!ledgerVars
  BY <1>1 DEF Ledger!ledgerVars, DurableLog
<1>2. ASSUME NEW r \in Requests, Local(r) \/ ServerCommit(r)
      PROVE  [Ledger!LedgerNext]_(Ledger!ledgerVars)
  BY <1>2, LocalRefines, ServerCommitRefines
<1>3. ASSUME NEW u \in Users, TouchWallet(u) \/ Replicate(u)
      PROVE  [Ledger!LedgerNext]_(Ledger!ledgerVars)
  BY <1>1, <1>3, ReplicateRefines DEF TouchWallet, IInv
<1>4. CASE Failover
  BY <1>4, FailoverRefines
<1>5. CASE Finished \/ UNCHANGED vars
  BY <1>1, <1>5 DEF Finished, vars
<1> QED
  BY <1>2, <1>3, <1>4, <1>5 DEF Next, Local, Server

\* ms-wallet implements the abstract ledger.
THEOREM Refinement == Spec => ImplementsLedger
<1>1. Init => Ledger!LedgerInit
  BY InitRefines
<1>2. IInv /\ IInv' /\ [Next]_vars => [Ledger!LedgerNext]_(Ledger!ledgerVars)
  BY NextRefines
<1> QED
  BY <1>1, <1>2, IInvInvariant, PTL DEF Spec, ImplementsLedger, Ledger!LedgerSpec
=============================================================================
