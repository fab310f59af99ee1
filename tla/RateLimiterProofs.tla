------------------------- MODULE RateLimiterProofs --------------------------
(***************************************************************************)
(* What RateLimiter guarantees for every number of requests, addresses,    *)
(* windows and retries and every limit.                                    *)
(***************************************************************************)
EXTENDS RateLimiter, FiniteSetTheorems, TLAPS

\* What a request holds is of a window that has been opened, and a number of
\* the open window is at most the counter.
Numbered ==
    \A r \in Requests :
        /\ pc[r] = "idle" => count[r] = 0 /\ joined[r] = 0
        /\ pc[r] \in {"expire", "decide", "limited"} => count[r] # 0
        /\ joined[r] <= window[Key(r)]
        /\ count[r] # 0 => joined[r] # 0
        /\ count[r] # 0 /\ joined[r] = window[Key(r)] => count[r] <= counter[Key(r)]
        /\ pc[r] = "served" /\ count[r] # 0 => count[r] <= Limit
        /\ pc[r] = "limited" => count[r] > Limit

\* INCR never gives two requests of one window the same number.
NumbersDiffer ==
    \A r, q \in Requests :
        /\ count[r] # 0
        /\ Key(r) = Key(q) /\ joined[r] = joined[q] /\ count[r] = count[q]
        => r = q

\* How often the INCR of a request can have been applied: each sending of it
\* was answered, or is late, or was applied late, or is lost; and only a fault
\* makes the client send it again.
Sent ==
    \A r \in Requests :
        /\ Len(applied[r]) + late[r] <= sent[r]
        /\ pc[r] = "idle" => sent[r] <= MaxRetries
        /\ r \notin FaultyRequests =>
              late[r] = 0 /\ sent[r] <= 1 /\ (pc[r] = "idle" => sent[r] = 0)

\* No INCR was applied in a window to come.
Opened ==
    \A r \in Requests : \A n \in DOMAIN applied[r] : applied[r][n] <= window[Key(r)]

\* The INCRs applied to key k in its window w: the n-th of each request.
Applications(k, w) ==
    {a \in Requests \X (1..(MaxRetries + 1)) :
        RemoteAddr[a[1]] = k /\ a[2] \in DOMAIN applied[a[1]] /\ applied[a[1]][a[2]] = w}

Tally(k, w) == Cardinality(Applications(k, w))

\* Only they have raised the counter, and the number anybody was given.
Tallied ==
    /\ \A k \in Addresses : \A w \in Nat \ {0} : IsFiniteSet(Applications(k, w))
    /\ \A k \in Addresses : \A w \in Nat \ {0} :
          w = window[k] => counter[k] <= Tally(k, w)
    /\ \A r \in Requests : \A k \in Addresses : \A w \in Nat \ {0} :
          count[r] # 0 /\ k = Key(r) /\ w = joined[r] => count[r] <= Tally(k, w)

IInv == TypeOK /\ Numbered /\ NumbersDiffer /\ Sent /\ Opened /\ CounterExpires /\ Tallied

-----------------------------------------------------------------------------
LEMMA KeyType == \A r \in Requests : Key(r) \in Addresses
  BY AddressAssumption DEF Key

\* The tally of a window is a number.
LEMMA TallyType ==
    ASSUME NEW k, NEW w, IsFiniteSet(Applications(k, w))
    PROVE  Tally(k, w) \in Nat
  BY FS_CardinalityType DEF Tally

LEMMA InitIInv == Init => IInv
<1> SUFFICES ASSUME Init PROVE IInv
  OBVIOUS
<1>0. \A r \in Requests : applied[r] = <<>> /\ Len(applied[r]) = 0 /\ DOMAIN applied[r] = {}
  <2>1. \A r \in Requests : applied[r] = <<>>
    BY DEF Init
  <2> QED
    BY <2>1
<1>1. TypeOK
  <2>1. MaxWindows \in Nat /\ MaxRetries \in Nat
    BY BoundsAssumption
  <2>2. applied \in [Requests -> Seq(Nat \ {0})]
    BY DEF Init
  <2> QED
    BY <2>1, <2>2 DEF Init, TypeOK
<1>2. Numbered /\ NumbersDiffer
  BY KeyType DEF Init, Numbered, NumbersDiffer
<1>3. Sent /\ Opened
  BY <1>0, BoundsAssumption DEF Init, Sent, Opened
<1>4. CounterExpires
  BY DEF Init, CounterExpires
<1>5. Tallied
  <2>1. \A k \in Addresses : \A w \in Nat \ {0} : Applications(k, w) = {}
    BY <1>0 DEF Applications
  <2>2. \A k \in Addresses : \A w \in Nat \ {0} :
           IsFiniteSet(Applications(k, w)) /\ Tally(k, w) = 0
    BY <2>1, FS_EmptySet DEF Tally
  <2>3. /\ \A k \in Addresses : counter[k] = 0
        /\ \A r \in Requests : count[r] = 0
    BY DEF Init
  <2> QED
    BY <2>2, <2>3 DEF Tallied
<1> QED
  BY <1>1, <1>2, <1>3, <1>4, <1>5 DEF IInv

-----------------------------------------------------------------------------
(* One INCR is applied.                                                    *)

Appends(r, W) == applied' = [applied EXCEPT ![r] = Append(@, W)]

\* It is one more of its request, in the open window, and the others stay.
OneMore(r, W) ==
    /\ applied' \in [Requests -> Seq(Nat \ {0})]
    /\ Len(applied[r]) \in Nat
    /\ Len(applied'[r]) = Len(applied[r]) + 1
    /\ DOMAIN applied[r] = 1..Len(applied[r])
    /\ DOMAIN applied'[r] = 1..(Len(applied[r]) + 1)
    /\ applied'[r][Len(applied[r]) + 1] = W
    /\ \A n \in 1..Len(applied[r]) : applied'[r][n] = applied[r][n]
    /\ \A q \in Requests \ {r} : applied'[q] = applied[q]

LEMMA Appended ==
    ASSUME TypeOK, NEW r \in Requests, NEW W \in Nat \ {0}, Appends(r, W)
    PROVE  OneMore(r, W)
<1>1. PICK s \in Seq(Nat \ {0}) : s = applied[r]
  BY DEF TypeOK
<1>2. applied'[r] = Append(s, W) /\ \A q \in Requests \ {r} : applied'[q] = applied[q]
  BY <1>1 DEF TypeOK, Appends
<1>3. /\ Append(s, W) \in Seq(Nat \ {0})
      /\ Len(s) \in Nat /\ Len(Append(s, W)) = Len(s) + 1
      /\ DOMAIN s = 1..Len(s) /\ DOMAIN Append(s, W) = 1..(Len(s) + 1)
      /\ Append(s, W)[Len(s) + 1] = W
      /\ \A n \in 1..Len(s) : Append(s, W)[n] = s[n]
  OBVIOUS
<1>4. applied' \in [Requests -> Seq(Nat \ {0})]
  BY <1>1, <1>3 DEF TypeOK, Appends
<1> QED
  BY <1>1, <1>2, <1>3, <1>4 DEF OneMore

\* The tally of its window is one more, and no other changes.
LEMMA ApplyTallies ==
    ASSUME TypeOK, Tallied, NEW r \in Requests, NEW K \in Addresses, K = Key(r),
           NEW W \in Nat \ {0}, Len(applied[r]) <= MaxRetries, Appends(r, W)
    PROVE  /\ \A k \in Addresses : \A w \in Nat \ {0} :
                 /\ IsFiniteSet(Applications(k, w)')
                 /\ Tally(k, w) \in Nat /\ Tally(k, w)' \in Nat
                 /\ Tally(k, w)' >= Tally(k, w)
           /\ Tally(K, W)' = Tally(K, W) + 1
<1> DEFINE n == Len(applied[r]) + 1
<1>0. OneMore(r, W)
  BY Appended
<1>1. n \in 1..(MaxRetries + 1)
  BY <1>0, BoundsAssumption DEF OneMore
<1>2. ASSUME NEW k \in Addresses, NEW w \in Nat \ {0},
             NEW q \in Requests, NEW m \in 1..(MaxRetries + 1)
      PROVE  <<q, m>> \in Applications(k, w)' <=>
                \/ <<q, m>> \in Applications(k, w)
                \/ k = K /\ w = W /\ q = r /\ m = n
  <2>1. CASE q # r
    <3>1. applied'[q] = applied[q]
      BY <2>1, <1>0 DEF OneMore
    <3> QED
      BY <2>1, <3>1 DEF Applications
  <2>2. CASE q = r /\ m = n
    <3>1. m \in DOMAIN applied'[r] /\ applied'[r][m] = W /\ m \notin DOMAIN applied[r]
      BY <2>2, <1>0 DEF OneMore
    <3> QED
      BY <2>2, <3>1 DEF Applications, Key
  <2>3. CASE q = r /\ m # n
    <3>1. /\ m \in DOMAIN applied'[r] <=> m \in DOMAIN applied[r]
          /\ m \in DOMAIN applied[r] => applied'[r][m] = applied[r][m]
      BY <2>3, <1>0 DEF OneMore
    <3> QED
      BY <2>3, <3>1 DEF Applications
  <2> QED
    BY <2>1, <2>2, <2>3
<1>3. ASSUME NEW k \in Addresses, NEW w \in Nat \ {0}, k # K \/ w # W
      PROVE  Applications(k, w)' = Applications(k, w)
  BY <1>2, <1>3 DEF Applications
<1>4. Applications(K, W)' = Applications(K, W) \cup {<<r, n>>}
  BY <1>1, <1>2 DEF Applications
<1>5. <<r, n>> \notin Applications(K, W)
  BY <1>0 DEF Applications, OneMore
<1>6. IsFiniteSet(Applications(K, W)) /\ Tally(K, W) \in Nat
  BY TallyType DEF Tallied
<1>7. IsFiniteSet(Applications(K, W)') /\ Tally(K, W)' = Tally(K, W) + 1
  <2> HIDE DEF n
  <2>1. PICK S : S = Applications(K, W)
    OBVIOUS
  <2>2. /\ IsFiniteSet(S \cup {<<r, n>>})
        /\ Cardinality(S \cup {<<r, n>>}) = Cardinality(S) + 1
    BY <2>1, <1>5, <1>6, FS_AddElement
  <2> QED
    BY <2>1, <2>2, <1>4 DEF Tally
<1>8. ASSUME NEW k \in Addresses, NEW w \in Nat \ {0}
      PROVE  /\ IsFiniteSet(Applications(k, w)')
             /\ Tally(k, w) \in Nat /\ Tally(k, w)' \in Nat
             /\ Tally(k, w)' >= Tally(k, w)
  <2>1. CASE k = K /\ w = W
    BY <2>1, <1>6, <1>7
  <2>2. CASE k # K \/ w # W
    <3>1. IsFiniteSet(Applications(k, w)) /\ Tally(k, w) \in Nat
      BY TallyType DEF Tallied
    <3>2. Applications(k, w)' = Applications(k, w)
      BY <2>2, <1>3
    <3>3. Tally(k, w)' = Tally(k, w)
      BY <3>2 DEF Tally
    <3> QED
      BY <3>1, <3>2, <3>3
  <2> QED
    BY <2>1, <2>2
<1> QED
  BY <1>7, <1>8

\* The steps that apply no INCR keep the tallies.
LEMMA TalliesKept ==
    ASSUME UNCHANGED applied, NEW k, NEW w
    PROVE  Applications(k, w)' = Applications(k, w) /\ Tally(k, w)' = Tally(k, w)
<1>1. Applications(k, w)' = Applications(k, w)
  BY DEF Applications
<1> QED
  BY <1>1 DEF Tally

\* What an INCR of r does to the keys and the tallies, answered or not.
Applies(r, K, W, n) ==
    /\ K = Key(r) /\ W = window[K] /\ n = counter[K] + 1
    /\ counter' = [counter EXCEPT ![K] = n]
    /\ Appends(r, W)
    /\ UNCHANGED <<ttl, window>>

LEMMA ApplyIncrApplies ==
    ASSUME IInv, NEW r \in Requests, ApplyIncr(r)
    PROVE  \E K \in Addresses : \E W \in Nat \ {0} : \E n \in Nat \ {0} : Applies(r, K, W, n)
<1>1. PICK K \in Addresses : K = Key(r)
  BY KeyType
<1>2. window[K] \in Nat \ {0} /\ counter[K] + 1 \in Nat \ {0}
  BY <1>1, BoundsAssumption DEF IInv, TypeOK
<1>3. Applies(r, K, window[K], counter[K] + 1)
  BY <1>1 DEF ApplyIncr, Applies, Appends
<1> QED
  BY <1>1, <1>2, <1>3

LEMMA ApplyKeepsOpened ==
    ASSUME IInv, NEW r \in Requests, NEW K \in Addresses, NEW W \in Nat \ {0},
           NEW n \in Nat \ {0}, Applies(r, K, W, n)
    PROVE  Opened'
<1>1. OneMore(r, W) /\ window' = window /\ W = window[Key(r)]
  BY Appended DEF Applies, IInv
<1> SUFFICES ASSUME NEW q \in Requests, NEW m \in DOMAIN applied'[q]
             PROVE  applied'[q][m] <= window[Key(q)]
  BY <1>1 DEF Opened, Key
<1>3. CASE q = r /\ m = Len(applied[r]) + 1
  BY <1>1, <1>3 DEF OneMore
<1>4. CASE q # r \/ m # Len(applied[r]) + 1
  <2>1. m \in DOMAIN applied[q] /\ applied'[q][m] = applied[q][m]
    BY <1>1, <1>4 DEF OneMore
  <2> QED
    BY <2>1 DEF IInv, Opened
<1> QED
  BY <1>3, <1>4

\* An INCR that opens a window without setting its expiry is of a request that
\* will do so, or that has a fault.
LEMMA ApplyKeepsCounterExpires ==
    ASSUME IInv, NEW r \in Requests, NEW K \in Addresses, NEW W \in Nat \ {0},
           NEW n \in Nat \ {0}, Applies(r, K, W, n),
           n = 1 => pc'[r] = "expire" \/ r \in FaultyRequests,
           pc[r] = "expire" => pc'[r] = "expire",
           \A q \in Requests \ {r} : pc'[q] = pc[q]
    PROVE  CounterExpires'
<1>0. OneMore(r, W)
  BY Appended DEF Applies, IInv
<1>1. /\ counter' = [counter EXCEPT ![K] = n] /\ window' = window /\ ttl' = ttl
      /\ RemoteAddr[r] = K /\ W = window[K] /\ n = counter[K] + 1
  BY DEF Applies, Key
<1> SUFFICES ASSUME NEW k \in Addresses, counter'[k] > 0, ~ttl[k]
             PROVE  \E q \in Requests :
                       /\ RemoteAddr[q] = k
                       /\ \E m \in DOMAIN applied'[q] : applied'[q][m] = window[k]
                       /\ pc'[q] = "expire" \/ q \in FaultyRequests
  BY <1>1 DEF CounterExpires, Counted
<1>2. \A q \in Requests : \A m \in DOMAIN applied[q] :
         m \in DOMAIN applied'[q] /\ applied'[q][m] = applied[q][m]
  <2>1. DOMAIN applied[r] \subseteq DOMAIN applied'[r]
    BY <1>0 DEF OneMore
  <2> QED
    BY <2>1, <1>0 DEF OneMore
<1>3. CASE k = K /\ n = 1
  <2>1. Len(applied[r]) + 1 \in DOMAIN applied'[r] /\ applied'[r][Len(applied[r]) + 1] = W
    BY <1>0 DEF OneMore
  <2> QED
    BY <2>1, <1>1, <1>3
<1>4. CASE k # K \/ n # 1
  <2>1. counter[k] > 0
    BY <1>1, <1>4 DEF IInv, TypeOK
  <2>2. PICK q \in Requests :
            /\ RemoteAddr[q] = k
            /\ \E m \in DOMAIN applied[q] : applied[q][m] = window[k]
            /\ pc[q] = "expire" \/ q \in FaultyRequests
    BY <2>1 DEF IInv, CounterExpires, Counted
  <2>3. pc'[q] = "expire" \/ q \in FaultyRequests
    BY <2>2
  <2> QED
    BY <1>2, <2>2, <2>3
<1> QED
  BY <1>3, <1>4

\* The counter is raised with the tally, also by an INCR without an answer.
LEMMA ApplyKeepsTallied ==
    ASSUME IInv, NEW r \in Requests, NEW K \in Addresses, NEW W \in Nat \ {0},
           NEW n \in Nat \ {0}, Applies(r, K, W, n), Len(applied[r]) <= MaxRetries,
           \/ UNCHANGED <<count, joined>>
           \/ /\ count' = [count EXCEPT ![r] = n]
              /\ joined' = [joined EXCEPT ![r] = W]
    PROVE  Tallied'
<1>1. /\ K = Key(r) /\ W = window[K] /\ n = counter[K] + 1
      /\ counter' = [counter EXCEPT ![K] = n] /\ window' = window
      /\ Appends(r, W)
  BY DEF Applies
<1>2. /\ \A k \in Addresses : \A w \in Nat \ {0} :
            /\ IsFiniteSet(Applications(k, w)')
            /\ Tally(k, w) \in Nat /\ Tally(k, w)' \in Nat
            /\ Tally(k, w)' >= Tally(k, w)
      /\ Tally(K, W)' = Tally(K, W) + 1
  <2>1. TypeOK /\ Tallied
    BY DEF IInv
  <2>2. K = Key(r) /\ Appends(r, W)
    BY <1>1
  <2>3. Tally(K, W)' = Tally(K, W) + 1
    BY <2>1, <2>2, ApplyTallies
  <2>4. \A k \in Addresses : \A w \in Nat \ {0} :
            /\ IsFiniteSet(Applications(k, w)')
            /\ Tally(k, w) \in Nat /\ Tally(k, w)' \in Nat
            /\ Tally(k, w)' >= Tally(k, w)
    BY <2>1, <2>2, ApplyTallies
  <2> QED
    BY <2>3, <2>4
<1>3. counter[K] <= Tally(K, W) /\ counter[K] \in Nat
  BY <1>1 DEF IInv, Tallied, TypeOK
<1>4. n <= Tally(K, W)'
  BY <1>1, <1>2, <1>3
<1>5. ASSUME NEW k \in Addresses, NEW w \in Nat \ {0}, w = window'[k]
      PROVE  counter'[k] <= Tally(k, w)'
  <2>1. CASE k = K
    BY <2>1, <1>1, <1>4, <1>5 DEF IInv, TypeOK
  <2>2. CASE k # K
    <3>1. counter'[k] = counter[k] /\ counter[k] <= Tally(k, w) /\ counter[k] \in Nat
      BY <2>2, <1>1, <1>5 DEF IInv, Tallied, TypeOK
    <3>2. /\ Tally(k, w) \in Nat /\ Tally(k, w)' \in Nat
          /\ Tally(k, w)' >= Tally(k, w)
      BY <1>2
    <3> QED
      BY <3>1, <3>2
  <2> QED
    BY <2>1, <2>2
<1>6. ASSUME NEW q \in Requests, NEW k \in Addresses, NEW w \in Nat \ {0},
             count'[q] # 0, k = Key(q), w = joined'[q]
      PROVE  count'[q] <= Tally(k, w)'
  <2>1. CASE q = r /\ count'[r] = n /\ joined'[r] = W
    BY <2>1, <1>1, <1>4, <1>6
  <2>2. CASE count'[q] = count[q] /\ joined'[q] = joined[q]
    <3>1. count[q] <= Tally(k, w) /\ count[q] \in Nat
      BY <2>2, <1>6 DEF IInv, Tallied, TypeOK
    <3>2. /\ Tally(k, w) \in Nat /\ Tally(k, w)' \in Nat
          /\ Tally(k, w)' >= Tally(k, w)
      BY <1>2
    <3> QED
      BY <3>1, <3>2, <2>2
  <2> QED
    BY <2>1, <2>2 DEF IInv, TypeOK
<1>7. \A q : Key(q)' = Key(q)
  BY DEF Key
<1> QED
  BY <1>2, <1>5, <1>6, <1>7 DEF Tallied

-----------------------------------------------------------------------------
LEMMA IncrementIInv ==
    ASSUME IInv, NEW r \in Requests, Increment(r)
    PROVE  IInv'
<1>1. PICK K \in Addresses, W \in Nat \ {0}, n \in Nat \ {0} : Applies(r, K, W, n)
  BY ApplyIncrApplies DEF Increment
<1>2. /\ K = Key(r) /\ W = window[K] /\ n = counter[K] + 1
      /\ counter' = [counter EXCEPT ![K] = n]
      /\ OneMore(r, W)
      /\ UNCHANGED <<ttl, window>>
  BY <1>1, Appended DEF Applies, IInv
<1>3. /\ pc[r] = "idle"
      /\ pc' = [pc EXCEPT ![r] = IF n = 1 THEN "expire" ELSE "decide"]
      /\ sent' = [sent EXCEPT ![r] = @ + 1]
      /\ count' = [count EXCEPT ![r] = n]
      /\ joined' = [joined EXCEPT ![r] = W]
      /\ UNCHANGED <<late, rearmed>>
  <2>1. counter'[Key(r)] = n
    BY <1>2 DEF IInv, TypeOK
  <2> QED
    BY <1>2, <2>1 DEF Increment, OpensWindow, Goto
<1>4. /\ sent[r] \in Nat /\ late[r] \in Nat /\ sent[r] <= MaxRetries
      /\ Len(applied[r]) + late[r] <= sent[r]
      /\ Len(applied[r]) \in Nat /\ Len(applied'[r]) = Len(applied[r]) + 1
  BY <1>2, <1>3, BoundsAssumption DEF IInv, Sent, TypeOK, OneMore
<1>5. TypeOK'
  <2>1. applied' \in [Requests -> Seq(Nat \ {0})]
    BY <1>2 DEF OneMore
  <2>2. sent' \in [Requests -> 0..(MaxRetries + 1)]
    BY <1>3, <1>4, BoundsAssumption DEF IInv, TypeOK
  <2> QED
    BY <1>2, <1>3, <2>1, <2>2 DEF IInv, TypeOK
<1>6. \A q \in Requests :
         /\ Key(q) \in Addresses /\ counter[Key(q)] \in Nat /\ window[Key(q)] \in Nat
         /\ counter'[Key(q)] = IF Key(q) = K THEN n ELSE counter[Key(q)]
  BY <1>2, KeyType, BoundsAssumption DEF IInv, TypeOK
<1>7. Numbered'
  <2> SUFFICES ASSUME NEW q \in Requests
               PROVE  /\ pc'[q] = "idle" => count'[q] = 0 /\ joined'[q] = 0
                      /\ pc'[q] \in {"expire", "decide", "limited"} => count'[q] # 0
                      /\ joined'[q] <= window[Key(q)]
                      /\ count'[q] # 0 => joined'[q] # 0
                      /\ count'[q] # 0 /\ joined'[q] = window[Key(q)]
                            => count'[q] <= counter'[Key(q)]
                      /\ pc'[q] = "served" /\ count'[q] # 0 => count'[q] <= Limit
                      /\ pc'[q] = "limited" => count'[q] > Limit
    BY <1>2 DEF Numbered, Key
  <2>1. CASE q = r
    BY <2>1, <1>2, <1>3, <1>6 DEF IInv, TypeOK
  <2>2. CASE q # r
    <3>1. pc'[q] = pc[q] /\ count'[q] = count[q] /\ joined'[q] = joined[q]
      BY <2>2, <1>3 DEF IInv, TypeOK
    <3>2. count[q] \in Nat /\ counter[Key(q)] <= counter'[Key(q)] /\ counter'[Key(q)] \in Nat
      BY <1>2, <1>6 DEF IInv, TypeOK
    <3>3. counter[Key(q)] \in Nat
      BY <1>6
    <3> QED
      BY <3>1, <3>2, <3>3 DEF IInv, Numbered
  <2> QED
    BY <2>1, <2>2
<1>12. NumbersDiffer'
  <2> SUFFICES ASSUME NEW q \in Requests, NEW x \in Requests, count'[q] # 0,
                      Key(q) = Key(x), joined'[q] = joined'[x], count'[q] = count'[x]
               PROVE  q = x
    BY DEF NumbersDiffer, Key
  <2>1. \A y \in Requests \ {r} :
           count[y] # 0 /\ Key(y) = K /\ joined[y] = W => count[y] # n
    <3> SUFFICES ASSUME NEW y \in Requests, count[y] # 0, Key(y) = K, joined[y] = W
                 PROVE  count[y] # n
      OBVIOUS
    <3>1. count[y] <= counter[K] /\ count[y] \in Nat /\ counter[K] \in Nat
      BY <1>2 DEF IInv, Numbered, TypeOK
    <3> QED
      BY <3>1, <1>2
  <2>2. \A y \in Requests : /\ y = r => count'[y] = n /\ joined'[y] = W
                            /\ y # r => count'[y] = count[y] /\ joined'[y] = joined[y]
    BY <1>3 DEF IInv, TypeOK
  <2>3. CASE q # r /\ x # r
    BY <2>2, <2>3 DEF IInv, NumbersDiffer
  <2>4. CASE q = r \/ x = r
    BY <2>1, <2>2, <2>4, <1>2
  <2> QED
    BY <2>3, <2>4
<1>8. Sent'
  <2> SUFFICES ASSUME NEW q \in Requests
               PROVE  /\ Len(applied'[q]) + late[q] <= sent'[q]
                      /\ pc'[q] = "idle" => sent'[q] <= MaxRetries
                      /\ q \notin FaultyRequests =>
                            late[q] = 0 /\ sent'[q] <= 1 /\ (pc'[q] = "idle" => sent'[q] = 0)
    BY <1>3 DEF Sent
  <2>1. CASE q = r
    BY <2>1, <1>3, <1>4 DEF IInv, Sent, TypeOK
  <2>2. CASE q # r
    <3>1. applied'[q] = applied[q]
      BY <2>2, <1>2 DEF OneMore
    <3> QED
      BY <2>2, <3>1, <1>3 DEF IInv, Sent, TypeOK
  <2> QED
    BY <2>1, <2>2
<1>9. Opened'
  BY <1>1, ApplyKeepsOpened
<1>10. CounterExpires'
  BY <1>1, <1>3, ApplyKeepsCounterExpires DEF IInv, TypeOK
<1>11. Tallied'
  <2>1. Len(applied[r]) <= MaxRetries
    BY <1>4, BoundsAssumption
  <2> QED
    BY <1>1, <1>3, <2>1, ApplyKeepsTallied
<1> QED
  BY <1>5, <1>7, <1>8, <1>9, <1>10, <1>11, <1>12 DEF IInv

LEMMA IncrementLateIInv ==
    ASSUME IInv, NEW r \in Requests, IncrementLate(r)
    PROVE  IInv'
<1>1. PICK K \in Addresses, W \in Nat \ {0}, n \in Nat \ {0} : Applies(r, K, W, n)
  BY ApplyIncrApplies DEF IncrementLate
<1>2. /\ K = Key(r) /\ W = window[K] /\ n = counter[K] + 1
      /\ counter' = [counter EXCEPT ![K] = n]
      /\ OneMore(r, W)
      /\ UNCHANGED <<ttl, window>>
  BY <1>1, Appended DEF Applies, IInv
<1>3. /\ late[r] > 0 /\ late' = [late EXCEPT ![r] = @ - 1]
      /\ UNCHANGED <<pc, sent, rearmed, count, joined>>
  BY DEF IncrementLate, numbers
<1>4. /\ sent[r] \in 0..(MaxRetries + 1) /\ late[r] \in Nat
      /\ Len(applied[r]) + late[r] <= sent[r]
      /\ Len(applied[r]) \in Nat /\ Len(applied'[r]) = Len(applied[r]) + 1
      /\ r \in FaultyRequests
  BY <1>2, <1>3, BoundsAssumption DEF IInv, Sent, TypeOK, OneMore
<1>5. TypeOK'
  <2>1. applied' \in [Requests -> Seq(Nat \ {0})]
    BY <1>2 DEF OneMore
  <2>2. late' \in [Requests -> Nat]
    BY <1>3, <1>4 DEF IInv, TypeOK
  <2> QED
    BY <1>2, <1>3, <2>1, <2>2 DEF IInv, TypeOK
<1>6. Numbered' /\ NumbersDiffer'
  <2>1. \A q \in Requests : /\ counter[Key(q)] <= counter'[Key(q)]
                            /\ counter[Key(q)] \in Nat /\ counter'[Key(q)] \in Nat
                            /\ count[q] \in Nat
    BY <1>2, KeyType DEF IInv, TypeOK
  <2>2. Numbered'
    BY <1>2, <1>3, <2>1 DEF IInv, Numbered, Key
  <2> QED
    BY <1>3, <2>2 DEF IInv, NumbersDiffer, Key
<1>7. Sent'
  <2> SUFFICES ASSUME NEW q \in Requests
               PROVE  /\ Len(applied'[q]) + late'[q] <= sent[q]
                      /\ pc[q] = "idle" => sent[q] <= MaxRetries
                      /\ q \notin FaultyRequests =>
                            late'[q] = 0 /\ sent[q] <= 1 /\ (pc[q] = "idle" => sent[q] = 0)
    BY <1>3 DEF Sent
  <2>1. CASE q = r
    BY <2>1, <1>3, <1>4 DEF IInv, Sent, TypeOK
  <2>2. CASE q # r
    <3>1. applied'[q] = applied[q]
      BY <2>2, <1>2 DEF OneMore
    <3> QED
      BY <2>2, <3>1, <1>3 DEF IInv, Sent, TypeOK
  <2> QED
    BY <2>1, <2>2
<1>8. Opened'
  BY <1>1, ApplyKeepsOpened
<1>9. CounterExpires'
  BY <1>1, <1>3, <1>4, ApplyKeepsCounterExpires
<1>10. Tallied'
  <2>1. Len(applied[r]) <= MaxRetries
    BY <1>3, <1>4, BoundsAssumption
  <2> QED
    BY <1>1, <1>3, <2>1, ApplyKeepsTallied
<1> QED
  BY <1>5, <1>6, <1>7, <1>8, <1>9, <1>10 DEF IInv

\* The steps that apply no INCR keep the numbers and the tallies.
LEMMA NumbersKept ==
    ASSUME IInv, UNCHANGED <<count, joined, applied, counter, window>>
    PROVE  NumbersDiffer' /\ Opened' /\ Tallied'
<1>1. NumbersDiffer' /\ Opened'
  BY DEF IInv, NumbersDiffer, Opened, Key
<1>2. Tallied'
  BY TalliesKept DEF IInv, Tallied, Key
<1> QED
  BY <1>1, <1>2

\* Who sets the expiry of a counter is still there, or the expiry is.
LEMMA CounterExpiresKept ==
    ASSUME IInv, UNCHANGED <<applied, counter, window>>,
           \A k \in Addresses : ttl[k] => ttl'[k],
           \A r \in Requests :
              pc[r] = "expire" /\ r \notin FaultyRequests =>
                 pc'[r] = "expire" \/ (counter[Key(r)] > 0 => ttl'[Key(r)])
    PROVE  CounterExpires'
<1> SUFFICES ASSUME NEW k \in Addresses, counter[k] > 0, ~ttl'[k]
             PROVE  \E q \in Requests :
                       /\ RemoteAddr[q] = k
                       /\ \E m \in DOMAIN applied[q] : applied[q][m] = window[k]
                       /\ pc'[q] = "expire" \/ q \in FaultyRequests
  BY DEF CounterExpires, Counted
<1>1. PICK q \in Requests :
          /\ RemoteAddr[q] = k
          /\ \E m \in DOMAIN applied[q] : applied[q][m] = window[k]
          /\ pc[q] = "expire" \/ q \in FaultyRequests
  BY DEF IInv, CounterExpires, Counted
<1> QED
  BY <1>1 DEF Key

LEMMA UnansweredIInv ==
    ASSUME IInv, NEW r \in Requests, IncrementAgain(r) \/ IncrementFails(r)
    PROVE  IInv'
<1>1. /\ pc[r] = "idle" /\ r \in FaultyRequests
      /\ sent' = [sent EXCEPT ![r] = @ + 1]
      /\ late' = [late EXCEPT ![r] = @ + 1]
      /\ UNCHANGED <<rearmed, count, joined, applied, counter, ttl, window>>
      /\ (pc' = pc /\ sent[r] < MaxRetries) \/ pc' = [pc EXCEPT ![r] = "served"]
  BY DEF IncrementAgain, IncrementFails, Unanswered, Goto, numbers, keys
<1>2. sent[r] \in 0..MaxRetries
  BY <1>1, BoundsAssumption DEF IInv, Sent, TypeOK
<1>3. TypeOK'
  <2>1. sent[r] + 1 \in 0..(MaxRetries + 1) /\ late[r] + 1 \in Nat
    BY <1>2, BoundsAssumption DEF IInv, TypeOK
  <2>2. /\ sent' \in [Requests -> 0..(MaxRetries + 1)]
        /\ late' \in [Requests -> Nat]
    BY <1>1, <2>1 DEF IInv, TypeOK
  <2>3. pc' \in [Requests -> {"idle", "expire", "decide", "served", "limited", "crashed"}]
    BY <1>1 DEF IInv, TypeOK
  <2> QED
    BY <1>1, <2>2, <2>3 DEF IInv, TypeOK
<1>4. Numbered'
  BY <1>1 DEF IInv, Numbered, TypeOK, Key
<1>5. Sent'
  <2> SUFFICES ASSUME NEW q \in Requests
               PROVE  /\ Len(applied[q]) + late'[q] <= sent'[q]
                      /\ pc'[q] = "idle" => sent'[q] <= MaxRetries
                      /\ q \notin FaultyRequests =>
                            late'[q] = 0 /\ sent'[q] <= 1 /\ (pc'[q] = "idle" => sent'[q] = 0)
    BY <1>1 DEF Sent
  <2>1. Len(applied[q]) \in Nat /\ late[q] \in Nat /\ sent[q] \in Nat
    BY BoundsAssumption DEF IInv, TypeOK
  <2> QED
    BY <2>1, <1>1, <1>2, BoundsAssumption DEF IInv, Sent, TypeOK
<1>6. CounterExpires'
  BY <1>1, CounterExpiresKept DEF IInv, TypeOK
<1> QED
  BY <1>1, <1>3, <1>4, <1>5, <1>6, NumbersKept DEF IInv

\* The steps that leave the INCRs alone.
LEMMA OtherStepsIInv ==
    ASSUME IInv, NEW r \in Requests,
           PassBy(r) \/ Expire(r) \/ ExpireFails(r) \/ ExpireLate(r) \/ Decide(r) \/ Crash(r)
    PROVE  IInv'
<1>1. UNCHANGED <<sent, late, count, joined, applied, counter, window>>
  BY DEF PassBy, Expire, ExpireFails, ExpireLate, Decide, Crash, ApplyExpire,
         sends, numbers, keys
<1>2. NumbersDiffer' /\ Opened' /\ Tallied'
  BY <1>1, NumbersKept
<1>3. \/ pc' = pc
      \/ pc[r] = "idle" /\ pc' = [pc EXCEPT ![r] = "served"]
      \/ pc[r] = "expire" /\ pc' = [pc EXCEPT ![r] = "decide"]
      \/ pc[r] \in {"expire", "decide"} /\ pc' = [pc EXCEPT ![r] = "crashed"]
      \/ /\ pc[r] = "decide"
         /\ pc' = [pc EXCEPT ![r] = IF count[r] > Limit THEN "limited" ELSE "served"]
  BY DEF PassBy, Expire, ExpireFails, ExpireLate, Decide, Crash, Goto, OverLimit
<1>4. rearmed' \subseteq Requests
  BY DEF PassBy, Expire, ExpireFails, ExpireLate, Decide, Crash, sends, IInv, TypeOK
<1>5. ttl' = ttl \/ ttl' = [ttl EXCEPT ![Key(r)] = TRUE]
  BY DEF PassBy, Expire, ExpireFails, ExpireLate, Decide, Crash, keys, ApplyExpire
<1>6. TypeOK'
  <2>1. pc' \in [Requests -> {"idle", "expire", "decide", "served", "limited", "crashed"}]
    BY <1>3 DEF IInv, TypeOK
  <2>2. ttl' \in [Addresses -> BOOLEAN]
    BY <1>5, KeyType DEF IInv, TypeOK
  <2> QED
    BY <1>1, <1>4, <2>1, <2>2 DEF IInv, TypeOK
<1>7. Numbered'
  BY <1>1, <1>3, BoundsAssumption DEF IInv, Numbered, TypeOK, Key
<1>8. Sent'
  BY <1>1, <1>3 DEF IInv, Sent, TypeOK
<1>9. CounterExpires'
  <2>1. \A k \in Addresses : ttl[k] => ttl'[k]
    BY <1>5, KeyType DEF IInv, TypeOK
  <2>2. ASSUME NEW q \in Requests, pc[q] = "expire", q \notin FaultyRequests
        PROVE  pc'[q] = "expire" \/ (counter[Key(q)] > 0 => ttl'[Key(q)])
    <3>1. CASE Expire(r) /\ q = r
      BY <3>1, KeyType DEF Expire, ApplyExpire, IInv, TypeOK
    <3>2. CASE ~Expire(r) \/ q # r
      BY <3>2, <2>2, <1>3
         DEF PassBy, Expire, ExpireFails, ExpireLate, Decide, Crash, Goto, IInv, TypeOK
    <3> QED
      BY <3>1, <3>2
  <2> QED
    BY <1>1, <2>1, <2>2, CounterExpiresKept
<1> QED
  BY <1>2, <1>6, <1>7, <1>8, <1>9 DEF IInv

LEMMA CloseWindowIInv ==
    ASSUME IInv, NEW K \in Addresses, CloseWindow(K)
    PROVE  IInv'
<1> USE DEF IInv
<1>1. PICK W \in Nat \ {0} : W = window[K] + 1 /\ W \in 1..(MaxWindows + 1)
  BY BoundsAssumption DEF CloseWindow, TypeOK
<1>2. /\ counter' = [counter EXCEPT ![K] = 0]
      /\ ttl' = [ttl EXCEPT ![K] = FALSE]
      /\ window' = [window EXCEPT ![K] = W]
      /\ UNCHANGED <<pc, sent, late, rearmed, count, joined, applied>>
  BY <1>1 DEF CloseWindow, TypeOK, sends, numbers
<1>3. TypeOK'
  BY <1>1, <1>2 DEF TypeOK
<1>4. Numbered' /\ NumbersDiffer'
  BY <1>1, <1>2, KeyType, BoundsAssumption DEF Numbered, NumbersDiffer, TypeOK, Key
<1>5. Sent'
  BY <1>2 DEF Sent
<1>6. Opened'
  <2> SUFFICES ASSUME NEW q \in Requests, NEW m \in DOMAIN applied[q]
               PROVE  applied[q][m] <= window'[Key(q)]
    BY <1>2 DEF Opened, Key
  <2>1. applied[q][m] \in Nat
    BY DEF TypeOK
  <2>2. applied[q][m] <= window[Key(q)] /\ window[Key(q)] \in Nat
    BY KeyType, BoundsAssumption DEF Opened, TypeOK
  <2>3. window'[Key(q)] \in {window[Key(q)], window[Key(q)] + 1}
    BY <1>1, <1>2, KeyType DEF TypeOK
  <2> QED
    BY <2>1, <2>2, <2>3
<1>7. CounterExpires'
  BY <1>2 DEF CounterExpires, Counted, TypeOK
<1>8. Tallied'
  <2>1. ASSUME NEW k \in Addresses, NEW w \in Nat \ {0}, w = window'[k]
        PROVE  counter'[k] <= Tally(k, w)'
    <3>1. Tally(k, w)' = Tally(k, w) /\ Tally(k, w) \in Nat
      BY <1>2, TalliesKept, TallyType DEF Tallied
    <3> QED
      BY <2>1, <3>1, <1>2 DEF Tallied, TypeOK
  <2>2. \A r : Key(r)' = Key(r)
    BY DEF Key
  <2> QED
    BY <2>1, <2>2, <1>2, TalliesKept DEF Tallied
<1> QED
  BY <1>3, <1>4, <1>5, <1>6, <1>7, <1>8

LEMMA IInvInvariant == Spec => []IInv
<1>1. ASSUME IInv, [Next]_vars
      PROVE  IInv'
  <2>1. CASE Finished \/ UNCHANGED vars
    <3>1. UNCHANGED <<pc, sent, late, rearmed, count, joined, applied, counter, ttl, window>>
      BY <2>1 DEF Finished, vars, sends, numbers, keys
    <3>2. TypeOK' /\ Numbered' /\ Sent'
      BY <1>1, <3>1 DEF IInv, TypeOK, Numbered, Sent, Key
    <3>3. CounterExpires'
      BY <1>1, <3>1 DEF IInv, CounterExpires, Counted
    <3>4. NumbersDiffer' /\ Opened' /\ Tallied'
      BY <1>1, <3>1, NumbersKept
    <3> QED
      BY <3>2, <3>3, <3>4 DEF IInv
  <2>2. CASE \E r \in Requests : Step(r) \/ IncrementLate(r) \/ ExpireLate(r) \/ Crash(r)
    BY <1>1, <2>2, IncrementIInv, IncrementLateIInv, UnansweredIInv, OtherStepsIInv DEF Step
  <2>3. CASE \E k \in Addresses : CloseWindow(k)
    BY <1>1, <2>3, CloseWindowIInv
  <2> QED
    BY <1>1, <2>1, <2>2, <2>3 DEF Next
<1> QED
  BY <1>1, InitIInv, PTL DEF Spec

-----------------------------------------------------------------------------
\* A counter without an expiry always has somebody to set it, or was left so
\* by a fault, for every number of requests and windows.
THEOREM NoLockout == Spec => []CounterExpires
  BY IInvInvariant, PTL DEF IInv

\* The admitted requests of a window have different numbers in 1..Limit.
LEMMA AdmittedBound ==
    ASSUME IInv
    PROVE  LimitPerWindow
<1> SUFFICES ASSUME NEW k \in Addresses, NEW w \in 1..window[k]
             PROVE  Cardinality(Admitted(k, w)) <= Limit
  BY DEF LimitPerWindow
<1> DEFINE number == [r \in Admitted(k, w) |-> count[r]]
<1>1. \A r \in Admitted(k, w) : count[r] \in 1..Limit
  BY BoundsAssumption DEF Admitted, Counted, IInv, Numbered, TypeOK
<1>2. \A r, q \in Admitted(k, w) : count[r] = count[q] => r = q
  BY DEF Admitted, Counted, IInv, NumbersDiffer, Key
<1>3. number \in Injection(Admitted(k, w), 1..Limit)
  BY <1>1, <1>2 DEF Injection, IsInjective
<1>4. IsFiniteSet(1..Limit) /\ Cardinality(1..Limit) = Limit
  BY FS_Interval, BoundsAssumption
<1> QED
  BY <1>3, <1>4, FS_Injection

\* No window admits more requests than the limit, whatever the limit is and
\* however many requests there are.
THEOREM LimitHolds == Spec => []LimitPerWindow
  BY IInvInvariant, AdmittedBound, PTL

\* A window was counted for by its own requests: once by one without a fault,
\* and by one with a fault at most once for each time its INCR was sent.
LEMMA TallyBound ==
    ASSUME IInv, NEW k \in Addresses, NEW w \in Nat \ {0}
    PROVE  LET own == Counted(k, w)
           IN  /\ Cardinality(own) \in Nat /\ Cardinality(own \cap FaultyRequests) \in Nat
               /\ Tally(k, w) <= Cardinality(own)
                                   + MaxRetries * Cardinality(own \cap FaultyRequests)
<1> DEFINE own == Counted(k, w)
           faulty == own \cap FaultyRequests
           once == (own \ FaultyRequests) \X {1}
           often == faulty \X (1..(MaxRetries + 1))
           who == [a \in Applications(k, w) |-> a[1]]
<1>1. IsFiniteSet(Applications(k, w))
  BY DEF IInv, Tallied
<1>2. ASSUME NEW r \in own
      PROVE  \E n \in 1..(MaxRetries + 1) :
                <<r, n>> \in Applications(k, w) /\ (r \notin FaultyRequests => n = 1)
  <2>1. r \in Requests /\ RemoteAddr[r] = k
    BY <1>2 DEF Counted
  <2>2. PICK n \in DOMAIN applied[r] : applied[r][n] = w
    BY <1>2 DEF Counted
  <2>3. /\ n \in 1..Len(applied[r]) /\ Len(applied[r]) \in Nat
        /\ Len(applied[r]) + late[r] <= sent[r] /\ late[r] \in Nat
        /\ sent[r] \in 0..(MaxRetries + 1)
        /\ r \notin FaultyRequests => sent[r] <= 1
    BY <2>1, <2>2 DEF IInv, TypeOK, Sent
  <2>4. n \in 1..(MaxRetries + 1) /\ (r \notin FaultyRequests => n = 1)
    BY <2>3, BoundsAssumption
  <2> QED
    BY <2>1, <2>2, <2>4 DEF Applications
<1>3. ASSUME NEW a \in Applications(k, w)
      PROVE  a[1] \in own /\ a \in once \cup often
  <2>1. /\ a = <<a[1], a[2]>> /\ a[1] \in Requests /\ a[2] \in 1..(MaxRetries + 1)
        /\ RemoteAddr[a[1]] = k /\ a[2] \in DOMAIN applied[a[1]]
        /\ applied[a[1]][a[2]] = w
    BY DEF Applications
  <2>2. a[1] \in own
    BY <2>1 DEF Counted
  <2>3. /\ a[2] \in 1..Len(applied[a[1]]) /\ Len(applied[a[1]]) \in Nat
        /\ Len(applied[a[1]]) + late[a[1]] <= sent[a[1]] /\ late[a[1]] \in Nat
        /\ sent[a[1]] \in 0..(MaxRetries + 1)
        /\ a[1] \notin FaultyRequests => sent[a[1]] <= 1
    BY <2>1 DEF IInv, TypeOK, Sent
  <2>4. a[1] \notin FaultyRequests => a[2] = 1
    BY <2>3, BoundsAssumption
  <2> QED
    BY <2>1, <2>2, <2>4
<1>4. IsFiniteSet(own)
  <2>1. who \in Surjection(Applications(k, w), own)
    <3>1. who \in [Applications(k, w) -> own]
      BY <1>3
    <3>2. \A r \in own : \E a \in Applications(k, w) : who[a] = r
      BY <1>2
    <3> QED
      BY <3>1, <3>2 DEF Surjection
  <2> QED
    BY <2>1, <1>1, FS_Surjection
<1>5. /\ IsFiniteSet(faulty) /\ IsFiniteSet(own \ FaultyRequests)
      /\ Cardinality(own \ FaultyRequests) = Cardinality(own) - Cardinality(faulty)
  BY <1>4, FS_Subset, FS_Difference
<1>6. /\ IsFiniteSet(once)
      /\ Cardinality(once) = Cardinality(own \ FaultyRequests) * 1
  <2>1. IsFiniteSet({1}) /\ Cardinality({1}) = 1
    BY FS_Singleton
  <2> HIDE DEF own, faulty, often, who
  <2> QED
    BY <2>1, <1>5, FS_Product
<1>7. /\ IsFiniteSet(often)
      /\ Cardinality(often) = Cardinality(faulty) * (MaxRetries + 1)
  <2>1. IsFiniteSet(1..(MaxRetries + 1)) /\ Cardinality(1..(MaxRetries + 1)) = MaxRetries + 1
    BY FS_Interval, BoundsAssumption
  <2> QED
    BY <2>1, <1>5, FS_Product
<1>8. once \cap often = {}
  OBVIOUS
<1>9. /\ IsFiniteSet(once \cup often)
      /\ Cardinality(once \cup often) = Cardinality(once) + Cardinality(often)
  <2>1. Cardinality(once \cap often) = 0
    BY <1>8, FS_EmptySet
  <2>2. Cardinality(once) \in Nat /\ Cardinality(often) \in Nat
    BY <1>6, <1>7, FS_CardinalityType
  <2>3. /\ IsFiniteSet(once \cup often)
        /\ Cardinality(once \cup often) =
              Cardinality(once) + Cardinality(often) - Cardinality(once \cap often)
    BY <1>6, <1>7, FS_Union
  <2> HIDE DEF once, often
  <2> QED
    BY <2>1, <2>2, <2>3
<1>10. Tally(k, w) <= Cardinality(once \cup often)
  <2>1. Applications(k, w) \in SUBSET (once \cup often)
    BY <1>3
  <2> QED
    BY <2>1, <1>9, FS_Subset DEF Tally
<1>11. PICK a \in Nat, f \in Nat, t \in Nat :
          a = Cardinality(own) /\ f = Cardinality(faulty) /\ t = Tally(k, w)
  BY <1>1, <1>4, <1>5, FS_CardinalityType, TallyType
<1>12. t <= (a - f) * 1 + f * (MaxRetries + 1)
  BY <1>5, <1>6, <1>7, <1>9, <1>10, <1>11
<1>13. (a - f) * 1 + f * (MaxRetries + 1) = a + MaxRetries * f
  BY BoundsAssumption
<1>14. Tally(k, w) <= Cardinality(own) + MaxRetries * Cardinality(faulty)
  BY <1>11, <1>12, <1>13
<1> QED
  BY <1>11, <1>14

\* A refused request got a number above the limit, and all that raised the
\* number are requests of its own address and window.
LEMMA RefusalBound ==
    ASSUME IInv
    PROVE  RefusalsAreEarned
<1> SUFFICES ASSUME NEW r \in Requests, pc[r] = "limited"
             PROVE  Cardinality(Counted(RemoteAddr[r], joined[r]))
                      + MaxRetries *
                          Cardinality(Counted(RemoteAddr[r], joined[r]) \cap FaultyRequests)
                        > Limit
  BY DEF RefusalsAreEarned
<1>1. PICK k \in Addresses : k = Key(r) /\ k = RemoteAddr[r]
  BY KeyType DEF Key
<1>2. PICK w \in Nat \ {0} : w = joined[r]
  BY DEF IInv, Numbered, TypeOK
<1>3. count[r] \in Nat /\ count[r] > Limit /\ count[r] <= Tally(k, w)
  BY <1>1, <1>2 DEF IInv, Numbered, Tallied, TypeOK
<1>4. Tally(k, w) \in Nat
  BY TallyType DEF IInv, Tallied
<1>5. PICK a \in Nat, f \in Nat : /\ a = Cardinality(Counted(k, w))
                                  /\ f = Cardinality(Counted(k, w) \cap FaultyRequests)
                                  /\ Tally(k, w) <= a + MaxRetries * f
  BY TallyBound
<1>6. MaxRetries * f \in Nat
  BY BoundsAssumption
<1> QED
  BY <1>1, <1>2, <1>3, <1>4, <1>5, <1>6, BoundsAssumption

\* Nobody is refused for what requests of other connections or windows did,
\* for every number of connections.
THEOREM RefusedForItsOwn == Spec => []RefusalsAreEarned
  BY IInvInvariant, RefusalBound, PTL

\* Type correctness.
THEOREM TypeCorrect == Spec => []TypeOK
  BY IInvInvariant, PTL DEF IInv
=============================================================================
