----------------------------- MODULE RateLimiter ----------------------------
(***************************************************************************)
(* The fixed-window limiter in front of POST /auth/login: INCR, EXPIRE by  *)
(* whoever counted 1, and the comparison with the limit.  The Redis key    *)
(* holds the RemoteAddr of the request, that is host and port, so every    *)
(* connection of a client is counted by itself.  Any number of ms-users    *)
(* instances count on the same keys.  The Redis client sends a command     *)
(* again when its connection fails; Redis may apply every one of them, in  *)
(* between the commands of others or when the request is long served.      *)
(***************************************************************************)
EXTENDS Integers, Sequences, FiniteSets

CONSTANTS
    Requests,       \* the requests that reach ms-users
    Logins,         \* those that are POST /auth/login
    Addresses,      \* remote addresses, host and port
    RemoteAddr,     \* the remote address of each request
    Limit,          \* limit: 5 in main.go
    MaxRetries,     \* how often a command is sent again: 3, go-redis's default
    FaultyRequests, \* bound: the requests whose calls or instance may fail
    MaxWindows      \* bound: how many windows of each key there are

ASSUME AddressAssumption ==
    Logins \subseteq Requests /\ RemoteAddr \in [Requests -> Addresses]

ASSUME BoundsAssumption ==
    Limit \in Nat \ {0} /\ MaxRetries \in Nat /\ MaxWindows \in Nat

VARIABLES
    pc,      \* where the goroutine that serves the request is
    sent,    \* sent[r]: how often the INCR of r has been sent
    late,    \* late[r]: how many of those Redis may still apply, unanswered
    rearmed, \* the requests whose EXPIRE may still arrive, unanswered
    count,   \* count[r]: the number INCR returned to r, 0 while it has none
    joined,  \* joined[r]: the window that number is of, 0 if none
    applied, \* history: the windows in which an INCR of r was applied, in order
    counter, \* the value of each key, 0 when there is no key
    ttl,     \* whether the key has a time to live
    window   \* how many windows of the key have been closed, plus 1

sends == <<sent, late, rearmed>>
numbers == <<count, joined>>
keys == <<counter, ttl, window>>
vars == <<pc, sends, numbers, applied, keys>>

Init ==
    /\ pc = [r \in Requests |-> "idle"]
    /\ sent = [r \in Requests |-> 0]
    /\ late = [r \in Requests |-> 0]
    /\ rearmed = {}
    /\ count = [r \in Requests |-> 0]
    /\ joined = [r \in Requests |-> 0]
    /\ applied = [r \in Requests |-> <<>>]
    /\ counter = [k \in Addresses |-> 0]
    /\ ttl = [k \in Addresses |-> FALSE]
    /\ window = [k \in Addresses |-> 1]

Goto(r, label) == pc' = [pc EXCEPT ![r] = label]

-----------------------------------------------------------------------------
\* A mutant: the key is the path alone.
KeyWithoutAddress(r) == CHOOSE k \in Addresses : TRUE

\* "rate_limit:" + path + ":" + RemoteAddr, of the one path that is limited.
Key(r) == RemoteAddr[r]

\* A mutant: the counter is taken to start at 0.
OpensWindowAtZero(n) == n = 0

\* The request that counts n sets the expiry.
OpensWindow(n) == n = 1

\* Redis applies an INCR of r, which creates a key without a TTL.
ApplyIncr(r) ==
    /\ counter' = [counter EXCEPT ![Key(r)] = @ + 1]
    /\ applied' = [applied EXCEPT ![r] = Append(@, window[Key(r)])]
    /\ UNCHANGED <<ttl, window>>

\* rateLimitLogin: any other request goes on without being counted.
PassBy(r) ==
    /\ pc[r] = "idle"
    /\ r \notin Logins
    /\ Goto(r, "served")
    /\ UNCHANGED <<sends, numbers, applied, keys>>

\* INCR is applied and its answer arrives.
Increment(r) ==
    /\ pc[r] = "idle"
    /\ r \in Logins
    /\ ApplyIncr(r)
    /\ sent' = [sent EXCEPT ![r] = @ + 1]
    /\ count' = [count EXCEPT ![r] = counter'[Key(r)]]
    /\ joined' = [joined EXCEPT ![r] = window[Key(r)]]
    /\ Goto(r, IF OpensWindow(counter'[Key(r)]) THEN "expire" ELSE "decide")
    /\ UNCHANGED <<late, rearmed>>

\* An INCR of r is sent and the connection fails before its answer.
Unanswered(r) ==
    /\ pc[r] = "idle"
    /\ r \in Logins \cap FaultyRequests
    /\ sent' = [sent EXCEPT ![r] = @ + 1]
    /\ late' = [late EXCEPT ![r] = @ + 1]
    /\ UNCHANGED <<rearmed, numbers, applied, keys>>

\* The client library will send it again.
IncrementAgain(r) ==
    /\ Unanswered(r)
    /\ sent[r] < MaxRetries
    /\ UNCHANGED pc

\* It gives up, or the context of r is done: an error lets the request through.
IncrementFails(r) ==
    /\ Unanswered(r)
    /\ Goto(r, "served")

\* An unanswered INCR is applied after all, however late.
IncrementLate(r) ==
    /\ late[r] > 0
    /\ late' = [late EXCEPT ![r] = @ - 1]
    /\ ApplyIncr(r)
    /\ UNCHANGED <<pc, sent, rearmed, numbers>>

\* EXPIRE is applied to whatever key there is by now.
ApplyExpire(r) ==
    /\ ttl' = IF counter[Key(r)] > 0 THEN [ttl EXCEPT ![Key(r)] = TRUE] ELSE ttl
    /\ UNCHANGED <<counter, window>>

Expire(r) ==
    /\ pc[r] = "expire"
    /\ ApplyExpire(r)
    /\ Goto(r, "decide")
    /\ UNCHANGED <<sends, numbers, applied>>

\* Its error is not looked at; the commands that were sent may come late.
ExpireFails(r) ==
    /\ pc[r] = "expire"
    /\ r \in FaultyRequests
    /\ rearmed' = rearmed \cup {r}
    /\ Goto(r, "decide")
    /\ UNCHANGED <<sent, late, numbers, applied, keys>>

\* They are up to 1 + MaxRetries, and one more changes nothing in a window.
ExpireLate(r) ==
    /\ r \in rearmed
    /\ ApplyExpire(r)
    /\ UNCHANGED <<pc, sends, numbers, applied>>

\* A mutant: one request too many.
OverLimitOffByOne(r) == count[r] > Limit + 1

OverLimit(r) == count[r] > Limit

\* A mutant: a request that is refused gives its number back.
DecideGivingBack(r) ==
    /\ pc[r] = "decide"
    /\ Goto(r, IF OverLimit(r) THEN "limited" ELSE "served")
    /\ counter' = IF OverLimit(r) THEN [counter EXCEPT ![Key(r)] = @ - 1] ELSE counter
    /\ UNCHANGED <<sends, numbers, applied, ttl, window>>

Decide(r) ==
    /\ pc[r] = "decide"
    /\ Goto(r, IF OverLimit(r) THEN "limited" ELSE "served")
    /\ UNCHANGED <<sends, numbers, applied, keys>>

-----------------------------------------------------------------------------
\* The instance that serves r stops.
Crash(r) ==
    /\ r \in FaultyRequests
    /\ pc[r] \in {"expire", "decide"}
    /\ Goto(r, "crashed")
    /\ UNCHANGED <<sends, numbers, applied, keys>>

\* The time to live is over and Redis drops the key.
CloseWindow(k) ==
    /\ ttl[k]
    /\ window[k] <= MaxWindows
    /\ counter' = [counter EXCEPT ![k] = 0]
    /\ ttl' = [ttl EXCEPT ![k] = FALSE]
    /\ window' = [window EXCEPT ![k] = @ + 1]
    /\ UNCHANGED <<pc, sends, numbers, applied>>

Finished ==
    /\ \A r \in Requests : pc[r] \in {"served", "limited", "crashed"}
    /\ UNCHANGED vars

Step(r) ==
    \/ PassBy(r) \/ Increment(r) \/ IncrementAgain(r) \/ IncrementFails(r)
    \/ Expire(r) \/ ExpireFails(r) \/ Decide(r)

Next ==
    \/ \E r \in Requests : Step(r) \/ IncrementLate(r) \/ ExpireLate(r) \/ Crash(r)
    \/ \E k \in Addresses : CloseWindow(k)
    \/ Finished

Spec == Init /\ [][Next]_vars

\* Requests that have been counted go on, and Redis drops keys on time.
FairSpec ==
    /\ Spec
    /\ \A k \in Addresses : WF_vars(CloseWindow(k))
    /\ \A r \in Requests : WF_vars(Expire(r) \/ ExpireFails(r) \/ Decide(r))

-----------------------------------------------------------------------------
\* Type invariant: the shape of the variables.
TypeOK ==
    /\ pc \in [Requests -> {"idle", "expire", "decide", "served", "limited", "crashed"}]
    /\ sent \in [Requests -> 0..(MaxRetries + 1)]
    /\ late \in [Requests -> Nat]
    /\ rearmed \subseteq Requests
    /\ count \in [Requests -> Nat]
    /\ joined \in [Requests -> Nat]
    /\ applied \in [Requests -> Seq(Nat \ {0})]
    /\ counter \in [Addresses -> Nat]
    /\ ttl \in [Addresses -> BOOLEAN]
    /\ window \in [Addresses -> 1..(MaxWindows + 1)]

\* The requests from address k that were counted in its window w.
Counted(k, w) ==
    {r \in Requests : RemoteAddr[r] = k /\ \E n \in DOMAIN applied[r] : applied[r][n] = w}

\* The requests of that window that the limiter let through by their number.
Admitted(k, w) ==
    {r \in Requests : /\ RemoteAddr[r] = k /\ joined[r] = w
                      /\ count[r] # 0 /\ pc[r] = "served"}

\* No window admits more than the limit: however requests overlap, also with
\* the end of a window, no two of one window are given the same number.
LimitPerWindow ==
    \A k \in Addresses : \A w \in 1..window[k] : Cardinality(Admitted(k, w)) <= Limit

\* Nobody is refused for what others do: a request is only refused when more
\* than the limit were counted from its own address in its own window, where
\* a request without a fault counts once, and one whose connection to Redis
\* failed at most once for each time that its INCR was sent.
RefusalsAreEarned ==
    \A r \in Requests :
        LET own == Counted(RemoteAddr[r], joined[r])
        IN pc[r] = "limited" =>
              Cardinality(own) + MaxRetries * Cardinality(own \cap FaultyRequests) > Limit

\* A counter without an expiry would lock its client out for good: whenever
\* there is one, the request that opened the window is about to set the
\* expiry, or a fault of a request of this window has lost it.
CounterExpires ==
    \A k \in Addresses :
        counter[k] > 0 /\ ~ttl[k] =>
            \E r \in Counted(k, window[k]) : pc[r] = "expire" \/ r \in FaultyRequests

\* Every window that is opened is closed, so a limited client is let in again,
\* unless a request with a fault was counted in it.
WindowsClose ==
    \A k \in Addresses : \A w \in 1..MaxWindows :
        window[k] = w /\ counter[k] > 0 ~>
            window[k] > w \/ Counted(k, w) \cap FaultyRequests # {}
=============================================================================
