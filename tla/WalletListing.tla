---------------------------- MODULE WalletListing ---------------------------
(***************************************************************************)
(* GET /transactions of ms-wallet over a collection that is being written: *)
(* the query parameters and their arithmetic, the find sorted by           *)
(* created_at, and a reader that turns page after page.  It adds to        *)
(* WalletService the moment at which NewTransaction stamps each draft.     *)
(*                                                                         *)
(* All stamps are read from one clock that does not go back: one service   *)
(* instance, as docker-compose.yml deploys it.  A page is one find with    *)
(* majority read concern; the index on (user_id, created_at) puts          *)
(* documents of one millisecond in the order of their insertion.           *)
(***************************************************************************)
EXTENDS WalletService, FiniteSets, Functions

CONSTANTS
    Queries,      \* bound: the query strings a reader may start with
    NoQuery,      \* nothing has been asked yet
    Missing,      \* the parameter is not in the query string
    DefaultLimit, \* limit of a query that gives none: 20 in the code
    MaxInt,       \* the largest int64: 2^63 - 1 in the code
    MaxClock      \* bound: how far the clock goes

MinInt == -MaxInt - 1

\* A query string: whose transactions, and the parameters the handler reads.
IsQuery(q) ==
    /\ q = [user |-> q.user, type |-> q.type, limit |-> q.limit,
            page |-> q.page, offset |-> q.offset]
    /\ q.user \in Users
    /\ q.type \in STRING \cup {Missing}

ASSUME ListingAssumption ==
    /\ \A q \in Queries : IsQuery(q)
    /\ MaxInt \in Nat \ {0}
    /\ DefaultLimit \in 1..MaxInt
    /\ Missing \notin MinInt..MaxInt
    /\ MaxClock \in Nat

VARIABLES
    clock,    \* the wall clock of the service
    stamp,    \* stamp[r]: created_at of r's draft
    query,    \* the query last asked, NoQuery at first
    code,     \* "OK" or "INTERNAL_ERROR"
    rows,     \* the transactions it returned, in order
    seen,     \* history: the transactions on this page and the ones before it
    expected  \* history: what matched when the first page was asked for

reader == <<query, code, rows, seen, expected>>
listingVars == <<vars, clock, stamp, reader>>

ListingInit ==
    /\ Init
    /\ clock = 0
    /\ stamp = [r \in Requests |-> 0]
    /\ query = NoQuery
    /\ code = "NONE"
    /\ rows = <<>>
    /\ seen = {}
    /\ expected = {}

-----------------------------------------------------------------------------
(* The query string.                                                       *)

\* strconv.ParseInt(p, 10, 64) succeeds.
Parses(p) == p \in MinInt..MaxInt

\* int64 arithmetic wraps around.
Wrap(n) == ((n - MinInt) % (2 * (MaxInt + 1))) + MinInt

LimitOf(q) == IF Parses(q.limit) /\ q.limit > 0 THEN q.limit ELSE DefaultLimit

\* A mutant: the product is kept in a narrower integer.
OffsetOfNarrow(q) ==
    IF Parses(q.page) /\ q.page > 1
    THEN ((q.page - 1) * LimitOf(q)) % ((MaxInt + 1) \div 2)
    ELSE 0

\* A page hides the offset, also a page that is no number.
OffsetOf(q) ==
    IF q.page # Missing
    THEN IF Parses(q.page) /\ q.page > 1 THEN Wrap((q.page - 1) * LimitOf(q)) ELSE 0
    ELSE IF Parses(q.offset) /\ q.offset >= 0 THEN q.offset ELSE 0

-----------------------------------------------------------------------------
(* repository.ListTransactions.                                            *)

\* A mutant: the read concern is "local".
ReadableUncommitted(u) == 1..Len(log[u])

\* The documents of u that a majority read sees, by their place in the log.
Readable(u) == 1..durable[u]

\* The filter of the find.
Matching(q) ==
    {i \in Readable(q.user) : q.type \in {Missing, Req[log[q.user][i].by].type}}

CreatedAt(u, i) == stamp[log[u][i].by]

\* created_at descending.
Before(u, i, j) ==
    \/ CreatedAt(u, i) > CreatedAt(u, j)
    \/ CreatedAt(u, i) = CreatedAt(u, j) /\ i < j

\* The places of the documents that match, in the order of the listing.
Sorted(q) ==
    CHOOSE places \in [1..Cardinality(Matching(q)) -> Matching(q)] :
        \A k, l \in DOMAIN places : k < l => Before(q.user, places[k], places[l])

Documents(q, places) == [k \in 1..Len(places) |-> log[q.user][places[k]]]

\* A mutant: the find has no limit.
FindUnlimited(q) ==
    Documents(q, SubSeq(Sorted(q), OffsetOf(q) + 1, Len(Sorted(q))))

\* sort, skip, limit
Find(q) ==
    LET end == OffsetOf(q) + LimitOf(q)
        last == IF end < Len(Sorted(q)) THEN end ELSE Len(Sorted(q))
    IN Documents(q, SubSeq(Sorted(q), OffsetOf(q) + 1, last))

\* MongoDB refuses a negative skip, and any find may fail.
List(q) ==
    /\ query' = q
    /\ \/ OffsetOf(q) >= 0 /\ code' = "OK" /\ rows' = Find(q)
       \/ code' = "INTERNAL_ERROR" /\ rows' = <<>>
    /\ UNCHANGED <<vars, clock, stamp>>

-----------------------------------------------------------------------------
\* The reader asks for its first page.
Ask(q) ==
    /\ query = NoQuery
    /\ List(q)
    /\ seen' = Range(rows')
    /\ expected' = IF OffsetOf(q) = 0 THEN {log[q.user][i] : i \in Matching(q)} ELSE {}

\* It turns the page, as long as pages come back full.
TurnPage ==
    /\ code = "OK"
    /\ Parses(query.page) /\ query.page < MaxInt
    /\ Len(rows) = LimitOf(query)
    /\ List([query EXCEPT !.page = @ + 1])
    /\ seen' = seen \cup Range(rows')
    /\ UNCHANGED expected

\* A step of WalletService; NewTransaction reads the clock.
Write ==
    /\ Next
    /\ LET drawn == {r \in Requests : pc[r] = "loop" /\ pc'[r] = "update"}
       IN /\ clock' \in IF drawn = {} THEN {clock} ELSE clock..MaxClock
          /\ stamp' = [r \in Requests |-> IF r \in drawn THEN clock' ELSE stamp[r]]
    /\ UNCHANGED reader

ListingNext == Write \/ TurnPage \/ \E q \in Queries : Ask(q)

ListingSpec == ListingInit /\ [][ListingNext]_listingVars

-----------------------------------------------------------------------------
(* Properties.                                                             *)

\* Type invariant: the shape of the variables this module adds.
ListingTypeOK ==
    /\ clock \in 0..MaxClock
    /\ stamp \in [Requests -> 0..clock]
    /\ code \in {"NONE", "OK", "INTERNAL_ERROR"}
    /\ rows \in Seq(Entry)
    /\ query = NoQuery \/ Len(rows) <= LimitOf(query)
    /\ seen \subseteq Entry
    /\ expected \subseteq Entry

\* Whoever turns the pages until one comes back short has seen every
\* transaction that was there when it began: commits in between, also of
\* transactions that are stamped earlier than what was shown, and failovers
\* only ever move a transaction to a later page.
PagesMissNothing ==
    code = "OK" /\ Len(rows) < LimitOf(query) => expected \subseteq seen

\* ms-wallet/README.md: pages are numbered from 1 and limit long.  A page
\* holds the matching transactions whose place in the listing is on it, as
\* long as the offset fits an int64; beyond, a wrapped offset that is negative
\* is an error and one that is not shows another page.
PagesAreSlices ==
    [][ LET q == query'
            u == q.user
            Place(i) == {j \in Matching(q) : Before(u, j, i)}
        IN /\ query' # query /\ code' = "OK"
           /\ q.page # Missing /\ Parses(q.page) /\ q.page >= 1
           /\ (q.page - 1) * LimitOf(q) <= MaxInt
           => \A i \in Matching(q) :
                 log[u][i] \in Range(rows')
                 <=> Cardinality(Place(i)) \div LimitOf(q) = q.page - 1 ]_listingVars

\* created_at is drawn before the write is tried, so a transaction may be
\* listed below one that is before it in the ledger.  That is only so when the
\* balance it was applied to had come back to what it was before the other.
OrderDiffersAcrossEqualBalances ==
    failovers = 0 =>
        \A u \in Users : \A j \in 1..Len(log[u]) : \A i \in 1..(j - 1) :
            CreatedAt(u, j) < CreatedAt(u, i) =>
                \E k \in 0..(i - 1) :
                    log[u][j - 1].after = IF k = 0 THEN 0 ELSE log[u][k].after
=============================================================================
