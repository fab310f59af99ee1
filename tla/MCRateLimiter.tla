--------------------------- MODULE MCRateLimiter ----------------------------
(***************************************************************************)
(* A small instance of RateLimiter: a limit of 2; three logins on one      *)
(* connection, enough to exceed the limit, one of which may send its INCR  *)
(* three times; a login on another connection, and a request that is no    *)
(* login.                                                                  *)
(***************************************************************************)
EXTENDS RateLimiter

CONSTANTS r1, r2, r3, r4, r5, c1, c2

MCRemoteAddr == [r \in Requests |-> IF r \in {r4, r5} THEN c2 ELSE c1]
=============================================================================
