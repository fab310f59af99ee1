----------------------------- MODULE MCStartup ------------------------------
(***************************************************************************)
(* A small instance of Startup: two instances of ms-wallet and two of      *)
(* ms-users, one of each with faults, that of ms-users without JWT_SECRET. *)
(***************************************************************************)
EXTENDS Startup

CONSTANTS w1, w2, u1, u2
=============================================================================
