--------------------------- MODULE MCWalletClient ---------------------------
(***************************************************************************)
(* A small instance of WalletClient: the registration and a login of one   *)
(* user, with the code's two retries.                                      *)
(***************************************************************************)
EXTENDS WalletClient, TLC

CONSTANTS register, login, alice

MCMethod == (register :> "ValidateUser") @@ (login :> "GetBalance")
MCUserOf == [c \in Calls |-> alice]
MCRetryDelays == <<100, 200>>
=============================================================================
