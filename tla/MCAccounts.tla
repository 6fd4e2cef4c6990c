---------------------------- MODULE MCAccounts ----------------------------
(***************************************************************************)
(* A small instance of Authentication: a person with a Google and a        *)
(* development identity of the same address, and a second address.         *)
(***************************************************************************)
EXTENDS Authentication

CONSTANTS a, good

SameAddress == [u \in Users |-> a]
OnlyGood == Addresses \X {good}
=============================================================================
