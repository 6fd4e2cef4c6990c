--------------------------- MODULE Authentication ---------------------------
(***************************************************************************)
(* The two halves of application/auth.py and senders.py: the accounts a    *)
(* login makes, and the refresh tokens it hands out.  They share no table, *)
(* so their steps commute and a behaviour takes steps of one half only.    *)
(***************************************************************************)
EXTENDS AccountsInvariant, RefreshTokens

AuthInit == Init /\ TokensInit

AuthNext ==
  \/ Next /\ TokensInit /\ UNCHANGED tokenVars
  \/ TokensNext /\ Init /\ UNCHANGED vars

AuthSpec ==
  /\ AuthInit /\ [][AuthNext]_<<vars, tokenVars>>
  /\ \A q \in Requests : WF_vars(RequestStep(q))
=============================================================================
