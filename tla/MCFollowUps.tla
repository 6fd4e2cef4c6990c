---------------------------- MODULE MCFollowUps ----------------------------
(***************************************************************************)
(* Small instances of FollowUps.                                           *)
(***************************************************************************)
EXTENDS FollowUps, TLC

Interchangeable ==
  Permutations(Schedulers) \cup Permutations(Tasks) \cup Permutations(Requests)
=============================================================================
