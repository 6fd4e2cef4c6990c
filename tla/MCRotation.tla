---------------------------- MODULE MCRotation ----------------------------
(***************************************************************************)
(* All pools of up to three senders, with limits of up to two, and the     *)
(* plans made for them.                                                    *)
(***************************************************************************)
EXTENDS CampaignPlan, TLC

Renamed == Permutations(Senders)
=============================================================================
