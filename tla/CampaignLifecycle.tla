-------------------------- MODULE CampaignLifecycle --------------------------
(***************************************************************************)
(* What the campaign state machine promises, whoever drives it.  A         *)
(* campaign has the status everybody sees and the status last written;     *)
(* every write is a transition of domain/state_machine.py from the status  *)
(* last written, and a write is later shown to everybody or withdrawn.     *)
(***************************************************************************)
EXTENDS CampaignStates

CONSTANT Campaigns

VARIABLES shown, written

Init == /\ shown = [c \in Campaigns |-> Absent]
        /\ written = shown

\* The next pairs of shown and written status of one campaign.
Moves(s, w) ==
  LET after == {t \in CampaignStatus : is_valid_transition(w, t)} IN
  {<<s, w>>, <<w, w>>, <<s, s>>}                 \* nothing, show, withdraw
    \cup {<<s, t>> : t \in after}                \* write
    \cup {<<t, t>> : t \in after}                \* write and show at once
    \cup {<<"SCHEDULED", "SCHEDULED">> : x \in {Absent} \cap {w}}  \* create

Next == \A c \in Campaigns :
          <<shown'[c], written'[c]>> \in Moves(shown[c], written[c])

Spec == Init /\ [][Next]_<<shown, written>>
=============================================================================
