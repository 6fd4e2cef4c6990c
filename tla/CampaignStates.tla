--------------------------- MODULE CampaignStates ---------------------------
(***************************************************************************)
(* The statuses of domain/enums.py and the transition table of             *)
(* domain/state_machine.py.                                                *)
(***************************************************************************)

CampaignStatus == {"SCHEDULED", "SENDING", "PAUSED", "CANCELLED", "COMPLETED"}

EmailStatus == {"PENDING", "SENDING", "SENT", "FAILED", "CANCELLED"}

ALLOWED_TRANSITIONS ==
  [SCHEDULED |-> {"SENDING", "PAUSED", "CANCELLED"},
   SENDING   |-> {"PAUSED", "CANCELLED", "COMPLETED"},
   PAUSED    |-> {"SENDING", "CANCELLED", "COMPLETED"},
   CANCELLED |-> {},
   COMPLETED |-> {}]

TERMINAL_EMAIL_STATUSES == {"SENT", "FAILED", "CANCELLED"}

\* A row that has not been inserted yet.
Absent == "ABSENT"

is_valid_transition(current, target) ==
  /\ current \in CampaignStatus
  /\ target \in ALLOWED_TRANSITIONS[current]
=============================================================================
