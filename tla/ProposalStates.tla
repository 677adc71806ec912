--------------------------- MODULE ProposalStates ---------------------------
(***************************************************************************)
(* The lifecycle table of a row of the proposals table and the decision    *)
(* the primitive every caller goes through takes over it                   *)
(* (approval/proposals.py).  Constant-level only: the modules that own     *)
(* state EXTEND it.  A definition marked "faulty variant", here and in the *)
(* other modules, is no part of the model: it is the definition after it   *)
(* with a mistake in it, for checking that the runs notice the mistake.    *)
(***************************************************************************)

Statuses == {"PENDING", "APPROVED", "REJECTED", "EXECUTING", "FILLED",
             "FAILED", "AWAITING_2ND_CHANNEL", "APPROVED_LIVE", "EXPIRED"}

STATE_TRANSITIONS ==
    { <<"PENDING", "APPROVED">>,
      <<"PENDING", "REJECTED">>,
      <<"APPROVED", "EXECUTING">>,
      <<"APPROVED", "FAILED">>,
      <<"EXECUTING", "FILLED">>,
      <<"EXECUTING", "FAILED">>,
      <<"PENDING", "AWAITING_2ND_CHANNEL">>,
      <<"AWAITING_2ND_CHANNEL", "APPROVED_LIVE">>,
      <<"AWAITING_2ND_CHANNEL", "REJECTED">>,
      <<"AWAITING_2ND_CHANNEL", "EXPIRED">>,
      <<"APPROVED_LIVE", "EXECUTING">>,
      <<"PENDING", "EXPIRED">> }

(***************************************************************************)
(* The statuses for which the dashboard shows the current card instead of  *)
(* attempting a transition (dashboard/routes.py): everything but PENDING.  *)
(***************************************************************************)
EverythingButApproved ==   \* faulty variant: an approved row may be clicked
    {"FILLED", "EXPIRED", "REJECTED", "FAILED", "APPROVED_LIVE", "EXECUTING",
     "AWAITING_2ND_CHANNEL"}

TERMINAL_STATUSES ==
    {"FILLED", "EXPIRED", "REJECTED", "FAILED", "APPROVED", "APPROVED_LIVE",
     "EXECUTING", "AWAITING_2ND_CHANNEL"}

(***************************************************************************)
(* transition_status(from, to) on a row whose status it read as s: it      *)
(* raises ValueError unless the row is already in the target status (the   *)
(* idempotent return) or s is the expected status and <<s, to>> an edge.   *)
(***************************************************************************)
TransitionFromCaller(s, from, to) ==   \* faulty variant: checks the argument
    <<from, to>> \in STATE_TRANSITIONS

TransitionAllowed(s, from, to) ==
    \/ s = to
    \/ /\ <<s, to>> \in STATE_TRANSITIONS
       /\ s = from

(***************************************************************************)
(* The status the row holds once the transaction that read it as s has     *)
(* committed, its status at that moment being current.  The UPDATE carries *)
(* no status guard, so it overwrites whatever is there; the idempotent     *)
(* return issues no UPDATE and leaves the row alone.                       *)
(***************************************************************************)
StatusAfter(current, s, to) == IF s = to THEN current ELSE to
=============================================================================
