-------------------------- MODULE ProposalContract --------------------------
(***************************************************************************)
(* What the approval pipeline promises for a proposal, whatever surfaces,  *)
(* sweeps and executors it is made of: a row moves along its lifecycle     *)
(* table, a decision is taken once, an order is placed at most once and    *)
(* only after approval, a row that says FAILED has no order behind it      *)
(* unless the broker denied having one, and an order it denied is never    *)
(* acknowledged.                                                           *)
(***************************************************************************)
EXTENDS ProposalStates

CONSTANTS Proposals, None

VARIABLES status,   \* status[p]: what the row says, None before it exists
          placed,   \* placed[p]: an order for p has reached the broker
          denied    \* proposals placed with an error for an answer

contractVars == <<status, placed, denied>>

Init ==
    /\ status = [p \in Proposals |-> None]
    /\ placed = [p \in Proposals |-> FALSE]
    /\ denied = {}

Move(p, to) ==
    /\ <<status[p], to>> \in STATE_TRANSITIONS
    /\ status' = [status EXCEPT ![p] = to]
    /\ UNCHANGED <<placed, denied>>

Propose(p) ==
    /\ status[p] = None
    /\ status' = [status EXCEPT ![p] = "PENDING"]
    /\ UNCHANGED <<placed, denied>>

\* Every decision precedes the trade.
Decide(p) ==
    /\ ~placed[p]
    /\ \E to \in {"APPROVED", "REJECTED", "AWAITING_2ND_CHANNEL",
                  "APPROVED_LIVE", "EXPIRED"} : Move(p, to)

Place(p) ==
    /\ status[p] \in {"APPROVED", "APPROVED_LIVE"}
    /\ ~placed[p]
    /\ placed' = [placed EXCEPT ![p] = TRUE]
    /\ denied' \in {denied, denied \cup {p}}
    /\ UNCHANGED status

Acknowledge(p) ==
    /\ placed[p] /\ p \notin denied
    /\ \E to \in {"EXECUTING", "FILLED"} : Move(p, to)

Fail(p) == (~placed[p] \/ p \in denied) /\ Move(p, "FAILED")

Next == \E p \in Proposals :
           Propose(p) \/ Decide(p) \/ Place(p) \/ Acknowledge(p) \/ Fail(p)

Spec == Init /\ [][Next]_contractVars
=============================================================================
