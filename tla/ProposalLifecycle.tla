------------------------- MODULE ProposalLifecycle -------------------------
(***************************************************************************)
(* The life of proposal rows in one operator's database, with everybody    *)
(* who changes them: the Slack buttons, the dashboard, the live-confirm    *)
(* page, the expiry sweep, the anomaly reflex, the auto branch of a run,   *)
(* the executor tasks they dispatch, the broker and its fill stream, and a *)
(* crash of the process.                                                   *)
(*                                                                         *)
(* Granularity.  SQLite in WAL mode has one writer at a time.  A           *)
(* transaction whose first statement is an INSERT (the dedup claim of a    *)
(* button, the audit event of the executor) reads the row under the write  *)
(* lock: it is ONE action.  A transaction that SELECTs first reads outside *)
(* the lock, and SQLAlchemy's identity map never refreshes what it read:   *)
(* it is TWO actions, a read that remembers the status and a commit that   *)
(* acts on it, whatever the row has become in between.                     *)
(***************************************************************************)
EXTENDS ProposalStates, Naturals, Sequences, FiniteSets

CONSTANTS
    Proposals,    \* proposal ids (equal to decision ids)
    Tasks,        \* slots for execute_proposal coroutines; bounds how many run
    Clients,      \* browser tabs that may post the live-confirm form
    Actors,       \* the parties and faults present in the instance
    StreamModes,  \* account modes the fill stream subscribes to
    MaxCrashes,   \* bound on process restarts
    None          \* no row, no proposal, no status

AllActors == {"slack", "dashboard", "edit", "confirm", "sweep", "anomaly",
              "auto", "netfail", "crash"}
Modes == {"PAPER", "LIVE"}
Quantities == {"proposed", "edited"}
EntryStatuses == {"APPROVED", "APPROVED_LIVE"}
Orders == {"none", "open", "partial", "filled", "closed"}
EventTypes == {"proposal", "approval", "rejection", "expiration",
               "auto_execution", "refusal", "order_submitted", "fill"}

ASSUME ConstantsAssumption ==
    /\ None \notin Proposals
    /\ None \notin Statuses
    /\ None \notin Quantities
    /\ Actors \subseteq AllActors
    /\ StreamModes \subseteq Modes
    /\ MaxCrashes \in Nat

VARIABLES
    \* the database
    status,     \* status[p]: proposals.status, None before the row exists
    mode,       \* mode[p]: proposals.account_mode
    qty,        \* qty[p]: the quantity in proposals.payload_json
    due,        \* due[p]: expires_at <= now
    claims,     \* slack_action_dedup: triples <<proposal, action, source>>
    trail,      \* trail[p]: types of the committed audit events that name p
    approvals,  \* approvals[p]: number of approval events committed for p
    stamped,    \* strategy_metadata.first_live_trade_confirmed_at is set
    \* the broker and the stream from it
    order,      \* order[p]: the order carrying p's client_order_id
    orderQty,   \* orderQty[p]: its quantity
    feed,       \* trade updates not yet handed to on_fill_event
    denied,     \* proposals whose submission was answered with an error
                \* although the broker has the order
    \* coroutines of the process
    exec,       \* exec[t]: an execute_proposal coroutine
    confirm,    \* confirm[c]: proposal whose row c's post has read as awaiting
    sweepList,  \* rows the sweep has listed, with the status it listed
    sweepRow,   \* the row the sweep has read again and is about to expire
    doomed,     \* rows the anomaly reflex has read as PENDING
    auto,       \* auto[p]: the auto branch of the run that wrote p
    fill,       \* the on_fill_event call in progress
    \* observation
    raised,     \* proposals whose executor let an exception escape past its gate
    crashes

rowVars    == <<status, mode, qty, due>>
auditVars  == <<trail, approvals>>
brokerVars == <<order, orderQty, feed, denied>>
flowVars   == <<confirm, sweepList, sweepRow, doomed, auto, fill>>
vars == <<rowVars, claims, auditVars, stamped, brokerVars, exec, flowVars,
          raised, crashes>>

IdleTask == [pc |-> "idle", prop |-> None, entry |-> None, qty |-> None]
NoRead   == [prop |-> None, seen |-> None]
NoFill   == [pc |-> "idle", prop |-> None, seen |-> None]
NoAuto   == [pc |-> "off", seen |-> None]

Init ==
    /\ status    = [p \in Proposals |-> None]
    /\ mode      = [p \in Proposals |-> "PAPER"]
    /\ qty       = [p \in Proposals |-> "proposed"]
    /\ due       = [p \in Proposals |-> FALSE]
    /\ claims    = {}
    /\ trail     = [p \in Proposals |-> {}]
    /\ approvals = [p \in Proposals |-> 0]
    /\ stamped   = FALSE
    /\ order     = [p \in Proposals |-> "none"]
    /\ orderQty  = [p \in Proposals |-> None]
    /\ feed      = <<>>
    /\ denied    = {}
    /\ exec      = [t \in Tasks |-> IdleTask]
    /\ confirm   = [c \in Clients |-> None]
    /\ sweepList = {}
    /\ sweepRow  = NoRead
    /\ doomed    = {}
    /\ auto      = [p \in Proposals |-> NoAuto]
    /\ fill      = NoFill
    /\ raised    = {}
    /\ crashes   = 0

-----------------------------------------------------------------------------
(* Shared by the handlers. *)

Exists(p)     == status[p] # None
FirstLiveInverted(p) == mode[p] = "LIVE" /\ stamped   \* faulty variant
FirstLive(p)  == mode[p] = "LIVE" /\ ~stamped
SetStatus(p, s) == status' = [status EXCEPT ![p] = s]
Record(p, evs)  == trail' = [trail EXCEPT ![p] = @ \cup evs]
RecordApprovalSilently(p, evs) ==   \* faulty variant: no approval event
    /\ Record(p, evs)
    /\ approvals' = [approvals EXCEPT ![p] = @ + 1]
RecordApproval(p, evs) ==
    /\ Record(p, evs \cup {"approval"})
    /\ approvals' = [approvals EXCEPT ![p] = @ + 1]

DispatchForgotten(p) == UNCHANGED exec   \* faulty variant

\* asyncio.create_task(execute_proposal(p)) once the approval has committed.
Dispatch(p) ==
    \E t \in Tasks :
        /\ exec[t].pc = "idle"
        /\ exec' = [exec EXCEPT ![t] =
                       [pc |-> "load", prop |-> p, entry |-> None, qty |-> None]]

\* claim_action: the UNIQUE insert that gives the click its write lock.
UnclaimedAlways(p, action, source) == TRUE   \* faulty variant: no dedup
Unclaimed(p, action, source) == <<p, action, source>> \notin claims
Claim(p, action, source)     == claims' = claims \cup {<<p, action, source>>}

\* A proposal is written PENDING with its audit event; the run goes on into
\* the auto branch when the strategy's trust level, read once, says so.
WriteProposal(p) ==
    /\ ~Exists(p)
    /\ SetStatus(p, "PENDING")
    /\ \E m \in Modes : mode' = [mode EXCEPT ![p] = m]
    /\ Record(p, {"proposal"})
    /\ \/ UNCHANGED auto
       \/ /\ "auto" \in Actors
          /\ auto' = [auto EXCEPT ![p].pc = "gate"]
    /\ UNCHANGED <<qty, due, claims, approvals, stamped, brokerVars, exec,
                   confirm, sweepList, sweepRow, doomed, fill, raised, crashes>>

\* The clock passes expires_at.
TimePasses(p) ==
    /\ Exists(p)
    /\ ~due[p]
    /\ due' = [due EXCEPT ![p] = TRUE]
    /\ UNCHANGED <<status, mode, qty, claims, auditVars, stamped, brokerVars,
                   exec, flowVars, raised, crashes>>

-----------------------------------------------------------------------------
(* Slack buttons.  A ValueError rolls back the claim too: no step. *)

SlackDivert(p) ==
    /\ FirstLive(p)
    /\ TransitionAllowed(status[p], "PENDING", "AWAITING_2ND_CHANNEL")
    /\ SetStatus(p, "AWAITING_2ND_CHANNEL")
    /\ UNCHANGED exec

SlackApproveNow(p) ==
    /\ ~FirstLive(p)
    /\ TransitionAllowed(status[p], "PENDING", "APPROVED")
    /\ SetStatus(p, "APPROVED")
    /\ Dispatch(p)

SlackApprove(p) ==
    /\ "slack" \in Actors
    /\ Exists(p)
    /\ Unclaimed(p, "approve_proposal", "slack")
    /\ SlackDivert(p) \/ SlackApproveNow(p)
    /\ Claim(p, "approve_proposal", "slack")
    /\ RecordApproval(p, {})
    /\ UNCHANGED <<mode, qty, due, stamped, brokerVars, flowVars, raised,
                   crashes>>

SlackReject(p) ==
    /\ "slack" \in Actors
    /\ Exists(p)
    /\ Unclaimed(p, "reject_proposal", "slack")
    /\ TransitionAllowed(status[p], "PENDING", "REJECTED")
    /\ SetStatus(p, "REJECTED")
    /\ Claim(p, "reject_proposal", "slack")
    /\ Record(p, {"rejection"})
    /\ UNCHANGED <<mode, qty, due, approvals, stamped, brokerVars, exec,
                   flowVars, raised, crashes>>

-----------------------------------------------------------------------------
(* Dashboard buttons.  On a row that is past PENDING the click only leaves *)
(* its dedup row behind.                                                   *)

ClickTooLate(p, action) ==
    /\ Unclaimed(p, action, "dashboard")
    /\ status[p] \in TERMINAL_STATUSES
    /\ Claim(p, action, "dashboard")
    /\ UNCHANGED <<rowVars, auditVars, stamped, brokerVars, exec, flowVars,
                   raised, crashes>>

DashApproveNow(p) ==
    /\ Exists(p)
    /\ Unclaimed(p, "approve_proposal", "dashboard")
    /\ status[p] \notin TERMINAL_STATUSES
    /\ TransitionAllowed(status[p], "PENDING", "APPROVED")
    /\ Claim(p, "approve_proposal", "dashboard")
    /\ SetStatus(p, "APPROVED")
    /\ RecordApproval(p, {})
    /\ Dispatch(p)
    /\ UNCHANGED <<mode, qty, due, stamped, brokerVars, flowVars, raised,
                   crashes>>

DashApprove(p) ==
    /\ "dashboard" \in Actors
    /\ DashApproveNow(p) \/ ClickTooLate(p, "approve_proposal")

DashRejectNow(p) ==
    /\ Exists(p)
    /\ Unclaimed(p, "reject_proposal", "dashboard")
    /\ status[p] \notin TERMINAL_STATUSES
    /\ TransitionAllowed(status[p], "PENDING", "REJECTED")
    /\ Claim(p, "reject_proposal", "dashboard")
    /\ SetStatus(p, "REJECTED")
    /\ Record(p, {"rejection"})
    /\ UNCHANGED <<mode, qty, due, approvals, stamped, brokerVars, exec,
                   flowVars, raised, crashes>>

DashReject(p) ==
    /\ "dashboard" \in Actors
    /\ DashRejectNow(p) \/ ClickTooLate(p, "reject_proposal")

\* An edit within the caps (an edit beyond them changes nothing): resize,
\* approve without an approval event, dispatch.  The edit_size event carries
\* quantities, notionals and the actor, and no id that would tie it to the
\* proposal: nothing is added to its trail.
EditSubmitNow(p) ==
    /\ Exists(p)
    /\ Unclaimed(p, "edit_size", "dashboard")
    /\ status[p] \notin TERMINAL_STATUSES
    /\ TransitionAllowed(status[p], "PENDING", "APPROVED")
    /\ Claim(p, "edit_size", "dashboard")
    /\ qty' = [qty EXCEPT ![p] = "edited"]
    /\ SetStatus(p, "APPROVED")
    /\ Dispatch(p)
    /\ UNCHANGED <<mode, due, auditVars, stamped, brokerVars, flowVars, raised,
                   crashes>>

EditSubmit(p) ==
    /\ "edit" \in Actors
    /\ EditSubmitNow(p) \/ ClickTooLate(p, "edit_size")

-----------------------------------------------------------------------------
(* The live-confirm page: reads first, carries no dedup claim. *)

ConfirmRead(c, p) ==
    /\ "confirm" \in Actors
    /\ confirm[c] = None
    /\ status[p] = "AWAITING_2ND_CHANNEL"
    /\ confirm' = [confirm EXCEPT ![c] = p]
    /\ UNCHANGED <<rowVars, claims, auditVars, stamped, brokerVars, exec,
                   sweepList, sweepRow, doomed, auto, fill, raised, crashes>>

ConfirmWrite(c) ==
    /\ confirm[c] # None
    /\ SetStatus(confirm[c], "APPROVED_LIVE")
    /\ RecordApproval(confirm[c], {})
    /\ Dispatch(confirm[c])
    /\ confirm' = [confirm EXCEPT ![c] = None]
    /\ UNCHANGED <<mode, qty, due, claims, stamped, brokerVars, sweepList,
                   sweepRow, doomed, auto, fill, raised, crashes>>

-----------------------------------------------------------------------------
(* The expiry sweep, one run at a time: list the stale rows, then for each *)
(* read it again and expire it in a transaction of its own.                *)

StalePendingOnly == {"PENDING"}   \* faulty variant
StaleStatuses == {"PENDING", "AWAITING_2ND_CHANNEL"}

SweepStart ==
    /\ "sweep" \in Actors
    /\ sweepList = {}
    /\ sweepRow = NoRead
    /\ sweepList' = {r \in Proposals \X StaleStatuses :
                        status[r[1]] = r[2] /\ due[r[1]]}
    /\ sweepList' # {}
    /\ UNCHANGED <<rowVars, claims, auditVars, stamped, brokerVars, exec,
                   confirm, sweepRow, doomed, auto, fill, raised, crashes>>

SweepCheck ==
    /\ sweepRow = NoRead
    /\ \E r \in sweepList :
          /\ sweepList' = sweepList \ {r}
          /\ IF TransitionAllowed(status[r[1]], r[2], "EXPIRED")
                THEN sweepRow' = [prop |-> r[1], seen |-> status[r[1]]]
                ELSE UNCHANGED sweepRow
    /\ UNCHANGED <<rowVars, claims, auditVars, stamped, brokerVars, exec,
                   confirm, doomed, auto, fill, raised, crashes>>

SweepWriteSilently ==   \* faulty variant: expires without an event
    /\ sweepRow # NoRead
    /\ SetStatus(sweepRow.prop,
                 StatusAfter(status[sweepRow.prop], sweepRow.seen, "EXPIRED"))
    /\ sweepRow' = NoRead
    /\ UNCHANGED <<mode, qty, due, claims, auditVars, stamped, brokerVars, exec,
                   confirm, sweepList, doomed, auto, fill, raised, crashes>>

SweepWrite ==
    /\ sweepRow # NoRead
    /\ LET p == sweepRow.prop IN
          /\ SetStatus(p, StatusAfter(status[p], sweepRow.seen, "EXPIRED"))
          /\ Record(p, {"expiration"})
    /\ sweepRow' = NoRead
    /\ UNCHANGED <<mode, qty, due, claims, approvals, stamped, brokerVars, exec,
                   confirm, sweepList, doomed, auto, fill, raised, crashes>>

Sweep == SweepStart \/ SweepCheck \/ SweepWrite

-----------------------------------------------------------------------------
(* The anomaly reflex rejects, in one transaction, every proposal of the   *)
(* strategy it has just listed as PENDING.                                 *)

AnomalyList ==
    /\ "anomaly" \in Actors
    /\ doomed = {}
    /\ doomed' = {p \in Proposals : status[p] = "PENDING"}
    /\ doomed' # {}
    /\ UNCHANGED <<rowVars, claims, auditVars, stamped, brokerVars, exec,
                   confirm, sweepList, sweepRow, auto, fill, raised, crashes>>

AnomalyReject ==
    /\ doomed # {}
    /\ status' = [p \in Proposals |->
                     IF p \in doomed THEN "REJECTED" ELSE status[p]]
    /\ trail' = [p \in Proposals |->
                    IF p \in doomed THEN trail[p] \cup {"rejection"}
                                    ELSE trail[p]]
    /\ doomed' = {}
    /\ UNCHANGED <<mode, qty, due, claims, approvals, stamped, brokerVars, exec,
                   confirm, sweepList, sweepRow, auto, fill, raised, crashes>>

-----------------------------------------------------------------------------
(* The auto branch: divert a first live trade, approve anything else. *)

AutoTarget(p) == IF auto[p].pc = "divert" THEN "AWAITING_2ND_CHANNEL"
                                          ELSE "APPROVED"

AutoGate(p) ==
    /\ auto[p].pc = "gate"
    /\ auto' = [auto EXCEPT ![p].pc =
                   IF FirstLive(p) THEN "divert" ELSE "approve"]
    /\ UNCHANGED <<rowVars, claims, auditVars, stamped, brokerVars, exec,
                   confirm, sweepList, sweepRow, doomed, fill, raised, crashes>>

AutoRead(p) ==
    /\ auto[p].pc \in {"divert", "approve"}
    /\ auto[p].seen = None
    /\ auto' = [auto EXCEPT ![p] =
                   IF TransitionAllowed(status[p], "PENDING", AutoTarget(p))
                      THEN [@ EXCEPT !.seen = status[p]]
                      ELSE NoAuto]
    /\ UNCHANGED <<rowVars, claims, auditVars, stamped, brokerVars, exec,
                   confirm, sweepList, sweepRow, doomed, fill, raised, crashes>>

AutoWrite(p) ==
    /\ auto[p].seen # None
    /\ SetStatus(p, StatusAfter(status[p], auto[p].seen, AutoTarget(p)))
    /\ IF auto[p].pc = "divert"
          THEN RecordApproval(p, {}) /\ UNCHANGED exec
          ELSE RecordApproval(p, {"auto_execution"}) /\ Dispatch(p)
    /\ auto' = [auto EXCEPT ![p] = NoAuto]
    /\ UNCHANGED <<mode, qty, due, claims, stamped, brokerVars, confirm,
                   sweepList, sweepRow, doomed, fill, raised, crashes>>

-----------------------------------------------------------------------------
(* execute_proposal. *)

Finish(t) == exec' = [exec EXCEPT ![t] = IdleTask]

ExecLoadUnchecked(t) ==   \* faulty variant: no status gate
    /\ exec[t].pc = "load"
    /\ LET p == exec[t].prop IN
          exec' = [exec EXCEPT ![t] = [pc |-> "gate", prop |-> p,
                                       entry |-> status[p], qty |-> qty[p]]]
    /\ UNCHANGED <<rowVars, claims, auditVars, stamped, brokerVars, flowVars,
                   raised, crashes>>

\* Load the row; ValueError (before the gate) unless it is approved.
ExecLoad(t) ==
    /\ exec[t].pc = "load"
    /\ LET p == exec[t].prop IN
          exec' = [exec EXCEPT ![t] =
                      IF status[p] \in EntryStatuses
                         THEN [pc |-> "gate", prop |-> p, entry |-> status[p],
                               qty |-> qty[p]]
                         ELSE IdleTask]
    /\ UNCHANGED <<rowVars, claims, auditVars, stamped, brokerVars, flowVars,
                   raised, crashes>>

\* The closing transaction of the task: the event and the transition, or,
\* when transition_status raises, neither and the exception escapes.
Settle(t, to, ev) ==
    LET p == exec[t].prop IN
    /\ IF TransitionAllowed(status[p], exec[t].entry, to)
          THEN SetStatus(p, to) /\ Record(p, {ev}) /\ UNCHANGED raised
          ELSE raised' = raised \cup {p} /\ UNCHANGED <<status, trail>>
    /\ Finish(t)
    /\ UNCHANGED <<mode, qty, due, claims, approvals, stamped, brokerVars,
                   flowVars, crashes>>

ExecRefuseLate(t) ==   \* faulty variant: fails a row whose order is placed
    exec[t].pc \in {"gate", "placed", "denied"} /\ Settle(t, "FAILED", "refusal")

\* Market closed, no broker, an OrderGuard rejection, or a BrokerOrderError,
\* whatever has become of the submission it answers.
ExecRefuse(t) ==
    exec[t].pc \in {"gate", "denied"} /\ Settle(t, "FAILED", "refusal")

\* What a submission that arrives leaves at the broker, whatever the answer:
\* a new order, or under a client_order_id it knows the order already there.
BrokerAccept(p, q) ==
    IF order[p] = "none"
       THEN /\ order' = [order EXCEPT ![p] = "open"]
            /\ orderQty' = [orderQty EXCEPT ![p] = q]
       ELSE UNCHANGED <<order, orderQty>>

ExecPlace(t) ==
    /\ exec[t].pc = "gate"
    /\ BrokerAccept(exec[t].prop, exec[t].qty)
    /\ exec' = [exec EXCEPT ![t].pc = "placed"]
    /\ UNCHANGED <<rowVars, claims, auditVars, stamped, feed, denied, flowVars,
                   raised, crashes>>

\* The order arrives and the answer is an error all the same: a 5xx, or a
\* duplicate whose lookup fails too.  place_order raises BrokerOrderError.
ExecDenied(t) ==
    /\ "netfail" \in Actors
    /\ exec[t].pc = "gate"
    /\ BrokerAccept(exec[t].prop, exec[t].qty)
    /\ denied' = denied \cup {exec[t].prop}
    /\ exec' = [exec EXCEPT ![t].pc = "denied"]
    /\ UNCHANGED <<rowVars, claims, auditVars, stamped, feed, flowVars, raised,
                   crashes>>

\* The submission fails below the broker's API errors, with or without the
\* order having reached it, or the closing transaction fails on the locks of
\* the log (AuditLog): nothing in execute_proposal catches either.
ExecLost(t) ==
    /\ "netfail" \in Actors
    /\ exec[t].pc \in {"gate", "placed", "denied"}
    /\ \/ exec[t].pc = "gate" /\ BrokerAccept(exec[t].prop, exec[t].qty)
       \/ UNCHANGED <<order, orderQty>>
    /\ raised' = raised \cup {exec[t].prop}
    /\ Finish(t)
    /\ UNCHANGED <<rowVars, claims, auditVars, stamped, feed, denied, flowVars,
                   crashes>>

ExecRecordEarly(t) ==   \* faulty variant: recorded before it is submitted
    exec[t].pc = "gate" /\ Settle(t, "EXECUTING", "order_submitted")

ExecRecord(t) ==
    exec[t].pc = "placed" /\ Settle(t, "EXECUTING", "order_submitted")

Executor(t) == ExecLoad(t) \/ ExecRefuse(t) \/ ExecPlace(t) \/ ExecRecord(t)

-----------------------------------------------------------------------------
(* The broker, the fill stream and on_fill_event (one call at a time). *)

\* At most one partial fill is followed; later ones repeat the same step.
BrokerFill(p) ==
    /\ \/ order[p] = "open" /\ order' = [order EXCEPT ![p] = "partial"]
       \/ order[p] \in {"open", "partial"}
          /\ order' = [order EXCEPT ![p] = "filled"]
    /\ feed' = IF mode[p] \in StreamModes THEN Append(feed, p) ELSE feed
    /\ UNCHANGED <<rowVars, claims, auditVars, stamped, orderQty, denied, exec,
                   flowVars, raised, crashes>>

\* Cancelled, rejected or expired at the broker: an update the stream drops.
BrokerClose(p) ==
    /\ order[p] \in {"open", "partial"}
    /\ order' = [order EXCEPT ![p] = "closed"]
    /\ UNCHANGED <<rowVars, claims, auditVars, stamped, orderQty, feed, denied,
                   exec, flowVars, raised, crashes>>

FillRead ==
    /\ fill = NoFill
    /\ feed # <<>>
    /\ fill' = [pc |-> "read", prop |-> Head(feed), seen |-> status[Head(feed)]]
    /\ feed' = Tail(feed)
    /\ UNCHANGED <<rowVars, claims, auditVars, stamped, order, orderQty, denied,
                   exec, confirm, sweepList, sweepRow, doomed, auto, raised,
                   crashes>>

FillWrite ==
    /\ fill.pc = "read"
    /\ LET p == fill.prop IN
          /\ SetStatus(p, IF fill.seen = "EXECUTING" THEN "FILLED"
                                                     ELSE status[p])
          /\ Record(p, {"fill"})
          /\ fill' = IF mode[p] = "LIVE" THEN [fill EXCEPT !.pc = "stamp"]
                                         ELSE NoFill
    /\ UNCHANGED <<mode, qty, due, claims, approvals, stamped, brokerVars, exec,
                   confirm, sweepList, sweepRow, doomed, auto, raised, crashes>>

\* stamp_first_live_trade, in a transaction of its own; set once.
FillStamp ==
    /\ fill.pc = "stamp"
    /\ stamped' = TRUE
    /\ fill' = NoFill
    /\ UNCHANGED <<rowVars, claims, auditVars, brokerVars, exec, confirm,
                   sweepList, sweepRow, doomed, auto, raised, crashes>>

\* A dropped connection of the stream, or a transaction of on_fill_event that
\* fails (AuditLog says how): the update is gone, nobody sends it again.
FillDropped ==
    /\ "netfail" \in Actors
    /\ feed # <<>>
    /\ feed' = Tail(feed)
    /\ UNCHANGED <<rowVars, claims, auditVars, stamped, order, orderQty, denied,
                   exec, flowVars, raised, crashes>>

OnFill == FillRead \/ FillWrite \/ FillStamp

-----------------------------------------------------------------------------
\* The process dies and restarts: the database and the broker keep what they
\* have, every coroutine is gone, updates sent meanwhile are not replayed,
\* and nothing at startup looks at the proposals again.
Crash ==
    /\ "crash" \in Actors
    /\ crashes < MaxCrashes
    /\ crashes' = crashes + 1
    /\ exec' = [t \in Tasks |-> IdleTask]
    /\ confirm' = [c \in Clients |-> None]
    /\ sweepList' = {}
    /\ sweepRow' = NoRead
    /\ doomed' = {}
    /\ auto' = [p \in Proposals |-> NoAuto]
    /\ fill' = NoFill
    /\ feed' = <<>>
    /\ UNCHANGED <<rowVars, claims, auditVars, stamped, order, orderQty, denied,
                   raised>>

Next ==
    \/ \E p \in Proposals :
          \/ WriteProposal(p) \/ TimePasses(p)
          \/ SlackApprove(p) \/ SlackReject(p)
          \/ DashApprove(p) \/ DashReject(p) \/ EditSubmit(p)
          \/ AutoGate(p) \/ AutoRead(p) \/ AutoWrite(p)
          \/ BrokerFill(p) \/ BrokerClose(p)
    \/ \E c \in Clients : (\E p \in Proposals : ConfirmRead(c, p)) \/ ConfirmWrite(c)
    \/ Sweep
    \/ AnomalyList \/ AnomalyReject
    \/ \E t \in Tasks : Executor(t) \/ ExecDenied(t) \/ ExecLost(t)
    \/ OnFill \/ FillDropped
    \/ Crash

Spec == Init /\ [][Next]_vars

(***************************************************************************)
(* Fairness: the scheduler fires the sweep every minute and the event loop *)
(* runs every coroutine that is ready; the clock moves.  The operator, the *)
(* broker, the anomaly reflex, runs and faults owe nothing.                *)
(***************************************************************************)
Fairness ==
    /\ WF_vars(Sweep)
    /\ WF_vars(OnFill)
    /\ WF_vars(AnomalyReject)
    /\ \A t \in Tasks : WF_vars(Executor(t))
    /\ \A c \in Clients : WF_vars(ConfirmWrite(c))
    /\ \A p \in Proposals :
          WF_vars(AutoGate(p)) /\ WF_vars(AutoRead(p)) /\ WF_vars(AutoWrite(p))

FairSpec == Spec /\ Fairness

-----------------------------------------------------------------------------
(* Properties. *)

TaskStates ==
    [pc: {"idle", "load", "gate", "placed", "denied"}, prop: Proposals \cup {None},
     entry: EntryStatuses \cup {None}, qty: Quantities \cup {None}]

RowsTyped ==
    /\ status \in [Proposals -> Statuses \cup {None}]
    /\ mode \in [Proposals -> Modes]
    /\ qty \in [Proposals -> Quantities]
    /\ due \in [Proposals -> BOOLEAN]
    /\ stamped \in BOOLEAN

Buttons == {"approve_proposal", "reject_proposal", "edit_size"}

AuditTyped ==
    /\ claims \subseteq Proposals \X Buttons \X {"slack", "dashboard"}
    /\ trail \in [Proposals -> SUBSET EventTypes]
    /\ approvals \in [Proposals -> Nat]

BrokerTyped ==
    /\ order \in [Proposals -> Orders]
    /\ orderQty \in [Proposals -> Quantities \cup {None}]
    /\ feed \in Seq(Proposals)
    /\ denied \subseteq Proposals

TasksTyped ==
    /\ exec \in [Tasks -> TaskStates]
    /\ \A t \in Tasks : exec[t].pc # "idle" => exec[t].prop \in Proposals

FlowsTyped ==
    /\ confirm \in [Clients -> Proposals \cup {None}]
    /\ sweepList \subseteq Proposals \X StaleStatuses
    /\ sweepRow \in {NoRead} \cup [prop: Proposals, seen: Statuses]
    /\ doomed \subseteq Proposals
    /\ auto \in [Proposals -> [pc: {"off", "gate", "divert", "approve"},
                               seen: Statuses \cup {None}]]
    /\ fill \in {NoFill} \cup [pc: {"read", "stamp"}, prop: Proposals,
                               seen: Statuses \cup {None}]
    /\ raised \subseteq Proposals
    /\ crashes \in 0..MaxCrashes

\* The tables, the coroutines and the broker hold what they can hold.
TypeOK == RowsTyped /\ AuditTyped /\ BrokerTyped /\ TasksTyped /\ FlowsTyped

(***************************************************************************)
(* Whatever races are lost, an order reaches the broker only for a         *)
(* proposal on which an approval or a resize has been committed: the       *)
(* status gate at the head of execute_proposal, for every way a row can    *)
(* come to be APPROVED.  An approval shows in the trail, a resize only in  *)
(* the row.                                                                *)
(***************************************************************************)
Resized(p)   == qty[p] = "edited"
Consented(p) == "approval" \in trail[p] \/ Resized(p)
NoOrderWithoutConsent == \A p \in Proposals : order[p] # "none" => Consented(p)

(***************************************************************************)
(* The broker holds the quantity the row carries.  The executor reads the  *)
(* quantity once, long before it submits, while the dashboard can resize:  *)
(* no executor may be past its load while a resize is still possible.      *)
(***************************************************************************)
OrderHasApprovedSize ==
    \A p \in Proposals : order[p] # "none" => orderQty[p] = qty[p]

(***************************************************************************)
(* The audit trail accounts for the status: whatever the row says, an      *)
(* event that names the row and brings a row there is committed, for every *)
(* transition shares a transaction with its event.  One row alone the log  *)
(* cannot account for: the one the dashboard has resized and so approved,  *)
(* until its executor closes it, for edit_size names no proposal.          *)
(***************************************************************************)
Explanation(s) ==
    CASE s \in {"PENDING"}                -> {"proposal"}
      [] s \in {"APPROVED", "APPROVED_LIVE",
                "AWAITING_2ND_CHANNEL"}   -> {"approval"}
      [] s = "REJECTED"                   -> {"rejection"}
      [] s = "EXPIRED"                    -> {"expiration"}
      [] s = "FAILED"                     -> {"refusal"}
      [] s = "EXECUTING"                  -> {"order_submitted"}
      [] s = "FILLED"                     -> {"fill"}

AuditExplainsStatus ==
    \A p \in Proposals :
        Exists(p) => \/ trail[p] \cap Explanation(status[p]) # {}
                     \/ status[p] = "APPROVED" /\ Resized(p)

(***************************************************************************)
(* A row marked EXECUTING or FILLED has an order at the broker.            *)
(***************************************************************************)
ExecutingHasOrder ==
    \A p \in Proposals :
        status[p] \in {"EXECUTING", "FILLED"} => order[p] # "none"

(***************************************************************************)
(* An APPROVED row has an executor at work on it, as long as the process   *)
(* does not die and no submission or closing transaction is lost: nobody   *)
(* else would ever pick the row up.                                        *)
(***************************************************************************)
Working(p) == \E t \in Tasks : exec[t].prop = p
ApprovedIsOwned ==
    \A p \in Proposals : status[p] = "APPROVED" => Working(p)

(***************************************************************************)
(* The first live trade of a strategy takes two approvals, one on each     *)
(* channel, before an order goes out.                                      *)
(***************************************************************************)
FirstLiveTakesTwo ==
    \A p \in Proposals :
        (order[p] # "none" /\ mode[p] = "LIVE" /\ ~stamped) => approvals[p] >= 2

(***************************************************************************)
(* A proposal the operator or the clock turned down is never traded: no    *)
(* order at the broker and no executor that could still place one.         *)
(***************************************************************************)
TurnedDownNeverTrades ==
    \A p \in Proposals :
        status[p] \in {"REJECTED", "EXPIRED"} => order[p] = "none" /\ ~Working(p)

(***************************************************************************)
(* One approval dispatches one executor: never two at work on a proposal.  *)
(***************************************************************************)
OneExecutor ==
    \A t, u \in Tasks :
        (exec[t].prop = exec[u].prop /\ exec[t].prop # None) => t = u

(***************************************************************************)
(* A row marked FAILED, with "refusal" in the audit log, has an order at   *)
(* the broker in one case only: the broker has it and answered with an     *)
(* error.  No executor gives a proposal up while another has submitted it. *)
(***************************************************************************)
FailedOrderWasDenied ==
    \A p \in Proposals :
        status[p] = "FAILED" /\ order[p] # "none" => p \in denied

(***************************************************************************)
(* A row marked FAILED has no order at the broker, as its operator is told *)
(* ("Order placement failed").  False where the broker answers an order it *)
(* takes with an error: nothing looks the order up before the row is       *)
(* closed.                                                                 *)
(***************************************************************************)
FailedHasNoOrder ==
    \A p \in Proposals : status[p] = "FAILED" => order[p] = "none"

(***************************************************************************)
(* Past its gate the executor reports every outcome through an audit event *)
(* and lets no exception escape, says execute_proposal's docstring.  Two   *)
(* things do escape: a refusal of a live order, which STATE_TRANSITIONS    *)
(* has no edge for, and a submission or a closing transaction that is lost.*)
(***************************************************************************)
ExecutorNeverRaises == raised = {}

(***************************************************************************)
(* With one executor each, nothing escapes once the row says EXECUTING,    *)
(* and what does escape leaves the row where its approval put it: no half  *)
(* of a closing transaction survives, and no fill that comes later moves   *)
(* a row whose submission was never recorded.                              *)
(***************************************************************************)
EscapesLeaveTheRow ==
    \A p \in raised : status[p] \in {"APPROVED", "APPROVED_LIVE"}

(***************************************************************************)
(* A row only moves along STATE_TRANSITIONS, whoever moves it: the first   *)
(* decision committed on a row is the one that counts.                     *)
(***************************************************************************)
MovesAlongTable ==
    [][\A p \in Proposals :
          (Exists(p) /\ status'[p] # status[p])
             => <<status[p], status'[p]>> \in STATE_TRANSITIONS]_status

(***************************************************************************)
(* timeout = REJECT: a proposal past its expiry does not stay open.        *)
(***************************************************************************)
Open(p) == status[p] \in {"PENDING", "AWAITING_2ND_CHANNEL"}
OverdueIsClosed ==
    \A p \in Proposals : (due[p] /\ Open(p)) ~> ~Open(p)

(***************************************************************************)
(* An approved proposal is taken to the broker or failed, never forgotten. *)
(***************************************************************************)
ApprovedIsResolved ==
    \A p \in Proposals : (status[p] = "APPROVED") ~> (status[p] # "APPROVED")

(***************************************************************************)
(* A row whose order has been filled at the broker becomes FILLED.         *)
(***************************************************************************)
FilledIsRecorded ==
    \A p \in Proposals :
        (status[p] = "EXECUTING" /\ order[p] = "filled") ~> (status[p] = "FILLED")

(***************************************************************************)
(* The pipeline keeps the contract of ProposalContract: the row is the     *)
(* row, an order is placed once the broker has it and denied if the broker *)
(* has it and said otherwise.                                              *)
(***************************************************************************)
Contract == INSTANCE ProposalContract
                WITH placed <- [p \in Proposals |-> order[p] # "none"]
KeepsContract == Contract!Spec
=============================================================================
