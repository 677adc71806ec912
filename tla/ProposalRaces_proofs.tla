------------------------ MODULE ProposalRaces_proofs ------------------------
(***************************************************************************)
(* Proofs about ProposalLifecycle that depend on who is at work.  The      *)
(* properties here are false of the whole system; each theorem names the   *)
(* parties whose absence is enough, for every set of proposals and slots,  *)
(* every stream mode and every number of crashes.                          *)
(***************************************************************************)
EXTENDS ProposalLifecycle_proofs

-----------------------------------------------------------------------------
(* Who is at work. *)

\* Neither of the two that write a row they read outside the write lock
\* without being asked to by the operator.
NoOverwriters == Actors \cap {"sweep", "anomaly"} = {}

\* Approvals are given in one place only.
OneSurface ==
    \/ Actors \cap {"dashboard", "edit", "auto"} = {}
    \/ Actors \cap {"slack", "auto"} = {}
    \/ Actors \cap {"slack", "dashboard", "edit"} = {}

AutoAlone == "auto" \in Actors => Actors \cap {"slack", "dashboard", "edit"} = {}

OneTab == \A c, d \in Clients : c = d

-----------------------------------------------------------------------------
(* What the coroutines hold, whoever is at work. *)

Absent ==
    /\ "auto" \notin Actors => auto = [p \in Proposals |-> NoAuto]
    /\ "anomaly" \notin Actors => doomed = {}
    /\ "sweep" \notin Actors => sweepList = {} /\ sweepRow = NoRead

HeldRows ==
    /\ \A t \in Tasks : exec[t].pc = "idle" => exec[t].prop = None
    /\ \A t \in Tasks : exec[t].pc # "idle" => Left(exec[t].prop)
    /\ \A c \in Clients : confirm[c] # None => Left(confirm[c])
    /\ \A p \in Proposals : auto[p].pc # "off" => Exists(p)
    /\ \A p \in Proposals :
          auto[p].seen # None =>
             /\ auto[p].pc \in {"divert", "approve"}
             /\ \/ auto[p].seen = "PENDING"
                \/ auto[p].seen = AutoTarget(p) /\ Left(p)

TwoChannels ==
    /\ \A p \in Proposals :
          FirstLive(p) /\ (order[p] # "none" \/ Working(p)) => approvals[p] >= 2
    /\ \A p \in Proposals : status[p] = "AWAITING_2ND_CHANNEL" => approvals[p] >= 1
    /\ \A c \in Clients : confirm[c] # None => approvals[confirm[c]] >= 1
    /\ \A p \in Proposals : auto[p].pc = "approve" => ~FirstLive(p)

TurnedDown(p) == status[p] \in {"REJECTED", "EXPIRED"}

NeverTraded ==
    /\ TurnedDownNeverTrades
    /\ \A p \in Proposals :
          auto[p].pc = "approve" /\ auto[p].seen = "APPROVED" => ~TurnedDown(p)

OneAtWork ==
    /\ OneExecutor
    /\ \A p \in Proposals :
          Working(p) => /\ status[p] # "AWAITING_2ND_CHANNEL"
                        /\ \A c \in Clients : confirm[c] # p
                        /\ auto[p].pc = "off"
    /\ \A c \in Clients, p \in Proposals : confirm[c] = p => auto[p].pc = "off"
    /\ \A p \in Proposals :
          auto[p].pc # "off" => /\ status[p] \in {"PENDING", "REJECTED", "EXPIRED"}
                                /\ order[p] = "none"
    /\ \A p \in Proposals :
          status[p] = "APPROVED" /\ "slack" \in Actors
             => <<p, "approve_proposal", "slack">> \in claims

Unordered ==
    /\ \A t \in Tasks : exec[t].pc \in {"load", "gate"} => order[exec[t].prop] = "none"
    /\ \A c \in Clients, p \in Proposals :
          confirm[c] = p => order[p] = "none" /\ status[p] # "FAILED"
    /\ \A p \in Proposals : status[p] = "AWAITING_2ND_CHANNEL" => order[p] = "none"
    /\ FailedOrderWasDenied
    /\ \A p \in Proposals : status[p] = "FAILED" => ~Working(p)

Unraced ==
    /\ \A c \in Clients, p \in Proposals :
          confirm[c] = p => status[p] = "AWAITING_2ND_CHANNEL"
    /\ \A p \in Proposals : auto[p].pc # "off" => status[p] = "PENDING"
    /\ fill.seen = "EXECUTING" => status[fill.prop] \in {"EXECUTING", "FILLED"}

Orderly ==
    /\ \A t \in Tasks : exec[t].pc # "idle" => status[exec[t].prop] \in EntryStatuses
    /\ \A t \in Tasks : PastGate(t) => exec[t].entry = status[exec[t].prop]
    /\ \A t \in Tasks : exec[t].pc \in {"load", "gate"} => order[exec[t].prop] = "none"
    /\ \A t \in Tasks : exec[t].pc = "placed" => exec[t].prop \notin denied
    /\ \A p \in Proposals :
          order[p] # "none" =>
             \/ status[p] \in EntryStatuses
             \/ p \notin denied /\ status[p] \in {"EXECUTING", "FILLED"}
             \/ p \in denied /\ status[p] = "FAILED"
    /\ \A p \in denied : order[p] # "none"
    /\ \A p \in raised : status[p] \in EntryStatuses /\ ~Working(p)

OwnedByOneWhoFinishes ==
    \A p \in Proposals :
        status[p] = "APPROVED" =>
           \E t \in Tasks : /\ exec[t].prop = p
                            /\ exec[t].pc # "idle"
                            /\ exec[t].pc = "load" \/ exec[t].entry = "APPROVED"

-----------------------------------------------------------------------------
(* The steps, by what they do to rows and executors. *)

\* Nothing but the clock, the feed, the broker's progress on an order it has,
\* a dedup row, or what sweep and reflex list.
Quiet ==
    /\ UNCHANGED <<status, mode, stamped, approvals, denied, exec, confirm, auto, fill,
                   raised>>
    /\ order' = order \/ \E p \in Proposals : BrokerFill(p) \/ BrokerClose(p)
    /\ claims \subseteq claims'
    /\ \/ UNCHANGED <<sweepList, sweepRow, doomed>>
       \/ SweepStart \/ SweepCheck \/ AnomalyList

Click(p) ==
    \/ SlackApprove(p) \/ SlackReject(p)
    \/ "dashboard" \in Actors /\ (DashApproveNow(p) \/ DashRejectNow(p))
    \/ "edit" \in Actors /\ EditSubmitNow(p)

LEMMA StepCases ==
    ASSUME [Next]_vars
    PROVE  \/ Quiet
           \/ \E p \in Proposals : WriteProposal(p) \/ Click(p)
           \/ \E p \in Proposals : AutoGate(p) \/ AutoRead(p) \/ AutoWrite(p)
           \/ \E c \in Clients, p \in Proposals : ConfirmRead(c, p)
           \/ \E c \in Clients : ConfirmWrite(c)
           \/ SweepWrite \/ AnomalyReject
           \/ \E t \in Tasks : \/ ExecLoad(t) \/ ExecRefuse(t) \/ ExecPlace(t)
                               \/ ExecRecord(t) \/ ExecDenied(t) \/ ExecLost(t)
           \/ FillRead \/ FillWrite \/ FillStamp
           \/ Crash
<1> USE DEF Quiet, rowVars, auditVars, brokerVars, flowVars
<1>1. ASSUME NEW p \in Proposals, TimePasses(p) PROVE Quiet
  BY <1>1 DEF TimePasses
<1>2. ASSUME NEW p \in Proposals, BrokerFill(p) \/ BrokerClose(p) PROVE Quiet
  BY <1>2 DEF BrokerFill, BrokerClose
<1>3. ASSUME NEW p, NEW action, ClickTooLate(p, action) PROVE Quiet
  BY <1>3 DEF ClickTooLate, Claim
<1>4. CASE SweepStart \/ SweepCheck \/ AnomalyList
  BY <1>4 DEF SweepStart, SweepCheck, AnomalyList
<1>5. CASE FillDropped \/ UNCHANGED vars
  BY <1>5 DEF FillDropped, vars
<1>6. ASSUME NEW p \in Proposals,
             \/ SlackApprove(p) \/ SlackReject(p)
             \/ DashApprove(p) \/ DashReject(p) \/ EditSubmit(p)
      PROVE  Quiet \/ Click(p)
  BY <1>3, <1>6 DEF DashApprove, DashReject, EditSubmit, Click
<1> QED
  BY <1>1, <1>2, <1>4, <1>5, <1>6 DEF Next, Sweep, Executor, OnFill

\* A dispatch puts one idle slot to work on the proposal.
LEMMA DispatchWork ==
    ASSUME TasksTyped, \A t \in Tasks : exec[t].pc = "idle" => exec[t].prop = None,
           NEW p \in Proposals, Dispatch(p)
    PROVE  \E t \in Tasks :
              /\ exec[t].pc = "idle" /\ exec[t].prop = None
              /\ exec'[t] = [pc |-> "load", prop |-> p, entry |-> None, qty |-> None]
              /\ \A u \in Tasks \ {t} : exec'[u] = exec[u]
BY DEF Dispatch, TasksTyped

LEMMA FinishWork ==
    ASSUME TasksTyped, NEW t \in Tasks, Finish(t)
    PROVE  /\ exec'[t] = IdleTask
           /\ \A u \in Tasks \ {t} : exec'[u] = exec[u]
BY DEF Finish, TasksTyped

-----------------------------------------------------------------------------
(* Parties that are absent leave nothing behind, and nobody holds a row     *)
(* that is still PENDING.                                                  *)

LEMMA AbsentStep == Absent /\ [Next]_vars => Absent'
<1> SUFFICES ASSUME Absent, [Next]_vars PROVE Absent'
  OBVIOUS
<1> USE DEF Absent, brokerVars, flowVars
<1>1. CASE Quiet
  BY <1>1 DEF Quiet, SweepStart, SweepCheck, AnomalyList
<1>2. ASSUME NEW p \in Proposals, WriteProposal(p) \/ Click(p) PROVE Absent'
  BY <1>2 DEF WriteProposal, Click, SlackApprove, SlackReject, DashApproveNow,
              DashRejectNow, EditSubmitNow
<1>3. ASSUME NEW p \in Proposals, AutoGate(p) \/ AutoRead(p) \/ AutoWrite(p)
      PROVE  Absent'
  <2>1. "auto" \in Actors
    BY <1>3, ConstantsAssumption DEF AutoGate, AutoRead, AutoWrite, NoAuto
  <2> QED BY <1>3, <2>1 DEF AutoGate, AutoRead, AutoWrite
<1>4. ASSUME NEW c \in Clients, NEW p \in Proposals, ConfirmRead(c, p) PROVE Absent'
  BY <1>4 DEF ConfirmRead
<1>5. ASSUME NEW c \in Clients, ConfirmWrite(c) PROVE Absent'
  BY <1>5 DEF ConfirmWrite
<1>6. CASE SweepWrite \/ AnomalyReject
  BY <1>6 DEF SweepWrite, AnomalyReject
<1>7. ASSUME NEW t \in Tasks,
             \/ ExecLoad(t) \/ ExecRefuse(t) \/ ExecPlace(t)
             \/ ExecRecord(t) \/ ExecDenied(t) \/ ExecLost(t)
      PROVE  Absent'
  BY <1>7 DEF ExecLoad, ExecRefuse, ExecPlace, ExecRecord, ExecDenied, ExecLost, Settle
<1>8. CASE FillRead \/ FillWrite \/ FillStamp \/ Crash
  BY <1>8 DEF FillRead, FillWrite, FillStamp, Crash
<1> QED
  BY StepCases, <1>1, <1>2, <1>3, <1>4, <1>5, <1>6, <1>7, <1>8

LEMMA RowsStay ==
    ASSUME TypeOK, [Next]_vars, NEW p \in Proposals, Exists(p) PROVE Exists(p)'
<1> USE ConstantsAssumption
        DEF TypeOK, RowsTyped, Exists, rowVars, SetStatus, Statuses, StatusAfter
<1>1. CASE Quiet
  BY <1>1 DEF Quiet
<1>2. ASSUME NEW q \in Proposals, WriteProposal(q) \/ Click(q) PROVE Exists(p)'
  BY <1>2 DEF WriteProposal, Click, SlackApprove, SlackDivert, SlackApproveNow,
              SlackReject, DashApproveNow, DashRejectNow, EditSubmitNow
<1>3. ASSUME NEW q \in Proposals, AutoGate(q) \/ AutoRead(q) \/ AutoWrite(q)
      PROVE  Exists(p)'
  BY <1>3 DEF AutoGate, AutoRead, AutoWrite, AutoTarget
<1>4. ASSUME NEW c \in Clients, ConfirmWrite(c) \/ \E q \in Proposals : ConfirmRead(c, q)
      PROVE  Exists(p)'
  BY <1>4 DEF ConfirmRead, ConfirmWrite
<1>5. CASE SweepWrite \/ AnomalyReject
  BY <1>5 DEF SweepWrite, AnomalyReject
<1>6. ASSUME NEW t \in Tasks,
             \/ ExecLoad(t) \/ ExecRefuse(t) \/ ExecPlace(t)
             \/ ExecRecord(t) \/ ExecDenied(t) \/ ExecLost(t)
      PROVE  Exists(p)'
  BY <1>6 DEF ExecLoad, ExecRefuse, ExecPlace, ExecRecord, ExecDenied, ExecLost, Settle
<1>7. CASE FillRead \/ FillWrite \/ FillStamp \/ Crash
  BY <1>7 DEF FillRead, FillWrite, FillStamp, Crash
<1> QED
  BY StepCases, <1>1, <1>2, <1>3, <1>4, <1>5, <1>6, <1>7

\* Who approves, and what the row says then.
LEMMA ApproverLeaves ==
    ASSUME TypeOK, HeldRows, [Next]_vars, NEW p \in Proposals,
           \/ SlackApproveNow(p) \/ DashApproveNow(p) \/ EditSubmitNow(p)
           \/ AutoWrite(p)
    PROVE  Left(p)'
<1>1. Left(p) => Left(p)'
  BY LeftForGood
<1>2. CASE SlackApproveNow(p) \/ DashApproveNow(p) \/ EditSubmitNow(p)
  BY <1>2, ConstantsAssumption
     DEF SlackApproveNow, DashApproveNow, EditSubmitNow, SetStatus, Left, TypeOK,
         RowsTyped, Statuses
<1>3. CASE AutoWrite(p)
  <2>1. status'[p] = StatusAfter(status[p], auto[p].seen, AutoTarget(p))
    <3>1. SetStatus(p, StatusAfter(status[p], auto[p].seen, AutoTarget(p)))
      BY <1>3 DEF AutoWrite
    <3> QED BY <3>1 DEF SetStatus, TypeOK, RowsTyped
  <2>2. AutoTarget(p) \in {"APPROVED", "AWAITING_2ND_CHANNEL"}
    BY DEF AutoTarget
  <2>3. \/ auto[p].seen = "PENDING"
        \/ auto[p].seen = AutoTarget(p) /\ Left(p)
    <3>1. auto[p].seen # None
      BY <1>3 DEF AutoWrite
    <3> QED BY <3>1 DEF HeldRows
  <2>4. CASE auto[p].seen = "PENDING"
    BY <2>1, <2>2, <2>4, ConstantsAssumption DEF StatusAfter, Left, Statuses
  <2> QED BY <1>1, <2>3, <2>4
<1> QED BY <1>2, <1>3

LEMMA ConfirmLeaves ==
    ASSUME TypeOK, NEW c \in Clients, ConfirmWrite(c)
    PROVE  confirm[c] \in Proposals /\ status'[confirm[c]] \notin {None, "PENDING"}
<1>1. confirm[c] \in Proposals
  BY DEF ConfirmWrite, TypeOK, FlowsTyped
<1>2. SetStatus(confirm[c], "APPROVED_LIVE")
  BY DEF ConfirmWrite
<1>3. status'[confirm[c]] = "APPROVED_LIVE"
  BY <1>1, <1>2 DEF SetStatus, TypeOK, RowsTyped
<1> QED BY <1>1, <1>3, ConstantsAssumption DEF Statuses

\* How one slot can change.
LEMMA SlotCases ==
    ASSUME TypeOK, HeldRows, [Next]_vars, NEW t \in Tasks, exec'[t] # exec[t]
    PROVE  \/ /\ exec[t].pc = "idle" /\ exec[t].prop = None
              /\ \A u \in Tasks \ {t} : exec'[u] = exec[u]
              /\ \E p \in Proposals :
                    /\ exec'[t] = [pc |-> "load", prop |-> p, entry |-> None,
                                   qty |-> None]
                    /\ \/ SlackApprove(p) /\ SlackApproveNow(p)
                       \/ DashApproveNow(p) /\ "dashboard" \in Actors
                       \/ EditSubmitNow(p) /\ "edit" \in Actors
                       \/ AutoWrite(p) /\ auto[p].pc = "approve"
                       \/ \E c \in Clients : ConfirmWrite(c) /\ confirm[c] = p
           \/ /\ \A u \in Tasks \ {t} : exec'[u] = exec[u]
              /\ exec[t].pc # "idle"
              /\ \/ ExecLoad(t) \/ ExecRefuse(t) \/ ExecPlace(t)
                 \/ ExecRecord(t) \/ ExecDenied(t) \/ ExecLost(t)
           \/ Crash /\ exec'[t] = IdleTask
<1> DEFINE Put(p) ==
       \E v \in Tasks :
          /\ exec[v].pc = "idle" /\ exec[v].prop = None
          /\ exec'[v] = [pc |-> "load", prop |-> p, entry |-> None, qty |-> None]
          /\ \A u \in Tasks \ {v} : exec'[u] = exec[u]
<1>1. ASSUME NEW p \in Proposals, Dispatch(p)
      PROVE  /\ exec[t].pc = "idle" /\ exec[t].prop = None
             /\ exec'[t] = [pc |-> "load", prop |-> p, entry |-> None, qty |-> None]
             /\ \A u \in Tasks \ {t} : exec'[u] = exec[u]
  <2>1. Put(p)
    BY <1>1, DispatchWork DEF TypeOK, HeldRows
  <2> QED BY <2>1
<1>2. CASE Quiet
  BY <1>2 DEF Quiet
<1>3. ASSUME NEW p \in Proposals, WriteProposal(p) \/ Click(p)
      PROVE  /\ Dispatch(p)
             /\ \/ SlackApprove(p) /\ SlackApproveNow(p)
                \/ DashApproveNow(p) /\ "dashboard" \in Actors
                \/ EditSubmitNow(p) /\ "edit" \in Actors
  BY <1>3 DEF WriteProposal, Click, SlackApprove, SlackDivert, SlackApproveNow,
              SlackReject, DashApproveNow, DashRejectNow, EditSubmitNow
<1>4. ASSUME NEW p \in Proposals, AutoGate(p) \/ AutoRead(p) \/ AutoWrite(p)
      PROVE  Dispatch(p) /\ AutoWrite(p) /\ auto[p].pc = "approve"
  <2>1. AutoWrite(p) /\ auto[p].pc # "divert" /\ Dispatch(p)
    BY <1>4 DEF AutoGate, AutoRead, AutoWrite
  <2> QED BY <2>1 DEF AutoWrite, HeldRows
<1>5. ASSUME NEW c \in Clients, NEW p \in Proposals, ConfirmRead(c, p) PROVE FALSE
  BY <1>5 DEF ConfirmRead
<1>6. ASSUME NEW c \in Clients, ConfirmWrite(c)
      PROVE  confirm[c] \in Proposals /\ Dispatch(confirm[c])
  BY <1>6, ConfirmLeaves DEF ConfirmWrite
<1>7. CASE SweepWrite \/ AnomalyReject
  BY <1>7 DEF SweepWrite, AnomalyReject
<1>8. ASSUME NEW u \in Tasks,
             \/ ExecLoad(u) \/ ExecRefuse(u) \/ ExecPlace(u)
             \/ ExecRecord(u) \/ ExecDenied(u) \/ ExecLost(u)
      PROVE  /\ u = t /\ exec[t].pc # "idle"
             /\ \A v \in Tasks \ {t} : exec'[v] = exec[v]
  BY <1>8 DEF ExecLoad, ExecRefuse, ExecPlace, ExecRecord, ExecDenied, ExecLost, Settle, Finish,
              TypeOK, TasksTyped
<1>9. CASE FillRead \/ FillWrite \/ FillStamp
  BY <1>9 DEF FillRead, FillWrite, FillStamp
<1>10. CASE Crash
  BY <1>10 DEF Crash
<1> QED
  BY StepCases, <1>1, <1>2, <1>3, <1>4, <1>5, <1>6, <1>7, <1>8, <1>9, <1>10

\* How what a tab holds can change.
LEMMA TabCases ==
    ASSUME TypeOK, [Next]_vars, NEW c \in Clients, confirm'[c] # confirm[c]
    PROVE  \/ \E p \in Proposals : ConfirmRead(c, p) /\ confirm'[c] = p
           \/ ConfirmWrite(c) /\ confirm'[c] = None
           \/ Crash /\ confirm'[c] = None
<1> USE DEF flowVars, TypeOK, FlowsTyped
<1>1. ASSUME NEW d \in Clients, NEW p \in Proposals, ConfirmRead(d, p)
      PROVE  d = c /\ confirm'[c] = p
  BY <1>1 DEF ConfirmRead
<1>2. ASSUME NEW d \in Clients, ConfirmWrite(d) PROVE d = c /\ confirm'[c] = None
  BY <1>2 DEF ConfirmWrite
<1>3. CASE Quiet
  BY <1>3 DEF Quiet
<1>4. ASSUME NEW p \in Proposals,
             WriteProposal(p) \/ Click(p) \/ AutoGate(p) \/ AutoRead(p) \/ AutoWrite(p)
      PROVE  FALSE
  BY <1>4 DEF WriteProposal, Click, SlackApprove, SlackReject, DashApproveNow,
              DashRejectNow, EditSubmitNow, AutoGate, AutoRead, AutoWrite
<1>5. CASE SweepWrite \/ AnomalyReject \/ FillRead \/ FillWrite \/ FillStamp
  BY <1>5 DEF SweepWrite, AnomalyReject, FillRead, FillWrite, FillStamp
<1>6. ASSUME NEW t \in Tasks,
             \/ ExecLoad(t) \/ ExecRefuse(t) \/ ExecPlace(t)
             \/ ExecRecord(t) \/ ExecDenied(t) \/ ExecLost(t)
      PROVE  FALSE
  BY <1>6 DEF ExecLoad, ExecRefuse, ExecPlace, ExecRecord, ExecDenied, ExecLost, Settle
<1>7. CASE Crash
  BY <1>7 DEF Crash
<1> QED BY StepCases, <1>1, <1>2, <1>3, <1>4, <1>5, <1>6, <1>7

\* How an auto branch can change.
LEMMA BranchCases ==
    ASSUME TypeOK, [Next]_vars, NEW p \in Proposals, auto'[p] # auto[p]
    PROVE  \/ WriteProposal(p) /\ "auto" \in Actors /\ auto'[p] = [auto[p] EXCEPT !.pc = "gate"]
           \/ AutoGate(p) \/ AutoRead(p)
           \/ AutoWrite(p) /\ auto'[p] = NoAuto
           \/ Crash /\ auto'[p] = NoAuto
<1> USE DEF flowVars, TypeOK, FlowsTyped
<1>1. ASSUME NEW q \in Proposals, WriteProposal(q)
      PROVE  q = p /\ "auto" \in Actors /\ auto'[p] = [auto[p] EXCEPT !.pc = "gate"]
  BY <1>1 DEF WriteProposal
<1>2. ASSUME NEW q \in Proposals, AutoGate(q) \/ AutoRead(q) PROVE q = p
  BY <1>2 DEF AutoGate, AutoRead
<1>3. ASSUME NEW q \in Proposals, AutoWrite(q) PROVE q = p /\ auto'[p] = NoAuto
  BY <1>3 DEF AutoWrite
<1>4. CASE Quiet
  BY <1>4 DEF Quiet
<1>5. ASSUME NEW q \in Proposals, Click(q) \/ \E c \in Clients : ConfirmRead(c, q)
      PROVE  FALSE
  BY <1>5 DEF Click, SlackApprove, SlackReject, DashApproveNow, DashRejectNow,
              EditSubmitNow, ConfirmRead
<1>6. ASSUME NEW c \in Clients, ConfirmWrite(c) PROVE FALSE
  BY <1>6 DEF ConfirmWrite
<1>7. CASE SweepWrite \/ AnomalyReject \/ FillRead \/ FillWrite \/ FillStamp
  BY <1>7 DEF SweepWrite, AnomalyReject, FillRead, FillWrite, FillStamp
<1>8. ASSUME NEW t \in Tasks,
             \/ ExecLoad(t) \/ ExecRefuse(t) \/ ExecPlace(t)
             \/ ExecRecord(t) \/ ExecDenied(t) \/ ExecLost(t)
      PROVE  FALSE
  BY <1>8 DEF ExecLoad, ExecRefuse, ExecPlace, ExecRecord, ExecDenied, ExecLost, Settle
<1>9. CASE Crash
  BY <1>9 DEF Crash
<1> QED BY StepCases, <1>1, <1>2, <1>3, <1>4, <1>5, <1>6, <1>7, <1>8, <1>9

LEMMA HeldStep == TypeOK /\ HeldRows /\ [Next]_vars => HeldRows'
<1> SUFFICES ASSUME TypeOK, HeldRows, [Next]_vars PROVE HeldRows'
  OBVIOUS
<1>1. ASSUME NEW p \in Proposals PROVE (Left(p) => Left(p)') /\ (Exists(p) => Exists(p)')
  BY <1>1, LeftForGood, RowsStay
<1>2. ASSUME NEW t \in Tasks
      PROVE  /\ exec'[t].pc = "idle" => exec'[t].prop = None
             /\ exec'[t].pc # "idle" => status'[exec'[t].prop] \notin {None, "PENDING"}
  <2> DEFINE Kept == /\ exec'[t].pc = "idle" => exec'[t].prop = None
                     /\ exec'[t].pc # "idle" =>
                           status'[exec'[t].prop] \notin {None, "PENDING"}
  <2>1. /\ exec[t].pc = "idle" => exec[t].prop = None
        /\ exec[t].pc # "idle" => exec[t].prop \in Proposals
                                   /\ status'[exec[t].prop] \notin {None, "PENDING"}
    <3>1. exec[t].pc # "idle" => exec[t].prop \in Proposals /\ Left(exec[t].prop)
      BY DEF TypeOK, TasksTyped, HeldRows
    <3> QED BY <1>1, <3>1 DEF HeldRows, Left
  <2>2. CASE exec'[t] = exec[t]
    BY <2>1, <2>2
  <2>3. ASSUME NEW p \in Proposals,
               exec'[t] = [pc |-> "load", prop |-> p, entry |-> None, qty |-> None],
               \/ SlackApproveNow(p) \/ DashApproveNow(p) \/ EditSubmitNow(p)
               \/ AutoWrite(p)
               \/ \E c \in Clients : ConfirmWrite(c) /\ confirm[c] = p
        PROVE  Kept
    BY <2>3, ApproverLeaves, ConfirmLeaves DEF Left
  <2>4. CASE \/ ExecLoad(t) \/ ExecRefuse(t) \/ ExecPlace(t)
             \/ ExecRecord(t) \/ ExecDenied(t) \/ ExecLost(t)
    <3>1. \/ exec'[t].pc = "idle" /\ exec'[t].prop = None
          \/ exec[t].pc # "idle" /\ exec'[t].pc # "idle" /\ exec'[t].prop = exec[t].prop
      BY <2>4 DEF ExecLoad, ExecRefuse, ExecPlace, ExecRecord, ExecDenied, ExecLost, Settle, Finish,
                  IdleTask, TypeOK, TasksTyped, TaskStates
    <3> QED BY <2>1, <3>1
  <2>5. CASE exec'[t] = IdleTask
    BY <2>5 DEF IdleTask
  <2> QED BY <2>2, <2>3, <2>4, <2>5, SlotCases
<1>3. ASSUME NEW c \in Clients, confirm'[c] # None
      PROVE  status'[confirm'[c]] \notin {None, "PENDING"}
  <2>1. CASE confirm'[c] = confirm[c]
    BY <1>1, <1>3, <2>1 DEF HeldRows, Left, TypeOK, FlowsTyped
  <2>2. ASSUME NEW p \in Proposals, ConfirmRead(c, p), confirm'[c] = p
        PROVE  status'[confirm'[c]] \notin {None, "PENDING"}
    BY <2>2, ConstantsAssumption DEF ConfirmRead, rowVars, Statuses
  <2> QED BY <1>3, <2>1, <2>2, TabCases
<1>4. ASSUME NEW p \in Proposals
      PROVE  /\ auto'[p].pc # "off" => Exists(p)'
             /\ auto'[p].seen # None =>
                   /\ auto'[p].pc \in {"divert", "approve"}
                   /\ \/ auto'[p].seen = "PENDING"
                      \/ auto'[p].seen = AutoTarget(p)' /\ Left(p)'
  <2> DEFINE Kept ==
        /\ auto'[p].pc # "off" => Exists(p)'
        /\ auto'[p].seen # None =>
              /\ auto'[p].pc \in {"divert", "approve"}
              /\ \/ auto'[p].seen = "PENDING"
                 \/ auto'[p].seen = AutoTarget(p)' /\ Left(p)'
  <2>1. CASE auto'[p] = auto[p]
    BY <1>1, <2>1 DEF HeldRows, AutoTarget
  <2>2. CASE WriteProposal(p) /\ auto'[p] = [auto[p] EXCEPT !.pc = "gate"]
    <3>1. auto[p].pc = "off" /\ status'[p] = "PENDING"
      BY <2>2 DEF WriteProposal, SetStatus, HeldRows, TypeOK, RowsTyped, FlowsTyped
    <3>2. auto[p].seen = None
      BY <3>1 DEF HeldRows
    <3>3. auto'[p].seen = None /\ "PENDING" # None
      BY <2>2, <3>2, ConstantsAssumption DEF Statuses, TypeOK, FlowsTyped
    <3> QED BY <3>1, <3>3 DEF Exists
  <2>3. CASE AutoGate(p)
    <3>1. auto[p].pc = "gate" /\ auto'[p].seen = auto[p].seen
      BY <2>3 DEF AutoGate, TypeOK, FlowsTyped
    <3>2. auto[p].seen = None /\ Exists(p)
      BY <3>1 DEF HeldRows
    <3> QED BY <1>1, <3>1, <3>2
  <2>4. CASE AutoRead(p)
    <3>1. auto[p].pc \in {"divert", "approve"} /\ Exists(p)'
      BY <1>1, <2>4 DEF AutoRead, HeldRows
    <3>2. CASE auto'[p] = NoAuto
      BY <3>2 DEF NoAuto
    <3>3. CASE /\ TransitionAllowed(status[p], "PENDING", AutoTarget(p))
               /\ auto'[p] = [auto[p] EXCEPT !.seen = status[p]]
      <4>1. auto'[p].pc = auto[p].pc /\ auto'[p].seen = status[p]
        BY <3>3 DEF TypeOK, FlowsTyped
      <4>2. status[p] = "PENDING" \/ status[p] = AutoTarget(p)
        BY <3>3 DEF TransitionAllowed
      <4>3. AutoTarget(p) \in {"APPROVED", "AWAITING_2ND_CHANNEL"}
        BY DEF AutoTarget
      <4>4. status[p] = AutoTarget(p) => Left(p)
        BY <4>3, ConstantsAssumption DEF Left, Statuses
      <4> QED BY <1>1, <3>1, <4>1, <4>2, <4>4 DEF AutoTarget
    <3> QED BY <2>4, <3>2, <3>3 DEF AutoRead, TypeOK, FlowsTyped
  <2>5. CASE auto'[p] = NoAuto
    BY <2>5 DEF NoAuto
  <2> QED BY <2>1, <2>2, <2>3, <2>4, <2>5, BranchCases
<1> QED BY <1>2, <1>3, <1>4 DEF HeldRows, Left, Exists

\* How one row can change.
LEMMA RowCases ==
    ASSUME TypeOK, HeldRows, [Next]_vars, NEW p \in Proposals, status'[p] # status[p]
    PROVE  \/ WriteProposal(p) /\ status[p] = None /\ status'[p] = "PENDING"
           \/ /\ Click(p) /\ status[p] = "PENDING"
              /\ status'[p] \in {"APPROVED", "REJECTED", "AWAITING_2ND_CHANNEL"}
           \/ /\ AutoWrite(p) /\ auto[p].seen = "PENDING"
              /\ status'[p] = AutoTarget(p)
           \/ \E c \in Clients : /\ ConfirmWrite(c) /\ confirm[c] = p
                                 /\ status'[p] = "APPROVED_LIVE"
           \/ SweepWrite /\ sweepRow.prop = p /\ status'[p] = "EXPIRED"
           \/ AnomalyReject /\ p \in doomed /\ status'[p] = "REJECTED"
           \/ \E t \in Tasks : /\ exec[t].prop = p /\ exec[t].pc # "idle"
                               /\ \/ ExecRefuse(t) /\ status'[p] = "FAILED"
                                  \/ ExecRecord(t) /\ status'[p] = "EXECUTING"
                               /\ TransitionAllowed(status[p], exec[t].entry, status'[p])
           \/ /\ FillWrite /\ fill.prop = p /\ fill.seen = "EXECUTING"
              /\ status'[p] = "FILLED"
<1> USE DEF TypeOK, RowsTyped, rowVars, SetStatus
<1>1. CASE Quiet
  BY <1>1 DEF Quiet
<1>2. ASSUME NEW q \in Proposals, WriteProposal(q)
      PROVE  q = p /\ status[p] = None /\ status'[p] = "PENDING"
  BY <1>2 DEF WriteProposal, Exists
<1>3. ASSUME NEW q \in Proposals, Click(q)
      PROVE  /\ q = p /\ status[p] = "PENDING"
             /\ status'[p] \in {"APPROVED", "REJECTED", "AWAITING_2ND_CHANNEL"}
  BY <1>3 DEF Click, SlackApprove, SlackDivert, SlackApproveNow, SlackReject,
              DashApproveNow, DashRejectNow, EditSubmitNow, TransitionAllowed
<1>4. ASSUME NEW q \in Proposals, AutoGate(q) \/ AutoRead(q) \/ AutoWrite(q)
      PROVE  /\ q = p /\ AutoWrite(p) /\ auto[p].seen = "PENDING"
             /\ status'[p] = AutoTarget(p)
  <2>1. AutoWrite(q) /\ status' = [status EXCEPT ![q] =
                                     StatusAfter(status[q], auto[q].seen, AutoTarget(q))]
    BY <1>4 DEF AutoGate, AutoRead, AutoWrite
  <2>2. /\ q = p /\ auto[p].seen # AutoTarget(p) /\ auto[p].seen # None
        /\ status'[p] = AutoTarget(p)
    BY <2>1 DEF StatusAfter, AutoWrite
  <2> QED BY <2>1, <2>2 DEF HeldRows
<1>5. ASSUME NEW c \in Clients, NEW q \in Proposals, ConfirmRead(c, q) PROVE FALSE
  BY <1>5 DEF ConfirmRead
<1>6. ASSUME NEW c \in Clients, ConfirmWrite(c)
      PROVE  confirm[c] = p /\ status'[p] = "APPROVED_LIVE"
  BY <1>6 DEF ConfirmWrite
<1>7. CASE SweepWrite
  BY <1>7 DEF SweepWrite, StatusAfter
<1>8. CASE AnomalyReject
  BY <1>8 DEF AnomalyReject
<1>9. ASSUME NEW t \in Tasks, ExecLoad(t) \/ ExecPlace(t) \/ ExecDenied(t) \/ ExecLost(t)
      PROVE  FALSE
  BY <1>9 DEF ExecLoad, ExecPlace, ExecDenied, ExecLost
<1>10. ASSUME NEW t \in Tasks, ExecRefuse(t)
       PROVE  /\ exec[t].prop = p /\ exec[t].pc # "idle" /\ status'[p] = "FAILED"
              /\ TransitionAllowed(status[p], exec[t].entry, status'[p])
  BY <1>10 DEF ExecRefuse, Settle
<1>11. ASSUME NEW t \in Tasks, ExecRecord(t)
       PROVE  /\ exec[t].prop = p /\ exec[t].pc # "idle" /\ status'[p] = "EXECUTING"
              /\ TransitionAllowed(status[p], exec[t].entry, status'[p])
  BY <1>11 DEF ExecRecord, Settle
<1>12. CASE FillWrite
  BY <1>12 DEF FillWrite
<1>13. CASE FillRead \/ FillStamp \/ Crash
  BY <1>13 DEF FillRead, FillStamp, Crash
<1> QED
  BY StepCases, <1>1, <1>2, <1>3, <1>4, <1>5, <1>6, <1>7, <1>8, <1>9, <1>10, <1>11,
     <1>12, <1>13

\* Who puts a new executor to work on a proposal.
LEMMA WorkCases ==
    ASSUME TypeOK, HeldRows, [Next]_vars, NEW p \in Proposals, Working(p)', ~Working(p)
    PROVE  \/ SlackApproveNow(p) /\ SlackApprove(p)
           \/ DashApproveNow(p) /\ "dashboard" \in Actors
           \/ EditSubmitNow(p) /\ "edit" \in Actors
           \/ AutoWrite(p) /\ auto[p].pc = "approve"
           \/ \E c \in Clients : ConfirmWrite(c) /\ confirm[c] = p
<1>1. PICK t \in Tasks : exec'[t].prop = p
  BY DEF Working
<1>2. exec[t].prop # p
  BY DEF Working
<1>3. ~Crash \/ exec'[t] # IdleTask
  BY <1>1, ConstantsAssumption DEF IdleTask
<1>4. ASSUME \/ ExecLoad(t) \/ ExecRefuse(t) \/ ExecPlace(t)
             \/ ExecRecord(t) \/ ExecDenied(t) \/ ExecLost(t)
      PROVE  FALSE
  BY <1>1, <1>2, <1>4, ConstantsAssumption
     DEF ExecLoad, ExecRefuse, ExecPlace, ExecRecord, ExecDenied, ExecLost, Settle, Finish,
         IdleTask, TypeOK, TasksTyped, TaskStates
<1>5. exec'[t] # exec[t]
  BY <1>1, <1>2
<1>6. ASSUME NEW q \in Proposals,
             exec'[t] = [pc |-> "load", prop |-> q, entry |-> None, qty |-> None]
      PROVE  q = p
  BY <1>1, <1>6
<1> QED BY <1>3, <1>4, <1>5, <1>6, SlotCases

-----------------------------------------------------------------------------
(* The first live trade.                                                   *)

\* An approval counts one more, and no step counts one less.
LEMMA OneMore ==
    ASSUME TypeOK, NEW p \in Proposals, NEW evs, RecordApproval(p, evs)
    PROVE  \A q \in Proposals :
              approvals'[q] = IF q = p THEN approvals[q] + 1 ELSE approvals[q]
BY DEF RecordApproval, TypeOK, AuditTyped

LEMMA ApprovalsGrow ==
    ASSUME TypeOK, [Next]_vars, NEW p \in Proposals
    PROVE  approvals'[p] \in Nat /\ approvals'[p] >= approvals[p]
<1>1. approvals[p] \in Nat
  BY DEF TypeOK, AuditTyped
<1> SUFFICES approvals'[p] = approvals[p] \/ approvals'[p] = approvals[p] + 1
  BY <1>1
<1> USE DEF auditVars
<1>2. CASE Quiet
  BY <1>2 DEF Quiet
<1>3. ASSUME NEW q \in Proposals, NEW evs, RecordApproval(q, evs)
      PROVE  approvals'[p] = approvals[p] \/ approvals'[p] = approvals[p] + 1
  BY <1>3, OneMore
<1>4. ASSUME NEW q \in Proposals,
             \/ WriteProposal(q) \/ Click(q) \/ AutoGate(q) \/ AutoRead(q)
             \/ AutoWrite(q) \/ \E c \in Clients : ConfirmRead(c, q)
      PROVE  approvals' = approvals \/ \E evs : RecordApproval(q, evs)
  BY <1>4 DEF WriteProposal, Click, SlackApprove, SlackReject, DashApproveNow,
              DashRejectNow, EditSubmitNow, AutoGate, AutoRead, AutoWrite, ConfirmRead
<1>5. ASSUME NEW c \in Clients, ConfirmWrite(c)
      PROVE  confirm[c] \in Proposals /\ RecordApproval(confirm[c], {})
  BY <1>5, ConfirmLeaves DEF ConfirmWrite
<1>6. CASE SweepWrite \/ AnomalyReject \/ FillRead \/ FillWrite \/ FillStamp \/ Crash
  BY <1>6 DEF SweepWrite, AnomalyReject, FillRead, FillWrite, FillStamp, Crash
<1>7. ASSUME NEW t \in Tasks,
             \/ ExecLoad(t) \/ ExecRefuse(t) \/ ExecPlace(t)
             \/ ExecRecord(t) \/ ExecDenied(t) \/ ExecLost(t)
      PROVE  approvals' = approvals
  BY <1>7 DEF ExecLoad, ExecRefuse, ExecPlace, ExecRecord, ExecDenied, ExecLost, Settle
<1> QED BY StepCases, <1>2, <1>3, <1>4, <1>5, <1>6, <1>7

\* A row that is not the first live trade does not become it.
LEMMA FirstLiveBefore ==
    ASSUME TypeOK, [Next]_vars, NEW p \in Proposals, Exists(p), FirstLive(p)'
    PROVE  FirstLive(p)
<1> SUFFICES mode'[p] = mode[p] /\ (stamped => stamped')
  BY DEF FirstLive
<1> USE DEF rowVars
<1>1. CASE Quiet
  BY <1>1 DEF Quiet
<1>2. ASSUME NEW q \in Proposals, WriteProposal(q)
      PROVE  mode'[p] = mode[p] /\ stamped' = stamped
  BY <1>2 DEF WriteProposal, TypeOK, RowsTyped
<1>3. ASSUME NEW q \in Proposals,
             \/ Click(q) \/ AutoGate(q) \/ AutoRead(q) \/ AutoWrite(q)
             \/ \E c \in Clients : ConfirmRead(c, q)
      PROVE  UNCHANGED <<mode, stamped>>
  BY <1>3 DEF Click, SlackApprove, SlackReject, DashApproveNow, DashRejectNow,
              EditSubmitNow, AutoGate, AutoRead, AutoWrite, ConfirmRead
<1>4. ASSUME NEW c \in Clients, ConfirmWrite(c) PROVE UNCHANGED <<mode, stamped>>
  BY <1>4 DEF ConfirmWrite
<1>5. CASE SweepWrite \/ AnomalyReject \/ FillRead \/ FillWrite \/ FillStamp \/ Crash
  BY <1>5 DEF SweepWrite, AnomalyReject, FillRead, FillWrite, FillStamp, Crash
<1>6. ASSUME NEW t \in Tasks,
             \/ ExecLoad(t) \/ ExecRefuse(t) \/ ExecPlace(t)
             \/ ExecRecord(t) \/ ExecDenied(t) \/ ExecLost(t)
      PROVE  UNCHANGED <<mode, stamped>>
  BY <1>6 DEF ExecLoad, ExecRefuse, ExecPlace, ExecRecord, ExecDenied, ExecLost, Settle
<1> QED BY StepCases, <1>1, <1>2, <1>3, <1>4, <1>5, <1>6

\* A proposal at work or ordered is one whose row exists.
LEMMA AtWorkExists ==
    ASSUME IInv, HeldRows, NEW p \in Proposals, order[p] # "none" \/ Working(p)
    PROVE  Left(p) /\ Exists(p)
<1>1. ASSUME NEW t \in Tasks, exec[t].prop = p PROVE Left(p)
  BY <1>1, ConstantsAssumption DEF HeldRows
<1>2. Left(p)
  BY <1>1 DEF IInv, OrdersConsented, Working
<1> QED BY <1>2 DEF Left, Exists

\* An order is for a proposal that somebody works on.
LEMMA OrderIsWorked ==
    ASSUME IInv, [Next]_vars, NEW p \in Proposals, order'[p] # "none"
    PROVE  order[p] # "none" \/ Working(p)
BY OrderOrigin DEF IInv, Working

LEMMA TwoChannelsStep ==
    ASSUME Actors \cap {"dashboard", "edit"} = {}, IInv, HeldRows, TwoChannels, [Next]_vars
    PROVE  TwoChannels'
<1> USE DEF IInv
<1>1. \A p \in Proposals : approvals[p] \in Nat
  BY DEF TypeOK, AuditTyped
<1>2. \A p \in Proposals : approvals'[p] \in Nat /\ approvals'[p] >= approvals[p]
  BY ApprovalsGrow
<1>3. ASSUME NEW p \in Proposals, NEW n \in Nat, approvals[p] >= n
      PROVE  approvals'[p] >= n
  BY ONLY <1>1, <1>2, <1>3
<1>4. ASSUME NEW p \in Proposals, FirstLive(p)', order'[p] # "none" \/ Working(p)'
      PROVE  approvals'[p] >= 2
  <2>1. CASE order[p] # "none" \/ Working(p)
    <3>1. FirstLive(p)
      BY <1>4, <2>1, AtWorkExists, FirstLiveBefore
    <3>2. approvals[p] >= 2
      BY <2>1, <3>1 DEF TwoChannels
    <3> QED BY <1>3, <3>2
  <2>2. CASE ~Working(p) /\ Working(p)'
    <3>1. ASSUME SlackApproveNow(p) /\ SlackApprove(p) PROVE FALSE
      BY <1>4, <3>1 DEF SlackApproveNow, SlackApprove, FirstLive
    <3>2. ASSUME AutoWrite(p), auto[p].pc = "approve" PROVE FALSE
      BY <1>4, <3>2 DEF AutoWrite, TwoChannels, FirstLive
    <3>3. ASSUME NEW c \in Clients, ConfirmWrite(c), confirm[c] = p
          PROVE  approvals'[p] >= 2
      <4>1. approvals[p] >= 1
        BY <3>3, ConstantsAssumption DEF TwoChannels
      <4>2. approvals'[p] = approvals[p] + 1
        BY <3>3, OneMore DEF ConfirmWrite
      <4> QED BY ONLY <1>1, <4>1, <4>2
    <3> QED BY <2>2, <3>1, <3>2, <3>3, WorkCases
  <2> QED BY <1>4, <2>1, <2>2, OrderIsWorked
<1>5. ASSUME NEW p \in Proposals, status'[p] = "AWAITING_2ND_CHANNEL"
      PROVE  approvals'[p] >= 1
  <2>1. CASE status'[p] = status[p]
    <3>1. approvals[p] >= 1
      BY <1>5, <2>1 DEF TwoChannels
    <3> QED BY <1>3, <3>1
  <2>2. CASE status'[p] # status[p]
    <3>1. Click(p) \/ AutoWrite(p)
      BY <1>5, <2>2, RowCases
    <3>2. \E evs : RecordApproval(p, evs)
      BY <1>5, <2>2, <3>1
         DEF Click, SlackApprove, SlackReject, DashApproveNow, DashRejectNow,
             EditSubmitNow, AutoWrite, SetStatus, TypeOK, RowsTyped
    <3>3. approvals'[p] = approvals[p] + 1
      BY <3>2, OneMore
    <3> QED BY ONLY <1>1, <3>3
  <2> QED BY <2>1, <2>2
<1>6. ASSUME NEW c \in Clients, confirm'[c] # None
      PROVE  approvals'[confirm'[c]] >= 1
  <2>1. CASE confirm'[c] = confirm[c]
    <3>1. confirm[c] \in Proposals /\ approvals[confirm[c]] >= 1
      BY <1>6, <2>1 DEF TypeOK, FlowsTyped, TwoChannels
    <3> QED BY <1>3, <2>1, <3>1
  <2>2. ASSUME NEW p \in Proposals, ConfirmRead(c, p), confirm'[c] = p
        PROVE  approvals'[confirm'[c]] >= 1
    <3>1. approvals[p] >= 1
      BY <2>2 DEF ConfirmRead, TwoChannels
    <3> QED BY <1>3, <2>2, <3>1
  <2> QED BY <1>6, <2>1, <2>2, TabCases
<1>7. ASSUME NEW p \in Proposals, auto'[p].pc = "approve" PROVE ~FirstLive(p)'
  <2>1. CASE auto[p].pc = "approve"
    <3>1. ~FirstLive(p) /\ Exists(p)
      BY <2>1 DEF TwoChannels, HeldRows
    <3> QED BY <3>1, FirstLiveBefore
  <2>2. CASE AutoGate(p)
    <3>1. ~FirstLive(p) /\ UNCHANGED <<mode, stamped>>
      BY <1>7, <2>2 DEF AutoGate, rowVars, TypeOK, FlowsTyped
    <3> QED BY <3>1 DEF FirstLive
  <2>3. CASE WriteProposal(p) /\ auto'[p] = [auto[p] EXCEPT !.pc = "gate"]
    BY <1>7, <2>3 DEF TypeOK, FlowsTyped
  <2>4. CASE AutoRead(p)
    BY <1>7, <2>1, <2>4 DEF AutoRead, NoAuto, TypeOK, FlowsTyped
  <2> QED BY <1>7, <2>1, <2>2, <2>3, <2>4, BranchCases DEF NoAuto
<1> QED BY <1>4, <1>5, <1>6, <1>7 DEF TwoChannels

-----------------------------------------------------------------------------
(* The theorems, weakest absence first. *)

Known == IInv /\ Absent /\ HeldRows

LEMMA KnownHolds == Spec => []Known
<1>1. Init => Absent /\ HeldRows
  <2> SUFFICES ASSUME Init PROVE Absent /\ HeldRows
    OBVIOUS
  <2>1. Absent
    BY DEF Init, Absent
  <2>2. HeldRows
    BY DEF Init, HeldRows, IdleTask, NoAuto
  <2> QED BY <2>1, <2>2
<1>2. IInv /\ Absent /\ HeldRows /\ [Next]_vars => Absent' /\ HeldRows'
  BY AbsentStep, HeldStep DEF IInv
<1> QED BY InvariantHolds, <1>1, <1>2, PTL DEF Spec, Known

(***************************************************************************)
(* Without the dashboard's approve and resize buttons, the first live      *)
(* trade of a strategy takes two approvals, whatever tabs, sweeps,         *)
(* reflexes, auto branches, crashes and lost calls do: those buttons are   *)
(* the only hole in the two-channel rule.                                  *)
(***************************************************************************)
THEOREM FirstLiveNeedsBoth ==
    ASSUME Actors \cap {"dashboard", "edit"} = {}
    PROVE  Spec => []FirstLiveTakesTwo
<1>1. Init => TwoChannels
  <2> SUFFICES ASSUME Init PROVE TwoChannels
    OBVIOUS
  <2>1. \A p \in Proposals : order[p] = "none" /\ ~Working(p)
    BY ConstantsAssumption DEF Init, Working, IdleTask
  <2> QED BY <2>1, ConstantsAssumption DEF Init, TwoChannels, NoAuto, Statuses
<1>2. Known /\ TwoChannels /\ [Next]_vars => TwoChannels'
  BY TwoChannelsStep DEF Known
<1>3. TwoChannels => FirstLiveTakesTwo
  BY DEF TwoChannels, FirstLiveTakesTwo, FirstLive
<1> QED BY KnownHolds, <1>1, <1>2, <1>3, PTL DEF Spec

-----------------------------------------------------------------------------
(* What is turned down. *)

LEMMA NobodyOverwrites ==
    ASSUME NoOverwriters, Absent PROVE doomed = {} /\ sweepRow = NoRead
BY DEF NoOverwriters, Absent

\* With nobody to overwrite them, a row is turned down while it is PENDING.
LEMMA TurnedDownFromPending ==
    ASSUME NoOverwriters, Known, [Next]_vars, NEW p \in Proposals,
           TurnedDown(p)', status'[p] # status[p]
    PROVE  status[p] = "PENDING"
<1>1. status'[p] \in {"REJECTED", "EXPIRED"}
  BY DEF TurnedDown
<1>2. ~SweepWrite /\ ~AnomalyReject
  BY NobodyOverwrites DEF SweepWrite, AnomalyReject, Known
<1>3. AutoTarget(p) \in {"APPROVED", "AWAITING_2ND_CHANNEL"}
  BY DEF AutoTarget
<1> QED BY <1>1, <1>2, <1>3, RowCases DEF Known, IInv

LEMMA NeverTradedStep ==
    ASSUME NoOverwriters, Known, NeverTraded, [Next]_vars
    PROVE  NeverTraded'
<1> USE DEF Known, IInv
<1>1. ASSUME NEW p \in Proposals, TurnedDown(p)'
      PROVE  order'[p] = "none" /\ ~Working(p)'
  <2>1. order[p] = "none" /\ ~Working(p)
    <3>1. CASE status'[p] = status[p]
      BY <1>1, <3>1 DEF TurnedDown, NeverTraded, TurnedDownNeverTrades
    <3>2. CASE status'[p] # status[p]
      <4>1. ~Left(p)
        BY <1>1, <3>2, TurnedDownFromPending DEF Left
      <4> QED BY <4>1, AtWorkExists
    <3> QED BY <3>1, <3>2
  <2>2. ASSUME NEW to, SetStatus(p, to) PROVE status'[p] = to
    BY <2>2 DEF SetStatus, TypeOK, RowsTyped
  <2>3. ASSUME \/ SlackApproveNow(p) \/ DashApproveNow(p) \/ EditSubmitNow(p)
               \/ \E c \in Clients : ConfirmWrite(c) /\ confirm[c] = p
        PROVE  FALSE
    <3>1. SetStatus(p, "APPROVED") \/ SetStatus(p, "APPROVED_LIVE")
      BY <2>3 DEF SlackApproveNow, DashApproveNow, EditSubmitNow, ConfirmWrite
    <3> QED BY <1>1, <2>2, <3>1 DEF TurnedDown
  <2>4. ASSUME AutoWrite(p), auto[p].pc = "approve" PROVE FALSE
    <3>1. /\ AutoTarget(p) = "APPROVED" /\ auto[p].seen # None
          /\ SetStatus(p, StatusAfter(status[p], auto[p].seen, "APPROVED"))
      BY <2>4 DEF AutoWrite, AutoTarget
    <3>2. auto[p].seen = "PENDING" \/ auto[p].seen = "APPROVED"
      BY <3>1 DEF HeldRows
    <3>3. CASE auto[p].seen = "PENDING"
      BY <1>1, <2>2, <3>1, <3>3 DEF StatusAfter, TurnedDown
    <3>4. CASE auto[p].seen = "APPROVED"
      BY <1>1, <2>2, <2>4, <3>1, <3>4 DEF StatusAfter, TurnedDown, NeverTraded
    <3> QED BY <3>2, <3>3, <3>4
  <2>5. ~Working(p)'
    BY <2>1, <2>3, <2>4, WorkCases
  <2> QED BY <2>1, <2>5, OrderIsWorked
<1>2. ASSUME NEW p \in Proposals, auto'[p].pc = "approve", auto'[p].seen = "APPROVED"
      PROVE  ~TurnedDown(p)'
  <2>1. "APPROVED" # None
    BY ConstantsAssumption DEF Statuses
  <2>2. CASE auto'[p] = auto[p]
    <3>1. ~TurnedDown(p)
      BY <1>2, <2>2 DEF NeverTraded
    <3>2. Left(p)
      BY <1>2, <2>1, <2>2 DEF HeldRows
    <3> QED BY <3>1, <3>2, TurnedDownFromPending DEF TurnedDown, Left
  <2>3. CASE AutoRead(p)
    BY <1>2, <2>1, <2>3 DEF AutoRead, NoAuto, TurnedDown, rowVars, TypeOK, FlowsTyped
  <2>4. CASE AutoGate(p)
    BY <1>2, <2>1, <2>4 DEF AutoGate, HeldRows, TypeOK, FlowsTyped
  <2>5. CASE auto'[p] = [auto[p] EXCEPT !.pc = "gate"] \/ auto'[p] = NoAuto
    BY <1>2, <2>5 DEF NoAuto, TypeOK, FlowsTyped
  <2> QED BY <2>2, <2>3, <2>4, <2>5, BranchCases
<1> QED BY <1>1, <1>2 DEF NeverTraded, TurnedDownNeverTrades, TurnedDown, Working

(***************************************************************************)
(* Without the sweep and the anomaly reflex, a proposal that is turned     *)
(* down is never traded, with every surface, tab and auto branch at work,  *)
(* crashes and lost calls included: only those two act on a status they    *)
(* read outside the write lock and turn a row down on the strength of it.  *)
(***************************************************************************)
THEOREM TurnedDownIsFinal == ASSUME NoOverwriters PROVE Spec => []TurnedDownNeverTrades
<1>1. Init => NeverTraded
  BY ConstantsAssumption
     DEF Init, NeverTraded, TurnedDownNeverTrades, TurnedDown, NoAuto, Statuses
<1>2. Known /\ NeverTraded /\ [Next]_vars => NeverTraded'
  BY NeverTradedStep
<1>3. NeverTraded => TurnedDownNeverTrades
  BY DEF NeverTraded
<1> QED BY KnownHolds, <1>1, <1>2, <1>3, PTL DEF Spec

-----------------------------------------------------------------------------
(* One executor. *)

LEMMA ClaimsGrow == ASSUME [Next]_vars PROVE claims \subseteq claims'
<1>1. CASE Quiet
  BY <1>1 DEF Quiet
<1>2. ASSUME NEW q \in Proposals,
             \/ WriteProposal(q) \/ Click(q)
             \/ AutoGate(q) \/ AutoRead(q) \/ AutoWrite(q)
             \/ \E c \in Clients : ConfirmRead(c, q)
      PROVE  claims \subseteq claims'
  BY <1>2 DEF WriteProposal, Click, SlackApprove, SlackReject, DashApproveNow,
              DashRejectNow, EditSubmitNow, Claim, AutoGate, AutoRead, AutoWrite,
              ConfirmRead
<1>3. ASSUME NEW c \in Clients, ConfirmWrite(c) PROVE claims \subseteq claims'
  BY <1>3 DEF ConfirmWrite
<1>4. CASE SweepWrite \/ AnomalyReject \/ FillRead \/ FillWrite \/ FillStamp \/ Crash
  BY <1>4 DEF SweepWrite, AnomalyReject, FillRead, FillWrite, FillStamp, Crash
<1>5. ASSUME NEW t \in Tasks,
             \/ ExecLoad(t) \/ ExecRefuse(t) \/ ExecPlace(t)
             \/ ExecRecord(t) \/ ExecDenied(t) \/ ExecLost(t)
      PROVE  claims \subseteq claims'
  BY <1>5 DEF ExecLoad, ExecRefuse, ExecPlace, ExecRecord, ExecDenied, ExecLost, Settle
<1> QED BY StepCases, <1>1, <1>2, <1>3, <1>4, <1>5

\* An auto branch is on only where there are auto branches, on a row that exists.
LEMMA AutoOn ==
    ASSUME Known, NEW p \in Proposals, auto[p].pc # "off" \/ auto[p].seen # None
    PROVE  auto[p].pc # "off" /\ "auto" \in Actors /\ Exists(p)
BY DEF Known, Absent, HeldRows, NoAuto

\* It goes on as it was, is switched on with a new row, or is switched off.
LEMMA AutoBefore ==
    ASSUME Known, [Next]_vars, NEW p \in Proposals, auto'[p].pc # "off"
    PROVE  \/ auto[p].pc # "off" /\ ~AutoWrite(p)
           \/ WriteProposal(p) /\ "auto" \in Actors /\ auto[p].pc = "off"
<1> USE DEF Known, IInv
<1>1. ~AutoWrite(p)
  BY DEF AutoWrite, NoAuto, TypeOK, FlowsTyped
<1>2. AutoGate(p) \/ AutoRead(p) => auto[p].pc # "off"
  BY DEF AutoGate, AutoRead
<1>3. auto'[p] # NoAuto
  BY DEF NoAuto
<1> QED BY <1>1, <1>2, <1>3, BranchCases

\* Where approvals are given in one place, an approval dispatches only for a
\* proposal nobody works on or is about to work on.
LEMMA DispatchAlone ==
    ASSUME OneSurface, Known, OneAtWork, NEW p \in Proposals,
           \/ SlackApproveNow(p) /\ SlackApprove(p)
           \/ DashApproveNow(p) /\ "dashboard" \in Actors
           \/ EditSubmitNow(p) /\ "edit" \in Actors
    PROVE  /\ status[p] = "PENDING" /\ ~Working(p) /\ auto[p].pc = "off"
           /\ \A c \in Clients : confirm[c] # p
<1>1. status[p] = "PENDING"
  <2>1. CASE SlackApproveNow(p) /\ SlackApprove(p)
    <3>1. status[p] \in {"PENDING", "APPROVED"} /\ "slack" \in Actors
      BY <2>1 DEF SlackApproveNow, SlackApprove, TransitionAllowed
    <3>2. <<p, "approve_proposal", "slack">> \notin claims
      BY <2>1 DEF SlackApprove, Unclaimed
    <3> QED BY <3>1, <3>2 DEF OneAtWork
  <2>2. CASE DashApproveNow(p) \/ EditSubmitNow(p)
    BY <2>2 DEF DashApproveNow, EditSubmitNow, TransitionAllowed, TERMINAL_STATUSES
  <2> QED BY <2>1, <2>2
<1>2. ~Left(p)
  BY <1>1 DEF Left
<1>3. ~Working(p)
  BY <1>2, AtWorkExists DEF Known
<1>4. \A c \in Clients : confirm[c] # p
  BY <1>2, ConstantsAssumption DEF Known, HeldRows
<1>5. "auto" \notin Actors
  BY DEF OneSurface, SlackApprove
<1> QED BY <1>1, <1>3, <1>4, <1>5, AutoOn

\* Whoever dispatches, nobody was at work on the proposal.
LEMMA NewSlotAlone ==
    ASSUME OneSurface, Known, OneAtWork, [Next]_vars, NEW t \in Tasks,
           exec'[t].prop # exec[t].prop, exec'[t].prop # None
    PROVE  /\ \A u \in Tasks \ {t} : exec'[u] = exec[u]
           /\ \A u \in Tasks : exec[u].prop # exec'[t].prop
<1> USE DEF Known, IInv
<1>1. ~Crash
  BY DEF Crash, IdleTask
<1>2. ~(\/ ExecLoad(t) \/ ExecRefuse(t) \/ ExecPlace(t)
        \/ ExecRecord(t) \/ ExecDenied(t) \/ ExecLost(t))
  BY DEF ExecLoad, ExecRefuse, ExecPlace, ExecRecord, ExecDenied, ExecLost, Settle, Finish,
         IdleTask, TypeOK, TasksTyped, TaskStates
<1>3. ASSUME NEW p \in Proposals,
             \/ SlackApproveNow(p) /\ SlackApprove(p)
             \/ DashApproveNow(p) /\ "dashboard" \in Actors
             \/ EditSubmitNow(p) /\ "edit" \in Actors
      PROVE  ~Working(p)
  BY <1>3, DispatchAlone
<1>4. ASSUME NEW p \in Proposals, AutoWrite(p) PROVE ~Working(p)
  BY <1>4, AutoOn DEF AutoWrite, OneAtWork
<1>5. ASSUME NEW p \in Proposals, NEW c \in Clients, confirm[c] = p PROVE ~Working(p)
  BY <1>5 DEF OneAtWork
<1>6. PICK p \in Proposals :
        /\ exec'[t] = [pc |-> "load", prop |-> p, entry |-> None, qty |-> None]
        /\ \A u \in Tasks \ {t} : exec'[u] = exec[u]
        /\ ~Working(p)
  BY <1>1, <1>2, <1>3, <1>4, <1>5, SlotCases
<1> QED BY <1>6 DEF Working

LEMMA OneExecutorStep ==
    ASSUME OneSurface, Known, OneAtWork, [Next]_vars PROVE OneExecutor'
<1> SUFFICES ASSUME NEW t \in Tasks, NEW u \in Tasks,
                    exec'[t].prop = exec'[u].prop, exec'[t].prop # None
             PROVE  t = u
  BY DEF OneExecutor
<1>1. CASE exec'[t].prop = exec[t].prop /\ exec'[u].prop = exec[u].prop
  BY <1>1 DEF OneAtWork, OneExecutor
<1>2. CASE exec'[t].prop # exec[t].prop
  BY <1>2, NewSlotAlone
<1>3. CASE exec'[u].prop # exec[u].prop
  BY <1>3, NewSlotAlone
<1> QED BY <1>1, <1>2, <1>3

\* The statuses that an executor, a tab or an auto branch leaves a row in.
LEMMA WorkStep ==
    ASSUME OneSurface, OneTab, Known, OneAtWork, [Next]_vars,
           NEW p \in Proposals, Working(p)'
    PROVE  /\ status'[p] # "AWAITING_2ND_CHANNEL"
           /\ \A c \in Clients : confirm'[c] # p
           /\ auto'[p].pc = "off"
<1> DEFINE Goal == /\ status'[p] # "AWAITING_2ND_CHANNEL"
                   /\ \A c \in Clients : confirm'[c] # p
                   /\ auto'[p].pc = "off"
<1> USE DEF Known, IInv
<1>1. CASE Working(p)
  <2>1. /\ Left(p) /\ status[p] # "AWAITING_2ND_CHANNEL"
        /\ \A c \in Clients : confirm[c] # p
        /\ auto[p].pc = "off" /\ auto[p].seen = None
    BY <1>1, AtWorkExists DEF OneAtWork, HeldRows
  <2>2. status'[p] # "AWAITING_2ND_CHANNEL"
    <3>1. ~AutoWrite(p) /\ status[p] # "PENDING"
      BY <2>1 DEF AutoWrite, Left
    <3> QED BY <2>1, <3>1, RowCases
  <2>3. ASSUME NEW c \in Clients PROVE confirm'[c] # p
    <3>1. \A q \in Proposals : ConfirmRead(c, q) => status[q] = "AWAITING_2ND_CHANNEL"
      BY DEF ConfirmRead
    <3> QED BY <2>1, <3>1, TabCases, ConstantsAssumption
  <2>4. auto'[p].pc = "off"
    <3>1. ~WriteProposal(p)
      BY <2>1 DEF WriteProposal, Exists, Left
    <3> QED BY <2>1, <3>1, AutoBefore
  <2> QED BY <2>2, <2>3, <2>4
<1>2. CASE ~Working(p)
  <2>1. ASSUME NEW to, SetStatus(p, to) PROVE status'[p] = to
    BY <2>1 DEF SetStatus, TypeOK, RowsTyped
  <2>2. CASE \/ SlackApproveNow(p) /\ SlackApprove(p)
             \/ DashApproveNow(p) /\ "dashboard" \in Actors
             \/ EditSubmitNow(p) /\ "edit" \in Actors
    <3>1. SetStatus(p, "APPROVED")
      BY <2>2 DEF SlackApproveNow, DashApproveNow, EditSubmitNow
    <3>2. UNCHANGED <<confirm, auto>>
      BY <2>2 DEF SlackApprove, DashApproveNow, EditSubmitNow, flowVars
    <3>3. auto[p].pc = "off" /\ \A c \in Clients : confirm[c] # p
      BY <2>2, DispatchAlone
    <3> QED BY <2>1, <3>1, <3>2, <3>3
  <2>3. CASE AutoWrite(p) /\ auto[p].pc = "approve"
    <3>1. /\ SetStatus(p, StatusAfter(status[p], auto[p].seen, "APPROVED"))
          /\ UNCHANGED confirm
          /\ auto'[p] = NoAuto
      BY <2>3 DEF AutoWrite, AutoTarget, TypeOK, FlowsTyped
    <3>2. status'[p] = "APPROVED" \/ status'[p] = status[p]
      BY <2>1, <3>1 DEF StatusAfter
    <3>3. /\ status[p] \in {"PENDING", "REJECTED", "EXPIRED"}
          /\ \A c \in Clients : confirm[c] # p
      BY <2>3 DEF OneAtWork
    <3> QED BY <3>1, <3>2, <3>3 DEF NoAuto
  <2>4. ASSUME NEW c \in Clients, ConfirmWrite(c), confirm[c] = p PROVE Goal
    <3>1. SetStatus(p, "APPROVED_LIVE") /\ UNCHANGED auto
      BY <2>4 DEF ConfirmWrite
    <3>2. confirm'[c] = None
      BY <2>4 DEF ConfirmWrite, TypeOK, FlowsTyped
    <3>3. auto[p].pc = "off"
      BY <2>4 DEF OneAtWork
    <3> QED BY <2>1, <3>1, <3>2, <3>3, ConstantsAssumption DEF OneTab
  <2> QED BY <1>2, <2>2, <2>3, <2>4, WorkCases
<1> QED BY <1>1, <1>2

LEMMA OneAtWorkStep ==
    ASSUME OneSurface, OneTab, Known, OneAtWork, [Next]_vars PROVE OneAtWork'
<1> USE DEF Known, IInv
<1>1. ASSUME NEW c \in Clients, NEW p \in Proposals, confirm'[c] = p
      PROVE  auto'[p].pc = "off"
  <2>1. auto[p].pc = "off" /\ Exists(p)
    <3>1. CASE confirm[c] = p
      <4>1. Left(p)
        BY <3>1, ConstantsAssumption DEF HeldRows
      <4> QED BY <3>1, <4>1 DEF OneAtWork, Left, Exists
    <3>2. CASE ConfirmRead(c, p)
      BY <3>2, ConstantsAssumption DEF ConfirmRead, OneAtWork, Exists, Statuses
    <3> QED BY <1>1, <3>1, <3>2, TabCases, ConstantsAssumption
  <2> QED BY <2>1, AutoBefore DEF WriteProposal
<1>2. ASSUME NEW p \in Proposals, auto'[p].pc # "off"
      PROVE  /\ status'[p] \in {"PENDING", "REJECTED", "EXPIRED"}
             /\ order'[p] = "none"
  <2>1. CASE WriteProposal(p)
    <3>1. status'[p] = "PENDING" /\ order' = order /\ order[p] = "none"
      BY <2>1, AtWorkExists DEF WriteProposal, SetStatus, brokerVars, TypeOK, RowsTyped
    <3> QED BY <3>1
  <2>2. CASE auto[p].pc # "off" /\ ~AutoWrite(p)
    <3>1. /\ status[p] \in {"PENDING", "REJECTED", "EXPIRED"}
          /\ order[p] = "none" /\ ~Working(p)
          /\ \A c \in Clients : confirm[c] # p
      BY <2>2 DEF OneAtWork
    <3>2. order'[p] = "none"
      BY <3>1, OrderIsWorked
    <3>3. ~Click(p) \/ status'[p] = "REJECTED"
      <4>1. "auto" \in Actors
        BY <2>2, AutoOn
      <4> QED BY <4>1 DEF OneSurface, Click, SlackApprove, SlackReject
    <3>4. ~(FillWrite /\ fill.prop = p)
      BY <3>1 DEF FillWrite, UpdatesHaveOrder
    <3>5. \A t \in Tasks : exec[t].prop # p
      BY <3>1 DEF Working
    <3>6. status'[p] = status[p] \/ status'[p] \in {"PENDING", "REJECTED", "EXPIRED"}
      BY <2>2, <3>1, <3>3, <3>4, <3>5, RowCases
    <3> QED BY <3>1, <3>2, <3>6
  <2> QED BY <1>2, <2>1, <2>2, AutoBefore
<1>3. ASSUME NEW p \in Proposals, status'[p] = "APPROVED", "slack" \in Actors
      PROVE  <<p, "approve_proposal", "slack">> \in claims'
  <2>1. CASE status'[p] = status[p]
    BY <1>3, <2>1, ClaimsGrow DEF OneAtWork
  <2>2. CASE status'[p] # status[p]
    <3>1. ~AutoWrite(p)
      <4>1. "auto" \notin Actors
        BY <1>3 DEF OneSurface
      <4> QED BY <4>1, AutoOn DEF AutoWrite
    <3>2. Click(p)
      BY <1>3, <2>2, <3>1, RowCases
    <3>3. ~SlackReject(p)
      BY <1>3 DEF SlackReject, SetStatus, TypeOK, RowsTyped
    <3>4. SlackApprove(p)
      BY <1>3, <3>2, <3>3 DEF Click, OneSurface
    <3> QED BY <3>4 DEF SlackApprove, Claim
  <2> QED BY <2>1, <2>2
<1> QED BY <1>1, <1>2, <1>3, OneExecutorStep, WorkStep DEF OneAtWork

LEMMA InitOneAtWork == Init => OneAtWork
<1> SUFFICES ASSUME Init PROVE OneAtWork
  OBVIOUS
<1>1. \A t \in Tasks : exec[t].prop = None
  BY DEF Init, IdleTask
<1>2. \A p \in Proposals : ~Working(p)
  BY <1>1, ConstantsAssumption DEF Working
<1>3. OneExecutor
  BY <1>1 DEF OneExecutor
<1> QED BY <1>2, <1>3, ConstantsAssumption DEF Init, OneAtWork, NoAuto, Statuses

(***************************************************************************)
(* Where approvals come from one place (Slack, or the dashboard, or the    *)
(* auto branch) and the live-confirm page is open in at most one tab, a    *)
(* proposal has at most one executor, with sweep and reflex overwriting    *)
(* rows, crashes and lost calls at any moment.                             *)
(***************************************************************************)
THEOREM OneExecutorEach ==
    ASSUME OneSurface, OneTab PROVE Spec => []OneExecutor
<1>1. Known /\ OneAtWork /\ [Next]_vars => OneAtWork'
  BY OneAtWorkStep
<1>2. OneAtWork => OneExecutor
  BY DEF OneAtWork
<1> QED BY KnownHolds, InitOneAtWork, <1>1, <1>2, PTL DEF Spec

-----------------------------------------------------------------------------
(* What is marked FAILED. *)

\* An order comes from an executor that submits.
LEMMA OrderCases ==
    ASSUME TypeOK, [Next]_vars, NEW p \in Proposals,
           order[p] = "none", order'[p] # "none"
    PROVE  \E t \in Tasks : /\ exec[t].prop = p /\ exec[t].pc = "gate"
                            /\ ExecPlace(t) \/ ExecDenied(t) \/ ExecLost(t)
<1> USE DEF brokerVars, TypeOK, BrokerTyped
<1>1. CASE Quiet
  BY <1>1 DEF Quiet, BrokerFill, BrokerClose
<1>2. ASSUME NEW q \in Proposals,
             \/ WriteProposal(q) \/ Click(q)
             \/ AutoGate(q) \/ AutoRead(q) \/ AutoWrite(q)
             \/ \E c \in Clients : ConfirmRead(c, q)
      PROVE  order' = order
  BY <1>2 DEF WriteProposal, Click, SlackApprove, SlackReject, DashApproveNow,
              DashRejectNow, EditSubmitNow, AutoGate, AutoRead, AutoWrite, ConfirmRead
<1>3. ASSUME NEW c \in Clients, ConfirmWrite(c) PROVE order' = order
  BY <1>3 DEF ConfirmWrite
<1>4. CASE SweepWrite \/ AnomalyReject \/ FillRead \/ FillWrite \/ FillStamp \/ Crash
  BY <1>4 DEF SweepWrite, AnomalyReject, FillRead, FillWrite, FillStamp, Crash
<1>5. ASSUME NEW t \in Tasks, ExecLoad(t) \/ ExecRefuse(t) \/ ExecRecord(t)
      PROVE  order' = order
  BY <1>5 DEF ExecLoad, ExecRefuse, ExecRecord, Settle
<1>6. ASSUME NEW t \in Tasks, ExecPlace(t) \/ ExecDenied(t) \/ ExecLost(t)
      PROVE  exec[t].prop = p /\ exec[t].pc = "gate"
  BY <1>6 DEF ExecPlace, ExecDenied, ExecLost, BrokerAccept
<1> QED BY StepCases, <1>1, <1>2, <1>3, <1>4, <1>5, <1>6

\* What the broker denies, it has taken from an executor that submits.
LEMMA NewlyDenied ==
    ASSUME TypeOK, [Next]_vars, NEW p \in Proposals, p \in denied', p \notin denied
    PROVE  /\ order'[p] # "none"
           /\ \E t \in Tasks : /\ exec[t].prop = p /\ exec[t].pc = "gate"
                               /\ ExecDenied(t)
<1> USE DEF brokerVars
<1>1. CASE Quiet
  BY <1>1 DEF Quiet
<1>2. ASSUME NEW q \in Proposals,
             \/ WriteProposal(q) \/ Click(q)
             \/ AutoGate(q) \/ AutoRead(q) \/ AutoWrite(q)
             \/ \E c \in Clients : ConfirmRead(c, q)
      PROVE  denied' = denied
  BY <1>2 DEF WriteProposal, Click, SlackApprove, SlackReject, DashApproveNow,
              DashRejectNow, EditSubmitNow, AutoGate, AutoRead, AutoWrite, ConfirmRead
<1>3. ASSUME NEW c \in Clients, ConfirmWrite(c) PROVE denied' = denied
  BY <1>3 DEF ConfirmWrite
<1>4. CASE SweepWrite \/ AnomalyReject \/ FillRead \/ FillWrite \/ FillStamp \/ Crash
  BY <1>4 DEF SweepWrite, AnomalyReject, FillRead, FillWrite, FillStamp, Crash
<1>5. ASSUME NEW t \in Tasks,
             ExecLoad(t) \/ ExecRefuse(t) \/ ExecPlace(t) \/ ExecRecord(t) \/ ExecLost(t)
      PROVE  denied' = denied
  BY <1>5 DEF ExecLoad, ExecRefuse, ExecPlace, ExecRecord, ExecLost, Settle
<1>6. ASSUME NEW t \in Tasks, ExecDenied(t)
      PROVE  exec[t].prop = p /\ exec[t].pc = "gate" /\ order'[p] # "none"
  <2>1. exec[t].prop = p /\ exec[t].pc = "gate" /\ BrokerAccept(p, exec[t].qty)
    BY <1>6 DEF ExecDenied
  <2> QED BY <2>1 DEF BrokerAccept, TypeOK, BrokerTyped
<1> QED BY StepCases, <1>1, <1>2, <1>3, <1>4, <1>5, <1>6

\* A row is marked FAILED by an executor of its own that gives it up.
LEMMA Refused ==
    ASSUME Known, [Next]_vars, NEW p \in Proposals,
           status'[p] = "FAILED", status[p] # "FAILED"
    PROVE  \E t \in Tasks : exec[t].prop = p /\ ExecRefuse(t)
BY RowCases DEF Known, IInv, AutoTarget

\* Whoever dispatches, nothing was ordered, and the row is not given up.
LEMMA NewWork ==
    ASSUME OneSurface, Known, OneAtWork, Unordered, [Next]_vars,
           NEW p \in Proposals, Working(p)', ~Working(p)
    PROVE  order[p] = "none" /\ status'[p] # "FAILED"
<1> USE DEF Known, IInv
<1>1. status'[p] # "FAILED" \/ status[p] = "FAILED"
  <2>1. \A t \in Tasks : exec[t].prop # p
    BY DEF Working
  <2> QED BY <2>1, Refused
<1>2. CASE \/ SlackApproveNow(p) /\ SlackApprove(p)
           \/ DashApproveNow(p) /\ "dashboard" \in Actors
           \/ EditSubmitNow(p) /\ "edit" \in Actors
  <2>1. status[p] = "PENDING"
    BY <1>2, DispatchAlone
  <2> QED BY <1>1, <2>1, AtWorkExists DEF Left
<1>3. CASE AutoWrite(p)
  BY <1>1, <1>3, AutoOn DEF AutoWrite, OneAtWork
<1>4. ASSUME NEW c \in Clients, confirm[c] = p
      PROVE  order[p] = "none" /\ status'[p] # "FAILED"
  BY <1>1, <1>4 DEF Unordered
<1> QED BY <1>2, <1>3, <1>4, WorkCases

LEMMA UnorderedStep ==
    ASSUME OneSurface, OneTab, Known, OneAtWork, Unordered, [Next]_vars
    PROVE  Unordered'
<1> USE DEF Known, IInv
<1>1. ASSUME NEW t \in Tasks, exec'[t].pc \in {"load", "gate"}
      PROVE  order'[exec'[t].prop] = "none"
  <2>1. CASE exec'[t].prop = exec[t].prop
    <3> DEFINE p == exec[t].prop
    <3>1. exec[t].pc \in {"load", "gate"}
      <4>1. ASSUME \/ ExecLoad(t) \/ ExecRefuse(t) \/ ExecPlace(t)
                   \/ ExecRecord(t) \/ ExecDenied(t) \/ ExecLost(t)
            PROVE  exec[t].pc \in {"load", "gate"}
        BY <1>1, <4>1
           DEF ExecLoad, ExecRefuse, ExecPlace, ExecRecord, ExecDenied, ExecLost, Settle, Finish,
               IdleTask, TypeOK, TasksTyped, TaskStates
      <4>2. exec'[t] # IdleTask
        BY <1>1 DEF IdleTask
      <4>3. CASE exec[t].prop = None
        BY <1>1, <2>1, <4>3, TypeStep, ConstantsAssumption DEF TypeOK, TasksTyped
      <4>4. ASSUME NEW q \in Proposals,
                   exec'[t] = [pc |-> "load", prop |-> q, entry |-> None, qty |-> None]
            PROVE  exec'[t].prop # None
        BY <4>4, ConstantsAssumption
      <4>5. CASE exec'[t] = exec[t]
        BY <1>1, <4>5
      <4> QED BY <2>1, <4>1, <4>2, <4>3, <4>4, <4>5, SlotCases
    <3>2. p \in Proposals /\ order[p] = "none"
      BY <3>1 DEF Unordered, TypeOK, TasksTyped
    <3>3. \A u \in Tasks : exec[u].prop = p => u = t
      BY <3>2, ConstantsAssumption DEF OneAtWork, OneExecutor
    <3>4. ~ExecPlace(t) /\ ~ExecDenied(t) /\ ~ExecLost(t)
      BY <1>1 DEF ExecPlace, ExecDenied, ExecLost, Finish, IdleTask, TypeOK, TasksTyped, TaskStates
    <3> QED BY <2>1, <3>2, <3>3, <3>4, OrderCases
  <2>2. CASE exec'[t].prop # exec[t].prop
    <3>1. PICK p \in Proposals : p = exec'[t].prop
      BY <1>1, TypeStep DEF TypeOK, TasksTyped
    <3>2. \A u \in Tasks : exec[u].prop # p
      BY <2>2, <3>1, NewSlotAlone, ConstantsAssumption
    <3>3. Working(p)' /\ ~Working(p)
      BY <3>1, <3>2 DEF Working
    <3>4. order[p] = "none"
      BY <3>3, NewWork
    <3> QED BY <3>1, <3>3, <3>4, OrderIsWorked
  <2> QED BY <2>1, <2>2
<1>2. ASSUME NEW p \in Proposals, status'[p] = "FAILED"
      PROVE  (order'[p] # "none" => p \in denied') /\ ~Working(p)'
  <2>1. CASE status[p] = "FAILED"
    <3>1. (order[p] # "none" => p \in denied) /\ ~Working(p)
      BY <2>1 DEF Unordered, FailedOrderWasDenied
    <3>2. ~Working(p)'
      BY <1>2, <3>1, NewWork
    <3> QED BY <3>1, <3>2, OrderIsWorked, DeniedStays
  <2>2. CASE status[p] # "FAILED"
    <3>1. PICK t \in Tasks : exec[t].prop = p /\ ExecRefuse(t)
      BY <1>2, <2>2, Refused
    <3>2. order[p] # "none" => p \in denied
      BY <3>1 DEF ExecRefuse, Unordered, SubmittedHasOrder
    <3>3. order' = order /\ denied' = denied
      BY <3>1 DEF ExecRefuse, Settle, brokerVars
    <3>4. \A u \in Tasks : exec[u].prop = p => u = t
      BY <3>1, ConstantsAssumption DEF OneAtWork, OneExecutor
    <3>5. Finish(t)
      BY <3>1 DEF ExecRefuse, Settle
    <3>6. ~Working(p)'
      BY <3>4, <3>5, FinishWork, ConstantsAssumption DEF Working, IdleTask, TypeOK
    <3> QED BY <3>2, <3>3, <3>6
  <2> QED BY <2>1, <2>2
<1>3. ASSUME NEW p \in Proposals, status'[p] = "AWAITING_2ND_CHANNEL"
      PROVE  order'[p] = "none"
  <2>1. order[p] = "none"
    <3>1. CASE status[p] = "AWAITING_2ND_CHANNEL"
      BY <3>1 DEF Unordered
    <3>2. CASE status[p] = "PENDING"
      BY <3>2, AtWorkExists DEF Left
    <3>3. CASE AutoWrite(p)
      BY <3>3, AutoOn DEF AutoWrite, OneAtWork
    <3> QED BY <1>3, <3>1, <3>2, <3>3, RowCases
  <2>2. order'[p] = "none" \/ Working(p)
    BY <2>1, OrderIsWorked
  <2>3. CASE Working(p)
    <3>1. /\ Left(p) /\ status[p] # "AWAITING_2ND_CHANNEL" /\ auto[p].pc = "off"
      BY <2>3, AtWorkExists DEF OneAtWork
    <3> QED BY <1>3, <3>1, RowCases, AutoOn DEF AutoWrite, Left
  <2> QED BY <2>2, <2>3
<1>4. ASSUME NEW c \in Clients, NEW p \in Proposals, confirm'[c] = p
      PROVE  order'[p] = "none" /\ status'[p] # "FAILED"
  <2>1. /\ order[p] = "none" /\ status[p] # "FAILED"
        /\ ~Working(p)
    BY <1>4, TabCases, ConstantsAssumption DEF ConfirmRead, Unordered, OneAtWork
  <2>2. order'[p] = "none"
    BY <2>1, OrderIsWorked
  <2>3. status'[p] # "FAILED"
    BY <2>1, Refused DEF Working
  <2> QED BY <2>2, <2>3
<1> QED BY <1>1, <1>2, <1>3, <1>4 DEF Unordered, FailedOrderWasDenied

(***************************************************************************)
(* Where approvals come from one place and one tab, a row marked FAILED    *)
(* has an order at the broker only if the broker denied it, though sweep,  *)
(* reflex, crashes and lost calls get in between: the only executor that   *)
(* can give a proposal up is the only one that could have submitted it.    *)
(***************************************************************************)
THEOREM FailedOrdersWereDenied ==
    ASSUME OneSurface, OneTab PROVE Spec => []FailedOrderWasDenied
<1>1. Init => Unordered
  BY ConstantsAssumption DEF Init, Unordered, FailedOrderWasDenied, IdleTask, Statuses
<1>2. Known /\ OneAtWork /\ [Next]_vars => OneAtWork'
  BY OneAtWorkStep
<1>3. Known /\ OneAtWork /\ Unordered /\ [Next]_vars => Unordered'
  BY UnorderedStep
<1>4. Unordered => FailedOrderWasDenied
  BY DEF Unordered
<1> QED BY KnownHolds, InitOneAtWork, <1>1, <1>2, <1>3, <1>4, PTL DEF Spec

-----------------------------------------------------------------------------
(* Moves along the table. *)

\* What the fill handler holds it held before, or has just read.
LEMMA FillBefore ==
    ASSUME TypeOK, [Next]_vars, fill'.seen # None
    PROVE  \/ fill'.seen = fill.seen /\ fill'.prop = fill.prop
           \/ fill'.seen = status[fill'.prop] /\ UNCHANGED status
<1> USE DEF flowVars
<1>1. CASE FillRead
  BY <1>1 DEF FillRead, rowVars
<1>2. CASE FillWrite \/ FillStamp \/ Crash
  BY <1>2 DEF FillWrite, FillStamp, Crash, NoFill, TypeOK, FlowsTyped
<1>3. CASE Quiet
  BY <1>3 DEF Quiet
<1>4. ASSUME NEW q \in Proposals,
             \/ WriteProposal(q) \/ Click(q)
             \/ AutoGate(q) \/ AutoRead(q) \/ AutoWrite(q)
             \/ \E c \in Clients : ConfirmRead(c, q)
      PROVE  fill' = fill
  BY <1>4 DEF WriteProposal, Click, SlackApprove, SlackReject, DashApproveNow,
              DashRejectNow, EditSubmitNow, AutoGate, AutoRead, AutoWrite, ConfirmRead
<1>5. ASSUME NEW c \in Clients, ConfirmWrite(c) PROVE fill' = fill
  BY <1>5 DEF ConfirmWrite
<1>6. CASE SweepWrite \/ AnomalyReject
  BY <1>6 DEF SweepWrite, AnomalyReject
<1>7. ASSUME NEW t \in Tasks,
             \/ ExecLoad(t) \/ ExecRefuse(t) \/ ExecPlace(t)
             \/ ExecRecord(t) \/ ExecDenied(t) \/ ExecLost(t)
      PROVE  fill' = fill
  BY <1>7 DEF ExecLoad, ExecRefuse, ExecPlace, ExecRecord, ExecDenied, ExecLost, Settle
<1> QED BY StepCases, <1>1, <1>2, <1>3, <1>4, <1>5, <1>6, <1>7

\* Each move of a row is an edge of the table, and its mover knew the row.
LEMMA UnracedMoves ==
    ASSUME NoOverwriters, Known, Unraced, [Next]_vars, NEW p \in Proposals,
           Exists(p), status'[p] # status[p]
    PROVE  /\ <<status[p], status'[p]>> \in STATE_TRANSITIONS
           /\ \/ status[p] = "PENDING" /\ (Click(p) \/ AutoWrite(p))
              \/ /\ status[p] = "AWAITING_2ND_CHANNEL"
                 /\ \E c \in Clients : ConfirmWrite(c) /\ confirm[c] = p
                 /\ status'[p] = "APPROVED_LIVE"
              \/ \E t \in Tasks :
                    /\ exec[t].prop = p /\ exec[t].pc # "idle"
                    /\ exec[t].entry = status[p] /\ status[p] \in EntryStatuses
                    /\ \/ ExecRefuse(t) /\ status'[p] = "FAILED"
                       \/ ExecRecord(t) /\ status'[p] = "EXECUTING"
              \/ /\ status[p] = "EXECUTING" /\ status'[p] = "FILLED"
                 /\ FillWrite /\ fill.prop = p
<1> USE DEF Known, IInv
<1>1. ~SweepWrite /\ ~AnomalyReject /\ status[p] # None
  BY NobodyOverwrites DEF SweepWrite, AnomalyReject, Exists
<1>2. CASE /\ Click(p) /\ status[p] = "PENDING"
           /\ status'[p] \in {"APPROVED", "REJECTED", "AWAITING_2ND_CHANNEL"}
  BY <1>2 DEF STATE_TRANSITIONS
<1>3. CASE AutoWrite(p) /\ auto[p].seen = "PENDING" /\ status'[p] = AutoTarget(p)
  <2>1. status[p] = "PENDING"
    BY <1>3, AutoOn DEF AutoWrite, Unraced
  <2>2. AutoTarget(p) \in {"APPROVED", "AWAITING_2ND_CHANNEL"}
    BY DEF AutoTarget
  <2> QED BY <1>3, <2>1, <2>2 DEF STATE_TRANSITIONS
<1>4. ASSUME NEW c \in Clients, ConfirmWrite(c), confirm[c] = p,
             status'[p] = "APPROVED_LIVE"
      PROVE  /\ status[p] = "AWAITING_2ND_CHANNEL"
             /\ <<status[p], status'[p]>> \in STATE_TRANSITIONS
  BY <1>4 DEF Unraced, STATE_TRANSITIONS
<1>5. ASSUME NEW t \in Tasks, exec[t].prop = p, exec[t].pc # "idle",
             status'[p] \in {"FAILED", "EXECUTING"},
             TransitionAllowed(status[p], exec[t].entry, status'[p])
      PROVE  /\ <<status[p], status'[p]>> \in STATE_TRANSITIONS
             /\ exec[t].entry = status[p] /\ status[p] \in EntryStatuses
  <2>1. <<status[p], status'[p]>> \in STATE_TRANSITIONS /\ exec[t].entry = status[p]
    BY <1>5 DEF TransitionAllowed
  <2>2. exec[t].entry \in EntryStatuses \cup {None}
    BY DEF TypeOK, TasksTyped, TaskStates
  <2> QED BY <1>1, <2>1, <2>2
<1>6. CASE FillWrite /\ fill.prop = p /\ fill.seen = "EXECUTING" /\ status'[p] = "FILLED"
  BY <1>6 DEF Unraced, STATE_TRANSITIONS
<1>7. ~(WriteProposal(p) /\ status[p] = None)
  BY <1>1
<1> QED BY <1>1, <1>2, <1>3, <1>4, <1>5, <1>6, <1>7, RowCases

LEMMA UnracedStep ==
    ASSUME NoOverwriters, OneTab, AutoAlone, Known, Unraced, [Next]_vars
    PROVE  Unraced'
<1> USE DEF Known, IInv
<1>1. ASSUME NEW c \in Clients, NEW p \in Proposals, confirm'[c] = p
      PROVE  status'[p] = "AWAITING_2ND_CHANNEL"
  <2>1. CASE confirm[c] = p
    <3>1. status[p] = "AWAITING_2ND_CHANNEL" /\ Exists(p)
      BY <2>1, ConstantsAssumption DEF Unraced, Exists, Statuses
    <3>2. ASSUME NEW d \in Clients, ConfirmWrite(d) PROVE FALSE
      BY <1>1, <3>2, ConstantsAssumption
         DEF ConfirmWrite, OneTab, TypeOK, FlowsTyped
    <3>3. status'[p] = status[p]
      BY <3>1, <3>2, UnracedMoves DEF EntryStatuses
    <3> QED BY <3>1, <3>3
  <2>2. CASE ConfirmRead(c, p)
    BY <2>2 DEF ConfirmRead, rowVars
  <2> QED BY <1>1, <2>1, <2>2, TabCases, ConstantsAssumption
<1>2. ASSUME NEW p \in Proposals, auto'[p].pc # "off" PROVE status'[p] = "PENDING"
  <2>1. CASE WriteProposal(p)
    BY <2>1 DEF WriteProposal, SetStatus, TypeOK, RowsTyped
  <2>2. CASE auto[p].pc # "off" /\ ~AutoWrite(p)
    <3>1. status[p] = "PENDING" /\ Exists(p) /\ "auto" \in Actors
      BY <2>2, AutoOn DEF Unraced
    <3>2. ~Click(p)
      BY <3>1 DEF AutoAlone, Click, SlackApprove, SlackReject
    <3>3. status'[p] = status[p]
      BY <2>2, <3>1, <3>2, UnracedMoves DEF EntryStatuses
    <3> QED BY <3>1, <3>3
  <2> QED BY <1>2, <2>1, <2>2, AutoBefore
<1>3. ASSUME fill'.seen = "EXECUTING"
      PROVE  status'[fill'.prop] \in {"EXECUTING", "FILLED"}
  <2>1. fill'.seen # None
    BY <1>3, ConstantsAssumption DEF Statuses
  <2>2. CASE fill'.seen = status[fill'.prop] /\ UNCHANGED status
    BY <1>3, <2>2
  <2>3. CASE fill'.seen = fill.seen /\ fill'.prop = fill.prop
    <3>1. PICK p \in Proposals : p = fill.prop
      BY <2>1, <2>3 DEF TypeOK, FlowsTyped, NoFill
    <3>2. status[p] \in {"EXECUTING", "FILLED"} /\ Exists(p)
      BY <1>3, <2>1, <2>3, <3>1, ConstantsAssumption DEF Unraced, Exists, Statuses
    <3>3. status'[p] = status[p] \/ status'[p] = "FILLED"
      BY <3>2, UnracedMoves DEF EntryStatuses
    <3> QED BY <2>3, <3>1, <3>2, <3>3
  <2> QED BY <2>1, <2>2, <2>3, FillBefore
<1> QED BY <1>1, <1>2, <1>3 DEF Unraced

LEMMA InitUnraced == Init => Unraced
BY ConstantsAssumption DEF Init, Unraced, NoAuto, NoFill, Statuses

LEMMA UnracedHolds ==
    ASSUME NoOverwriters, OneTab, AutoAlone PROVE Spec => []Unraced
<1>1. Known /\ Unraced /\ [Next]_vars => Unraced'
  BY UnracedStep
<1> QED BY KnownHolds, InitUnraced, <1>1, PTL DEF Spec

(***************************************************************************)
(* Without the sweep and the reflex, with one live-confirm tab and nobody  *)
(* clicking beside an auto branch, a row only moves along                  *)
(* STATE_TRANSITIONS: each of those reads the status before it takes the   *)
(* write lock and could overwrite what another has committed meanwhile.    *)
(***************************************************************************)
THEOREM MovesAreEdges ==
    ASSUME NoOverwriters, OneTab, AutoAlone PROVE Spec => MovesAlongTable
<1>1. Known /\ Unraced /\ [Next]_vars =>
        [\A p \in Proposals :
            (Exists(p) /\ status'[p] # status[p])
               => <<status[p], status'[p]>> \in STATE_TRANSITIONS]_status
  BY UnracedMoves
<1> QED BY KnownHolds, UnracedHolds, <1>1, PTL DEF Spec, MovesAlongTable

-----------------------------------------------------------------------------
(* What escapes an executor, and the contract of the pipeline. *)

\* An exception escapes from an executor that ends with it and leaves its row.
LEMMA RaisedCases ==
    ASSUME TypeOK, [Next]_vars, NEW p \in Proposals, p \in raised', p \notin raised
    PROVE  \E t \in Tasks :
              /\ exec[t].prop = p /\ exec[t].pc # "idle"
              /\ Finish(t) /\ status' = status
              /\ \/ ExecLost(t)
                 \/ /\ PastGate(t)
                    /\ \E to \in {"FAILED", "EXECUTING"} :
                          ~TransitionAllowed(status[p], exec[t].entry, to)
<1>1. CASE Quiet
  BY <1>1 DEF Quiet
<1>2. ASSUME NEW q \in Proposals,
             \/ WriteProposal(q) \/ Click(q)
             \/ AutoGate(q) \/ AutoRead(q) \/ AutoWrite(q)
             \/ \E c \in Clients : ConfirmRead(c, q)
      PROVE  raised' = raised
  BY <1>2 DEF WriteProposal, Click, SlackApprove, SlackReject, DashApproveNow,
              DashRejectNow, EditSubmitNow, AutoGate, AutoRead, AutoWrite, ConfirmRead
<1>3. ASSUME NEW c \in Clients, ConfirmWrite(c) PROVE raised' = raised
  BY <1>3 DEF ConfirmWrite
<1>4. CASE SweepWrite \/ AnomalyReject \/ FillRead \/ FillWrite \/ FillStamp \/ Crash
  BY <1>4 DEF SweepWrite, AnomalyReject, FillRead, FillWrite, FillStamp, Crash
<1>5. ASSUME NEW t \in Tasks, ExecLoad(t) \/ ExecPlace(t) \/ ExecDenied(t)
      PROVE  raised' = raised
  BY <1>5 DEF ExecLoad, ExecPlace, ExecDenied
<1>6. ASSUME NEW t \in Tasks, ExecLost(t) \/ ExecRefuse(t) \/ ExecRecord(t)
      PROVE  /\ exec[t].prop = p /\ exec[t].pc # "idle"
             /\ Finish(t) /\ status' = status
             /\ \/ ExecLost(t)
                \/ /\ PastGate(t)
                   /\ \E to \in {"FAILED", "EXECUTING"} :
                         ~TransitionAllowed(status[p], exec[t].entry, to)
  BY <1>6 DEF ExecLost, ExecRefuse, ExecRecord, Settle, rowVars, PastGate
<1> QED BY StepCases, <1>1, <1>2, <1>3, <1>4, <1>5, <1>6

Settled == Known /\ OneAtWork /\ Unraced

\* A row at work is moved by its own executor, which ends with the move.
LEMMA WorkerMoves ==
    ASSUME NoOverwriters, Settled, [Next]_vars, NEW p \in Proposals,
           status[p] \in EntryStatuses, status'[p] # status[p]
    PROVE  \E t \in Tasks : /\ exec[t].prop = p /\ exec'[t] = IdleTask
                            /\ \/ ExecRefuse(t) /\ status'[p] = "FAILED"
                               \/ ExecRecord(t) /\ status'[p] = "EXECUTING"
<1> USE DEF Settled, Known, IInv
<1>1. /\ Exists(p)
      /\ status[p] \notin {"PENDING", "AWAITING_2ND_CHANNEL", "EXECUTING"}
  BY ConstantsAssumption DEF EntryStatuses, Exists, Statuses
<1>2. PICK t \in Tasks : /\ exec[t].prop = p
                         /\ \/ ExecRefuse(t) /\ status'[p] = "FAILED"
                            \/ ExecRecord(t) /\ status'[p] = "EXECUTING"
  BY <1>1, UnracedMoves
<1>3. Finish(t)
  BY <1>2 DEF ExecRefuse, ExecRecord, Settle
<1> QED BY <1>2, <1>3, FinishWork DEF TypeOK

\* What is dispatched is new: no decision was taken and no order placed.
LEMMA DispatchFresh ==
    ASSUME OneSurface, Settled, Orderly, [Next]_vars, NEW p \in Proposals,
           Working(p)', ~Working(p)
    PROVE  /\ status[p] \in {"PENDING", "AWAITING_2ND_CHANNEL"}
           /\ status'[p] \in EntryStatuses
           /\ order'[p] = "none"
<1> USE DEF Settled, Known, IInv
<1>1. ASSUME NEW to, SetStatus(p, to) PROVE status'[p] = to
  BY <1>1 DEF SetStatus, TypeOK, RowsTyped
<1>2. CASE \/ SlackApproveNow(p) /\ SlackApprove(p)
           \/ DashApproveNow(p) /\ "dashboard" \in Actors
           \/ EditSubmitNow(p) /\ "edit" \in Actors
  <2>1. SetStatus(p, "APPROVED")
    BY <1>2 DEF SlackApproveNow, DashApproveNow, EditSubmitNow
  <2> QED BY <1>1, <1>2, <2>1, DispatchAlone, OrderIsWorked
          DEF EntryStatuses, Orderly
<1>3. CASE AutoWrite(p) /\ auto[p].pc = "approve"
  <2>1. status[p] = "PENDING" /\ auto[p].seen # None
    BY <1>3 DEF AutoWrite, Unraced
  <2>2. auto[p].seen = "PENDING"
    BY <2>1 DEF HeldRows, Left
  <2>3. SetStatus(p, "APPROVED")
    BY <1>3, <2>2 DEF AutoWrite, AutoTarget, StatusAfter
  <2> QED BY <1>1, <2>1, <2>3, OrderIsWorked DEF EntryStatuses, Orderly
<1>4. ASSUME NEW c \in Clients, ConfirmWrite(c), confirm[c] = p
      PROVE  /\ status[p] = "AWAITING_2ND_CHANNEL" /\ status'[p] = "APPROVED_LIVE"
             /\ order'[p] = "none"
  <2>1. status[p] = "AWAITING_2ND_CHANNEL" /\ SetStatus(p, "APPROVED_LIVE")
    BY <1>4 DEF ConfirmWrite, Unraced
  <2> QED BY <1>1, <2>1, OrderIsWorked DEF EntryStatuses, Orderly
<1> QED BY <1>2, <1>3, <1>4, WorkCases DEF EntryStatuses

LEMMA OrderlyStep ==
    ASSUME OneSurface, NoOverwriters, Settled, Orderly, [Next]_vars
    PROVE  Orderly'
<1> USE DEF Settled, Known, IInv
<1>1. ASSUME NEW t \in Tasks, exec'[t].pc # "idle"
      PROVE  /\ status'[exec'[t].prop] \in EntryStatuses
             /\ PastGate(t)' => exec'[t].entry = status'[exec'[t].prop]
             /\ exec'[t].pc \in {"load", "gate"} => order'[exec'[t].prop] = "none"
             /\ exec'[t].pc = "placed" => exec'[t].prop \notin denied'
  <2> DEFINE Goal == /\ status'[exec'[t].prop] \in EntryStatuses
                     /\ PastGate(t)' => exec'[t].entry = status'[exec'[t].prop]
                     /\ exec'[t].pc \in {"load", "gate"} =>
                           order'[exec'[t].prop] = "none"
                     /\ exec'[t].pc = "placed" => exec'[t].prop \notin denied'
  <2> SUFFICES Goal
    OBVIOUS
  <2>1. ASSUME NEW p \in Proposals, exec[t].prop = p, exec[t].pc # "idle",
               exec'[t] = exec[t]
        PROVE  Goal
    <3>1. /\ status[p] \in EntryStatuses
          /\ PastGate(t) => exec[t].entry = status[p]
          /\ exec[t].pc \in {"load", "gate"} => order[p] = "none"
          /\ exec[t].pc = "placed" => p \notin denied
      BY <2>1 DEF Orderly
    <3>2. \A u \in Tasks : exec[u].prop = p => u = t
      BY <2>1, ConstantsAssumption DEF OneAtWork, OneExecutor
    <3>3. status'[p] = status[p]
      BY <2>1, <3>1, <3>2, WorkerMoves DEF IdleTask
    <3>4. order[p] = "none" /\ exec[t].pc \in {"load", "gate"} => order'[p] = "none"
      <4>1. ExecPlace(t) \/ ExecDenied(t) \/ ExecLost(t) => exec'[t] # exec[t]
        BY <2>1 DEF ExecPlace, ExecDenied, ExecLost, Finish, IdleTask, TypeOK, TasksTyped, TaskStates
      <4> QED BY <2>1, <3>2, <4>1, OrderCases
    <3>5. exec[t].pc = "placed" => p \notin denied'
      BY <2>1, <3>1, <3>2, NewlyDenied
    <3> QED BY <2>1, <3>1, <3>3, <3>4, <3>5 DEF PastGate
  <2>2. ASSUME NEW p \in Proposals, Working(p)', ~Working(p), exec'[t].prop = p,
               exec'[t].pc = "load"
        PROVE  Goal
    BY <2>2, DispatchFresh DEF PastGate
  <2>3. CASE ExecLoad(t)
    BY <1>1, <2>3 DEF ExecLoad, IdleTask, Orderly, PastGate, rowVars, brokerVars, TypeOK,
                      TasksTyped
  <2>4. CASE ExecPlace(t)
    <3>1. /\ exec'[t].pc = "placed" /\ PastGate(t) /\ status' = status
          /\ exec'[t].prop = exec[t].prop /\ exec'[t].entry = exec[t].entry
          /\ exec[t].pc # "idle"
      BY <2>4 DEF ExecPlace, PastGate, rowVars, TypeOK, TasksTyped, TaskStates
    <3>2. exec[t].pc = "gate" /\ denied' = denied
      BY <2>4 DEF ExecPlace
    <3>3. exec[t].prop \in Proposals /\ order[exec[t].prop] = "none"
      BY <3>1, <3>2 DEF Orderly, TypeOK, TasksTyped
    <3> QED BY <3>1, <3>2, <3>3 DEF Orderly
  <2>5. CASE ExecDenied(t)
    <3>1. /\ exec'[t].pc = "denied" /\ PastGate(t) /\ status' = status
          /\ exec'[t].prop = exec[t].prop /\ exec'[t].entry = exec[t].entry
          /\ exec[t].pc # "idle"
      BY <2>5 DEF ExecDenied, PastGate, rowVars, TypeOK, TasksTyped, TaskStates
    <3> QED BY <3>1 DEF Orderly
  <2>6. CASE ExecRefuse(t) \/ ExecRecord(t) \/ ExecLost(t)
    BY <1>1, <2>6, FinishWork DEF ExecRefuse, ExecRecord, ExecLost, Settle, IdleTask,
                                  TypeOK
  <2>7. CASE exec'[t] = exec[t]
    BY <1>1, <2>1, <2>7 DEF TypeOK, TasksTyped
  <2>8. ASSUME NEW p \in Proposals, exec'[t] # exec[t],
               exec'[t] = [pc |-> "load", prop |-> p, entry |-> None, qty |-> None],
               exec[t].prop = None
        PROVE  Goal
    <3>1. exec'[t].prop = p /\ exec'[t].pc = "load" /\ Working(p)'
      BY <2>8 DEF Working
    <3>2. ~Working(p)
      BY <2>8, <3>1, NewSlotAlone, ConstantsAssumption DEF Working
    <3> QED BY <2>2, <3>1, <3>2
  <2>9. CASE exec'[t] # exec[t]
    <3>1. exec'[t] # IdleTask
      BY <1>1 DEF IdleTask
    <3>2. \/ /\ exec[t].prop = None
             /\ \E p \in Proposals :
                   exec'[t] = [pc |-> "load", prop |-> p, entry |-> None, qty |-> None]
          \/ ExecLoad(t) \/ ExecRefuse(t) \/ ExecPlace(t)
          \/ ExecRecord(t) \/ ExecDenied(t) \/ ExecLost(t)
      BY ONLY TypeOK, HeldRows, [Next]_vars, t \in Tasks, <2>9, <3>1, SlotCases
    <3> HIDE DEF Goal
    <3> QED BY ONLY <2>3, <2>4, <2>5, <2>6, <2>8, <2>9, <3>2
  <2> QED BY <2>7, <2>9
<1>2. ASSUME NEW p \in Proposals, order'[p] # "none"
      PROVE  \/ status'[p] \in EntryStatuses
             \/ p \notin denied' /\ status'[p] \in {"EXECUTING", "FILLED"}
             \/ p \in denied' /\ status'[p] = "FAILED"
  <2>1. CASE order[p] = "none"
    <3>1. PICK t \in Tasks : /\ exec[t].prop = p /\ exec[t].pc = "gate"
                             /\ ExecPlace(t) \/ ExecDenied(t) \/ ExecLost(t)
      BY <1>2, <2>1, OrderCases
    <3> QED BY <3>1 DEF ExecPlace, ExecDenied, ExecLost, rowVars, Orderly
  <2>2. CASE order[p] # "none" /\ status[p] \in EntryStatuses
    <3>1. ASSUME NEW t \in Tasks, exec[t].prop = p, ExecRefuse(t)
          PROVE  p \in denied'
      <4>1. exec[t].pc = "denied"
        BY <2>2, <3>1 DEF ExecRefuse, Orderly
      <4> QED BY <3>1, <4>1, DeniedStays DEF SubmittedHasOrder
    <3>2. ASSUME NEW t \in Tasks, exec[t].prop = p, ExecRecord(t)
          PROVE  p \notin denied'
      BY <3>2 DEF ExecRecord, Settle, brokerVars, Orderly
    <3> QED BY <2>2, <3>1, <3>2, WorkerMoves
  <2>3. CASE order[p] # "none" /\ status[p] \notin EntryStatuses
    <3>1. \/ p \notin denied /\ status[p] \in {"EXECUTING", "FILLED"}
          \/ p \in denied /\ status[p] = "FAILED"
      BY <2>3 DEF Orderly
    <3>2. p \in denied' <=> p \in denied
      <4>1. \A t \in Tasks : exec[t].prop = p => exec[t].pc = "idle"
        BY <2>3 DEF Orderly
      <4> QED BY <4>1, NewlyDenied, DeniedStays
    <3>3. CASE status[p] \in {"EXECUTING", "FILLED"}
      <4>1. status'[p] \in {"EXECUTING", "FILLED"}
        BY <3>3, UnracedMoves, ConstantsAssumption DEF EntryStatuses, Exists, Statuses
      <4> QED BY <3>1, <3>2, <3>3, <4>1
    <3>4. CASE status[p] = "FAILED"
      <4>1. status'[p] = status[p]
        BY <3>4, UnracedMoves, ConstantsAssumption DEF EntryStatuses, Exists, Statuses
      <4> QED BY <3>1, <3>2, <3>4, <4>1
    <3> QED BY <3>1, <3>3, <3>4
  <2> QED BY <2>1, <2>2, <2>3
<1>3. ASSUME NEW p \in raised' PROVE status'[p] \in EntryStatuses /\ ~Working(p)'
  <2>1. p \in Proposals
    BY TypeStep DEF TypeOK, FlowsTyped
  <2>2. CASE p \in raised
    <3>1. status[p] \in EntryStatuses /\ ~Working(p)
      BY <2>2 DEF Orderly
    <3>2. status'[p] = status[p]
      BY <2>1, <3>1, WorkerMoves DEF Working
    <3> QED BY <2>1, <3>1, <3>2, DispatchFresh DEF EntryStatuses
  <2>3. CASE p \notin raised
    <3>1. PICK t \in Tasks : /\ exec[t].prop = p /\ exec[t].pc # "idle"
                             /\ Finish(t) /\ status' = status
      BY <2>1, <2>3, RaisedCases
    <3>2. /\ exec'[t] = IdleTask
          /\ \A u \in Tasks \ {t} : exec'[u] = exec[u]
      BY <3>1, FinishWork DEF TypeOK
    <3>3. \A u \in Tasks \ {t} : exec[u].prop # p
      BY <2>1, <3>1, ConstantsAssumption DEF OneAtWork, OneExecutor
    <3>4. ~Working(p)'
      BY <2>1, <3>2, <3>3, ConstantsAssumption DEF Working, IdleTask
    <3> QED BY <3>1, <3>4 DEF Orderly
  <2> QED BY <2>2, <2>3
<1>4. ASSUME NEW p \in denied' PROVE order'[p] # "none"
  <2>1. p \in Proposals
    BY TypeStep DEF TypeOK, BrokerTyped
  <2>2. CASE p \in denied
    BY <2>1, <2>2, OrderOrigin DEF Orderly
  <2>3. CASE p \notin denied
    BY <2>1, <2>3, NewlyDenied
  <2> QED BY <2>2, <2>3
<1>5. \A t \in Tasks :
         (PastGate(t)' \/ exec'[t].pc \in {"load", "gate", "placed"})
            => exec'[t].pc # "idle"
  BY DEF PastGate
<1>6. \A p \in denied' : order'[p] # "none"
  BY <1>4
<1>7. \A p \in raised' : status'[p] \in EntryStatuses /\ ~Working(p)'
  BY <1>3
<1> QED BY <1>1, <1>2, <1>5, <1>6, <1>7 DEF Orderly

LEMMA OrderlyHolds ==
    ASSUME OneSurface, OneTab, NoOverwriters PROVE Spec => [](Settled /\ Orderly)
<1>1. AutoAlone
  BY DEF OneSurface, AutoAlone
<1>2. Init => OneAtWork
  BY InitOneAtWork
<1>3. Init => Orderly
  BY DEF Init, Orderly, IdleTask, PastGate
<1>4. Known /\ OneAtWork /\ [Next]_vars => OneAtWork'
  BY OneAtWorkStep
<1>5. Known /\ OneAtWork /\ Unraced /\ Orderly /\ [Next]_vars => Orderly'
  BY OrderlyStep DEF Settled
<1> QED BY KnownHolds, UnracedHolds, <1>1, <1>2, <1>3, <1>4, <1>5, PTL DEF Spec, Settled

(***************************************************************************)
(* With one place to approve from, one live-confirm tab and nobody to      *)
(* overwrite rows, an exception that escapes an executor leaves the row    *)
(* where its approval put it, for good.                                    *)
(***************************************************************************)
THEOREM EscapesChangeNothing ==
    ASSUME OneSurface, OneTab, NoOverwriters PROVE Spec => []EscapesLeaveTheRow
<1>1. Orderly => EscapesLeaveTheRow
  BY DEF Orderly, EscapesLeaveTheRow, EntryStatuses
<1> QED BY OrderlyHolds, <1>1, PTL

\* What escapes when no submission is lost, and the row it leaves.
LEMMA StuckStep ==
    ASSUME OneSurface, NoOverwriters, "netfail" \notin Actors, Settled, Orderly,
           \A p \in raised : status[p] = "APPROVED_LIVE", [Next]_vars
    PROVE  \A p \in raised' : status'[p] = "APPROVED_LIVE"
<1> USE DEF Settled, Known, IInv
<1> SUFFICES ASSUME NEW p \in raised' PROVE status'[p] = "APPROVED_LIVE"
  OBVIOUS
<1>1. p \in Proposals
  BY TypeStep DEF TypeOK, FlowsTyped
<1>2. CASE p \in raised
  BY <1>1, <1>2, WorkerMoves DEF Orderly, Working
<1>3. CASE p \notin raised
  <2>1. PICK t \in Tasks :
          /\ exec[t].prop = p /\ PastGate(t) /\ status' = status
          /\ \E to \in {"FAILED", "EXECUTING"} :
                ~TransitionAllowed(status[p], exec[t].entry, to)
    BY <1>1, <1>3, RaisedCases DEF ExecLost
  <2>2. exec[t].entry = status[p] /\ status[p] \in EntryStatuses
    BY <2>1 DEF Orderly, PastGate
  <2> QED
    BY <2>1, <2>2 DEF TransitionAllowed, STATE_TRANSITIONS, EntryStatuses
<1> QED BY <1>2, <1>3

(***************************************************************************)
(* When besides no submission and no closing transaction is lost, one      *)
(* exception alone can escape an executor, and for every instance the same *)
(* one: the refusal of a live order, for which STATE_TRANSITIONS has no    *)
(* edge from APPROVED_LIVE.  Its row is stuck there, a paper row never is. *)
(***************************************************************************)
THEOREM OnlyLiveRefusalsEscape ==
    ASSUME OneSurface, OneTab, NoOverwriters, "netfail" \notin Actors
    PROVE  Spec => [](\A p \in raised : status[p] = "APPROVED_LIVE")
<1> DEFINE Stuck == \A p \in raised : status[p] = "APPROVED_LIVE"
<1>1. Init => Stuck
  BY DEF Init
<1>2. Settled /\ Orderly /\ Stuck /\ [Next]_vars => Stuck'
  BY StuckStep
<1> QED BY OrderlyHolds, <1>1, <1>2, PTL DEF Spec

-----------------------------------------------------------------------------
(* The refinement, step by step. *)

Placed == [p \in Proposals |-> order[p] # "none"]

\* A step changes one row and leaves the orders alone, or leaves the rows alone.
LEMMA OneRow ==
    ASSUME NoOverwriters, Known, [Next]_vars
    PROVE  \/ status' = status
           \/ /\ \A p \in Proposals : order'[p] # "none" <=> order[p] # "none"
              /\ denied' = denied
              /\ \E q \in Proposals : \E to :
                    SetStatus(q, to) /\ to # status[q]
<1> USE DEF Known, IInv, brokerVars, rowVars
<1> DEFINE Goal == \/ status' = status
                   \/ /\ order' = order /\ denied' = denied
                      /\ \E q \in Proposals : \E to : SetStatus(q, to)
<1>1. Goal
  <2>1. CASE Quiet
    BY <2>1 DEF Quiet
  <2>2. ASSUME NEW q \in Proposals, WriteProposal(q) \/ Click(q) PROVE Goal
    BY <2>2 DEF WriteProposal, Click, SlackApprove, SlackDivert, SlackApproveNow,
                SlackReject, DashApproveNow, DashRejectNow, EditSubmitNow
  <2>3. ASSUME NEW q \in Proposals,
               \/ AutoGate(q) \/ AutoRead(q) \/ AutoWrite(q)
               \/ \E c \in Clients : ConfirmRead(c, q)
        PROVE  Goal
    BY <2>3 DEF AutoGate, AutoRead, AutoWrite, ConfirmRead
  <2>4. ASSUME NEW c \in Clients, ConfirmWrite(c) PROVE Goal
    BY <2>4, ConfirmLeaves DEF ConfirmWrite
  <2>5. ~SweepWrite /\ ~AnomalyReject
    BY NobodyOverwrites DEF SweepWrite, AnomalyReject
  <2>6. ASSUME NEW t \in Tasks,
               \/ ExecLoad(t) \/ ExecRefuse(t) \/ ExecPlace(t)
               \/ ExecRecord(t) \/ ExecDenied(t) \/ ExecLost(t)
        PROVE  Goal
    BY <2>6 DEF ExecLoad, ExecRefuse, ExecPlace, ExecRecord, ExecDenied, ExecLost, Settle,
                TypeOK, TasksTyped
  <2>7. CASE FillWrite
    <3>1. fill.prop \in Proposals
      BY <2>7 DEF FillWrite, TypeOK, FlowsTyped, NoFill
    <3> QED BY <2>7, <3>1 DEF FillWrite
  <2>8. CASE FillRead \/ FillStamp \/ Crash
    BY <2>8 DEF FillRead, FillStamp, Crash
  <2> QED BY StepCases, <2>1, <2>2, <2>3, <2>4, <2>5, <2>6, <2>7, <2>8
<1>2. ASSUME NEW q \in Proposals, SetStatus(q, status[q]) PROVE status' = status
  BY <1>2 DEF SetStatus, TypeOK, RowsTyped
<1> QED BY <1>1, <1>2

\* An order that appears is the only one that does.
LEMMA OneOrder ==
    ASSUME Known, [Next]_vars, NEW p \in Proposals,
           order[p] = "none", order'[p] # "none"
    PROVE  /\ status' = status /\ Working(p)
           /\ \A q \in Proposals \ {p} : order'[q] = order[q]
<1>1. PICK t \in Tasks : /\ exec[t].prop = p /\ exec[t].pc = "gate"
                         /\ ExecPlace(t) \/ ExecDenied(t) \/ ExecLost(t)
  BY OrderCases DEF Known, IInv
<1>2. status' = status /\ Working(p)
  BY <1>1 DEF ExecPlace, ExecDenied, ExecLost, rowVars, Working
<1>3. order' = [order EXCEPT ![p] = "open"]
  BY <1>1 DEF ExecPlace, ExecDenied, ExecLost, BrokerAccept
<1> QED BY <1>2, <1>3 DEF Known, IInv, TypeOK, BrokerTyped

\* With it, the broker denies that order or none.
LEMMA OneDenied ==
    ASSUME Known, [Next]_vars, NEW p \in Proposals,
           order[p] = "none", order'[p] # "none"
    PROVE  denied' \in {denied, denied \cup {p}}
<1>1. PICK t \in Tasks : /\ exec[t].prop = p
                         /\ ExecPlace(t) \/ ExecDenied(t) \/ ExecLost(t)
  BY OrderCases DEF Known, IInv
<1> QED BY <1>1 DEF ExecPlace, ExecDenied, ExecLost

LEMMA SameTable == Contract!STATE_TRANSITIONS = STATE_TRANSITIONS
BY DEF STATE_TRANSITIONS, Contract!STATE_TRANSITIONS

\* A row that moves, moves as the contract allows for the order behind it.
LEMMA RowKeepsContract ==
    ASSUME NoOverwriters, Settled, Orderly, [Next]_vars, NEW q \in Proposals,
           Placed' = Placed, denied' = denied, NEW to, SetStatus(q, to), to # status[q]
    PROVE  Contract!Propose(q) \/ Contract!Decide(q) \/ Contract!Acknowledge(q)
              \/ Contract!Fail(q)
<1> USE DEF Settled, Known, IInv
<1>1. status'[q] = to /\ status' = [status EXCEPT ![q] = to]
  BY DEF SetStatus, TypeOK, RowsTyped
<1>2. CASE ~Exists(q)
  <2>1. status[q] = None /\ to = "PENDING"
    <3>1. status[q] = None /\ None \notin Statuses /\ ~Left(q)
      BY <1>2, ConstantsAssumption DEF Exists, Left
    <3>2. ~Click(q) \/ status[q] # "PENDING"
      BY <3>1 DEF Statuses
    <3>3. auto[q].pc = "off" /\ ~AutoWrite(q)
      BY <1>2, AutoOn DEF AutoWrite
    <3>4. \A c \in Clients : confirm[c] # q
      BY <3>1, ConstantsAssumption DEF HeldRows
    <3>5. ~SweepWrite /\ ~AnomalyReject
      BY NobodyOverwrites DEF SweepWrite, AnomalyReject
    <3>6. order[q] = "none" /\ \A t \in Tasks : exec[t].prop # q
      BY <3>1, AtWorkExists DEF Working
    <3>7. ~(FillWrite /\ fill.prop = q)
      BY <3>6 DEF FillWrite, UpdatesHaveOrder
    <3> QED
      BY <1>1, <3>1, <3>2, <3>3, <3>4, <3>5, <3>6, <3>7, RowCases DEF Statuses
  <2> QED BY <1>1, <2>1 DEF Contract!Propose, Placed
<1>3. CASE Exists(q)
  <2> DEFINE Moves == Contract!Move(q, to)
  <2>1. <<status[q], to>> \in STATE_TRANSITIONS
    BY <1>1, <1>3, UnracedMoves
  <2>2. Moves
    BY <1>1, <2>1, SameTable DEF Contract!Move, Placed
  <2> HIDE DEF Moves
  <2>3. CASE status[q] \in {"PENDING", "AWAITING_2ND_CHANNEL"}
    <3>1. order[q] = "none" /\ ~Placed[q]
      BY <2>3 DEF Orderly, EntryStatuses, Placed
    <3>2. to \in {"APPROVED", "REJECTED", "AWAITING_2ND_CHANNEL", "APPROVED_LIVE",
                  "EXPIRED"}
      BY <2>1, <2>3 DEF STATE_TRANSITIONS
    <3> QED BY <2>2, <3>1, <3>2 DEF Contract!Decide, Placed, Moves
  <2>4. ASSUME NEW t \in Tasks, exec[t].prop = q, ExecRefuse(t), to = "FAILED"
        PROVE  Contract!Fail(q)
    <3>1. order[q] = "none" \/ q \in denied
      BY <2>4 DEF ExecRefuse, Orderly, SubmittedHasOrder
    <3> QED BY <2>2, <2>4, <3>1 DEF Contract!Fail, Placed, Moves
  <2>5. ASSUME NEW t \in Tasks, exec[t].prop = q, ExecRecord(t), to = "EXECUTING"
        PROVE  Contract!Acknowledge(q)
    <3>1. order[q] # "none" /\ q \notin denied
      BY <2>5 DEF ExecRecord, SubmittedHasOrder, Orderly
    <3> QED BY <2>2, <2>5, <3>1 DEF Contract!Acknowledge, Placed, Moves
  <2>6. CASE FillWrite /\ fill.prop = q /\ to = "FILLED"
    <3>1. order[q] # "none"
      BY <2>6 DEF FillWrite, UpdatesHaveOrder
    <3>2. status[q] = "EXECUTING"
      BY <2>1, <2>6 DEF STATE_TRANSITIONS
    <3>3. q \notin denied
      BY <3>1, <3>2 DEF Orderly, EntryStatuses
    <3> QED BY <2>2, <2>6, <3>1, <3>3 DEF Contract!Acknowledge, Placed, Moves
  <2> QED BY <1>1, <1>3, <2>3, <2>4, <2>5, <2>6, UnracedMoves
<1> QED BY <1>2, <1>3

LEMMA ContractStep ==
    ASSUME NoOverwriters, Settled, Orderly, [Next]_vars
    PROVE  [Contract!Next]_(Contract!contractVars)
<1> USE DEF Settled, Known
<1> DEFINE SameOrders == \A p \in Proposals : order'[p] # "none" <=> order[p] # "none"
<1>1. CASE status' = status /\ SameOrders /\ denied' = denied
  BY <1>1 DEF Contract!contractVars
<1>2. ASSUME NEW p \in Proposals, order[p] = "none", order'[p] # "none"
      PROVE  status' = status /\ Contract!Place(p)
  <2>1. /\ status' = status /\ Working(p)
        /\ \A q \in Proposals \ {p} : order'[q] = order[q]
    BY <1>2, OneOrder
  <2>2. status[p] \in {"APPROVED", "APPROVED_LIVE"}
    <3>1. PICK t \in Tasks : exec[t].prop = p
      BY <2>1 DEF Working
    <3>2. exec[t].pc # "idle"
      BY <3>1, ConstantsAssumption DEF HeldRows
    <3> QED BY <3>1, <3>2 DEF Orderly, EntryStatuses
  <2>3. Placed' = [Placed EXCEPT ![p] = TRUE] /\ ~Placed[p]
    BY <1>2, <2>1 DEF Placed
  <2>4. denied' \in {denied, denied \cup {p}}
    BY <1>2, OneDenied
  <2> QED BY <2>1, <2>2, <2>3, <2>4 DEF Contract!Place, Placed
<1>3. ASSUME NEW p \in Proposals, ~(order'[p] # "none" <=> order[p] # "none")
      PROVE  status' = status /\ Contract!Place(p)
  BY <1>2, <1>3, OrderOrigin DEF IInv
<1>4. ASSUME denied' # denied PROVE ~SameOrders
  <2>1. PICK p \in Proposals : p \in denied' /\ p \notin denied
    BY <1>4, TypeStep, DeniedStays DEF IInv, TypeOK, BrokerTyped
  <2>2. order[p] = "none" /\ order'[p] # "none"
    BY <2>1, NewlyDenied DEF Orderly, IInv
  <2> QED BY <2>2
<1>5. ASSUME SameOrders, denied' = denied,
             NEW q \in Proposals, NEW to, SetStatus(q, to), to # status[q]
      PROVE  Contract!Next
  <2>1. Placed' = Placed
    BY <1>5 DEF Placed
  <2> QED BY <1>5, <2>1, RowKeepsContract DEF Contract!Next
<1> QED BY <1>1, <1>3, <1>4, <1>5, OneRow DEF Contract!Next

(***************************************************************************)
(* The refinement: where approvals come from one place, in one tab, and    *)
(* neither sweep nor reflex overwrites rows, the pipeline with its         *)
(* executors, broker, fill stream, crashes and lost calls implements       *)
(* ProposalContract.                                                       *)
(***************************************************************************)
THEOREM PipelineKeepsContract ==
    ASSUME OneSurface, OneTab, NoOverwriters PROVE Spec => KeepsContract
<1>1. Init => Contract!Init
  BY DEF Init, Contract!Init
<1>2. Settled /\ Orderly /\ [Next]_vars => [Contract!Next]_(Contract!contractVars)
  BY ContractStep
<1> QED BY OrderlyHolds, <1>1, <1>2, PTL DEF Spec, KeepsContract, Contract!Spec

-----------------------------------------------------------------------------
(* Every approved row has an executor. *)

LEMMA OwnedStep ==
    ASSUME Actors \cap {"netfail", "crash"} = {}, Known, OwnedByOneWhoFinishes,
           [Next]_vars
    PROVE  OwnedByOneWhoFinishes'
<1> DEFINE Owns(t, p) == /\ exec[t].prop = p
                         /\ exec[t].pc # "idle"
                         /\ exec[t].pc = "load" \/ exec[t].entry = "APPROVED"
<1> USE DEF Known, IInv
<1> SUFFICES ASSUME NEW p \in Proposals, status'[p] = "APPROVED"
             PROVE  \E t \in Tasks : Owns(t, p)'
  BY DEF OwnedByOneWhoFinishes
<1>1. CASE status[p] = "APPROVED"
  <2>1. PICK t \in Tasks : Owns(t, p)
    BY <1>1 DEF OwnedByOneWhoFinishes
  <2>2. CASE exec'[t] = exec[t]
    BY <2>1, <2>2
  <2>3. CASE ExecLoad(t)
    BY <1>1, <2>1, <2>3 DEF ExecLoad, EntryStatuses, TypeOK, TasksTyped
  <2>4. CASE ExecPlace(t)
    BY <2>1, <2>4 DEF ExecPlace, TypeOK, TasksTyped, TaskStates
  <2>5. ASSUME NEW to \in {"FAILED", "EXECUTING"}, NEW ev, Settle(t, to, ev),
               exec[t].pc # "load"
        PROVE  FALSE
    <3>1. TransitionAllowed(status[p], exec[t].entry, to)
      BY <1>1, <2>1, <2>5 DEF TransitionAllowed, STATE_TRANSITIONS
    <3>2. SetStatus(p, to)
      BY <2>1, <2>5, <3>1 DEF Settle
    <3> QED BY <2>5, <3>2 DEF SetStatus, TypeOK, RowsTyped
  <2>6. ~ExecRefuse(t) /\ ~ExecRecord(t)
    BY <2>5 DEF ExecRefuse, ExecRecord
  <2>7. ~ExecDenied(t) /\ ~ExecLost(t) /\ ~Crash
    BY DEF ExecDenied, ExecLost, Crash
  <2> QED BY <2>1, <2>2, <2>3, <2>4, <2>6, <2>7, SlotCases
<1>2. CASE status[p] # "APPROVED"
  <2>1. Click(p) \/ (AutoWrite(p) /\ AutoTarget(p) = "APPROVED")
    BY <1>2, RowCases
  <2>2. Dispatch(p)
    <3>1. ASSUME NEW to, SetStatus(p, to) PROVE to = "APPROVED"
      BY <3>1 DEF SetStatus, TypeOK, RowsTyped
    <3>2. CASE Click(p)
      BY <3>1, <3>2 DEF Click, SlackApprove, SlackDivert, SlackApproveNow, SlackReject,
                        DashApproveNow, DashRejectNow, EditSubmitNow
    <3>3. CASE AutoWrite(p) /\ AutoTarget(p) = "APPROVED"
      BY <3>3 DEF AutoWrite, AutoTarget
    <3> QED BY <2>1, <3>2, <3>3
  <2>3. PICK t \in Tasks :
          exec'[t] = [pc |-> "load", prop |-> p, entry |-> None, qty |-> None]
    BY <2>2, DispatchWork DEF TypeOK, HeldRows
  <2>4. Owns(t, p)'
    BY <2>3
  <2> QED BY <2>4
<1> QED BY <1>1, <1>2

(***************************************************************************)
(* As long as the process does not die and no submission or closing        *)
(* transaction is lost, an APPROVED row has an executor at work on it,     *)
(* with every surface, tab, sweep, reflex and auto branch racing: what one *)
(* executor gives up, another that can still finish holds.                 *)
(***************************************************************************)
THEOREM ApprovedHasOwner ==
    ASSUME Actors \cap {"netfail", "crash"} = {} PROVE Spec => []ApprovedIsOwned
<1>1. Init => OwnedByOneWhoFinishes
  BY ConstantsAssumption DEF Init, OwnedByOneWhoFinishes, Statuses
<1>2. Known /\ OwnedByOneWhoFinishes /\ [Next]_vars => OwnedByOneWhoFinishes'
  BY OwnedStep
<1>3. OwnedByOneWhoFinishes => ApprovedIsOwned
  BY DEF OwnedByOneWhoFinishes, ApprovedIsOwned, Working
<1> QED BY KnownHolds, <1>1, <1>2, <1>3, PTL DEF Spec

-----------------------------------------------------------------------------
(***************************************************************************)
(* Whoever is at work and whatever they overwrite, a row that has left     *)
(* PENDING never returns there, and its quantity stands from then on: a    *)
(* resize races every approval and loses to the first one committed.       *)
(***************************************************************************)
THEOREM DecidedForGood ==
    Spec => [][\A p \in Proposals : Left(p) => Left(p)' /\ qty'[p] = qty[p]]_vars
<1>1. TypeOK /\ [Next]_vars =>
        [\A p \in Proposals : Left(p) => Left(p)' /\ qty'[p] = qty[p]]_vars
  BY LeftForGood
<1> QED BY TypeCorrect, <1>1, PTL DEF Spec
=============================================================================
