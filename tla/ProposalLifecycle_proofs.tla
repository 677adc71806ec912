---------------------- MODULE ProposalLifecycle_proofs ----------------------
(***************************************************************************)
(* Proofs about ProposalLifecycle, for every set of proposals, executor    *)
(* slots, browser tabs, actors and stream modes and every number of        *)
(* crashes.                                                                *)
(***************************************************************************)
EXTENDS ProposalLifecycle, TLAPS

-----------------------------------------------------------------------------
(* Type correctness, one lemma for each part of TypeOK. *)

LEMMA InitTyped == Init => TypeOK
<1> SUFFICES ASSUME Init PROVE TypeOK
  OBVIOUS
<1> USE DEF Init
<1>1. RowsTyped
  BY DEF RowsTyped, Modes, Quantities
<1>2. AuditTyped
  BY DEF AuditTyped
<1>3. BrokerTyped
  BY DEF BrokerTyped, Orders
<1>4. TasksTyped
  BY DEF TasksTyped, TaskStates, IdleTask
<1>5. FlowsTyped
  BY ConstantsAssumption DEF FlowsTyped, NoAuto
<1> QED BY <1>1, <1>2, <1>3, <1>4, <1>5 DEF TypeOK

LEMMA RowsStep == TypeOK /\ [Next]_vars => RowsTyped'
<1> SUFFICES ASSUME TypeOK, [Next]_vars PROVE RowsTyped'
  OBVIOUS
<1> USE DEF TypeOK, RowsTyped, rowVars, SetStatus, Statuses
<1>1. ASSUME NEW p \in Proposals, WriteProposal(p) PROVE RowsTyped'
  BY <1>1 DEF WriteProposal
<1>2. ASSUME NEW p \in Proposals, TimePasses(p) PROVE RowsTyped'
  BY <1>2 DEF TimePasses
<1>3. ASSUME NEW p \in Proposals, SlackApprove(p) PROVE RowsTyped'
  BY <1>3 DEF SlackApprove, SlackDivert, SlackApproveNow
<1>4. ASSUME NEW p \in Proposals, SlackReject(p) PROVE RowsTyped'
  BY <1>4 DEF SlackReject
<1>5. ASSUME NEW p \in Proposals, DashApprove(p) PROVE RowsTyped'
  BY <1>5 DEF DashApprove, DashApproveNow, ClickTooLate
<1>6. ASSUME NEW p \in Proposals, DashReject(p) PROVE RowsTyped'
  BY <1>6 DEF DashReject, DashRejectNow, ClickTooLate
<1>7. ASSUME NEW p \in Proposals, EditSubmit(p) PROVE RowsTyped'
  BY <1>7 DEF EditSubmit, EditSubmitNow, ClickTooLate, Quantities
<1>8. ASSUME NEW p \in Proposals, AutoGate(p) PROVE RowsTyped'
  BY <1>8 DEF AutoGate
<1>9. ASSUME NEW p \in Proposals, AutoRead(p) PROVE RowsTyped'
  BY <1>9 DEF AutoRead
<1>10. ASSUME NEW p \in Proposals, AutoWrite(p) PROVE RowsTyped'
  BY <1>10 DEF AutoWrite, AutoTarget, StatusAfter
<1>11. ASSUME NEW p \in Proposals, BrokerFill(p) PROVE RowsTyped'
  BY <1>11 DEF BrokerFill
<1>12. ASSUME NEW p \in Proposals, BrokerClose(p) PROVE RowsTyped'
  BY <1>12 DEF BrokerClose
<1>13. ASSUME NEW c \in Clients, NEW p \in Proposals, ConfirmRead(c, p)
       PROVE  RowsTyped'
  BY <1>13 DEF ConfirmRead
<1>14. ASSUME NEW c \in Clients, ConfirmWrite(c) PROVE RowsTyped'
  BY <1>14 DEF ConfirmWrite, FlowsTyped
<1>15. CASE Sweep
  BY <1>15 DEF Sweep, SweepStart, SweepCheck, SweepWrite, StatusAfter,
               FlowsTyped
<1>16. CASE AnomalyList
  BY <1>16 DEF AnomalyList
<1>17. CASE AnomalyReject
  BY <1>17 DEF AnomalyReject
<1>18. ASSUME NEW t \in Tasks, Executor(t) PROVE RowsTyped'
  BY <1>18 DEF Executor, ExecLoad, ExecRefuse, ExecPlace, ExecRecord, Settle,
               TasksTyped
<1>19. ASSUME NEW t \in Tasks, ExecDenied(t) \/ ExecLost(t) PROVE RowsTyped'
  BY <1>19 DEF ExecDenied, ExecLost
<1>20. CASE OnFill
  BY <1>20 DEF OnFill, FillRead, FillWrite, FillStamp, FlowsTyped
<1>21. CASE FillDropped
  BY <1>21 DEF FillDropped
<1>22. CASE Crash
  BY <1>22 DEF Crash
<1>23. CASE UNCHANGED vars
  BY <1>23 DEF vars
<1> QED
  BY <1>1, <1>2, <1>3, <1>4, <1>5, <1>6, <1>7, <1>8, <1>9, <1>10, <1>11,
     <1>12, <1>13, <1>14, <1>15, <1>16, <1>17, <1>18, <1>19, <1>20, <1>21,
     <1>22, <1>23 DEF Next

LEMMA AuditStep == TypeOK /\ [Next]_vars => AuditTyped'
<1> SUFFICES ASSUME TypeOK, [Next]_vars PROVE AuditTyped'
  OBVIOUS
<1> USE DEF TypeOK, AuditTyped, Buttons, auditVars, Record, RecordApproval,
            Claim, EventTypes
<1>1. ASSUME NEW p \in Proposals, WriteProposal(p) PROVE AuditTyped'
  BY <1>1 DEF WriteProposal
<1>2. ASSUME NEW p \in Proposals, SlackApprove(p) PROVE AuditTyped'
  BY <1>2 DEF SlackApprove
<1>3. ASSUME NEW p \in Proposals, SlackReject(p) PROVE AuditTyped'
  BY <1>3 DEF SlackReject
<1>4. ASSUME NEW p \in Proposals, DashApprove(p) PROVE AuditTyped'
  BY <1>4 DEF DashApprove, DashApproveNow, ClickTooLate
<1>5. ASSUME NEW p \in Proposals, DashReject(p) PROVE AuditTyped'
  BY <1>5 DEF DashReject, DashRejectNow, ClickTooLate
<1>6. ASSUME NEW p \in Proposals, EditSubmit(p) PROVE AuditTyped'
  BY <1>6 DEF EditSubmit, EditSubmitNow, ClickTooLate
<1>7. ASSUME NEW p \in Proposals, AutoWrite(p) PROVE AuditTyped'
  BY <1>7 DEF AutoWrite
<1>8. ASSUME NEW c \in Clients, ConfirmWrite(c) PROVE AuditTyped'
  BY <1>8 DEF ConfirmWrite, FlowsTyped
<1>9. CASE Sweep
  BY <1>9 DEF Sweep, SweepStart, SweepCheck, SweepWrite, FlowsTyped
<1>10. CASE AnomalyReject
  BY <1>10 DEF AnomalyReject
<1>11. ASSUME NEW t \in Tasks, Executor(t) PROVE AuditTyped'
  BY <1>11 DEF Executor, ExecLoad, ExecRefuse, ExecPlace, ExecRecord, Settle,
               TasksTyped
<1>12. CASE OnFill
  BY <1>12 DEF OnFill, FillRead, FillWrite, FillStamp, FlowsTyped
<1>13. ASSUME NEW p \in Proposals,
              \/ TimePasses(p) \/ AutoGate(p) \/ AutoRead(p)
              \/ BrokerFill(p) \/ BrokerClose(p)
              \/ \E c \in Clients : ConfirmRead(c, p)
       PROVE  AuditTyped'
  BY <1>13 DEF TimePasses, AutoGate, AutoRead, BrokerFill, BrokerClose,
               ConfirmRead
<1>14. ASSUME NEW t \in Tasks, ExecDenied(t) \/ ExecLost(t) PROVE AuditTyped'
  BY <1>14 DEF ExecDenied, ExecLost
<1>15. CASE AnomalyList \/ FillDropped \/ Crash \/ UNCHANGED vars
  BY <1>15 DEF AnomalyList, FillDropped, Crash, vars
<1> QED
  BY <1>1, <1>2, <1>3, <1>4, <1>5, <1>6, <1>7, <1>8, <1>9, <1>10, <1>11,
     <1>12, <1>13, <1>14, <1>15 DEF Next

LEMMA BrokerStep == TypeOK /\ [Next]_vars => BrokerTyped'
<1> SUFFICES ASSUME TypeOK, [Next]_vars PROVE BrokerTyped'
  OBVIOUS
<1> USE DEF TypeOK, BrokerTyped, brokerVars, Orders
<1>1. ASSUME NEW p \in Proposals, BrokerFill(p) PROVE BrokerTyped'
  BY <1>1 DEF BrokerFill
<1>2. ASSUME NEW p \in Proposals, BrokerClose(p) PROVE BrokerTyped'
  BY <1>2 DEF BrokerClose
<1>3. ASSUME NEW t \in Tasks, Executor(t) PROVE BrokerTyped'
  BY <1>3 DEF Executor, ExecLoad, ExecRefuse, ExecPlace, ExecRecord, Settle,
              BrokerAccept, TasksTyped, TaskStates
<1>4. ASSUME NEW t \in Tasks, ExecDenied(t) \/ ExecLost(t) PROVE BrokerTyped'
  BY <1>4 DEF ExecDenied, ExecLost, BrokerAccept, TasksTyped, TaskStates
<1>5. CASE OnFill \/ FillDropped
  BY <1>5 DEF OnFill, FillRead, FillWrite, FillStamp, FillDropped
<1>6. CASE Crash
  BY <1>6 DEF Crash
<1>7. ASSUME NEW p \in Proposals,
             \/ WriteProposal(p) \/ TimePasses(p)
             \/ SlackApprove(p) \/ SlackReject(p)
             \/ DashApprove(p) \/ DashReject(p) \/ EditSubmit(p)
             \/ AutoGate(p) \/ AutoRead(p) \/ AutoWrite(p)
             \/ \E c \in Clients : ConfirmRead(c, p)
      PROVE  BrokerTyped'
  BY <1>7 DEF WriteProposal, TimePasses, SlackApprove, SlackReject, DashApprove,
              DashApproveNow, DashReject, DashRejectNow, EditSubmit,
              EditSubmitNow, ClickTooLate, AutoGate, AutoRead, AutoWrite,
              ConfirmRead
<1>8. ASSUME NEW c \in Clients, ConfirmWrite(c) PROVE BrokerTyped'
  BY <1>8 DEF ConfirmWrite
<1>9. CASE Sweep \/ AnomalyList \/ AnomalyReject \/ UNCHANGED vars
  BY <1>9 DEF Sweep, SweepStart, SweepCheck, SweepWrite, AnomalyList,
              AnomalyReject, vars
<1> QED
  BY <1>1, <1>2, <1>3, <1>4, <1>5, <1>6, <1>7, <1>8, <1>9 DEF Next

\* A dispatch fills one idle slot with a well-formed task.
LEMMA DispatchTyped ==
    ASSUME TasksTyped, NEW p \in Proposals, Dispatch(p) PROVE TasksTyped'
BY DEF TasksTyped, Dispatch, TaskStates

LEMMA TasksStep == TypeOK /\ [Next]_vars => TasksTyped'
<1> SUFFICES ASSUME TypeOK, [Next]_vars PROVE TasksTyped'
  OBVIOUS
<1> USE DEF TypeOK
<1>1. ASSUME NEW p \in Proposals,
             SlackApprove(p) \/ DashApprove(p) \/ EditSubmit(p) \/ AutoWrite(p)
      PROVE  TasksTyped'
  <2>1. Dispatch(p) \/ UNCHANGED exec
    BY <1>1 DEF SlackApprove, SlackDivert, SlackApproveNow, DashApprove,
                DashApproveNow, EditSubmit, EditSubmitNow, ClickTooLate, AutoWrite
  <2> QED BY <2>1, DispatchTyped DEF TasksTyped
<1>2. ASSUME NEW c \in Clients, ConfirmWrite(c) PROVE TasksTyped'
  <2>1. confirm[c] \in Proposals /\ Dispatch(confirm[c])
    BY <1>2 DEF ConfirmWrite, FlowsTyped
  <2> QED BY <2>1, DispatchTyped
<1>3. ASSUME NEW t \in Tasks, ExecLoad(t) PROVE TasksTyped'
  BY <1>3 DEF ExecLoad, IdleTask, TasksTyped, TaskStates, RowsTyped
<1>4. ASSUME NEW t \in Tasks,
             ExecRefuse(t) \/ ExecRecord(t) \/ ExecLost(t)
      PROVE  TasksTyped'
  BY <1>4 DEF ExecRefuse, ExecRecord, ExecLost, Settle, Finish, IdleTask,
              TasksTyped, TaskStates
<1>5. ASSUME NEW t \in Tasks, ExecPlace(t) \/ ExecDenied(t) PROVE TasksTyped'
  BY <1>5 DEF ExecPlace, ExecDenied, TasksTyped, TaskStates
<1>6. CASE Crash
  BY <1>6 DEF Crash, IdleTask, TasksTyped, TaskStates
<1>7. ASSUME NEW p \in Proposals,
             \/ WriteProposal(p) \/ TimePasses(p)
             \/ SlackReject(p) \/ DashReject(p) \/ AutoGate(p) \/ AutoRead(p)
             \/ BrokerFill(p) \/ BrokerClose(p)
             \/ \E c \in Clients : ConfirmRead(c, p)
      PROVE  TasksTyped'
  BY <1>7 DEF WriteProposal, TimePasses, SlackReject, DashReject, DashRejectNow,
              ClickTooLate, AutoGate, AutoRead, BrokerFill, BrokerClose,
              ConfirmRead, TasksTyped
<1>8. CASE Sweep \/ AnomalyList \/ AnomalyReject
  BY <1>8 DEF Sweep, SweepStart, SweepCheck, SweepWrite, AnomalyList,
              AnomalyReject, TasksTyped
<1>9. CASE OnFill \/ FillDropped \/ UNCHANGED vars
  BY <1>9 DEF OnFill, FillRead, FillWrite, FillStamp, FillDropped, vars,
              TasksTyped
<1> QED
  BY <1>1, <1>2, <1>3, <1>4, <1>5, <1>6, <1>7, <1>8, <1>9 DEF Next, Executor

LEMMA FlowsStep == TypeOK /\ [Next]_vars => FlowsTyped'
<1> SUFFICES ASSUME TypeOK, [Next]_vars PROVE FlowsTyped'
  OBVIOUS
<1> USE DEF TypeOK, FlowsTyped, flowVars
<1>1. ASSUME NEW p \in Proposals, WriteProposal(p) PROVE FlowsTyped'
  BY <1>1 DEF WriteProposal
<1>2. ASSUME NEW p \in Proposals,
             \/ TimePasses(p) \/ SlackApprove(p) \/ SlackReject(p)
             \/ DashApprove(p) \/ DashReject(p) \/ EditSubmit(p)
             \/ BrokerFill(p) \/ BrokerClose(p)
      PROVE  FlowsTyped'
  BY <1>2 DEF TimePasses, SlackApprove, SlackReject, DashApprove, DashApproveNow,
              DashReject, DashRejectNow, EditSubmit, EditSubmitNow,
              ClickTooLate, BrokerFill, BrokerClose
<1>3. ASSUME NEW p \in Proposals, AutoGate(p) \/ AutoWrite(p) PROVE FlowsTyped'
  BY <1>3 DEF AutoGate, AutoWrite, NoAuto
<1>4. ASSUME NEW p \in Proposals, AutoRead(p) PROVE FlowsTyped'
  BY <1>4 DEF AutoRead, NoAuto, RowsTyped
<1>5. ASSUME NEW c \in Clients, NEW p \in Proposals, ConfirmRead(c, p)
      PROVE  FlowsTyped'
  BY <1>5 DEF ConfirmRead
<1>6. ASSUME NEW c \in Clients, ConfirmWrite(c) PROVE FlowsTyped'
  BY <1>6 DEF ConfirmWrite
<1>7. CASE SweepStart \/ SweepWrite
  BY <1>7 DEF SweepStart, SweepWrite
<1>8. CASE SweepCheck
  <2>1. PICK r \in sweepList :
            /\ sweepList' = sweepList \ {r}
            /\ \/ /\ TransitionAllowed(status[r[1]], r[2], "EXPIRED")
                  /\ sweepRow' = [prop |-> r[1], seen |-> status[r[1]]]
               \/ sweepRow' = sweepRow
    BY <1>8 DEF SweepCheck
  <2>2. r[1] \in Proposals
    OBVIOUS
  <2>3. TransitionAllowed(status[r[1]], r[2], "EXPIRED")
           => status[r[1]] \in Statuses
    BY DEF TransitionAllowed, STATE_TRANSITIONS, Statuses
  <2>4. sweepRow' \in {NoRead} \cup [prop: Proposals, seen: Statuses]
    BY <2>1, <2>2, <2>3
  <2>5. UNCHANGED <<confirm, doomed, auto, fill, raised, crashes>>
    BY <1>8 DEF SweepCheck
  <2> QED BY <2>1, <2>4, <2>5
<1>9. CASE AnomalyList \/ AnomalyReject
  BY <1>9 DEF AnomalyList, AnomalyReject
<1>10. ASSUME NEW t \in Tasks, Executor(t) \/ ExecDenied(t) \/ ExecLost(t) PROVE FlowsTyped'
  BY <1>10 DEF Executor, ExecLoad, ExecRefuse, ExecPlace, ExecRecord, Settle,
               ExecDenied, ExecLost, TasksTyped
<1>11. CASE OnFill
  <2>1. CASE FillRead
    <3>1. Head(feed) \in Proposals
      BY <2>1 DEF FillRead, BrokerTyped
    <3>2. status[Head(feed)] \in Statuses \cup {None}
      BY <3>1 DEF RowsTyped
    <3> QED BY <2>1, <3>1, <3>2 DEF FillRead
  <2>2. CASE FillWrite
    BY <2>2, ConstantsAssumption DEF FillWrite, NoFill
  <2>3. CASE FillStamp
    BY <2>3 DEF FillStamp
  <2> QED BY <1>11, <2>1, <2>2, <2>3 DEF OnFill
<1>12. CASE FillDropped \/ UNCHANGED vars
  BY <1>12 DEF FillDropped, vars
<1>13. CASE Crash
  BY <1>13, ConstantsAssumption DEF Crash, NoAuto
<1> QED
  BY <1>1, <1>2, <1>3, <1>4, <1>5, <1>6, <1>7, <1>8, <1>9, <1>10, <1>11,
     <1>12, <1>13 DEF Next, Sweep

LEMMA TypeStep == TypeOK /\ [Next]_vars => TypeOK'
BY RowsStep, AuditStep, BrokerStep, TasksStep, FlowsStep DEF TypeOK

(***************************************************************************)
(* The tables, the coroutines and the broker hold what they can hold.      *)
(***************************************************************************)
THEOREM TypeCorrect == Spec => []TypeOK
BY InitTyped, TypeStep, PTL DEF Spec

-----------------------------------------------------------------------------
(* What no step of anybody undoes.                                         *)

Left(p)     == status[p] \notin {None, "PENDING"}
PastGate(t) == exec[t].pc \in {"gate", "placed", "denied"}

(***************************************************************************)
(* The audit trail of a proposal only grows: no handler, sweep or task     *)
(* deletes or rewrites an event.                                           *)
(***************************************************************************)
LEMMA TrailGrows ==
    ASSUME TypeOK, [Next]_vars, NEW p \in Proposals
    PROVE  trail[p] \subseteq trail'[p]
<1> USE DEF TypeOK, AuditTyped, auditVars, Record, RecordApproval
<1>1. ASSUME NEW q \in Proposals, WriteProposal(q)
      PROVE  trail[p] \subseteq trail'[p]
  BY <1>1 DEF WriteProposal
<1>2. ASSUME NEW q \in Proposals,
             \/ SlackApprove(q) \/ SlackReject(q)
             \/ DashApprove(q) \/ DashReject(q) \/ EditSubmit(q)
      PROVE  trail[p] \subseteq trail'[p]
  BY <1>2 DEF SlackApprove, SlackReject, DashApprove, DashApproveNow,
              DashReject, DashRejectNow, EditSubmit, EditSubmitNow, ClickTooLate
<1>3. ASSUME NEW q \in Proposals, AutoWrite(q)
      PROVE  trail[p] \subseteq trail'[p]
  BY <1>3 DEF AutoWrite
<1>4. ASSUME NEW q \in Proposals,
             \/ TimePasses(q) \/ AutoGate(q) \/ AutoRead(q)
             \/ BrokerFill(q) \/ BrokerClose(q)
             \/ \E c \in Clients : ConfirmRead(c, q)
      PROVE  trail[p] \subseteq trail'[p]
  BY <1>4 DEF TimePasses, AutoGate, AutoRead, BrokerFill, BrokerClose,
              ConfirmRead
<1>5. ASSUME NEW c \in Clients, ConfirmWrite(c)
      PROVE  trail[p] \subseteq trail'[p]
  BY <1>5 DEF ConfirmWrite
<1>6. CASE Sweep \/ AnomalyList \/ AnomalyReject
  BY <1>6 DEF Sweep, SweepStart, SweepCheck, SweepWrite, AnomalyList,
              AnomalyReject
<1>7. ASSUME NEW t \in Tasks, Executor(t) \/ ExecDenied(t) \/ ExecLost(t)
      PROVE  trail[p] \subseteq trail'[p]
  BY <1>7 DEF Executor, ExecLoad, ExecRefuse, ExecPlace, ExecRecord, Settle,
              ExecDenied, ExecLost
<1>8. CASE OnFill \/ FillDropped \/ Crash \/ UNCHANGED vars
  BY <1>8 DEF OnFill, FillRead, FillWrite, FillStamp, FillDropped, Crash, vars
<1> QED
  BY <1>1, <1>2, <1>3, <1>4, <1>5, <1>6, <1>7, <1>8 DEF Next

(***************************************************************************)
(* A row that has left PENDING never gets back there, whoever overwrites   *)
(* whom, and from then on its quantity stands.                             *)
(***************************************************************************)
LEMMA LeftForGood ==
    ASSUME TypeOK, [Next]_vars, NEW p \in Proposals, Left(p)
    PROVE  Left(p)' /\ qty'[p] = qty[p]
<1> DEFINE Stays == Left(p)' /\ qty'[p] = qty[p]
<1> USE ConstantsAssumption DEF TypeOK, RowsTyped, Left, rowVars, SetStatus,
        TransitionAllowed, STATE_TRANSITIONS, StatusAfter, Statuses
<1>1. ASSUME NEW q \in Proposals, WriteProposal(q) PROVE Stays
  BY <1>1 DEF WriteProposal, Exists
<1>2. ASSUME NEW q \in Proposals, SlackApprove(q) \/ SlackReject(q) PROVE Stays
  BY <1>2 DEF SlackApprove, SlackDivert, SlackApproveNow, SlackReject
<1>3. ASSUME NEW q \in Proposals, DashApprove(q) \/ DashReject(q) PROVE Stays
  BY <1>3 DEF DashApprove, DashApproveNow, DashReject, DashRejectNow,
              ClickTooLate
<1>4. ASSUME NEW q \in Proposals, EditSubmit(q) PROVE Stays
  BY <1>4 DEF EditSubmit, EditSubmitNow, ClickTooLate, TERMINAL_STATUSES
<1>5. ASSUME NEW q \in Proposals, AutoWrite(q) PROVE Stays
  BY <1>5 DEF AutoWrite, AutoTarget
<1>6. ASSUME NEW q \in Proposals,
             \/ TimePasses(q) \/ AutoGate(q) \/ AutoRead(q)
             \/ BrokerFill(q) \/ BrokerClose(q)
             \/ \E c \in Clients : ConfirmRead(c, q)
      PROVE  Stays
  BY <1>6 DEF TimePasses, AutoGate, AutoRead, BrokerFill, BrokerClose,
              ConfirmRead
<1>7. ASSUME NEW c \in Clients, ConfirmWrite(c) PROVE Stays
  BY <1>7 DEF ConfirmWrite
<1>8. CASE Sweep
  BY <1>8 DEF Sweep, SweepStart, SweepCheck, SweepWrite
<1>9. CASE AnomalyList \/ AnomalyReject
  BY <1>9 DEF AnomalyList, AnomalyReject
<1>10. ASSUME NEW t \in Tasks, Executor(t) \/ ExecDenied(t) \/ ExecLost(t) PROVE Stays
  BY <1>10 DEF Executor, ExecLoad, ExecRefuse, ExecPlace, ExecRecord, Settle,
               ExecDenied, ExecLost
<1>11. CASE OnFill
  BY <1>11 DEF OnFill, FillRead, FillWrite, FillStamp
<1>12. CASE FillDropped \/ Crash \/ UNCHANGED vars
  BY <1>12 DEF FillDropped, Crash, vars
<1> QED
  BY <1>1, <1>2, <1>3, <1>4, <1>5, <1>6, <1>7, <1>8, <1>9, <1>10, <1>11,
     <1>12 DEF Next

(***************************************************************************)
(* An order at the broker stays an order of the same quantity, and a new   *)
(* one comes from an executor past its gate, with the quantity it read.    *)
(***************************************************************************)
LEMMA OrderOrigin ==
    ASSUME TypeOK, [Next]_vars, NEW p \in Proposals
    PROVE  /\ order[p] # "none"
                => order'[p] # "none" /\ orderQty'[p] = orderQty[p]
           /\ order[p] = "none" /\ order'[p] # "none"
                => \E t \in Tasks : /\ PastGate(t)
                                    /\ exec[t].prop = p
                                    /\ orderQty'[p] = exec[t].qty
<1> DEFINE Kept == order[p] # "none"
                      => order'[p] # "none" /\ orderQty'[p] = orderQty[p]
           Placed(t) == PastGate(t) /\ exec[t].prop = p
                                   /\ orderQty'[p] = exec[t].qty
           Origin == order[p] = "none" /\ order'[p] # "none"
                        => \E t \in Tasks : Placed(t)
<1> USE DEF TypeOK, BrokerTyped, brokerVars
<1>1. ASSUME NEW t \in Tasks, Executor(t) \/ ExecDenied(t) \/ ExecLost(t) PROVE Kept /\ Origin
  <2>1. CASE order'[p] = order[p] /\ orderQty'[p] = orderQty[p]
    BY <2>1
  <2>2. CASE ~(order'[p] = order[p] /\ orderQty'[p] = orderQty[p])
    <3>1. exec[t].pc = "gate" /\ BrokerAccept(exec[t].prop, exec[t].qty)
      BY <1>1, <2>2 DEF Executor, ExecLoad, ExecRefuse, ExecPlace, ExecRecord,
                        Settle, ExecDenied, ExecLost
    <3>2. exec[t].prop = p /\ order[p] = "none" /\ orderQty'[p] = exec[t].qty
      BY <2>2, <3>1 DEF BrokerAccept
    <3>3. Placed(t)
      BY <3>1, <3>2 DEF PastGate
    <3> QED BY <3>2, <3>3
  <2> QED BY <2>1, <2>2
<1>2. ASSUME NEW q \in Proposals, BrokerFill(q) \/ BrokerClose(q)
      PROVE  Kept /\ Origin
  BY <1>2 DEF BrokerFill, BrokerClose
<1>3. ASSUME NEW q \in Proposals,
             \/ WriteProposal(q) \/ TimePasses(q)
             \/ SlackApprove(q) \/ SlackReject(q)
             \/ DashApprove(q) \/ DashReject(q) \/ EditSubmit(q)
             \/ AutoGate(q) \/ AutoRead(q) \/ AutoWrite(q)
             \/ \E c \in Clients : ConfirmRead(c, q)
      PROVE  UNCHANGED <<order, orderQty>>
  BY <1>3 DEF WriteProposal, TimePasses, SlackApprove, SlackReject, DashApprove,
              DashApproveNow, DashReject, DashRejectNow, EditSubmit,
              EditSubmitNow, ClickTooLate, AutoGate, AutoRead, AutoWrite,
              ConfirmRead
<1>4. ASSUME NEW c \in Clients, ConfirmWrite(c)
      PROVE  UNCHANGED <<order, orderQty>>
  BY <1>4 DEF ConfirmWrite
<1>5. CASE Sweep \/ AnomalyList \/ AnomalyReject \/ OnFill \/ FillDropped
           \/ Crash \/ UNCHANGED vars
  <2>1. UNCHANGED <<order, orderQty>>
    BY <1>5 DEF Sweep, SweepStart, SweepCheck, SweepWrite, AnomalyList,
                AnomalyReject, OnFill, FillRead, FillWrite, FillStamp,
                FillDropped, Crash, vars
  <2> QED BY <2>1
<1> QED
  BY <1>1, <1>2, <1>3, <1>4, <1>5 DEF Next

-----------------------------------------------------------------------------
(***************************************************************************)
(* The inductive invariant.  None of the four safety properties is         *)
(* inductive alone: what an executor may do depends on what it read, what  *)
(* a fill may do on what is in the feed.                                   *)
(*  - An executor past its gate works for a consented proposal that has    *)
(*    left PENDING, and the quantity it read is still the row's.           *)
(*  - One that has submitted has an order to show for it, and one whose    *)
(*    order was answered with an error is among those denied.              *)
(*  - An order belongs to a consented proposal that has left PENDING.      *)
(*  - A trade update is about an order.                                    *)
(***************************************************************************)
ExecutorsConsented ==
    \A t \in Tasks :
        PastGate(t) => /\ Consented(exec[t].prop)
                       /\ Left(exec[t].prop)
                       /\ exec[t].qty = qty[exec[t].prop]
SubmittedHasOrder ==
    /\ \A t \in Tasks : exec[t].pc \in {"placed", "denied"} => order[exec[t].prop] # "none"
    /\ \A t \in Tasks : exec[t].pc = "denied" => exec[t].prop \in denied
OrdersConsented ==
    \A p \in Proposals :
        order[p] # "none" => Consented(p) /\ Left(p) /\ orderQty[p] = qty[p]
UpdatesHaveOrder ==
    /\ \A i \in 1..Len(feed) : order[feed[i]] # "none"
    /\ fill.pc # "idle" => order[fill.prop] # "none"

IInv == /\ TypeOK
        /\ AuditExplainsStatus
        /\ ExecutorsConsented
        /\ SubmittedHasOrder
        /\ OrdersConsented
        /\ UpdatesHaveOrder
        /\ ExecutingHasOrder

LEMMA InitInvariant == Init => IInv
<1> SUFFICES ASSUME Init PROVE IInv
  OBVIOUS
<1>1. TypeOK
  BY InitTyped
<1>2. AuditExplainsStatus /\ ExecutingHasOrder
  BY ConstantsAssumption DEF Init, AuditExplainsStatus, ExecutingHasOrder, Exists,
     Statuses
<1>3. ExecutorsConsented /\ SubmittedHasOrder
  BY DEF Init, ExecutorsConsented, SubmittedHasOrder, PastGate, IdleTask
<1>4. OrdersConsented /\ UpdatesHaveOrder
  BY DEF Init, OrdersConsented, UpdatesHaveOrder, NoFill
<1> QED BY <1>1, <1>2, <1>3, <1>4 DEF IInv

\* A task past its gate was past it before, or has just passed it on a row
\* that carries an approval.
LEMMA GateHistory ==
    ASSUME TypeOK, [Next]_vars, NEW t \in Tasks, PastGate(t)'
    PROVE  \/ /\ PastGate(t)
              /\ exec'[t].prop = exec[t].prop
              /\ exec'[t].qty = exec[t].qty
              /\ exec'[t].pc \in {"placed", "denied"} =>
                    exec[t].pc = exec'[t].pc \/ order'[exec[t].prop] # "none"
              /\ exec'[t].pc = "denied" =>
                    exec[t].pc = "denied" \/ exec[t].prop \in denied'
           \/ /\ exec'[t].pc = "gate"
              /\ exec'[t].prop \in Proposals
              /\ status[exec'[t].prop] \in EntryStatuses
              /\ exec'[t].qty = qty[exec'[t].prop]
              /\ UNCHANGED <<status, qty, trail>>
<1> DEFINE Was == /\ PastGate(t)
                  /\ exec'[t].prop = exec[t].prop
                  /\ exec'[t].qty = exec[t].qty
                  /\ exec'[t].pc \in {"placed", "denied"} =>
                        exec[t].pc = exec'[t].pc \/ order'[exec[t].prop] # "none"
                  /\ exec'[t].pc = "denied" =>
                        exec[t].pc = "denied" \/ exec[t].prop \in denied'
           Passed == /\ exec'[t].pc = "gate"
                     /\ exec'[t].prop \in Proposals
                     /\ status[exec'[t].prop] \in EntryStatuses
                     /\ exec'[t].qty = qty[exec'[t].prop]
                     /\ UNCHANGED <<status, qty, trail>>
<1> USE DEF TypeOK, TasksTyped, PastGate
<1>1. ASSUME NEW q, Dispatch(q) PROVE Was
  BY <1>1 DEF Dispatch, TaskStates
<1>2. CASE UNCHANGED exec
  BY <1>2
<1>3. ASSUME NEW u \in Tasks, ExecLoad(u) PROVE Was \/ Passed
  BY <1>3 DEF ExecLoad, IdleTask, TaskStates, rowVars, auditVars
<1>4. ASSUME NEW u \in Tasks, ExecRefuse(u) \/ ExecRecord(u) \/ ExecLost(u)
      PROVE  Was
  BY <1>4 DEF ExecRefuse, ExecRecord, ExecLost, Settle, Finish, IdleTask,
              TaskStates
<1>5. ASSUME NEW u \in Tasks, ExecPlace(u) \/ ExecDenied(u) PROVE Was
  BY <1>5 DEF ExecPlace, ExecDenied, BrokerAccept, TaskStates, BrokerTyped, Orders
<1>6. CASE Crash
  BY <1>6 DEF Crash, IdleTask
<1>7. ASSUME NEW q \in Proposals,
             \/ SlackApprove(q) \/ DashApprove(q) \/ EditSubmit(q)
             \/ AutoWrite(q)
      PROVE  UNCHANGED exec \/ Dispatch(q)
  BY <1>7 DEF SlackApprove, SlackDivert, SlackApproveNow, DashApprove,
              DashApproveNow, EditSubmit, EditSubmitNow, ClickTooLate, AutoWrite
<1>8. ASSUME NEW c \in Clients, ConfirmWrite(c) PROVE Dispatch(confirm[c])
  BY <1>8 DEF ConfirmWrite
<1>9. ASSUME NEW q \in Proposals,
             \/ WriteProposal(q) \/ TimePasses(q)
             \/ SlackReject(q) \/ DashReject(q) \/ AutoGate(q) \/ AutoRead(q)
             \/ BrokerFill(q) \/ BrokerClose(q)
             \/ \E c \in Clients : ConfirmRead(c, q)
      PROVE  UNCHANGED exec
  BY <1>9 DEF WriteProposal, TimePasses, SlackReject, DashReject, DashRejectNow,
              ClickTooLate, AutoGate, AutoRead, BrokerFill, BrokerClose,
              ConfirmRead
<1>10. CASE Sweep \/ AnomalyList \/ AnomalyReject \/ OnFill \/ FillDropped
            \/ UNCHANGED vars
  <2>1. UNCHANGED exec
    BY <1>10 DEF Sweep, SweepStart, SweepCheck, SweepWrite, AnomalyList,
                 AnomalyReject, OnFill, FillRead, FillWrite, FillStamp,
                 FillDropped, vars
  <2> QED BY <1>2, <2>1
<1> QED
  BY <1>1, <1>2, <1>3, <1>4, <1>5, <1>6, <1>7, <1>8, <1>9, <1>10
     DEF Next, Executor

LEMMA ApprovedIsConsented ==
    ASSUME TypeOK, AuditExplainsStatus, NEW p \in Proposals,
           status[p] \in EntryStatuses
    PROVE  Consented(p) /\ Left(p)
<1>1. Exists(p) /\ Left(p)
  BY ConstantsAssumption DEF Exists, Left, EntryStatuses, Statuses
<1>2. Explanation(status[p]) = {"approval"}
  BY DEF EntryStatuses, Explanation
<1> QED BY <1>1, <1>2 DEF AuditExplainsStatus, Consented

LEMMA ExecutorsStep == IInv /\ [Next]_vars => ExecutorsConsented'
<1> SUFFICES ASSUME IInv, [Next]_vars, NEW t \in Tasks, PastGate(t)'
             PROVE  (/\ Consented(exec[t].prop)
                     /\ Left(exec[t].prop)
                     /\ exec[t].qty = qty[exec[t].prop])'
  BY DEF ExecutorsConsented
<1>1. CASE PastGate(t) /\ exec'[t].prop = exec[t].prop /\ exec'[t].qty = exec[t].qty
  <2>1. PICK p \in Proposals : p = exec[t].prop
    BY <1>1 DEF IInv, TypeOK, TasksTyped, PastGate
  <2>2. Consented(p) /\ Left(p) /\ exec[t].qty = qty[p]
    BY <1>1, <2>1 DEF IInv, ExecutorsConsented
  <2>3. Left(p)' /\ qty'[p] = qty[p] /\ trail[p] \subseteq trail'[p]
    BY <2>2, LeftForGood, TrailGrows DEF IInv
  <2> QED BY <1>1, <2>1, <2>2, <2>3 DEF Consented, Resized, Left
<1>2. CASE /\ exec'[t].prop \in Proposals
           /\ status[exec'[t].prop] \in EntryStatuses
           /\ exec'[t].qty = qty[exec'[t].prop]
           /\ UNCHANGED <<status, qty, trail>>
  BY <1>2, ApprovedIsConsented DEF IInv, Consented, Resized, Left
<1> QED BY <1>1, <1>2, GateHistory DEF IInv

\* The broker does not take an answer back.
LEMMA DeniedStays == ASSUME [Next]_vars PROVE denied \subseteq denied'
<1> USE DEF brokerVars
<1>1. ASSUME NEW p \in Proposals,
             \/ WriteProposal(p) \/ TimePasses(p)
             \/ SlackApprove(p) \/ SlackReject(p)
             \/ DashApprove(p) \/ DashReject(p) \/ EditSubmit(p)
             \/ AutoGate(p) \/ AutoRead(p) \/ AutoWrite(p)
             \/ BrokerFill(p) \/ BrokerClose(p)
             \/ \E c \in Clients : ConfirmRead(c, p)
      PROVE  UNCHANGED denied
  BY <1>1 DEF WriteProposal, TimePasses, SlackApprove, SlackReject, DashApprove,
              DashApproveNow, DashReject, DashRejectNow, EditSubmit,
              EditSubmitNow, ClickTooLate, AutoGate, AutoRead, AutoWrite,
              BrokerFill, BrokerClose, ConfirmRead
<1>2. ASSUME NEW c \in Clients, ConfirmWrite(c) PROVE UNCHANGED denied
  BY <1>2 DEF ConfirmWrite
<1>3. ASSUME NEW t \in Tasks, Executor(t) \/ ExecLost(t) PROVE UNCHANGED denied
  BY <1>3 DEF Executor, ExecLoad, ExecRefuse, ExecPlace, ExecRecord, Settle,
              ExecLost
<1>4. ASSUME NEW t \in Tasks, ExecDenied(t) PROVE denied \subseteq denied'
  BY <1>4 DEF ExecDenied
<1>5. CASE Sweep \/ AnomalyList \/ AnomalyReject \/ OnFill \/ FillDropped
           \/ Crash \/ UNCHANGED vars
  BY <1>5 DEF Sweep, SweepStart, SweepCheck, SweepWrite, AnomalyList,
              AnomalyReject, OnFill, FillRead, FillWrite, FillStamp,
              FillDropped, Crash, vars
<1> QED BY <1>1, <1>2, <1>3, <1>4, <1>5 DEF Next

LEMMA SubmittedStep == IInv /\ [Next]_vars => SubmittedHasOrder'
<1> SUFFICES ASSUME IInv, [Next]_vars, NEW t \in Tasks,
                    exec'[t].pc \in {"placed", "denied"}
             PROVE  /\ order'[exec'[t].prop] # "none"
                    /\ exec'[t].pc = "denied" => exec'[t].prop \in denied'
  BY DEF SubmittedHasOrder
<1>1. /\ PastGate(t)
      /\ exec'[t].prop = exec[t].prop
      /\ exec[t].pc = exec'[t].pc \/ order'[exec[t].prop] # "none"
      /\ exec'[t].pc = "denied" => exec[t].pc = "denied" \/ exec[t].prop \in denied'
  BY GateHistory DEF IInv, PastGate
<1>2. order'[exec'[t].prop] # "none"
  <2>1. CASE exec[t].pc = exec'[t].pc
    <3>1. exec[t].prop \in Proposals /\ order[exec[t].prop] # "none"
      BY <2>1 DEF IInv, TypeOK, TasksTyped, SubmittedHasOrder
    <3>2. order'[exec[t].prop] # "none"
      BY <3>1, OrderOrigin DEF IInv
    <3> QED BY <1>1, <3>2
  <2> QED BY <1>1, <2>1
<1>3. exec'[t].pc = "denied" => exec'[t].prop \in denied'
  BY <1>1, DeniedStays DEF IInv, SubmittedHasOrder
<1> QED BY <1>2, <1>3

LEMMA OrdersStep == IInv /\ [Next]_vars => OrdersConsented'
<1> SUFFICES ASSUME IInv, [Next]_vars, NEW p \in Proposals, order'[p] # "none"
             PROVE  (Consented(p) /\ Left(p) /\ orderQty[p] = qty[p])'
  BY DEF OrdersConsented
<1>1. Consented(p) /\ Left(p) /\ orderQty'[p] = qty[p]
  <2>1. CASE order[p] # "none"
    <3>1. Consented(p) /\ Left(p) /\ orderQty[p] = qty[p]
      BY <2>1 DEF IInv, OrdersConsented
    <3>2. orderQty'[p] = orderQty[p]
      BY <2>1, OrderOrigin DEF IInv
    <3> QED BY <3>1, <3>2
  <2>2. CASE order[p] = "none"
    <3>1. PICK t \in Tasks : /\ PastGate(t)
                             /\ exec[t].prop = p
                             /\ orderQty'[p] = exec[t].qty
      BY <2>2, OrderOrigin DEF IInv
    <3> QED BY <3>1 DEF IInv, ExecutorsConsented
  <2> QED BY <2>1, <2>2
<1>2. Left(p)' /\ qty'[p] = qty[p] /\ trail[p] \subseteq trail'[p]
  BY <1>1, LeftForGood, TrailGrows DEF IInv
<1> QED BY <1>1, <1>2 DEF Consented, Resized

LEMMA UpdatesStep == IInv /\ [Next]_vars => UpdatesHaveOrder'
<1> SUFFICES ASSUME IInv, [Next]_vars PROVE UpdatesHaveOrder'
  OBVIOUS
<1>1. \A p \in Proposals : order[p] # "none" => order'[p] # "none"
  BY OrderOrigin DEF IInv
<1>2. feed \in Seq(Proposals) /\ (fill.pc # "idle" => fill.prop \in Proposals)
  BY DEF IInv, TypeOK, BrokerTyped, FlowsTyped, NoFill
<1>3. \A i \in 1..Len(feed) : feed[i] \in Proposals /\ order'[feed[i]] # "none"
  BY <1>1, <1>2 DEF IInv, UpdatesHaveOrder
<1>4. fill.pc # "idle" => order'[fill.prop] # "none"
  BY <1>1, <1>2 DEF IInv, UpdatesHaveOrder
<1>5. CASE UNCHANGED <<feed, fill>>
  BY <1>3, <1>4, <1>5 DEF UpdatesHaveOrder
<1>6. ASSUME NEW q \in Proposals, BrokerFill(q) PROVE UpdatesHaveOrder'
  <2>1. order'[q] # "none" /\ UNCHANGED fill
    BY <1>6 DEF BrokerFill, flowVars, IInv, TypeOK, BrokerTyped
  <2>2. feed' = feed \/ feed' = Append(feed, q)
    BY <1>6 DEF BrokerFill
  <2> QED BY <1>2, <1>3, <1>4, <2>1, <2>2 DEF UpdatesHaveOrder
<1>7. CASE FillRead
  <2>1. feed # <<>> /\ feed' = Tail(feed) /\ fill'.prop = Head(feed)
    BY <1>7 DEF FillRead
  <2> QED BY <1>2, <1>3, <2>1 DEF UpdatesHaveOrder
<1>8. CASE FillWrite \/ FillStamp
  <2>1. fill.pc # "idle" /\ UNCHANGED feed
    BY <1>8 DEF FillWrite, FillStamp, brokerVars
  <2>2. fill'.pc = "idle" \/ fill'.prop = fill.prop
    BY <1>8, <2>1 DEF FillWrite, FillStamp, NoFill, IInv, TypeOK, FlowsTyped
  <2> QED BY <1>3, <1>4, <2>1, <2>2 DEF UpdatesHaveOrder
<1>9. CASE FillDropped
  <2>1. feed # <<>> /\ feed' = Tail(feed) /\ UNCHANGED fill
    BY <1>9 DEF FillDropped, flowVars
  <2> QED BY <1>2, <1>3, <1>4, <2>1 DEF UpdatesHaveOrder
<1>10. CASE Crash
  BY <1>10 DEF Crash, NoFill, UpdatesHaveOrder
<1>11. ASSUME NEW q \in Proposals,
              \/ WriteProposal(q) \/ TimePasses(q)
              \/ SlackApprove(q) \/ SlackReject(q)
              \/ DashApprove(q) \/ DashReject(q) \/ EditSubmit(q)
              \/ AutoGate(q) \/ AutoRead(q) \/ AutoWrite(q)
              \/ BrokerClose(q) \/ \E c \in Clients : ConfirmRead(c, q)
       PROVE  UNCHANGED <<feed, fill>>
  BY <1>11 DEF WriteProposal, TimePasses, SlackApprove, SlackReject, DashApprove,
               DashApproveNow, DashReject, DashRejectNow, EditSubmit,
               EditSubmitNow, ClickTooLate, AutoGate, AutoRead, AutoWrite,
               BrokerClose, ConfirmRead, brokerVars, flowVars
<1>12. ASSUME NEW t \in Tasks, Executor(t) \/ ExecDenied(t) \/ ExecLost(t)
       PROVE  UNCHANGED <<feed, fill>>
  BY <1>12 DEF Executor, ExecLoad, ExecRefuse, ExecPlace, ExecRecord, Settle,
               ExecDenied, ExecLost, brokerVars, flowVars
<1>13. ASSUME NEW c \in Clients, ConfirmWrite(c) PROVE UNCHANGED <<feed, fill>>
  BY <1>13 DEF ConfirmWrite, brokerVars
<1>14. CASE Sweep \/ AnomalyList \/ AnomalyReject \/ UNCHANGED vars
  <2>1. UNCHANGED <<feed, fill>>
    BY <1>14 DEF Sweep, SweepStart, SweepCheck, SweepWrite, AnomalyList,
                 AnomalyReject, vars, brokerVars, flowVars
  <2> QED BY <1>5, <2>1
<1> QED
  BY <1>5, <1>6, <1>7, <1>8, <1>9, <1>10, <1>11, <1>12, <1>13, <1>14
     DEF Next, OnFill

\* A row comes to EXECUTING from an executor that has submitted, and to FILLED
\* from a trade update.
LEMMA ExecutingOrigin ==
    ASSUME TypeOK, [Next]_vars, NEW p \in Proposals,
           status'[p] \in {"EXECUTING", "FILLED"}
    PROVE  \/ status[p] \in {"EXECUTING", "FILLED"}
           \/ \E t \in Tasks : exec[t].pc = "placed" /\ exec[t].prop = p
           \/ fill.pc # "idle" /\ fill.prop = p
<1> DEFINE Was == status[p] \in {"EXECUTING", "FILLED"}
           Submitted(t) == exec[t].pc = "placed" /\ exec[t].prop = p
<1> USE DEF TypeOK, RowsTyped, rowVars, SetStatus
<1>1. ASSUME NEW q \in Proposals,
             \/ WriteProposal(q) \/ TimePasses(q)
             \/ SlackApprove(q) \/ SlackReject(q)
             \/ DashApprove(q) \/ DashReject(q) \/ EditSubmit(q)
      PROVE  Was
  BY <1>1 DEF WriteProposal, TimePasses, SlackApprove, SlackDivert,
              SlackApproveNow, SlackReject, DashApprove, DashApproveNow,
              DashReject, DashRejectNow, EditSubmit, EditSubmitNow, ClickTooLate
<1>2. ASSUME NEW q \in Proposals,
             \/ AutoGate(q) \/ AutoRead(q) \/ AutoWrite(q)
             \/ BrokerFill(q) \/ BrokerClose(q)
             \/ \E c \in Clients : ConfirmRead(c, q)
      PROVE  Was
  BY <1>2 DEF AutoGate, AutoRead, AutoWrite, AutoTarget, StatusAfter,
              BrokerFill, BrokerClose, ConfirmRead
<1>3. ASSUME NEW c \in Clients, ConfirmWrite(c) PROVE Was
  BY <1>3 DEF ConfirmWrite
<1>4. CASE Sweep \/ AnomalyList \/ AnomalyReject
  BY <1>4 DEF Sweep, SweepStart, SweepCheck, SweepWrite, StatusAfter,
              AnomalyList, AnomalyReject
<1>5. ASSUME NEW t \in Tasks,
             \/ ExecLoad(t) \/ ExecRefuse(t) \/ ExecPlace(t)
             \/ ExecDenied(t) \/ ExecLost(t)
      PROVE  Was
  BY <1>5 DEF ExecLoad, ExecRefuse, ExecPlace, ExecDenied, ExecLost, Settle
<1>6. ASSUME NEW t \in Tasks, ExecRecord(t) PROVE Was \/ Submitted(t)
  BY <1>6 DEF ExecRecord, Settle
<1>7. CASE OnFill
  BY <1>7 DEF OnFill, FillRead, FillWrite, FillStamp
<1>8. CASE FillDropped \/ Crash \/ UNCHANGED vars
  BY <1>8 DEF FillDropped, Crash, vars
<1> QED
  BY <1>1, <1>2, <1>3, <1>4, <1>5, <1>6, <1>7, <1>8 DEF Next, Executor

LEMMA ExecutingStep == IInv /\ [Next]_vars => ExecutingHasOrder'
<1> SUFFICES ASSUME IInv, [Next]_vars, NEW p \in Proposals,
                    status'[p] \in {"EXECUTING", "FILLED"}
             PROVE  order'[p] # "none"
  BY DEF ExecutingHasOrder
<1>1. order[p] # "none"
  BY ExecutingOrigin DEF IInv, ExecutingHasOrder, SubmittedHasOrder,
                         UpdatesHaveOrder
<1> QED BY <1>1, OrderOrigin DEF IInv

\* The events that explain each status, as separate facts.
LEMMA Explanations ==
    /\ Explanation("PENDING") = {"proposal"}
    /\ Explanation("APPROVED") = {"approval"}
    /\ Explanation("AWAITING_2ND_CHANNEL") = {"approval"}
    /\ Explanation("APPROVED_LIVE") = {"approval"}
    /\ Explanation("REJECTED") = {"rejection"}
    /\ Explanation("EXPIRED") = {"expiration"}
    /\ Explanation("FAILED") = {"refusal"}
    /\ Explanation("EXECUTING") = {"order_submitted"}
    /\ Explanation("FILLED") = {"fill"}
BY DEF Explanation

LEMMA ExplainedStep == IInv /\ [Next]_vars => AuditExplainsStatus'
<1> SUFFICES ASSUME IInv, [Next]_vars, NEW p \in Proposals
             PROVE  Exists(p)' => \/ trail'[p] \cap Explanation(status'[p]) # {}
                                  \/ status'[p] = "APPROVED" /\ Resized(p)'
  BY DEF AuditExplainsStatus
<1> DEFINE Explained == Exists(p)' => \/ trail'[p] \cap Explanation(status'[p]) # {}
                                      \/ status'[p] = "APPROVED" /\ Resized(p)'
<1>1. CASE status'[p] = status[p]
  <2>1. Exists(p) => \/ trail[p] \cap Explanation(status[p]) # {}
                     \/ status[p] = "APPROVED" /\ Resized(p)
    BY DEF IInv, AuditExplainsStatus
  <2>2. trail[p] \subseteq trail'[p]
    BY TrailGrows DEF IInv
  <2>3. status[p] = "APPROVED" => qty'[p] = qty[p]
    BY LeftForGood, ConstantsAssumption DEF IInv, Left, Statuses
  <2> QED BY <1>1, <2>1, <2>2, <2>3 DEF Exists, Resized
<1> USE Explanations
    DEF IInv, TypeOK, RowsTyped, AuditTyped, rowVars, auditVars, SetStatus,
        Record, RecordApproval
<1>2. ASSUME NEW q \in Proposals, WriteProposal(q), status'[p] # status[p]
      PROVE  Explained
  BY <1>2 DEF WriteProposal
<1>3. ASSUME NEW q \in Proposals,
             \/ SlackApprove(q) \/ SlackReject(q)
             \/ DashApprove(q) \/ DashReject(q),
             status'[p] # status[p]
      PROVE  Explained
  BY <1>3 DEF SlackApprove, SlackDivert, SlackApproveNow, SlackReject,
              DashApprove, DashApproveNow, DashReject, DashRejectNow, ClickTooLate
<1>12. ASSUME NEW q \in Proposals, EditSubmit(q), status'[p] # status[p]
       PROVE  Explained
  BY <1>12 DEF EditSubmit, EditSubmitNow, ClickTooLate, Resized
<1>4. ASSUME NEW q \in Proposals, AutoWrite(q), status'[p] # status[p]
      PROVE  Explained
  <2>1. q = p
    BY <1>4 DEF AutoWrite
  <2>2. "approval" \in trail'[p]
    BY <1>4, <2>1 DEF AutoWrite
  <2>3. status'[p] \in {"APPROVED", "AWAITING_2ND_CHANNEL"}
    BY <1>4, <2>1 DEF AutoWrite, AutoTarget, StatusAfter
  <2> QED BY <2>2, <2>3
<1>5. ASSUME NEW q \in Proposals,
             \/ TimePasses(q) \/ AutoGate(q) \/ AutoRead(q)
             \/ BrokerFill(q) \/ BrokerClose(q)
             \/ \E c \in Clients : ConfirmRead(c, q)
      PROVE  status'[p] = status[p]
  BY <1>5 DEF TimePasses, AutoGate, AutoRead, BrokerFill, BrokerClose,
              ConfirmRead
<1>6. ASSUME NEW c \in Clients, ConfirmWrite(c), status'[p] # status[p]
      PROVE  Explained
  BY <1>6 DEF ConfirmWrite
<1>7. ASSUME Sweep, status'[p] # status[p] PROVE Explained
  <2>1. SweepWrite
    BY <1>7 DEF Sweep, SweepStart, SweepCheck
  <2>2. sweepRow.prop = p
    BY <1>7, <2>1 DEF SweepWrite
  <2>3. status'[p] = "EXPIRED"
    BY <1>7, <2>1, <2>2 DEF SweepWrite, StatusAfter
  <2>4. "expiration" \in trail'[p]
    BY <2>1, <2>2 DEF SweepWrite
  <2> QED BY <2>3, <2>4
<1>8. ASSUME AnomalyList \/ AnomalyReject, status'[p] # status[p] PROVE Explained
  BY <1>8 DEF AnomalyList, AnomalyReject
<1>9. ASSUME NEW t \in Tasks, Executor(t) \/ ExecDenied(t) \/ ExecLost(t), status'[p] # status[p]
      PROVE  Explained
  <2>1. \/ Settle(t, "FAILED", "refusal")
        \/ Settle(t, "EXECUTING", "order_submitted")
    BY <1>9 DEF Executor, ExecLoad, ExecRefuse, ExecPlace, ExecRecord,
                ExecDenied, ExecLost
  <2>2. exec[t].prop = p
    BY <1>9, <2>1 DEF Settle
  <2>3. ASSUME NEW to, NEW ev, Settle(t, to, ev)
        PROVE  status'[p] = to /\ ev \in trail'[p]
    BY <1>9, <2>2, <2>3 DEF Settle
  <2> QED BY <2>1, <2>3
<1>10. ASSUME OnFill, status'[p] # status[p] PROVE Explained
  <2>1. FillWrite
    BY <1>10 DEF OnFill, FillRead, FillStamp
  <2>2. fill.prop = p /\ status'[p] = "FILLED"
    BY <1>10, <2>1 DEF FillWrite
  <2>3. "fill" \in trail'[p]
    BY <2>1, <2>2 DEF FillWrite
  <2> QED BY <2>2, <2>3
<1>11. CASE FillDropped \/ Crash \/ UNCHANGED vars
  <2>1. status'[p] = status[p]
    BY <1>11 DEF FillDropped, Crash, vars
  <2> QED BY <1>1, <2>1
<1> QED
  BY <1>1, <1>2, <1>3, <1>4, <1>5, <1>6, <1>7, <1>8, <1>9, <1>10, <1>11, <1>12
     DEF Next

LEMMA InvariantHolds == Spec => []IInv
<1>1. IInv /\ [Next]_vars => IInv'
  BY TypeStep, ExplainedStep, ExecutorsStep, SubmittedStep, OrdersStep, UpdatesStep,
     ExecutingStep DEF IInv
<1> QED BY InitInvariant, <1>1, PTL DEF Spec

-----------------------------------------------------------------------------
(***************************************************************************)
(* An order reaches the broker only for a proposal on which an approval or *)
(* a resize is committed, with all actors at work, crashes and lost calls  *)
(* included.                                                               *)
(***************************************************************************)
THEOREM OrdersNeedConsent == Spec => []NoOrderWithoutConsent
<1>1. IInv => NoOrderWithoutConsent
  BY DEF IInv, OrdersConsented, NoOrderWithoutConsent
<1> QED BY InvariantHolds, <1>1, PTL

(***************************************************************************)
(* The broker holds the quantity the row carries, however late the         *)
(* executor submits what it read.                                          *)
(***************************************************************************)
THEOREM OrdersKeepSize == Spec => []OrderHasApprovedSize
<1>1. IInv => OrderHasApprovedSize
  BY DEF IInv, OrdersConsented, OrderHasApprovedSize
<1> QED BY InvariantHolds, <1>1, PTL

(***************************************************************************)
(* Whatever a row says, an event that names it and brings a row there is   *)
(* committed, even where two transactions have overwritten each other's    *)
(* status; the one exception is an APPROVED row that was resized.          *)
(***************************************************************************)
THEOREM AuditExplains == Spec => []AuditExplainsStatus
<1>1. IInv => AuditExplainsStatus
  BY DEF IInv
<1> QED BY InvariantHolds, <1>1, PTL

(***************************************************************************)
(* A row marked EXECUTING or FILLED has an order at the broker.            *)
(***************************************************************************)
THEOREM ExecutingIsBacked == Spec => []ExecutingHasOrder
<1>1. IInv => ExecutingHasOrder
  BY DEF IInv
<1> QED BY InvariantHolds, <1>1, PTL

(***************************************************************************)
(* No step of anybody takes an event out of a proposal's trail.            *)
(***************************************************************************)
THEOREM TrailIsAppendOnly ==
    Spec => [][\A p \in Proposals : trail[p] \subseteq trail'[p]]_vars
<1>1. TypeOK /\ [Next]_vars => [\A p \in Proposals : trail[p] \subseteq trail'[p]]_vars
  BY TrailGrows
<1> QED BY TypeCorrect, <1>1, PTL DEF Spec
=============================================================================
