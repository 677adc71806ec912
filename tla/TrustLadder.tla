---------------------------- MODULE TrustLadder ----------------------------
(***************************************************************************)
(* The autonomy rung of one strategy (strategy/trust.py): the operator     *)
(* promotes it to auto-within-caps once a backward scan of the audit log   *)
(* (strategy/streak.py) finds enough clean approvals; the operator, a      *)
(* material edit or the anomaly reflex (anomaly/evaluator.py) demotes it.  *)
(* Agent runs read the rung once and approve their own proposal when it is *)
(* auto.                                                                   *)
(*                                                                         *)
(* Every await between two sessions is a step of its own: the rung, the    *)
(* trail, the snapshot and the proposals are read in one transaction and   *)
(* written in another.  Within a transaction a handler that reads a        *)
(* proposal's status writes it later without looking again (transition_    *)
(* status); what happens to a proposal besides is ProposalLifecycle's      *)
(* subject, what refuses an order OrderGate's.                             *)
(***************************************************************************)
EXTENDS Integers, Sequences, FiniteSets

CONSTANTS
    Threshold,    \* _DEFAULT_THRESHOLD, 10 in the code
    ScanLimit,    \* _SCAN_LIMIT, 1000 in the code
    MaxTrail,     \* bound on the log: no approval, refusal or command beyond
    Runs,         \* slots for proposals of the strategy
    Requests,     \* promotions the operator may be asking for at once
    Demoters,     \* demotions the operator may be asking for at once
    Saves,        \* submissions of the strategy's edit form
    Reflexes,     \* evaluations of the drawdown: the tick's, fill hooks'
    Configs,      \* what a watchlist and hard caps can be
    Failures,     \* what may go wrong in this instance
    MaxCrashes    \* bound on crashes of the server

FailureKinds == {"positions", "orders", "cancel"}

ASSUME TrustLadderAssumption ==
    /\ Threshold \in Nat \ {0}
    /\ ScanLimit \in Nat
    /\ MaxTrail \in Nat
    /\ Configs # {}
    /\ Failures \subseteq FailureKinds
    /\ MaxCrashes \in Nat

VARIABLES
    trust,       \* trust_level; "none" without a metadata row
    trail,       \* the events of the log the streak scan looks at
    config,      \* watchlist and caps of the newest snapshot
    asked,       \* asked[q]: a promotion between its check and its write
    demoter,     \* demoter[d]: what a demotion by hand has read
    save,        \* save[e]: a save between its steps
    place,       \* place[r]: where the run of slot r is
    prop,        \* prop[r]: status of its proposal
    clicks,      \* approvals by hand that have read a PENDING row
    dispatched,  \* proposals with an executor that has not loaded them
    book,        \* book[r]: its order at the broker
    reflex,      \* reflex[v]: where an evaluation is
    listed,      \* listed[v]: open orders, then proposals it has fetched
    baseline,    \* today's start-of-day snapshot; "closed" when there is no trading
    loss,        \* the book stands a threshold below the start of the day
    crashes,
    \* what has been observed, read by no action's guard
    grant,       \* the check the last promotion rests on
    slip,        \* an edit went past its demotion since
    stragglers,  \* runs that had read auto when the strategy was demoted
    unled        \* proposals approved automatically while it was not auto

ladderVars == <<trust, trail, grant, slip>>
askVars == <<asked, demoter>>
runVars == <<place, prop, clicks, dispatched, book, stragglers, unled>>
reflexVars == <<reflex, listed>>
dayVars == <<baseline, loss>>
vars == <<ladderVars, config, askVars, save, runVars, reflexVars, dayVars, crashes>>

Demotions == {"operator", "anomaly", "material_edit"}    \* trust_demoted, by reason
Boundaries == Demotions \cup {"anomaly_demotion"}
StopTypes == Boundaries \cup {"cap_rejection"}
EventTypes == StopTypes \cup {"approval", "trust_promoted"}

Levels == {"none", "propose-only", "auto"}
Places == {"idle", "written", "auto", "writing", "done"}
PropStatuses == {"none", "pending", "approved", "rejected", "failed"}
BookStates == {"none", "open", "filled", "cancelled"}
\* What a demotion has read: auto, or a rung that is not auto already.
Found == {"lower", "note"}
ReflexPlaces == {"idle", "compute", "list", "cancel", "scan", "reject", "demote",
                 "record"} \cup Found
NotAsked == [at |-> -1, config |-> CHOOSE c \in Configs : TRUE, seen |-> "unread"]
NoSave == [at |-> "idle", prior |-> NotAsked.config, new |-> NotAsked.config]

Init ==
    /\ trust = "none"
    /\ trail = <<>>
    /\ config \in Configs
    /\ asked = [q \in Requests |-> NotAsked]
    /\ demoter = [d \in Demoters |-> "idle"]
    /\ save = [e \in Saves |-> NoSave]
    /\ place = [r \in Runs |-> "idle"]
    /\ prop = [r \in Runs |-> "none"]
    /\ clicks = {}
    /\ dispatched = {}
    /\ book = [r \in Runs |-> "none"]
    /\ reflex = [v \in Reflexes |-> "idle"]
    /\ listed = [v \in Reflexes |-> {}]
    /\ baseline = "none"
    /\ loss = FALSE
    /\ crashes = 0
    /\ grant = NotAsked
    /\ slip = FALSE
    /\ stragglers = {}
    /\ unled = {}

(***************************************************************************)
(* compute_clean_streak: the newest ScanLimit events, newest first, up to  *)
(* the first one that stops the scan.                                      *)
(***************************************************************************)
Window(t) == {i \in DOMAIN t : i > Len(t) - ScanLimit}

\* Position n is not followed, up to position m, by an event that stops the scan.
UnstoppedTo(t, n, m) == \A j \in n .. m : t[j] \notin StopTypes

Counted(t) ==
    {i \in Window(t) : t[i] = "approval" /\ UnstoppedTo(t, i, Len(t))}

\* The scan ended at a breach or at a material edit: block_reason is set.
BlockedAt(t, i) ==
    /\ t[i] \in {"cap_rejection", "material_edit"}
    /\ UnstoppedTo(t, i + 1, Len(t))

EligibleOnCountAlone(t) ==   \* faulty variant: every approval in the window counts
    Cardinality({i \in Window(t) : t[i] = "approval"}) >= Threshold

Eligible(t) ==
    /\ Cardinality(Counted(t)) >= Threshold
    /\ ~ \E i \in Window(t) : BlockedAt(t, i)

\* The bound on the log, and so on what an operator does in an instance.
Room == Len(trail) < MaxTrail

Log(type) == trail' = Append(trail, type)

-----------------------------------------------------------------------------
(* Promotion and demotion by the operator, from the dashboard or the       *)
(* command line: the streak is computed in one session and the rung read   *)
(* and written in another.  SQLAlchemy writes what differs from what was   *)
(* read: a rung that has its value already is left as others make it.      *)

AskPromotion(q) ==
    /\ asked[q].at = -1
    /\ Len(trail) <= MaxTrail
    /\ Eligible(trail)
    /\ asked' = [asked EXCEPT ![q] =
                    [at |-> Len(trail), config |-> config, seen |-> "unread"]]
    /\ UNCHANGED <<ladderVars, config, demoter, save, runVars, reflexVars, dayVars, crashes>>

PromoteRead(q) ==
    /\ asked[q].at # -1
    /\ asked[q].seen = "unread"
    /\ asked' = [asked EXCEPT ![q].seen = trust]
    /\ UNCHANGED <<ladderVars, config, demoter, save, runVars, reflexVars, dayVars, crashes>>

\* The rung was auto when it was read: the UPDATE leaves it out.
PromoteAgain(q) ==
    /\ asked[q].seen = "auto"
    /\ Log("trust_promoted")
    /\ UNCHANGED <<trust, grant, slip>>

PromoteToAuto(q) ==
    /\ asked[q].seen \in {"none", "propose-only"}
    /\ asked[q].seen = "none" => trust = "none"
    /\ trust' = "auto"
    /\ Log("trust_promoted")
    /\ grant' = [asked[q] EXCEPT !.seen = "unread"]
    /\ slip' = (asked[q].config # config)

\* Somebody else has made the row: the INSERT fails.
PromoteConflict(q) ==
    /\ asked[q].seen = "none" /\ trust # "none"
    /\ UNCHANGED ladderVars

Promote(q) ==
    /\ asked[q].at # -1
    /\ PromoteAgain(q) \/ PromoteToAuto(q) \/ PromoteConflict(q)
    /\ asked' = [asked EXCEPT ![q] = NotAsked]
    /\ UNCHANGED <<config, demoter, save, runVars, reflexVars, dayVars, crashes>>

\* demote_strategy_from_auto reads the row,
DemoteReads == IF trust = "auto" THEN "lower" ELSE "note"

DemoteUnnamed(found, reason) ==   \* faulty variant: the event carries no reason
    trust' = "propose-only" /\ Log("trust_demoted") /\ UNCHANGED stragglers

\* and writes the rung, if that changes it, and the event.
DemoteFor(found, reason) ==
    /\ Log(reason)
    /\ IF found = "lower"
          THEN /\ trust' = "propose-only"
               /\ stragglers' =
                      stragglers \cup {r \in Runs : place[r] \in {"auto", "writing"}}
          ELSE UNCHANGED <<trust, stragglers>>

\* Without a metadata row there is nothing to demote.
HandRead(d) ==
    /\ demoter[d] = "idle"
    /\ Room
    /\ trust # "none"
    /\ demoter' = [demoter EXCEPT ![d] = DemoteReads]
    /\ UNCHANGED <<ladderVars, config, asked, save, runVars, reflexVars, dayVars, crashes>>

HandDemote(d) ==
    /\ demoter[d] \in Found
    /\ DemoteFor(demoter[d], "operator")
    /\ demoter' = [demoter EXCEPT ![d] = "idle"]
    /\ UNCHANGED <<grant, slip, config, asked, save, place, prop, clicks, dispatched,
                   book, unled, reflexVars, dayVars, crashes>>

\* promote-live and scale-capital upsert the same metadata row.
UpsertOther ==
    /\ trust = "none"
    /\ trust' = "propose-only"
    /\ UNCHANGED <<trail, grant, slip, config, askVars, save, runVars, reflexVars,
                   dayVars, crashes>>

-----------------------------------------------------------------------------
(* strategy_save: the prior snapshot, the new version, the rung and the    *)
(* demotion, each in a session of its own.                                 *)

SaveRead(e, new) ==
    /\ save[e].at = "idle"
    /\ Room
    /\ save' = [save EXCEPT ![e] = [at |-> "insert", prior |-> config, new |-> new]]
    /\ UNCHANGED <<ladderVars, config, askVars, runVars, reflexVars, dayVars, crashes>>

NeverMaterial(e) == FALSE   \* faulty variant: the edit is taken for a cosmetic one

Material(e) == save[e].prior # save[e].new

SaveInsert(e) ==
    /\ save[e].at = "insert"
    /\ config' = save[e].new
    /\ slip' = (slip \/ save[e].prior # config)
    /\ save' = [save EXCEPT ![e] = IF Material(e) THEN [NoSave EXCEPT !.at = "check"] ELSE NoSave]
    /\ UNCHANGED <<trust, trail, grant, askVars, runVars, reflexVars, dayVars, crashes>>

\* Another save took the version number: UNIQUE fails and nothing is saved.
SaveConflict(e) ==
    /\ save[e].at = "insert"
    /\ \E f \in Saves \ {e} : save[f].at # "idle"
    /\ save' = [save EXCEPT ![e] = NoSave]
    /\ UNCHANGED <<ladderVars, config, askVars, runVars, reflexVars, dayVars, crashes>>

SaveCheck(e) ==
    /\ save[e].at = "check"
    /\ save' = [save EXCEPT ![e] = IF trust = "auto" THEN [@ EXCEPT !.at = "demote"] ELSE NoSave]
    /\ UNCHANGED <<ladderVars, config, askVars, runVars, reflexVars, dayVars, crashes>>

\* A metadata row never goes away.
SaveFind(e) ==
    /\ save[e].at = "demote"
    /\ save' = [save EXCEPT ![e].at = DemoteReads]
    /\ UNCHANGED <<ladderVars, config, askVars, runVars, reflexVars, dayVars, crashes>>

SaveDemote(e) ==
    /\ save[e].at \in Found
    /\ DemoteFor(save[e].at, "material_edit")
    /\ save' = [save EXCEPT ![e] = NoSave]
    /\ UNCHANGED <<grant, slip, config, askVars, place, prop, clicks, dispatched, book,
                   unled, reflexVars, dayVars, crashes>>

Save(e) ==
    SaveInsert(e) \/ SaveConflict(e) \/ SaveCheck(e) \/ SaveFind(e) \/ SaveDemote(e)

\* `gekko strategy create` saves a version and looks at nothing else.
CreateByCli(new) ==
    /\ Room
    /\ config # new
    /\ config' = new
    /\ slip' = TRUE
    /\ UNCHANGED <<trust, trail, grant, askVars, save, runVars, reflexVars, dayVars, crashes>>

-----------------------------------------------------------------------------
(* A run of the agent: it writes its proposal, reads the rung once and     *)
(* approves the proposal itself when the rung is auto.                     *)

Over(r) ==
    \/ prop[r] \in {"none", "rejected", "failed"}
    \/ prop[r] = "approved" /\ book[r] # "open"

\* A slot whose proposal has come to its end carries the next one.
WriteProposal(r) ==
    /\ place[r] \in {"idle", "done"}
    /\ Over(r)
    /\ r \notin clicks \cup dispatched
    /\ Room
    /\ place' = [place EXCEPT ![r] = "written"]
    /\ prop' = [prop EXCEPT ![r] = "pending"]
    /\ book' = [book EXCEPT ![r] = "none"]
    /\ stragglers' = stragglers \ {r}
    /\ unled' = unled \ {r}
    /\ UNCHANGED <<ladderVars, config, askVars, save, clicks, dispatched, reflexVars,
                   dayVars, crashes>>

ReadTrustAs(r, level) ==
    /\ place[r] = "written"
    /\ place' = [place EXCEPT ![r] = IF level = "auto" THEN "auto" ELSE "done"]
    /\ UNCHANGED <<ladderVars, config, askVars, save, prop, clicks, dispatched, book,
                   stragglers, unled, reflexVars, dayVars, crashes>>

ReadTrustOnceGranted(r) ==   \* faulty variant: once promoted, always auto
    ReadTrustAs(r, IF grant.at = -1 THEN trust ELSE "auto")

ReadTrust(r) == ReadTrustAs(r, trust)

\* approve_proposal reads the row; anything but PENDING or APPROVED raises.
AutoRead(r) ==
    /\ place[r] = "auto"
    /\ place' = [place EXCEPT ![r] =
                    IF prop[r] \in {"pending", "approved"} THEN "writing" ELSE "done"]
    /\ UNCHANGED <<ladderVars, config, askVars, save, prop, clicks, dispatched, book,
                   stragglers, unled, reflexVars, dayVars, crashes>>

AutoWrite(r) ==
    /\ place[r] = "writing"
    /\ place' = [place EXCEPT ![r] = "done"]
    /\ prop' = [prop EXCEPT ![r] = "approved"]
    /\ Log("approval")
    /\ dispatched' = dispatched \cup {r}
    /\ unled' = IF trust = "auto" THEN unled ELSE unled \cup {r}
    /\ UNCHANGED <<trust, grant, slip, config, askVars, save, clicks, book, stragglers,
                   reflexVars, dayVars, crashes>>

Run(r) == ReadTrust(r) \/ AutoRead(r) \/ AutoWrite(r)

\* The operator approves by hand.
ClickRead(r) ==
    /\ Room
    /\ prop[r] = "pending"
    /\ clicks' = clicks \cup {r}
    /\ UNCHANGED <<ladderVars, config, askVars, save, place, prop, dispatched, book,
                   stragglers, unled, reflexVars, dayVars, crashes>>

ClickWrite(r) ==
    /\ r \in clicks
    /\ clicks' = clicks \ {r}
    /\ prop' = [prop EXCEPT ![r] = "approved"]
    /\ Log("approval")
    /\ dispatched' = dispatched \cup {r}
    /\ UNCHANGED <<trust, grant, slip, config, askVars, save, place, book, stragglers,
                   unled, reflexVars, dayVars, crashes>>

\* execute_proposal: only an approved row is executed; a second order of a
\* proposal is the broker's first one.
ExecutePlaces(r) ==
    /\ r \in dispatched
    /\ prop[r] = "approved"
    /\ book' = [book EXCEPT ![r] = IF @ = "none" THEN "open" ELSE @]
    /\ dispatched' = dispatched \ {r}
    /\ UNCHANGED <<ladderVars, config, askVars, save, place, prop, clicks, stragglers,
                   unled, reflexVars, dayVars, crashes>>

\* OrderGuard refuses: cap_rejection.
ExecuteRefuses(r) ==
    /\ r \in dispatched
    /\ Room
    /\ prop[r] = "approved" /\ book[r] = "none"
    /\ prop' = [prop EXCEPT ![r] = "failed"]
    /\ Log("cap_rejection")
    /\ dispatched' = dispatched \ {r}
    /\ UNCHANGED <<trust, grant, slip, config, askVars, save, place, clicks, book,
                   stragglers, unled, reflexVars, dayVars, crashes>>

\* The row is no longer approved when the executor loads it.
ExecuteDrops(r) ==
    /\ r \in dispatched
    /\ prop[r] # "approved"
    /\ dispatched' = dispatched \ {r}
    /\ UNCHANGED <<ladderVars, config, askVars, save, place, prop, clicks, book,
                   stragglers, unled, reflexVars, dayVars, crashes>>

Execute(r) == ExecutePlaces(r) \/ ExecuteRefuses(r) \/ ExecuteDrops(r)

Fill(r) ==
    /\ book[r] = "open"
    /\ book' = [book EXCEPT ![r] = "filled"]
    /\ UNCHANGED <<ladderVars, config, askVars, save, place, prop, clicks, dispatched,
                   stragglers, unled, reflexVars, dayVars, crashes>>

-----------------------------------------------------------------------------
(* evaluate_drawdown: by the scheduler's tick, and after a fill.           *)

Open == {r \in Runs : book[r] = "open"}
Pending == {r \in Runs : prop[r] = "pending"}

MoveReflex(v, to) == reflex' = [reflex EXCEPT ![v] = to]

\* A strategy that is not auto is none of its business.
ReflexStart(v) ==
    /\ reflex[v] = "idle"
    /\ baseline # "closed"
    /\ trust = "auto"
    /\ MoveReflex(v, "compute")
    /\ UNCHANGED <<ladderVars, config, askVars, save, runVars, listed, dayVars, crashes>>

BreachUnread(readable) ==   \* faulty variant: the guard on the denominator is inverted
    baseline = "flat" /\ (loss \/ ~readable)

\* No snapshot, or a flat book at the open, is no denominator.  Positions
\* that cannot be fetched count as an empty book.
Breach(readable) == baseline = "booked" /\ (loss \/ ~readable)

ReflexCompute(v) ==
    /\ reflex[v] = "compute"
    /\ \E readable \in BOOLEAN :
          /\ ~readable => "positions" \in Failures
          /\ MoveReflex(v, IF Breach(readable) THEN "list" ELSE "idle")
    /\ UNCHANGED <<ladderVars, config, askVars, save, runVars, listed, dayVars, crashes>>

\* get_orders_open; when it fails there is nothing to cancel.
ReflexList(v) ==
    /\ reflex[v] = "list"
    /\ \E found \in {Open} \cup (IF "orders" \in Failures THEN {{}} ELSE {}) :
          listed' = [listed EXCEPT ![v] = found]
    /\ MoveReflex(v, "cancel")
    /\ UNCHANGED <<ladderVars, config, askVars, save, runVars, dayVars, crashes>>

\* One cancel after the other; one that fails is skipped.
ReflexCancel(v) ==
    /\ reflex[v] = "cancel"
    /\ \E stuck \in SUBSET (listed[v] \cap Open) :
          /\ stuck # {} => "cancel" \in Failures
          /\ book' = [r \in Runs |->
                         IF r \in (listed[v] \cap Open) \ stuck THEN "cancelled" ELSE book[r]]
    /\ listed' = [listed EXCEPT ![v] = {}]
    /\ MoveReflex(v, "scan")
    /\ UNCHANGED <<ladderVars, config, askVars, save, place, prop, clicks, dispatched,
                   stragglers, unled, dayVars, crashes>>

\* reject_pending_auto_proposals_for_anomaly: the SELECT and the UPDATEs.
ReflexScan(v) ==
    /\ reflex[v] = "scan"
    /\ listed' = [listed EXCEPT ![v] = Pending]
    /\ MoveReflex(v, "reject")
    /\ UNCHANGED <<ladderVars, config, askVars, save, runVars, dayVars, crashes>>

ReflexReject(v) ==
    /\ reflex[v] = "reject"
    /\ prop' = [r \in Runs |-> IF r \in listed[v] THEN "rejected" ELSE prop[r]]
    /\ listed' = [listed EXCEPT ![v] = {}]
    /\ MoveReflex(v, "demote")
    /\ UNCHANGED <<ladderVars, config, askVars, save, place, clicks, dispatched, book,
                   stragglers, unled, dayVars, crashes>>

ReflexFind(v) ==
    /\ reflex[v] = "demote"
    /\ MoveReflex(v, DemoteReads)
    /\ UNCHANGED <<ladderVars, config, askVars, save, runVars, listed, dayVars, crashes>>

ReflexDemote(v) ==
    /\ reflex[v] \in Found
    /\ DemoteFor(reflex[v], "anomaly")
    /\ MoveReflex(v, "record")
    /\ UNCHANGED <<grant, slip, config, askVars, save, place, prop, clicks, dispatched,
                   book, unled, listed, dayVars, crashes>>

\* The dedicated event; the message that follows changes no state.
ReflexRecord(v) ==
    /\ reflex[v] = "record"
    /\ Log("anomaly_demotion")
    /\ MoveReflex(v, "idle")
    /\ UNCHANGED <<trust, grant, slip, config, askVars, save, runVars, listed, dayVars,
                   crashes>>

Reflex(v) ==
    \/ ReflexStart(v) \/ ReflexCompute(v) \/ ReflexList(v) \/ ReflexCancel(v)
    \/ ReflexScan(v) \/ ReflexReject(v) \/ ReflexFind(v) \/ ReflexDemote(v)
    \/ ReflexRecord(v)

-----------------------------------------------------------------------------
(* The day: the snapshot job at the open looks at strategies that are auto *)
(* at that moment, and the newest snapshot of the day counts.              *)

OpenSnapshot ==
    /\ trust = "auto"
    /\ baseline = "none"
    /\ baseline' \in {"flat", "booked"}
    /\ UNCHANGED <<ladderVars, config, askVars, save, runVars, reflexVars, loss,
                   crashes>>

MarketMoves ==
    /\ loss' = ~loss
    /\ UNCHANGED <<ladderVars, config, askVars, save, runVars, reflexVars, baseline,
                   crashes>>

NewDay ==
    /\ baseline' \in {"none", "closed"}
    /\ loss' = FALSE
    /\ UNCHANGED <<ladderVars, config, askVars, save, runVars, reflexVars, crashes>>

\* The server and the operator's requests end where they are; the rows stay.
Crash ==
    /\ crashes < MaxCrashes
    /\ crashes' = crashes + 1
    /\ asked' = [q \in Requests |-> NotAsked]
    /\ demoter' = [d \in Demoters |-> "idle"]
    /\ save' = [e \in Saves |-> NoSave]
    /\ slip' = (slip \/ \E e \in Saves : save[e].at \in {"check", "demote", "lower"})
    /\ place' = [r \in Runs |-> IF place[r] = "idle" THEN "idle" ELSE "done"]
    /\ clicks' = {}
    /\ dispatched' = {}
    /\ reflex' = [v \in Reflexes |-> "idle"]
    /\ listed' = [v \in Reflexes |-> {}]
    /\ UNCHANGED <<trust, trail, grant, config, prop, book, stragglers, unled, dayVars>>

Operator ==
    \/ \E q \in Requests : AskPromotion(q) \/ PromoteRead(q) \/ Promote(q)
    \/ \E d \in Demoters : HandRead(d) \/ HandDemote(d)
    \/ UpsertOther
    \/ \E e \in Saves : (\E new \in Configs : SaveRead(e, new)) \/ Save(e)
    \/ \E new \in Configs : CreateByCli(new)
    \/ \E r \in Runs : ClickRead(r) \/ ClickWrite(r)

Agent == \E r \in Runs : WriteProposal(r) \/ Run(r) \/ Execute(r) \/ Fill(r)

Day == OpenSnapshot \/ MarketMoves \/ NewDay

Next == Operator \/ Agent \/ (\E v \in Reflexes : Reflex(v)) \/ Day \/ Crash

\* The event loop takes every coroutine further and the scheduler's tick
\* comes round; fills, and so the reflexes after them, are nobody's duty.
Fairness ==
    \A v \in Reflexes : v = "tick" => WF_vars(Reflex(v))

Spec == Init /\ [][Next]_vars
FairSpec == Spec /\ Fairness

-----------------------------------------------------------------------------
(* What is promised. *)

CheckType == [at : Int, config : Configs, seen : Levels \cup {"unread"}]
SaveType == [at : {"idle", "insert", "check", "demote"} \cup Found,
             prior : Configs, new : Configs]

LadderType ==
    /\ trust \in Levels
    /\ trail \in Seq(EventTypes)
    /\ config \in Configs
    /\ asked \in [Requests -> CheckType]
    /\ demoter \in [Demoters -> {"idle"} \cup Found]
    /\ save \in [Saves -> SaveType]
    /\ grant \in CheckType
    /\ slip \in BOOLEAN

RunType ==
    /\ place \in [Runs -> Places]
    /\ prop \in [Runs -> PropStatuses]
    /\ clicks \subseteq Runs
    /\ dispatched \subseteq Runs
    /\ book \in [Runs -> BookStates]
    /\ stragglers \subseteq Runs
    /\ unled \subseteq Runs

ReflexType ==
    /\ reflex \in [Reflexes -> ReflexPlaces]
    /\ listed \in [Reflexes -> SUBSET Runs]

DayType ==
    /\ baseline \in {"none", "flat", "booked", "closed"}
    /\ loss \in BOOLEAN
    /\ crashes \in Nat

\* The rung, the log, the requests and the proposals are well typed.
TypeOK == LadderType /\ RunType /\ ReflexType /\ DayType

\* Approvals among the first n events with no breach or demotion after them.
CleanBy(t, n) ==
    {i \in 1 .. n : t[i] = "approval" /\ UnstoppedTo(t, i, n)}

Earned(t, n) == Cardinality(CleanBy(t, n)) >= Threshold

\* A strategy is auto only on a check that found Threshold approvals after
\* every breach and demotion the log then held: promote_to_auto and
\* promote-auto both compute the streak before they write, and what comes
\* between the check and the write is all that may have spoilt it.
AutoWasEarned ==
    trust = "auto" => grant.at \in 0 .. Len(trail) /\ Earned(trail, grant.at)

\* A demotion takes effect on the next cycle (agent/runtime.py): while the
\* strategy is not auto, the only proposals approved automatically are those
\* of runs that had read auto when it was demoted.
DemotionHoldsBack == unled \subseteq stragglers

\* strategy_save: once its steps are over, a strategy whose watchlist or caps
\* changed since its promotion was checked is no longer auto.  Not so after
\* a version saved from the command line, a crash between the snapshot and
\* the demotion, a save that compared with an outdated snapshot, or a
\* promotion checked before the edit and written after it (slip).
MaterialEditDemotes ==
    (trust = "auto" /\ ~slip /\ \A e \in Saves : save[e].at \in {"idle", "insert"})
        => config = grant.config

\* run_anomaly_evaluator_tick: an auto strategy whose book stays a threshold
\* below the snapshot of the day is demoted, whatever fails on the way.
DrawdownIsAnswered ==
    LET Falling == trust = "auto" /\ baseline = "booked" /\ loss
    IN  Falling ~> ~Falling

\* The dashboard's demotion is "always-safe (removes autonomy)" and "flips the
\* badge immediately" (routes.py:2529): where the newest event about the rung
\* is a demotion, the rung is not auto.  Not so for a demotion that read the
\* row before a promotion was written, and found nothing to change.
RungEvents == {i \in DOMAIN trail : trail[i] \in Demotions \cup {"trust_promoted"}}
DemotionIsSafe ==
    \A i \in RungEvents :
        (trail[i] \in Demotions /\ \A j \in RungEvents : j <= i) => trust # "auto"

\* The blocked-promotion page: "The count restarts from the next clean
\* approval."  Threshold approvals after the last breach make it eligible.
StreakRebuilds ==
    (Len(trail) <= ScanLimit /\ Earned(trail, Len(trail))) => Eligible(trail)
=============================================================================
