------------------------------ MODULE AgentRun ------------------------------
(***************************************************************************)
(* One cycle of the agent (agent/runtime.py, trigger_strategy_run), many   *)
(* at a time, against the day's ceiling on what the model may cost         *)
(* (agent/cost_ceiling.py): gate, triage when the ceiling is near,         *)
(* research with tools, decision, the proposal, the answer to whoever      *)
(* asked.  A query's cost is entered in the ledger (llm_cost events of the *)
(* audit log) once the query is over, so runs that pass the gate together  *)
(* pass it on the same ledger.                                             *)
(*                                                                         *)
(* Runs of the server share one process and with it the module global that *)
(* tells a tool whose budget to charge (agent/tools/context.py); a run of  *)
(* the command line is a process of its own.  What becomes of a proposal   *)
(* is ProposalLifecycle's subject, who may execute it without a click      *)
(* TrustLadder's, and what the log promises AuditLog's.                    *)
(***************************************************************************)
EXTENDS Integers, FiniteSets

CONSTANTS
    Runs,           \* slots: how many runs may be under way at once
    Askers,         \* who asks for a run in this instance
    Gone,           \* the budget of a run that is over
    NoCall,         \* no tool call is under way
    Costs,          \* what one query may cost,
    Cost,           \* and no more than that
    Ceilings,       \* what the settings page may hold, 0 for an unusable entry
    DefaultCeiling, \* DEFAULT_DAILY_CEILING_USD
    Mishaps,        \* what may go wrong in this instance
    FullCalls,      \* tool calls the SDK grants a full research query
    DegradedCalls,  \* and a degraded one
    SpentCap        \* bound: spent counts no further

Sources == {"schedule", "slack", "dashboard", "cli"}

ASSUME AgentRunAssumption ==
    /\ IsFiniteSet(Runs)
    /\ Askers \subseteq Sources
    /\ Gone \notin Runs
    /\ NoCall \notin Runs \cup {Gone}
    /\ Cost \in Nat
    /\ Costs \subseteq 0 .. Cost
    /\ Mishaps \subseteq {"raise", "entry"}
    /\ Ceilings # {}
    /\ Ceilings \subseteq Nat
    /\ DefaultCeiling \in Nat \ {0}
    /\ FullCalls \in Nat
    /\ DegradedCalls \in Nat
    /\ SpentCap \in Nat

VARIABLES
    ceiling,     \* users.daily_cost_ceiling_usd
    ledger,      \* sum of today's llm_cost events
    flagged,     \* alerts whose cost_alert_*_sent_date is today
    place,       \* place[r]: where the run of slot r is
    source,      \* source[r]: who asked for it
    mode,        \* mode[r]: what the gate let it do
    news,        \* news[r]: just_crossed_80 and just_crossed_100
    context,     \* _CONTEXT of the server: whose budget its tools charge
    charged,     \* charged[r]: calls recorded in r's BudgetTracker
    calls,       \* calls[r]: tool calls r's research has made
    tool,        \* tool[r]: the budget its call under way has fetched
    stale,       \* runs whose gate took its date before midnight
    \* what has been observed, read by no action's guard
    shared,      \* server runs that have had company in the process
    told,        \* alerts delivered today
    lost,        \* an alert failed or died with its run
    peak,        \* the highest ceiling in force today
    spent        \* what today's queries cost, recorded or not

gateVars == <<ceiling, ledger, flagged>>
runVars == <<place, source, mode, news>>
toolVars == <<context, charged, calls, tool>>
seenVars == <<told, lost, peak, spent>>
vars == <<gateVars, runVars, toolVars, stale, shared, seenVars>>

Modes == {"allow", "degrade", "halt"}
Phases == {"triage", "research", "decision"}
Places == {"idle", "gate", "flags", "alert", "triage", "load", "research",
           "decision", "write", "report", "auto", "answer", "failed"}

\* A column that is empty, unreadable or not above zero means the default.
Effective(c) == IF c = 0 THEN DefaultCeiling ELSE c

Init ==
    /\ ceiling \in Ceilings
    /\ ledger = 0
    /\ flagged = {}
    /\ place = [r \in Runs |-> "idle"]
    /\ source = [r \in Runs |-> "cli"]
    /\ mode = [r \in Runs |-> "allow"]
    /\ news = [r \in Runs |-> {}]
    /\ context = Gone
    /\ charged = [r \in Runs |-> 0]
    /\ calls = [r \in Runs |-> 0]
    /\ tool = [r \in Runs |-> NoCall]
    /\ stale = {}
    /\ shared = {}
    /\ told = {}
    /\ lost = FALSE
    /\ peak = Effective(ceiling)
    /\ spent = 0

Active == {r \in Runs : place[r] # "idle"}
InServer == {r \in Active : source[r] # "cli"}

\* A query that has raised enters nothing; an entry that fails is only logged.
Recorded(c) == {c} \cup (IF "entry" \in Mishaps THEN {0} ELSE {})

\* A query of cost c: what the day has cost, and what its ledger says.
Spend(c, recorded) ==
    /\ spent' = IF spent + c > SpentCap THEN SpentCap ELSE spent + c
    /\ ledger' = ledger + recorded

\* The slot is free again; nobody charges the budget of a run that is over.
Release(rs) ==
    /\ place' = [r \in Runs |-> IF r \in rs THEN "idle" ELSE place[r]]
    /\ mode' = [r \in Runs |-> IF r \in rs THEN "allow" ELSE mode[r]]
    /\ news' = [r \in Runs |-> IF r \in rs THEN {} ELSE news[r]]
    /\ source' = [r \in Runs |-> IF r \in rs THEN "cli" ELSE source[r]]
    /\ charged' = [r \in Runs |-> IF r \in rs THEN 0 ELSE charged[r]]
    /\ calls' = [r \in Runs |-> IF r \in rs THEN 0 ELSE calls[r]]
    /\ tool' = [r \in Runs |-> IF r \in rs THEN NoCall
                               ELSE IF tool[r] \in rs THEN Gone ELSE tool[r]]
    /\ context' = IF context \in rs THEN Gone ELSE context
    /\ stale' = stale \ rs
    /\ shared' = shared \ rs

GoTo(r, p) ==
    /\ place' = [place EXCEPT ![r] = p]
    /\ UNCHANGED <<source, mode, news>>

-----------------------------------------------------------------------------
(* The gate.                                                               *)

\* A cycle is due or asked for.  One that is due in quiet hours ends at once.
Trigger(r, s) ==
    /\ place[r] = "idle"
    /\ place' = [place EXCEPT ![r] = "gate"]
    /\ source' = [source EXCEPT ![r] = s]
    /\ shared' = IF s = "cli" \/ InServer = {} THEN shared
                 ELSE shared \cup InServer \cup {r}
    /\ UNCHANGED <<gateVars, mode, news, toolVars, stale, seenVars>>

TierWithoutHalt(spend, c) ==     \* faulty variant: the ceiling only degrades
    IF 100 * spend >= 80 * c THEN "degrade" ELSE "allow"

Tier(spend, c) ==
    IF 100 * spend >= 100 * c THEN "halt"
    ELSE IF 100 * spend >= 80 * c THEN "degrade" ELSE "allow"

CrossedUndated(tier) ==          \* faulty variant: an alert without a column
    IF tier = "allow" THEN {} ELSE {80, 95, 100}

Crossed(tier) == [halt |-> {80, 100}, degrade |-> {80}, allow |-> {}][tier]

\* Where a run stands once check_cost_ceiling has returned.
AfterGate(tier) == [halt |-> "idle", degrade |-> "triage", allow |-> "load"][tier]

\* The ceiling, the ledger and the dates of the last alerts are read.
CheckCeiling(r) ==
    LET tier == Tier(ledger, Effective(ceiling))
        fresh == Crossed(tier) \ flagged
    IN  /\ place[r] = "gate"
        /\ fresh # {} \/ tier # "halt"
        /\ place' = [place EXCEPT ![r] =
                        IF fresh # {} THEN "flags" ELSE AfterGate(tier)]
        /\ mode' = [mode EXCEPT ![r] = tier]
        /\ news' = [news EXCEPT ![r] = fresh]
        /\ stale' = stale \ {r}
        /\ UNCHANGED <<gateVars, source, toolVars, shared, seenVars>>

\* Halted, and the operator has been told today: nothing is left to do.
TurnAway(r) ==
    /\ place[r] = "gate"
    /\ Tier(ledger, Effective(ceiling)) = "halt"
    /\ flagged = {80, 100}
    /\ Release({r})
    /\ UNCHANGED <<gateVars, seenVars>>

\* The dates are written in the statement after the reads; a run that read
\* before midnight writes yesterday's.
FlagAlerts(r) ==
    /\ place[r] = "flags"
    /\ flagged' = IF r \in stale THEN flagged \ news[r] ELSE flagged \cup news[r]
    /\ GoTo(r, "alert")
    /\ UNCHANGED <<ceiling, ledger, toolVars, stale, shared, seenVars>>

MessageHaltOnly(r) ==            \* faulty variant: a degraded run says nothing
    news[r] \cap {100}

\* The one alert of a verdict: a halt that crosses both tells of the ceiling.
Message(r) ==
    IF mode[r] = "halt" THEN news[r] \cap {100} ELSE news[r] \cap {80}

Alert(r) ==
    /\ place[r] = "alert"
    /\ \/ told' = told \cup Message(r) /\ lost' = lost
       \/ Message(r) # {} /\ lost' = TRUE /\ told' = told
    /\ IF mode[r] = "halt"
       THEN Release({r})
       ELSE /\ place' = [place EXCEPT ![r] = "triage"]
            /\ news' = [news EXCEPT ![r] = {}]
            /\ UNCHANGED <<source, mode, toolVars, stale, shared>>
    /\ UNCHANGED <<gateVars, peak, spent>>

-----------------------------------------------------------------------------
(* Triage and start.                                                       *)

\* The cheap model is asked whether the day warrants a run.  Its stream may
\* raise, and an entry that cannot be written is only logged.
Triage(r) ==
    /\ place[r] = "triage"
    /\ \E c \in Costs : \E recorded \in Recorded(c) : Spend(c, recorded)
    /\ \/ GoTo(r, "load") /\ UNCHANGED <<toolVars, stale, shared>>
       \/ Release({r})
    /\ UNCHANGED <<ceiling, flagged, told, lost, peak>>

TriageRaises(r) ==
    /\ "raise" \in Mishaps
    /\ place[r] = "triage"
    /\ \E c \in Costs : Spend(c, 0)
    /\ GoTo(r, "failed")
    /\ UNCHANGED <<ceiling, flagged, toolVars, stale, shared, told, lost, peak>>

Limit(r) == IF mode[r] = "degrade" THEN DegradedCalls ELSE FullCalls

LoadKeepsContext(r) ==           \* faulty variant: set for degraded runs only
    /\ place[r] = "load"
    /\ context' = IF source[r] = "cli" \/ mode[r] = "allow" THEN context ELSE r
    /\ \E p \in {"research", "failed"} : GoTo(r, p)
    /\ UNCHANGED <<gateVars, charged, calls, tool, stale, shared, seenVars>>

\* A budget is made and put in the process's context; then the strategy and
\* its guidance are read, or are not there.
Load(r) ==
    /\ place[r] = "load"
    /\ context' = IF source[r] = "cli" THEN context ELSE r
    /\ \E p \in {"research", "failed"} : GoTo(r, p)
    /\ UNCHANGED <<gateVars, charged, calls, tool, stale, shared, seenVars>>

-----------------------------------------------------------------------------
(* Research: the model calls tools; each fetches the context, then waits   *)
(* for the network, then charges the budget it had fetched.                *)

Budget(r) == IF source[r] = "cli" THEN r ELSE context

ToolCallUnlimited(r) ==          \* faulty variant: the SDK is given no max_turns
    /\ place[r] = "research"
    /\ tool[r] = NoCall
    /\ tool' = [tool EXCEPT ![r] = Budget(r)]
    /\ UNCHANGED <<gateVars, runVars, context, charged, calls, stale, shared,
                   seenVars>>

ToolCall(r) ==
    /\ place[r] = "research"
    /\ tool[r] = NoCall
    /\ calls[r] < Limit(r)
    /\ calls' = [calls EXCEPT ![r] = @ + 1]
    /\ tool' = [tool EXCEPT ![r] = Budget(r)]
    /\ UNCHANGED <<gateVars, runVars, context, charged, stale, shared, seenVars>>

\* The call is recorded, whether the budget then refuses the answer or not;
\* nobody looks at what the budget of a run that is over says.
ToolAnswers(r) ==
    /\ place[r] = "research"
    /\ tool[r] # NoCall
    /\ charged' = IF tool[r] \in Runs THEN [charged EXCEPT ![tool[r]] = @ + 1]
                  ELSE charged
    /\ tool' = [tool EXCEPT ![r] = NoCall]
    /\ UNCHANGED <<gateVars, runVars, context, calls, stale, shared, seenVars>>

\* A host that is not allowed, no page, no quote: the tool raises before it
\* records the call, and the model reads the error.
ToolFails(r) ==
    /\ place[r] = "research"
    /\ tool[r] # NoCall
    /\ tool' = [tool EXCEPT ![r] = NoCall]
    /\ UNCHANGED <<gateVars, runVars, context, charged, calls, stale, shared,
                   seenVars>>

ToolReturns(r) == ToolAnswers(r) \/ ToolFails(r)

\* The stream ends: its cost is entered, or the entry fails and is logged;
\* then the brief is read out of the text, or there is none.
Research(r) ==
    /\ place[r] = "research"
    /\ tool[r] = NoCall
    /\ \E c \in Costs : \E recorded \in Recorded(c) : Spend(c, recorded)
    /\ \E p \in {"decision", "failed"} : GoTo(r, p)
    /\ UNCHANGED <<ceiling, flagged, toolVars, stale, shared, told, lost, peak>>

ResearchRaises(r) ==
    /\ place[r] = "research"
    /\ tool[r] = NoCall
    /\ "raise" \in Mishaps
    /\ \E c \in Costs : Spend(c, 0)
    /\ GoTo(r, "failed")
    /\ UNCHANGED <<ceiling, flagged, toolVars, stale, shared, told, lost, peak>>

-----------------------------------------------------------------------------
(* Decision and proposal.                                                  *)

\* The stream is left at the tool call, before the message that carries the
\* cost: the entry of a decision that succeeds says zero.
DecisionTaken(r) ==
    /\ place[r] = "decision"
    /\ \E c \in Costs : Spend(c, 0)
    /\ GoTo(r, "write")
    /\ UNCHANGED <<ceiling, flagged, toolVars, stale, shared, told, lost, peak>>

\* The stream ends without a tool call.
DecisionMissed(r) ==
    /\ place[r] = "decision"
    /\ \E c \in Costs : \E recorded \in Recorded(c) : Spend(c, recorded)
    /\ GoTo(r, "failed")
    /\ UNCHANGED <<ceiling, flagged, toolVars, stale, shared, told, lost, peak>>

DecisionRaises(r) ==
    /\ place[r] = "decision"
    /\ "raise" \in Mishaps
    /\ \E c \in Costs : Spend(c, 0)
    /\ GoTo(r, "failed")
    /\ UNCHANGED <<ceiling, flagged, toolVars, stale, shared, told, lost, peak>>

\* write_proposal in one transaction: a trade, no action, a ticker that is
\* not on the watchlist (all is rolled back), or a payload that is not valid.
WriteProposal(r) ==
    /\ place[r] = "write"
    /\ \E p \in {"auto", "answer", "report", "failed"} : GoTo(r, p)
    /\ UNCHANGED <<gateVars, toolVars, stale, shared, seenVars>>

\* The refusal is entered in a transaction of its own, and raised again.
ReportRefusal(r) ==
    /\ place[r] = "report"
    /\ GoTo(r, "failed")
    /\ UNCHANGED <<gateVars, toolVars, stale, shared, seenVars>>

\* The trust level is read; an auto strategy's trade is approved and executed.
AutoBranch(r) ==
    /\ place[r] = "auto"
    /\ \E p \in {"answer", "failed"} : GoTo(r, p)
    /\ UNCHANGED <<gateVars, toolVars, stale, shared, seenVars>>

\* The surface posts the card, the no-action line or, from Slack, the failure.
Answer(r) ==
    /\ place[r] \in {"answer", "failed"}
    /\ Release({r})
    /\ UNCHANGED <<gateVars, seenVars>>

-----------------------------------------------------------------------------
(* Around the runs.                                                        *)

ChangeCeiling ==
    /\ ceiling' \in Ceilings
    /\ peak' = IF Effective(ceiling') > peak THEN Effective(ceiling') ELSE peak
    /\ UNCHANGED <<ledger, flagged, runVars, toolVars, stale, shared, told, lost,
                   spent>>

\* Local midnight.
NewDay ==
    /\ ledger' = 0
    /\ flagged' = {}
    /\ stale' = {r \in Runs : place[r] = "flags"}
    /\ told' = {}
    /\ lost' = FALSE
    /\ peak' = Effective(ceiling)
    /\ spent' = 0
    /\ UNCHANGED <<ceiling, runVars, toolVars, shared>>

\* A process ends: the server's, with all its runs, or one command's.
Stop(rs) ==
    /\ rs # {}
    /\ Release(rs)
    /\ lost' = (lost \/ \E r \in rs : place[r] = "alert" /\ Message(r) # {})
    /\ UNCHANGED <<gateVars, told, peak, spent>>

Crash ==
    \/ Stop(InServer)
    \/ \E r \in Active \ InServer : Stop({r})

Step(r) ==
    \/ CheckCeiling(r) \/ TurnAway(r) \/ FlagAlerts(r) \/ Alert(r)
    \/ Triage(r) \/ TriageRaises(r) \/ Load(r)
    \/ ToolCall(r) \/ ToolReturns(r) \/ Research(r) \/ ResearchRaises(r)
    \/ DecisionTaken(r) \/ DecisionMissed(r) \/ DecisionRaises(r)
    \/ WriteProposal(r) \/ ReportRefusal(r) \/ AutoBranch(r) \/ Answer(r)

Next ==
    \/ \E r \in Runs : Step(r) \/ \E s \in Askers : Trigger(r, s)
    \/ ChangeCeiling
    \/ NewDay
    \/ Crash

Spec == Init /\ [][Next]_vars

-----------------------------------------------------------------------------
(* Properties.                                                             *)

\* Every variable holds what its column, field or local can hold.
TypeOK ==
    /\ ceiling \in Ceilings
    /\ ledger \in Nat
    /\ flagged \subseteq {80, 100}
    /\ place \in [Runs -> Places]
    /\ source \in [Runs -> Sources]
    /\ mode \in [Runs -> Modes]
    /\ news \in [Runs -> SUBSET {80, 100}]
    /\ context \in Runs \cup {Gone}
    /\ charged \in [Runs -> Nat]
    /\ calls \in [Runs -> Nat]
    /\ tool \in [Runs -> Runs \cup {Gone, NoCall}]
    /\ stale \subseteq Runs
    /\ shared \subseteq Runs
    /\ told \subseteq {80, 100}
    /\ lost \in BOOLEAN
    /\ peak \in Nat
    /\ spent \in Nat

\* A query can still enter its cost from these places on.
Before ==
    [triage |-> {"flags", "alert", "triage"},
     research |-> {"flags", "alert", "triage", "load", "research"},
     decision |-> {"flags", "alert", "triage", "load", "research", "decision"}]

\* What the runs the gate let pass have still to enter in the ledger.
Owed == {q \in Runs \X Phases :
            place[q[1]] \in Before[q[2]] /\ mode[q[1]] # "halt"}

\* Runs that pass the gate on the same ledger may together go past the
\* ceiling, but never by more than what the runs under way have still to
\* enter: the ledger stays below the day's highest ceiling plus three queries
\* for each run that can be under way.
OverrunIsBounded ==
    ledger + Cost * Cardinality(Owed) <= peak + Cost * Cardinality(Runs \X Phases)

\* A run that has had the server's process to itself, or a process of its
\* own, charges its tool calls to its own budget, and nobody else does.
ChargesItself ==
    \A r \in Active \ shared :
        /\ tool[r] \in {r, NoCall}
        /\ charged[r] <= calls[r]

\* The dates of the day's alerts are written before the message goes out: the
\* operator has been told, or is about to be, unless Slack or the process
\* failed in between.
AlertIsNotForgotten ==
    lost \/ /\ 100 \in flagged =>
                 100 \in told \/ \E r \in Runs : place[r] = "alert" /\ 100 \in Message(r)
            /\ flagged # {} =>
                 told # {} \/ \E r \in Runs : place[r] = "alert" /\ Message(r) # {}

\* Where a run stands on its way from the gate to the end, and how much of its
\* research is left.
Rank ==
    [gate |-> 10, flags |-> 9, alert |-> 8, triage |-> 7, load |-> 6,
     research |-> 5, decision |-> 4, write |-> 3, report |-> 2, auto |-> 2,
     answer |-> 1, failed |-> 1, idle |-> 0]

Left(r) == 2 * (Limit(r) - calls[r]) + (IF tool[r] = NoCall THEN 0 ELSE 1)

\* Whatever a run does, and whatever others do to it, brings it nearer to its
\* end: no refusal of a tool and no failure of a query sends it back, and no
\* chain of tool calls is without end.
RunAdvances ==
    [][\A r \in Active :
          \/ Rank[place'[r]] < Rank[place[r]]
          \/ place'[r] = place[r] /\ Left(r)' <= Left(r)]_vars

\* agent/runtime.py, at the gate: every run deducts from the day's pool and
\* the halt at the ceiling is absolute, so what the day costs is bounded as
\* what its ledger says is.
SpendIsBounded == spent <= peak + Cost * Cardinality(Runs \X Phases)
=============================================================================
