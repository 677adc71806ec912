--------------------------- MODULE AgentRun_proofs ---------------------------
(***************************************************************************)
(* Proofs about AgentRun, for any finite number of runs at once, every     *)
(* ceiling and every cost of a query.                                      *)
(***************************************************************************)
EXTENDS AgentRun, FiniteSetTheorems, TLAPS

USE AgentRunAssumption

-----------------------------------------------------------------------------
(* Types. *)

\* Whatever slots are freed, every variable of a run keeps its type.
LEMMA ReleaseTypes ==
    ASSUME TypeOK, NEW rs \in SUBSET Runs, Release(rs)
    PROVE  /\ place' \in [Runs -> Places]
           /\ source' \in [Runs -> Sources]
           /\ mode' \in [Runs -> Modes]
           /\ news' \in [Runs -> SUBSET {80, 100}]
           /\ context' \in Runs \cup {Gone}
           /\ charged' \in [Runs -> Nat]
           /\ calls' \in [Runs -> Nat]
           /\ tool' \in [Runs -> Runs \cup {Gone, NoCall}]
           /\ stale' \subseteq Runs
           /\ shared' \subseteq Runs
<1>1. place' \in [Runs -> Places]
  BY DEF TypeOK, Release, Places
<1>2. source' \in [Runs -> Sources] /\ mode' \in [Runs -> Modes]
  BY DEF TypeOK, Release, Sources, Modes
<1>3. news' \in [Runs -> SUBSET {80, 100}]
  BY DEF TypeOK, Release
<1>4. charged' \in [Runs -> Nat] /\ calls' \in [Runs -> Nat]
  BY DEF TypeOK, Release
<1>5. tool' \in [Runs -> Runs \cup {Gone, NoCall}]
  <2>1. \A r \in Runs : tool[r] \in Runs \cup {Gone, NoCall}
    BY DEF TypeOK
  <2> QED BY <2>1 DEF Release
<1>6. context' \in Runs \cup {Gone} /\ stale' \subseteq Runs /\ shared' \subseteq Runs
  BY DEF TypeOK, Release
<1> QED BY <1>1, <1>2, <1>3, <1>4, <1>5, <1>6

LEMMA SpendTypes ==
    ASSUME TypeOK, NEW c \in Nat, NEW d \in Nat, Spend(c, d)
    PROVE  spent' \in Nat /\ ledger' \in Nat
BY DEF TypeOK, Spend

LEMMA CostTypes == \A c \in Costs : c \in Nat /\ c <= Cost /\ Recorded(c) \subseteq {0, c}
BY DEF Recorded

LEMMA EntryTypes ==
    ASSUME TypeOK, \E c \in Costs : \E d \in Recorded(c) : Spend(c, d)
    PROVE  spent' \in Nat /\ ledger' \in Nat
<1>1. PICK c \in Costs : \E d \in Recorded(c) : Spend(c, d)
  OBVIOUS
<1>2. PICK d \in {0, c} : Spend(c, d)
  BY <1>1, CostTypes
<1> QED BY <1>2, CostTypes, SpendTypes

LEMMA TierTypes == \A x, c : Tier(x, c) \in Modes
BY DEF Tier, Modes

LEMMA CeilingTypes == \A c \in Ceilings : Effective(c) \in Nat
BY DEF Effective

LEMMA StepType ==
    ASSUME TypeOK, NEW r \in Runs, Step(r)
    PROVE  TypeOK'
<1> USE DEF gateVars, runVars, toolVars, seenVars, Places
<1>1. CASE CheckCeiling(r)
  BY <1>1, TierTypes DEF CheckCeiling, TypeOK, AfterGate, Crossed, Modes
<1>2. CASE TurnAway(r)
  BY <1>2, ReleaseTypes DEF TurnAway, TypeOK
<1>3. CASE FlagAlerts(r)
  <2>1. news[r] \in SUBSET {80, 100}
    BY DEF TypeOK
  <2>2. flagged' \in SUBSET {80, 100}
    BY <1>3, <2>1 DEF FlagAlerts, TypeOK
  <2> QED BY <1>3, <2>2 DEF FlagAlerts, GoTo, TypeOK
<1>4. CASE Alert(r)
  <2>1. told' \in SUBSET {80, 100} /\ lost' \in BOOLEAN
    BY <1>4 DEF Alert, Message, TypeOK
  <2>2. CASE mode[r] = "halt"
    BY <1>4, <2>1, <2>2, ReleaseTypes DEF Alert, TypeOK
  <2>3. CASE mode[r] # "halt"
    BY <1>4, <2>1, <2>3 DEF Alert, TypeOK
  <2> QED BY <2>2, <2>3
<1>5. CASE Triage(r)
  <2>1. spent' \in Nat /\ ledger' \in Nat
    BY <1>5, EntryTypes DEF Triage
  <2>2. CASE Release({r})
    BY <1>5, <2>1, <2>2, ReleaseTypes DEF Triage, TypeOK
  <2>3. CASE GoTo(r, "load") /\ UNCHANGED <<toolVars, stale, shared>>
    BY <1>5, <2>1, <2>3 DEF Triage, GoTo, TypeOK
  <2> QED BY <1>5, <2>2, <2>3 DEF Triage
<1>6. CASE TriageRaises(r)
  <2>1. spent' \in Nat /\ ledger' \in Nat
    BY <1>6, CostTypes, SpendTypes DEF TriageRaises
  <2> QED BY <1>6, <2>1 DEF TriageRaises, GoTo, TypeOK
<1>7. CASE Load(r)
  BY <1>7 DEF Load, GoTo, TypeOK
<1>8. CASE ToolCall(r)
  BY <1>8 DEF ToolCall, TypeOK, Budget
<1>9. CASE ToolReturns(r)
  <2>1. CASE ToolAnswers(r)
    <3>1. charged' \in [Runs -> Nat]
      BY <2>1 DEF ToolAnswers, TypeOK
    <3> QED BY <2>1, <3>1 DEF ToolAnswers, TypeOK
  <2>2. CASE ToolFails(r)
    BY <2>2 DEF ToolFails, TypeOK
  <2> QED BY <1>9, <2>1, <2>2 DEF ToolReturns
<1>10. CASE Research(r)
  <2>1. spent' \in Nat /\ ledger' \in Nat
    BY <1>10, EntryTypes DEF Research
  <2> QED BY <1>10, <2>1 DEF Research, GoTo, TypeOK
<1>11. CASE ResearchRaises(r)
  <2>1. spent' \in Nat /\ ledger' \in Nat
    BY <1>11, CostTypes, SpendTypes DEF ResearchRaises
  <2> QED BY <1>11, <2>1 DEF ResearchRaises, GoTo, TypeOK
<1>12. CASE DecisionTaken(r)
  <2>1. spent' \in Nat /\ ledger' \in Nat
    BY <1>12, CostTypes, SpendTypes DEF DecisionTaken
  <2> QED BY <1>12, <2>1 DEF DecisionTaken, GoTo, TypeOK
<1>13. CASE DecisionMissed(r)
  <2>1. spent' \in Nat /\ ledger' \in Nat
    BY <1>13, EntryTypes DEF DecisionMissed
  <2> QED BY <1>13, <2>1 DEF DecisionMissed, GoTo, TypeOK
<1>14. CASE DecisionRaises(r)
  <2>1. spent' \in Nat /\ ledger' \in Nat
    BY <1>14, CostTypes, SpendTypes DEF DecisionRaises
  <2> QED BY <1>14, <2>1 DEF DecisionRaises, GoTo, TypeOK
<1>15. CASE WriteProposal(r)
  BY <1>15 DEF WriteProposal, GoTo, TypeOK
<1>16. CASE ReportRefusal(r)
  BY <1>16 DEF ReportRefusal, GoTo, TypeOK
<1>17. CASE AutoBranch(r)
  BY <1>17 DEF AutoBranch, GoTo, TypeOK
<1>18. CASE Answer(r)
  BY <1>18, ReleaseTypes DEF Answer, TypeOK
<1> QED
  BY <1>1, <1>2, <1>3, <1>4, <1>5, <1>6, <1>7, <1>8, <1>9, <1>10, <1>11, <1>12, <1>13, <1>14, <1>15, <1>16, <1>17, <1>18 DEF Step

\* Every variable holds what its column, field or local can hold.
LEMMA TypeStep == TypeOK /\ [Next]_vars => TypeOK'
<1> SUFFICES ASSUME TypeOK, [Next]_vars
             PROVE  TypeOK'
  OBVIOUS
<1> USE DEF gateVars, runVars, toolVars, seenVars
<1>1. ASSUME NEW r \in Runs, NEW s \in Askers, Trigger(r, s)
      PROVE  TypeOK'
  <2>1. shared' \subseteq Runs
    BY <1>1 DEF Trigger, TypeOK, InServer, Active
  <2> QED BY <1>1, <2>1 DEF Trigger, TypeOK, Places
<1>2. CASE ChangeCeiling
  <2>1. Effective(ceiling') \in Nat /\ ceiling' \in Ceilings
    BY <1>2, CeilingTypes DEF ChangeCeiling
  <2> QED BY <1>2, <2>1 DEF ChangeCeiling, TypeOK
<1>3. CASE NewDay
  BY <1>3, CeilingTypes DEF NewDay, TypeOK
<1>4. ASSUME NEW rs \in SUBSET Runs, Stop(rs)
      PROVE  TypeOK'
  <2>1. lost' \in BOOLEAN
    BY <1>4 DEF Stop, TypeOK
  <2> QED BY <1>4, <2>1, ReleaseTypes DEF Stop, TypeOK
<1>5. Crash => \E rs \in SUBSET Runs : Stop(rs)
  <2>1. InServer \subseteq Runs /\ \A r \in Active \ InServer : {r} \subseteq Runs
    BY DEF InServer, Active
  <2> QED BY <2>1 DEF Crash
<1>6. CASE UNCHANGED vars
  BY <1>6 DEF vars, TypeOK
<1> QED BY <1>1, <1>2, <1>3, <1>4, <1>5, <1>6, StepType DEF Next

LEMMA InitType == Init => TypeOK
<1> SUFFICES ASSUME Init
             PROVE  TypeOK
  OBVIOUS
<1>1. Effective(ceiling) \in Nat
  BY CeilingTypes DEF Init
<1> QED BY <1>1 DEF Init, TypeOK, Places, Sources, Modes

\* Type correctness: every variable always holds what its column, field or
\* local can hold.
THEOREM TypeCorrect == Spec => []TypeOK
BY InitType, TypeStep, PTL DEF Spec

-----------------------------------------------------------------------------
(* Whose budget a tool call charges. *)

\* A step of r that neither starts nor ends a tool call nor the run itself.
PlainMove(r) ==
    /\ place[r] # "idle"
    /\ tool[r] = NoCall \/ place[r] # "research"
    /\ \E p \in Places \ {"idle", "research"} : place' = [place EXCEPT ![r] = p]
    /\ UNCHANGED <<source, toolVars, shared>>

LEMMA StepShape ==
    ASSUME TypeOK, NEW r \in Runs, Step(r)
    PROVE  \/ PlainMove(r) \/ Load(r) \/ ToolCall(r) \/ ToolReturns(r)
           \/ Release({r})
<1> USE DEF Places
<1>1. CASE CheckCeiling(r)
  <2>1. PICK t \in Modes : t = Tier(ledger, Effective(ceiling))
    BY TierTypes
  <2>2. t # "halt" => AfterGate(t) \in {"triage", "load"}
    BY DEF AfterGate, Modes
  <2> QED BY <1>1, <2>1, <2>2 DEF CheckCeiling, PlainMove, toolVars, TypeOK
<1>2. CASE TurnAway(r) \/ Answer(r)
  BY <1>2 DEF TurnAway, Answer
<1>3. CASE FlagAlerts(r)
  BY <1>3 DEF FlagAlerts, GoTo, PlainMove
<1>4. CASE Alert(r)
  BY <1>4 DEF Alert, PlainMove
<1>5. CASE Triage(r) \/ TriageRaises(r)
  BY <1>5 DEF Triage, TriageRaises, GoTo, PlainMove
<1>6. CASE Research(r) \/ ResearchRaises(r)
  BY <1>6 DEF Research, ResearchRaises, GoTo, PlainMove
<1>7. CASE DecisionTaken(r) \/ DecisionMissed(r) \/ DecisionRaises(r)
  BY <1>7 DEF DecisionTaken, DecisionMissed, DecisionRaises, GoTo, PlainMove
<1>8. CASE WriteProposal(r) \/ ReportRefusal(r) \/ AutoBranch(r)
  BY <1>8 DEF WriteProposal, ReportRefusal, AutoBranch, GoTo, PlainMove
<1> QED BY <1>1, <1>2, <1>3, <1>4, <1>5, <1>6, <1>7, <1>8 DEF Step

\* Server runs in company are marked; the server's context is a run of the
\* server, and a run that is alone there has its own context; only research
\* calls tools; and a call charges another run's budget only in company.
Company == \A r, s \in InServer : r # s => r \in shared

ContextHeld ==
    /\ context \in Runs => context \in InServer
    /\ \A r \in InServer \ shared : place[r] = "research" => context = r

CallHeld ==
    \A r \in Runs :
        /\ tool[r] # NoCall => place[r] = "research"
        /\ tool[r] \in Runs /\ tool[r] # r => r \in InServer /\ tool[r] \in InServer

OwnCharge ==
    \A r \in Runs \ shared :
        /\ tool[r] \in {r, NoCall}
        /\ charged[r] <= calls[r]
        /\ tool[r] = r => charged[r] < calls[r]

ToolsInv == Company /\ ContextHeld /\ CallHeld /\ OwnCharge

LEMMA InitTools == Init => ToolsInv
BY DEF Init, ToolsInv, Company, ContextHeld, CallHeld, OwnCharge, InServer, Active

\* No slot is freed or taken: company and who is in the server stay.
LEMMA PlainTools ==
    ASSUME TypeOK, ToolsInv, NEW r \in Runs, PlainMove(r)
    PROVE  ToolsInv'
<1>1. InServer' = InServer
  BY DEF PlainMove, InServer, Active, TypeOK
<1>2. \A s \in Runs : place'[s] = "research" => place[s] = "research"
  BY DEF PlainMove, TypeOK
<1>3. \A s \in Runs : tool[s] # NoCall => place'[s] = "research"
  BY DEF PlainMove, TypeOK, ToolsInv, CallHeld
<1>4. UNCHANGED <<context, charged, calls, tool, shared>>
  BY DEF PlainMove, toolVars
<1>5. InServer \subseteq Runs
  BY DEF InServer, Active
<1>6. Company' /\ ContextHeld'
  BY <1>1, <1>2, <1>4, <1>5 DEF ToolsInv, Company, ContextHeld
<1>7. CallHeld' /\ OwnCharge'
  BY <1>1, <1>3, <1>4 DEF ToolsInv, CallHeld, OwnCharge
<1> QED BY <1>6, <1>7 DEF ToolsInv

LEMMA ReleaseTools ==
    ASSUME TypeOK, ToolsInv, NEW rs \in SUBSET Runs, Release(rs)
    PROVE  ToolsInv'
<1>1. InServer' = InServer \ rs /\ shared' = shared \ rs
  BY DEF Release, InServer, Active, TypeOK
<1>2. \A r \in Runs : tool'[r] # NoCall => place'[r] = place[r] /\ r \notin rs
  BY DEF Release, TypeOK
<1>3. Company'
  BY <1>1 DEF ToolsInv, Company
<1>4. ContextHeld'
  <2>1. context' \in Runs => context' = context /\ context \notin rs
    BY DEF Release
  <2>2. \A r \in Runs \ rs : place'[r] = place[r]
    BY DEF Release, TypeOK
  <2>3. \A r \in InServer' \ shared' : place'[r] = "research" => context = r /\ context \notin rs
    BY <1>1, <2>2 DEF ToolsInv, ContextHeld, InServer, Active
  <2> QED BY <1>1, <2>1, <2>3 DEF ToolsInv, ContextHeld, Release
<1>5. CallHeld'
  <2>1. \A r \in Runs : tool'[r] \in Runs => tool'[r] = tool[r] /\ tool[r] \notin rs /\ r \notin rs
    BY DEF Release, TypeOK
  <2>2. \A r \in Runs \ rs : tool'[r] # NoCall => tool[r] # NoCall
    BY DEF Release, TypeOK
  <2> QED BY <1>1, <1>2, <2>1, <2>2 DEF ToolsInv, CallHeld
<1>6. OwnCharge'
  <2> SUFFICES ASSUME NEW r \in Runs \ shared'
               PROVE  /\ tool'[r] \in {r, NoCall}
                      /\ charged'[r] <= calls'[r]
                      /\ tool'[r] = r => charged'[r] < calls'[r]
    BY DEF OwnCharge
  <2>1. CASE r \in rs
    BY <2>1 DEF Release
  <2>2. CASE r \notin rs
    <3>1. r \notin shared
      BY <1>1, <2>2
    <3>2. tool[r] \in {r, NoCall} /\ tool'[r] = tool[r]
      BY <2>2, <3>1 DEF ToolsInv, OwnCharge, Release
    <3> QED BY <2>2, <3>1, <3>2 DEF ToolsInv, OwnCharge, Release
  <2> QED BY <2>1, <2>2
<1> QED BY <1>3, <1>4, <1>5, <1>6 DEF ToolsInv

LEMMA LoadTools ==
    ASSUME TypeOK, ToolsInv, NEW r \in Runs, Load(r)
    PROVE  ToolsInv'
<1>1. InServer' = InServer
  BY DEF Load, GoTo, InServer, Active, TypeOK
<1>2. UNCHANGED <<charged, calls, tool, shared>> /\ tool[r] = NoCall
  BY DEF Load, ToolsInv, CallHeld
<1>3. \A s \in Runs \ {r} : place'[s] = place[s]
  BY DEF Load, GoTo, TypeOK
<1>4. ContextHeld'
  <2>1. CASE source[r] = "cli"
    <3>1. r \notin InServer /\ context' = context
      BY <2>1 DEF Load, InServer
    <3> QED BY <1>1, <1>2, <1>3, <3>1 DEF ToolsInv, ContextHeld, InServer, Active
  <2>2. CASE source[r] # "cli"
    <3>1. r \in InServer /\ context' = r
      BY <2>2 DEF Load, InServer, Active
    <3>2. \A s \in InServer \ shared : s = r
      BY <3>1 DEF ToolsInv, Company
    <3> QED BY <1>1, <1>2, <3>1, <3>2 DEF ContextHeld
  <2> QED BY <2>1, <2>2
<1>5. CallHeld'
  <2>1. \A s \in Runs : tool[s] # NoCall => s # r /\ place'[s] = place[s]
    BY <1>2, <1>3
  <2> QED BY <1>1, <1>2, <2>1 DEF ToolsInv, CallHeld
<1> QED BY <1>1, <1>2, <1>4, <1>5 DEF ToolsInv, Company, OwnCharge

LEMMA CallTools ==
    ASSUME TypeOK, ToolsInv, NEW r \in Runs, ToolCall(r)
    PROVE  ToolsInv'
<1>1. UNCHANGED <<place, source, context, charged, shared>> /\ InServer' = InServer
  BY DEF ToolCall, runVars, InServer, Active
<1>2. /\ tool' = [tool EXCEPT ![r] = Budget(r)]
      /\ calls' = [calls EXCEPT ![r] = @ + 1]
      /\ tool[r] = NoCall /\ place[r] = "research"
  BY DEF ToolCall
<1>3. r \notin shared => Budget(r) = r
  BY <1>2 DEF Budget, ToolsInv, ContextHeld, InServer, Active
<1>4. Budget(r) \in Runs /\ Budget(r) # r => r \in InServer /\ Budget(r) \in InServer
  BY <1>2 DEF Budget, ToolsInv, ContextHeld, InServer, Active
<1>5. CallHeld'
  BY <1>1, <1>2, <1>4 DEF ToolsInv, CallHeld, TypeOK
<1>6. OwnCharge'
  BY <1>1, <1>2, <1>3 DEF ToolsInv, OwnCharge, TypeOK
<1> QED BY <1>1, <1>5, <1>6 DEF ToolsInv, Company, ContextHeld

LEMMA ReturnTools ==
    ASSUME TypeOK, ToolsInv, NEW r \in Runs, ToolReturns(r)
    PROVE  ToolsInv'
<1>1. UNCHANGED <<place, source, context, calls, shared>> /\ InServer' = InServer
  BY DEF ToolReturns, ToolAnswers, ToolFails, runVars, InServer, Active
<1>2. /\ tool' = [tool EXCEPT ![r] = NoCall]
      /\ \/ tool[r] \in Runs /\ charged' = [charged EXCEPT ![tool[r]] = @ + 1]
         \/ charged' = charged
  BY DEF ToolReturns, ToolAnswers, ToolFails
<1>3. CallHeld'
  BY <1>1, <1>2 DEF ToolsInv, CallHeld, TypeOK
<1>4. \A s \in Runs \ shared : s # r => tool[r] # s
  BY DEF ToolsInv, CallHeld, Company
<1>5. OwnCharge'
  <2> SUFFICES ASSUME NEW s \in Runs \ shared
               PROVE  /\ tool'[s] \in {s, NoCall}
                      /\ charged'[s] <= calls[s]
                      /\ tool'[s] = s => charged'[s] < calls[s]
    BY <1>1 DEF OwnCharge
  <2>1. /\ tool[s] \in {s, NoCall} /\ charged[s] <= calls[s]
        /\ tool[s] = s => charged[s] < calls[s]
        /\ charged[s] \in Nat /\ calls[s] \in Nat
    BY DEF ToolsInv, OwnCharge, TypeOK
  <2>2. CASE s = r
    BY <1>2, <2>1, <2>2 DEF TypeOK
  <2>3. CASE s # r
    BY <1>2, <1>4, <2>1, <2>3 DEF TypeOK
  <2> QED BY <2>2, <2>3
<1> QED BY <1>1, <1>3, <1>5 DEF ToolsInv, Company, ContextHeld

LEMMA TriggerTools ==
    ASSUME TypeOK, ToolsInv, NEW r \in Runs, NEW s \in Askers, Trigger(r, s)
    PROVE  ToolsInv'
<1>1. UNCHANGED <<context, charged, calls, tool>>
  BY DEF Trigger, toolVars
<1>2. /\ \A x \in Runs \ {r} : place'[x] = place[x] /\ source'[x] = source[x]
      /\ place[r] = "idle" /\ place'[r] = "gate" /\ source'[r] = s
  BY DEF Trigger, TypeOK
<1>3. InServer' = IF s = "cli" THEN InServer ELSE InServer \cup {r}
  BY <1>2 DEF InServer, Active
<1>4. /\ shared \subseteq shared'
      /\ s # "cli" /\ InServer # {} => InServer \subseteq shared' /\ r \in shared'
  BY DEF Trigger
<1>5. Company'
  BY <1>3, <1>4 DEF ToolsInv, Company
<1>6. ContextHeld'
  <2>1. \A x \in InServer' \ shared' : place'[x] = "research" =>
           x \in InServer \ shared /\ place[x] = "research"
    BY <1>2, <1>3, <1>4 DEF InServer, Active
  <2> QED BY <1>1, <1>3, <2>1 DEF ToolsInv, ContextHeld
<1>7. CallHeld'
  BY <1>1, <1>2, <1>3 DEF ToolsInv, CallHeld
<1> QED BY <1>1, <1>4, <1>5, <1>6, <1>7 DEF ToolsInv, OwnCharge

LEMMA CrashIsStop == Crash => \E rs \in SUBSET Runs : Stop(rs)
<1>1. InServer \subseteq Runs /\ \A r \in Active \ InServer : {r} \subseteq Runs
  BY DEF InServer, Active
<1> QED BY <1>1 DEF Crash

LEMMA ToolsStep == TypeOK /\ ToolsInv /\ [Next]_vars => ToolsInv'
<1> SUFFICES ASSUME TypeOK, ToolsInv, [Next]_vars
             PROVE  ToolsInv'
  OBVIOUS
<1>1. ASSUME NEW r \in Runs, Step(r) PROVE ToolsInv'
  BY <1>1, StepShape, PlainTools, ReleaseTools, LoadTools, CallTools, ReturnTools
<1>2. ASSUME NEW r \in Runs, NEW s \in Askers, Trigger(r, s) PROVE ToolsInv'
  BY <1>2, TriggerTools
<1>3. CASE ChangeCeiling \/ NewDay \/ UNCHANGED vars
  <2>1. UNCHANGED <<runVars, toolVars, shared>>
    BY <1>3 DEF ChangeCeiling, NewDay, vars
  <2> QED
    BY <2>1 DEF ToolsInv, Company, ContextHeld, CallHeld, OwnCharge, InServer,
                Active, runVars, toolVars
<1>4. CASE Crash
  BY <1>4, CrashIsStop, ReleaseTools DEF Stop
<1> QED BY <1>1, <1>2, <1>3, <1>4 DEF Next

\* A run that has had the server's process to itself, or a process of its
\* own, charges its tool calls to its own budget, and nobody else does.
THEOREM OwnBudget == Spec => []ChargesItself
<1>1. Init => ToolsInv
  BY InitTools
<1>2. ToolsInv => ChargesItself
  BY DEF ToolsInv, OwnCharge, ChargesItself, Active
<1> QED BY <1>1, <1>2, ToolsStep, TypeCorrect, PTL DEF Spec

-----------------------------------------------------------------------------
(* The alerts of the day. *)

Pending(k) == \E r \in Runs : place[r] = "alert" /\ k \in Message(r)

\* Somebody has been told of something, or is about to be.
Voiced == lost \/ told # {} \/ Pending(80) \/ Pending(100)

\* A verdict names the ceiling only when it halts.
NewsFits == \A r \in Runs : 100 \in news[r] => mode[r] = "halt"

\* A date of the ceiling's alert stands for a message; so does any date; and a
\* halted run that has no news of the ceiling has read such a date today.
AlertInv ==
    /\ NewsFits
    /\ lost \/ (100 \in flagged => 100 \in told \/ Pending(100))
    /\ flagged # {} => Voiced
    /\ \A r \in Runs \ stale :
          place[r] = "flags" /\ mode[r] = "halt" /\ 100 \notin news[r] => Voiced

LEMMA InitAlert == Init => AlertInv
BY DEF Init, AlertInv, NewsFits

LEMMA AlertInvImplies == TypeOK /\ AlertInv => AlertIsNotForgotten
<1> SUFFICES ASSUME TypeOK, AlertInv
             PROVE  AlertIsNotForgotten
  OBVIOUS
<1>1. \A k : Pending(k) => \E r \in Runs : place[r] = "alert" /\ Message(r) # {}
  BY DEF Pending
<1> QED BY <1>1 DEF AlertInv, Voiced, Pending, AlertIsNotForgotten

\* Nothing the alerts depend on changes, but for runs that move between other
\* places and slots that are taken.
AlertFrame ==
    /\ UNCHANGED <<flagged, told, lost>>
    /\ \A r \in Runs :
          \/ UNCHANGED <<place[r], mode[r], news[r]>> /\ (r \in stale <=> r \in stale')
          \/ /\ place[r] \notin {"flags", "alert"}
             /\ place'[r] \notin {"flags", "alert"}
             /\ 100 \in news'[r] => mode'[r] = "halt"

LEMMA FramedAlert ==
    ASSUME TypeOK, AlertInv, AlertFrame
    PROVE  AlertInv'
<1>1. \A r \in Runs : place[r] = "alert" => place'[r] = "alert" /\ Message(r)' = Message(r)
  BY DEF AlertFrame, Message
<1>2. \A k : Pending(k) => Pending(k)'
  BY <1>1 DEF Pending
<1>3. Voiced => Voiced'
  BY <1>2 DEF Voiced, AlertFrame
<1>4. NewsFits'
  BY DEF AlertInv, NewsFits, AlertFrame
<1>5. \A r \in Runs \ stale' : place'[r] = "flags" /\ mode'[r] = "halt" /\ 100 \notin news'[r] =>
          place[r] = "flags" /\ mode[r] = "halt" /\ 100 \notin news[r] /\ r \notin stale
  BY DEF AlertFrame
<1> QED BY <1>2, <1>3, <1>4, <1>5 DEF AlertInv, AlertFrame

\* The slots of rs are freed, and whoever among them had a message to send has
\* sent it or lost it.
LEMMA FreedAlert ==
    ASSUME TypeOK, AlertInv, NEW rs \in SUBSET Runs, Release(rs),
           UNCHANGED flagged, told \subseteq told', lost => lost',
           \A r \in rs : place[r] = "alert" => lost' \/ Message(r) \subseteq told'
    PROVE  AlertInv'
<1>1. \A r \in Runs \ rs : UNCHANGED <<place[r], mode[r], news[r]>> /\ Message(r)' = Message(r)
  BY DEF Release, TypeOK, Message
<1>2. \A r \in rs : place'[r] = "idle" /\ news'[r] = {}
  BY DEF Release
<1>3. \A k : Pending(k) => lost' \/ k \in told' \/ Pending(k)'
  <2> SUFFICES ASSUME NEW k, NEW r \in Runs, place[r] = "alert", k \in Message(r)
               PROVE  lost' \/ k \in told' \/ Pending(k)'
    BY DEF Pending
  <2>1. CASE r \in rs
    BY <2>1
  <2>2. CASE r \notin rs
    BY <1>1, <2>2 DEF Pending
  <2> QED BY <2>1, <2>2
<1>4. Voiced => Voiced'
  BY <1>3 DEF Voiced
<1>5. NewsFits'
  BY <1>1, <1>2 DEF AlertInv, NewsFits
<1>6. \A r \in Runs \ stale' : place'[r] = "flags" =>
          /\ UNCHANGED <<place[r], mode[r], news[r]>>
          /\ r \notin stale
  BY <1>1, <1>2 DEF Release
<1> QED BY <1>3, <1>4, <1>5, <1>6 DEF AlertInv

LEMMA GateAlert ==
    ASSUME TypeOK, AlertInv, NEW r \in Runs, CheckCeiling(r)
    PROVE  AlertInv'
<1> DEFINE tier == Tier(ledger, Effective(ceiling))
<1>1. /\ place[r] = "gate"
      /\ mode' = [mode EXCEPT ![r] = tier]
      /\ news' = [news EXCEPT ![r] = Crossed(tier) \ flagged]
      /\ stale' = stale \ {r}
      /\ UNCHANGED <<flagged, told, lost>>
      /\ \A x \in Runs \ {r} : place'[x] = place[x]
      /\ place'[r] # "alert"
  <2>1. AfterGate(tier) # "alert"
    BY TierTypes DEF AfterGate, Modes
  <2> QED BY <2>1 DEF CheckCeiling, gateVars, seenVars, TypeOK
<1>2. 100 \in Crossed(tier) <=> tier = "halt"
  BY TierTypes DEF Crossed, Modes
<1>3. \A x \in Runs : place[x] = "alert" => place'[x] = "alert" /\ Message(x)' = Message(x)
  BY <1>1 DEF Message, TypeOK
<1>4. \A k : Pending(k) => Pending(k)'
  BY <1>3 DEF Pending
<1>5. Voiced => Voiced'
  BY <1>1, <1>4 DEF Voiced
<1>6. NewsFits'
  BY <1>1, <1>2 DEF AlertInv, NewsFits, TypeOK
<1>7. ASSUME NEW x \in Runs \ stale', place'[x] = "flags", mode'[x] = "halt", 100 \notin news'[x]
      PROVE  Voiced
  <2>1. CASE x = r
    <3>1. 100 \in flagged
      BY <1>1, <1>2, <1>7, <2>1 DEF TypeOK
    <3> QED BY <3>1 DEF AlertInv
  <2>2. CASE x # r
    BY <1>1, <1>7, <2>2 DEF AlertInv, TypeOK
  <2> QED BY <2>1, <2>2
<1> QED BY <1>1, <1>4, <1>5, <1>6, <1>7 DEF AlertInv

LEMMA FlagAlert ==
    ASSUME TypeOK, AlertInv, NEW r \in Runs, FlagAlerts(r)
    PROVE  AlertInv'
<1>1. /\ place[r] = "flags" /\ place' = [place EXCEPT ![r] = "alert"]
      /\ UNCHANGED <<mode, news, told, lost, stale>>
  BY DEF FlagAlerts, GoTo, seenVars
<1>2. \A x \in Runs : Message(x)' = Message(x)
  BY <1>1 DEF Message
<1>3. \A k : Pending(k) \/ k \in Message(r) => Pending(k)'
  BY <1>1, <1>2 DEF Pending, TypeOK
<1>4. Voiced => Voiced'
  BY <1>1, <1>3 DEF Voiced
<1>5. \A x \in Runs \ stale' : place'[x] = "flags" => place[x] = "flags" /\ x \notin stale
  BY <1>1 DEF TypeOK
<1>6. CASE r \in stale
  <2>1. flagged' \subseteq flagged
    BY <1>6 DEF FlagAlerts
  <2> QED BY <1>1, <1>3, <1>4, <1>5, <2>1 DEF AlertInv, NewsFits
<1>7. CASE r \notin stale
  <2>1. flagged' = flagged \cup news[r] /\ news[r] \in SUBSET {80, 100}
    BY <1>7 DEF FlagAlerts, TypeOK
  <2>2. 100 \in news[r] => 100 \in Message(r)
    BY DEF AlertInv, NewsFits, Message
  <2>3. news[r] # {} => Voiced'
    <3>1. CASE mode[r] = "halt" /\ 100 \notin news[r]
      BY <1>1, <1>4, <1>7, <3>1 DEF AlertInv
    <3>2. CASE 100 \in news[r]
      BY <1>3, <2>2, <3>2 DEF Voiced
    <3>3. CASE mode[r] # "halt" /\ 100 \notin news[r] /\ news[r] # {}
      <4>1. 80 \in Message(r)
        BY <2>1, <3>3 DEF Message
      <4> QED BY <1>3, <4>1 DEF Voiced
    <3> QED BY <3>1, <3>2, <3>3
  <2> QED BY <1>1, <1>3, <1>4, <1>5, <2>1, <2>2, <2>3 DEF AlertInv, NewsFits
<1> QED BY <1>6, <1>7

LEMMA SentAlert ==
    ASSUME TypeOK, AlertInv, NEW r \in Runs, Alert(r)
    PROVE  AlertInv'
<1>1. /\ place[r] = "alert" /\ flagged' = flagged
      /\ told \subseteq told' /\ (lost => lost')
      /\ lost' \/ Message(r) \subseteq told'
  BY DEF Alert, gateVars
<1>2. CASE mode[r] = "halt"
  <2>1. Release({r})
    BY <1>2 DEF Alert
  <2> QED BY <1>1, <2>1, FreedAlert
<1>3. CASE mode[r] # "halt"
  <2>1. /\ place' = [place EXCEPT ![r] = "triage"]
        /\ news' = [news EXCEPT ![r] = {}]
        /\ UNCHANGED <<mode, stale>>
    BY <1>3 DEF Alert
  <2>2. \A x \in Runs \ {r} : UNCHANGED <<place[x], mode[x], news[x]>> /\ Message(x)' = Message(x)
    BY <2>1 DEF Message, TypeOK
  <2>3. \A k : Pending(k) => lost' \/ k \in told' \/ Pending(k)'
    <3> SUFFICES ASSUME NEW k, NEW x \in Runs, place[x] = "alert", k \in Message(x)
                 PROVE  lost' \/ k \in told' \/ Pending(k)'
      BY DEF Pending
    <3>1. CASE x = r
      BY <1>1, <3>1
    <3>2. CASE x # r
      BY <2>2, <3>2 DEF Pending
    <3> QED BY <3>1, <3>2
  <2>4. Voiced => Voiced'
    BY <1>1, <2>3 DEF Voiced
  <2>5. NewsFits'
    BY <2>1 DEF AlertInv, NewsFits, TypeOK
  <2>6. \A x \in Runs \ stale' : place'[x] = "flags" =>
            x \notin stale /\ UNCHANGED <<place[x], mode[x], news[x]>>
    BY <2>1, <2>2 DEF TypeOK
  <2> QED BY <1>1, <2>3, <2>4, <2>5, <2>6 DEF AlertInv
<1> QED BY <1>2, <1>3

LEMMA OtherStepAlert ==
    ASSUME TypeOK, AlertInv, NEW r \in Runs, Step(r),
           ~ CheckCeiling(r), ~ FlagAlerts(r), ~ Alert(r)
    PROVE  AlertInv'
<1> USE DEF gateVars, runVars, toolVars, seenVars
<1>1. ASSUME Release({r}), UNCHANGED <<flagged, told, lost>>, place[r] # "alert"
      PROVE  AlertInv'
  BY <1>1, FreedAlert
<1>2. ASSUME NEW p \in Places \ {"flags", "alert"}, GoTo(r, p),
             UNCHANGED <<flagged, told, lost, stale>>, place[r] \notin {"flags", "alert"}
      PROVE  AlertInv'
  <2>1. AlertFrame
    BY <1>2 DEF AlertFrame, GoTo, TypeOK, AlertInv, NewsFits
  <2> QED BY <2>1, FramedAlert
<1>3. CASE TurnAway(r) \/ Answer(r)
  BY <1>1, <1>3 DEF TurnAway, Answer
<1>4. CASE Triage(r)
  BY <1>1, <1>2, <1>4 DEF Triage, Places
<1>5. CASE TriageRaises(r) \/ Load(r) \/ Research(r) \/ ResearchRaises(r)
  BY <1>2, <1>5 DEF TriageRaises, Load, Research, ResearchRaises, Places
<1>6. CASE DecisionTaken(r) \/ DecisionMissed(r) \/ DecisionRaises(r)
  BY <1>2, <1>6 DEF DecisionTaken, DecisionMissed, DecisionRaises, Places
<1>7. CASE WriteProposal(r) \/ ReportRefusal(r) \/ AutoBranch(r)
  BY <1>2, <1>7 DEF WriteProposal, ReportRefusal, AutoBranch, Places
<1>8. CASE ToolCall(r) \/ ToolReturns(r)
  <2>1. AlertFrame
    BY <1>8 DEF ToolCall, ToolReturns, ToolAnswers, ToolFails, AlertFrame
  <2> QED BY <2>1, FramedAlert
<1> QED BY <1>3, <1>4, <1>5, <1>6, <1>7, <1>8 DEF Step

LEMMA AlertStep == TypeOK /\ AlertInv /\ [Next]_vars => AlertInv'
<1> SUFFICES ASSUME TypeOK, AlertInv, [Next]_vars
             PROVE  AlertInv'
  OBVIOUS
<1> USE DEF gateVars, runVars, toolVars, seenVars
<1>1. ASSUME NEW r \in Runs, Step(r) PROVE AlertInv'
  BY <1>1, GateAlert, FlagAlert, SentAlert, OtherStepAlert
<1>2. ASSUME NEW r \in Runs, NEW s \in Askers, Trigger(r, s) PROVE AlertInv'
  <2>1. AlertFrame
    BY <1>2 DEF Trigger, AlertFrame, TypeOK, AlertInv, NewsFits
  <2> QED BY <2>1, FramedAlert
<1>3. CASE ChangeCeiling \/ UNCHANGED vars
  <2>1. AlertFrame
    BY <1>3 DEF ChangeCeiling, AlertFrame, vars
  <2> QED BY <2>1, FramedAlert
<1>4. CASE NewDay
  <2>1. flagged' = {} /\ UNCHANGED <<place, mode, news>> /\ stale' = {r \in Runs : place[r] = "flags"}
    BY <1>4 DEF NewDay
  <2>2. \A r \in Runs \ stale' : place'[r] # "flags"
    BY <2>1
  <2> QED BY <2>1, <2>2 DEF AlertInv, NewsFits
<1>5. CASE Crash
  <2>1. PICK rs \in SUBSET Runs : Stop(rs)
    BY <1>5, CrashIsStop
  <2>2. lost' = (lost \/ \E r \in rs : place[r] = "alert" /\ Message(r) # {})
    BY <2>1 DEF Stop
  <2>3. \A r \in rs : place[r] = "alert" => lost' \/ Message(r) \subseteq told'
    BY <2>2
  <2> QED BY <2>1, <2>2, <2>3, FreedAlert DEF Stop
<1> QED BY <1>1, <1>2, <1>3, <1>4, <1>5 DEF Next

\* The dates of the day's alerts are written before the message goes out: the
\* operator has been told, or is about to be, unless Slack or the process
\* failed in between.
THEOREM AlertsAreHeard == Spec => []AlertIsNotForgotten
BY InitAlert, AlertStep, AlertInvImplies, TypeCorrect, PTL DEF Spec

-----------------------------------------------------------------------------
(* The ledger and what the runs under way may still enter. *)

All == Runs \X Phases

LEMMA OwedIsCounted ==
    /\ IsFiniteSet(All)
    /\ \A S \in SUBSET All :
          /\ IsFiniteSet(S)
          /\ Cardinality(S) \in Nat
          /\ Cardinality(S) <= Cardinality(All)
<1>1. IsFiniteSet(Phases)
  <2>1. IsFiniteSet({"triage"}) /\ IsFiniteSet({"research"}) /\ IsFiniteSet({"decision"})
    BY FS_Singleton
  <2>2. Phases = ({"triage"} \cup {"research"}) \cup {"decision"}
    BY DEF Phases
  <2> QED BY <2>1, <2>2, FS_Union
<1>2. IsFiniteSet(All)
  BY <1>1, FS_Product DEF All
<1> QED BY <1>2, FS_Subset, FS_CardinalityType

LEMMA Times == \A c, m, n \in Nat : m <= n => c * m <= c * n
OBVIOUS

\* What is owed shrinks to a part of it, or to a part without some element.
LEMMA OwedLess ==
    ASSUME NEW S \in SUBSET All, NEW T \in SUBSET S
    PROVE  /\ Cost * Cardinality(T) <= Cost * Cardinality(S)
           /\ \A x \in S \ T : Cost * Cardinality(T) + Cost <= Cost * Cardinality(S)
<1>1. /\ IsFiniteSet(S) /\ Cardinality(S) \in Nat
      /\ IsFiniteSet(T) /\ Cardinality(T) \in Nat
  BY OwedIsCounted
<1>2. Cardinality(T) <= Cardinality(S)
  BY <1>1, FS_Subset
<1>3. ASSUME NEW x \in S \ T
      PROVE  Cost * Cardinality(T) + Cost <= Cost * Cardinality(S)
  <2>1. Cardinality(S \ {x}) = Cardinality(S) - 1 /\ IsFiniteSet(S \ {x})
    BY <1>1, FS_RemoveElement
  <2>2. Cardinality(T) <= Cardinality(S) - 1
    BY <1>3, <2>1, FS_Subset
  <2>3. Cost * (Cardinality(T) + 1) <= Cost * Cardinality(S)
    BY <1>1, <2>2, Times
  <2>4. Cost * (Cardinality(T) + 1) = Cost * Cardinality(T) + Cost
    BY <1>1
  <2> QED BY <2>3, <2>4
<1> QED BY <1>1, <1>2, <1>3, Times

Owing == Cost * Cardinality(Owed)
Credit == Cost * Cardinality(All)

LEMMA OwingTypes == Owed \in SUBSET All /\ Owing \in Nat /\ Credit \in Nat /\ Owing <= Credit
<1>1. Owed \in SUBSET All /\ Cardinality(Owed) \in Nat /\ Cardinality(All) \in Nat
      /\ Cardinality(Owed) <= Cardinality(All)
  BY OwedIsCounted DEF Owed, All
<1> QED BY <1>1, Times DEF Owing, Credit

\* A halted run has yet to say so, or is over; the peak is one.
LedgerInv ==
    /\ \A r \in Runs : mode[r] = "halt" => place[r] \in {"flags", "alert"}
    /\ Effective(ceiling) <= peak
    /\ ledger + Owing <= peak + Credit

LEMMA InitLedger == Init => LedgerInv
<1> SUFFICES ASSUME Init
             PROVE  LedgerInv
  OBVIOUS
<1>1. Effective(ceiling) \in Nat
  BY CeilingTypes DEF Init
<1> QED BY <1>1, OwingTypes DEF Init, LedgerInv

\* What is entered was owed before, and at least that much less is owed now.
LEMMA EnteredWasOwed ==
    ASSUME ledger \in Nat, peak \in Nat, Owing \in Nat, Owing' \in Nat, Credit \in Nat,
           Credit' = Credit, peak' = peak, NEW c \in Nat, NEW d \in Nat, c <= d,
           ledger' = ledger + c, Owing' + d <= Owing, ledger + Owing <= peak + Credit
    PROVE  ledger' + Owing' <= peak' + Credit'
<1>1. \A l, o, n, p, k \in Nat :
         n + d <= o /\ l + o <= p + k => (l + c) + n <= p + k
  OBVIOUS
<1>2. (ledger + c) + Owing' <= peak + Credit
  BY <1>1
<1> QED BY <1>2

LEMMA LessIsOwed ==
    ASSUME ledger \in Nat, peak \in Nat, Owing \in Nat, Owing' \in Nat, Credit \in Nat,
           Credit' = Credit, peak' = peak, ledger' = ledger, Owing' <= Owing,
           ledger + Owing <= peak + Credit
    PROVE  ledger' + Owing' <= peak' + Credit'
<1>1. \A l, o, n, p, k \in Nat : n <= o /\ l + o <= p + k => l + n <= p + k
  OBVIOUS
<1>2. ledger + Owing' <= peak + Credit
  BY <1>1
<1> QED BY <1>2

\* Slots are freed, or a run moves on without an entry.
LEMMA QuietLedger ==
    ASSUME TypeOK, LedgerInv, TypeOK', UNCHANGED <<ledger, ceiling, peak>>,
           \A r \in Runs :
              \/ place'[r] \in {"idle", "gate", "write", "report", "auto", "answer", "failed"}
                 /\ mode'[r] # "halt"
              \/ place'[r] = place[r] /\ mode'[r] = mode[r]
              \/ /\ mode'[r] = mode[r]
                 /\ \/ place[r] = "flags" /\ place'[r] = "alert"
                    \/ place[r] = "alert" /\ place'[r] = "triage" /\ mode[r] # "halt"
                    \/ place[r] = "load" /\ place'[r] = "research"
    PROVE  LedgerInv'
<1>1. Owed' \in SUBSET Owed
  BY DEF Owed, Before, Phases
<1>2. Owing' <= Owing
  BY <1>1, OwingTypes, OwedLess DEF Owing
<1>3. \A r \in Runs : mode'[r] = "halt" => place'[r] \in {"flags", "alert"}
  BY DEF LedgerInv
<1>4. Owing' \in Nat /\ Owing \in Nat /\ Credit \in Nat /\ Credit' = Credit
  <2>1. Owed' \in SUBSET All
    BY <1>1, OwingTypes
  <2> QED BY <2>1, OwingTypes, OwedIsCounted DEF Owing, Credit, All
<1>5. ledger' + Owing' <= peak' + Credit'
  <2>1. ledger \in Nat /\ peak \in Nat /\ ledger + Owing <= peak + Credit
    BY DEF LedgerInv, TypeOK
  <2>2. ledger' = ledger /\ peak' = peak
    OBVIOUS
  <2> QED BY ONLY <1>2, <1>4, <2>1, <2>2, LessIsOwed
<1>6. Effective(ceiling') <= peak'
  BY DEF LedgerInv
<1> QED BY <1>3, <1>5, <1>6 DEF LedgerInv

\* Another ceiling is set.
LEMMA CeilingLedger ==
    ASSUME ledger \in Nat, peak \in Nat, peak' \in Nat, peak <= peak',
           ledger' = ledger, ledger + Owing <= peak + Credit,
           UNCHANGED <<place, mode>>
    PROVE  ledger' + Owing' <= peak' + Credit'
<1>1. Owing' = Owing /\ Owing \in Nat /\ Credit \in Nat /\ Credit' = Credit
  BY OwingTypes DEF Owing, Credit, Owed
<1>2. \A entered, owed, low, high, credit \in Nat :
         entered + owed <= low + credit /\ low <= high => entered + owed <= high + credit
  OBVIOUS
<1>3. ledger + Owing <= peak' + Credit
  BY <1>1, <1>2
<1> QED BY <1>1, <1>3

\* A query enters its cost, and the run moves past it.
LEMMA EntryLedger ==
    ASSUME TypeOK, LedgerInv, NEW r \in Runs, NEW c \in 0 .. Cost, ledger' = ledger + c,
           UNCHANGED <<ceiling, peak>>,
           \A x \in Runs \ {r} : place'[x] = place[x] /\ mode'[x] = mode[x],
           mode'[r] # "halt",
           \/ place[r] = "triage" /\ place'[r] \in {"load", "idle", "failed"}
           \/ place[r] = "research" /\ place'[r] \in {"decision", "failed"}
           \/ place[r] = "decision" /\ place'[r] \in {"write", "failed"}
    PROVE  LedgerInv'
<1>1. mode[r] # "halt"
  BY DEF LedgerInv
<1>2. Owed' \in SUBSET Owed
  BY <1>1 DEF Owed, Before, Phases
<1>3. <<r, place[r]>> \in Owed \ Owed'
  BY <1>1 DEF Owed, Before, Phases
<1>4. Owing' + Cost <= Owing
  BY <1>2, <1>3, OwingTypes, OwedLess DEF Owing
<1>5. \A x \in Runs : mode'[x] = "halt" => place'[x] \in {"flags", "alert"}
  BY DEF LedgerInv
<1>6. Owing' \in Nat /\ Owing \in Nat /\ Credit \in Nat /\ Credit' = Credit
  <2>1. Owed' \in SUBSET All
    BY <1>2, OwingTypes
  <2> QED BY <2>1, OwingTypes, OwedIsCounted DEF Owing, Credit, All
<1>7. ledger \in Nat /\ peak \in Nat /\ Cost \in Nat /\ c \in Nat /\ c <= Cost
  BY AgentRunAssumption DEF TypeOK
<1>8. ledger + Owing <= peak + Credit /\ peak' = peak /\ ledger' = ledger + c
  BY DEF LedgerInv
<1>9. ledger' + Owing' <= peak' + Credit'
  BY ONLY <1>4, <1>6, <1>7, <1>8, EnteredWasOwed
<1>10. Effective(ceiling)' <= peak'
  BY DEF LedgerInv, Effective
<1> QED BY <1>5, <1>9, <1>10 DEF LedgerInv

\* A run that passes the gate has read a ledger below the ceiling.
LEMMA GateLedger ==
    ASSUME TypeOK, LedgerInv, NEW r \in Runs, CheckCeiling(r)
    PROVE  LedgerInv'
<1> DEFINE tier == Tier(ledger, Effective(ceiling))
<1>1. /\ place[r] = "gate"
      /\ mode' = [mode EXCEPT ![r] = tier]
      /\ UNCHANGED <<ceiling, ledger, peak>>
      /\ \A x \in Runs \ {r} : place'[x] = place[x]
      /\ tier = "halt" => place'[r] = "flags"
  BY DEF CheckCeiling, gateVars, seenVars, TypeOK
<1>2. ledger \in Nat /\ peak \in Nat /\ Effective(ceiling) \in Nat /\ tier \in Modes
  BY CeilingTypes, TierTypes DEF TypeOK
<1>3. \A x \in Runs : mode'[x] = "halt" => place'[x] \in {"flags", "alert"}
  BY <1>1 DEF LedgerInv, TypeOK
<1>4. Owed' \in SUBSET All /\ Credit' = Credit
  BY DEF Owed, All, Credit
<1>5. Owing' \in Nat /\ Owing \in Nat /\ Credit \in Nat /\ Owing' <= Credit
  <2>1. Cardinality(Owed') \in Nat /\ Cardinality(Owed') <= Cardinality(All)
        /\ Cardinality(All) \in Nat
    BY <1>4, OwedIsCounted
  <2> QED BY <2>1, OwingTypes, Times DEF Owing, Credit
<1>6. /\ ledger' = ledger /\ peak' = peak /\ Effective(ceiling') <= peak'
      /\ ledger + Owing <= peak + Credit /\ Effective(ceiling) <= peak
  BY <1>1 DEF LedgerInv
<1>7. CASE tier = "halt"
  <2>1. Owed' \in SUBSET Owed
    BY <1>1, <1>7 DEF Owed, TypeOK
  <2>2. Owing' <= Owing
    BY <2>1, OwingTypes, OwedLess DEF Owing
  <2>3. ledger' + Owing' <= peak' + Credit'
    BY ONLY <1>2, <1>4, <1>5, <1>6, <2>2, LessIsOwed
  <2> QED BY <1>3, <1>6, <2>3 DEF LedgerInv, Effective
<1>8. CASE tier # "halt"
  <2>1. ledger < Effective(ceiling)
    BY <1>2, <1>8 DEF Tier
  <2>2. \A l, e, p, o, k \in Nat : l < e /\ e <= p /\ o <= k => l + o <= p + k
    OBVIOUS
  <2>3. ledger + Owing' <= peak + Credit
    <3> HIDE DEF tier
    <3> QED BY ONLY <1>2, <1>5, <1>6, <2>1, <2>2
  <2>4. ledger' + Owing' <= peak' + Credit'
    BY ONLY <1>4, <1>6, <2>3
  <2> QED BY <1>3, <1>6, <2>4 DEF LedgerInv, Effective
<1> QED BY <1>7, <1>8

LEMMA StepLedger ==
    ASSUME TypeOK, TypeOK', LedgerInv, NEW r \in Runs, Step(r)
    PROVE  LedgerInv'
<1> USE DEF gateVars, runVars, toolVars, seenVars
<1>1. CASE CheckCeiling(r)
  BY <1>1, GateLedger
<1>2. CASE TurnAway(r) \/ Answer(r)
  BY <1>2, QuietLedger DEF TurnAway, Answer, Release, TypeOK
<1>3. CASE FlagAlerts(r)
  BY <1>3, QuietLedger DEF FlagAlerts, GoTo, TypeOK
<1>4. CASE Alert(r)
  <2>1. CASE mode[r] = "halt"
    BY <1>4, <2>1, QuietLedger DEF Alert, Release, TypeOK
  <2>2. CASE mode[r] # "halt"
    BY <1>4, <2>2, QuietLedger DEF Alert, TypeOK
  <2> QED BY <2>1, <2>2
<1>5. CASE Load(r) \/ WriteProposal(r) \/ ReportRefusal(r) \/ AutoBranch(r)
  BY <1>5, QuietLedger
  DEF Load, WriteProposal, ReportRefusal, AutoBranch, GoTo, TypeOK, LedgerInv
<1>6. CASE ToolCall(r) \/ ToolReturns(r)
  BY <1>6, QuietLedger DEF ToolCall, ToolReturns, ToolAnswers, ToolFails
<1>7. CASE Triage(r)
  <2>1. PICK c \in Costs : \E d \in Recorded(c) : Spend(c, d)
    BY <1>7 DEF Triage
  <2>2. PICK d \in 0 .. Cost : ledger' = ledger + d
    BY <2>1, CostTypes DEF Spend
  <2>3. mode'[r] # "halt" /\ place'[r] \in {"load", "idle"}
        /\ \A x \in Runs \ {r} : place'[x] = place[x] /\ mode'[x] = mode[x]
    <3>1. CASE Release({r})
      BY <3>1 DEF Release, TypeOK
    <3>2. CASE GoTo(r, "load")
      BY <1>7, <3>2 DEF GoTo, Triage, TypeOK, LedgerInv
    <3> QED BY <1>7, <3>1, <3>2 DEF Triage
  <2> QED BY <1>7, <2>2, <2>3, EntryLedger DEF Triage
<1>8. CASE Research(r) \/ DecisionMissed(r)
  <2>1. PICK c \in Costs : \E d \in Recorded(c) : Spend(c, d)
    BY <1>8 DEF Research, DecisionMissed
  <2>2. PICK d \in 0 .. Cost : ledger' = ledger + d
    BY <2>1, CostTypes DEF Spend
  <2> QED BY <1>8, <2>2, EntryLedger DEF Research, DecisionMissed, GoTo, TypeOK, LedgerInv
<1>9. CASE TriageRaises(r) \/ ResearchRaises(r) \/ DecisionTaken(r) \/ DecisionRaises(r)
  <2>1. ledger' = ledger + 0 /\ 0 \in 0 .. Cost
    BY <1>9 DEF TriageRaises, ResearchRaises, DecisionTaken, DecisionRaises, Spend
  <2> QED
    BY <1>9, <2>1, EntryLedger
    DEF TriageRaises, ResearchRaises, DecisionTaken, DecisionRaises, GoTo, TypeOK, LedgerInv
<1> QED BY <1>1, <1>2, <1>3, <1>4, <1>5, <1>6, <1>7, <1>8, <1>9 DEF Step

LEMMA LedgerStep == TypeOK /\ LedgerInv /\ [Next]_vars => LedgerInv'
<1> SUFFICES ASSUME TypeOK, LedgerInv, [Next]_vars
             PROVE  LedgerInv'
  OBVIOUS
<1> USE DEF gateVars, runVars, toolVars, seenVars
<1>1. TypeOK'
  BY TypeStep
<1>2. ASSUME NEW r \in Runs, Step(r) PROVE LedgerInv'
  BY <1>1, <1>2, StepLedger
<1>3. ASSUME NEW r \in Runs, NEW s \in Askers, Trigger(r, s) PROVE LedgerInv'
  BY <1>1, <1>3, QuietLedger DEF Trigger, TypeOK, LedgerInv
<1>4. CASE ChangeCeiling
  <2>1. peak' \in Nat /\ peak <= peak' /\ Effective(ceiling)' <= peak'
    BY <1>4, CeilingTypes DEF ChangeCeiling, TypeOK, Effective
  <2>2. ledger' + Owing' <= peak' + Credit'
    BY <1>4, <2>1, CeilingLedger DEF ChangeCeiling, LedgerInv, TypeOK
  <2>3. \A r \in Runs : mode'[r] = "halt" => place'[r] \in {"flags", "alert"}
    BY <1>4 DEF ChangeCeiling, LedgerInv
  <2> QED BY <2>1, <2>2, <2>3 DEF LedgerInv
<1>5. CASE NewDay
  <2>1. Owing' = Owing /\ Credit' = Credit /\ Owing <= Credit
        /\ Owing \in Nat /\ Credit \in Nat
    BY <1>5, OwingTypes DEF NewDay, Owing, Credit, Owed
  <2>2. UNCHANGED <<ceiling, place, mode>> /\ ledger' = 0 /\ peak' = Effective(ceiling)
    BY <1>5 DEF NewDay
  <2> QED BY <1>1, <2>1, <2>2 DEF LedgerInv, TypeOK, Effective
<1>6. CASE Crash
  <2>1. PICK rs \in SUBSET Runs : Stop(rs)
    BY <1>6, CrashIsStop
  <2> QED BY <1>1, <2>1, QuietLedger DEF Stop, Release, TypeOK
<1>7. CASE UNCHANGED vars
  BY <1>1, <1>7, QuietLedger DEF vars
<1> QED BY <1>2, <1>3, <1>4, <1>5, <1>6, <1>7 DEF Next

\* Runs that pass the gate on the same ledger may together go past the
\* ceiling, but never by more than what the runs under way have still to
\* enter.
THEOREM LedgerIsBounded == Spec => []OverrunIsBounded
<1>1. LedgerInv => OverrunIsBounded
  BY DEF LedgerInv, Owing, Credit, All, OverrunIsBounded
<1> QED BY <1>1, InitLedger, LedgerStep, TypeCorrect, PTL DEF Spec

-----------------------------------------------------------------------------
(* Termination. *)

LEMMA Advance ==
    ASSUME TypeOK, ToolsInv, [Next]_vars, NEW r \in Active
    PROVE  \/ Rank[place'[r]] < Rank[place[r]]
           \/ place'[r] = place[r] /\ Left(r)' <= Left(r)
<1> USE DEF gateVars, runVars, toolVars, seenVars
<1> DEFINE Goal == \/ Rank[place'[r]] < Rank[place[r]]
                   \/ place'[r] = place[r] /\ Left(r)' <= Left(r)
<1>1. ASSUME UNCHANGED <<place[r], mode[r], calls[r], tool[r]>>
      PROVE  Goal
  BY <1>1 DEF Left, Limit, TypeOK, Active
<1>2. ASSUME NEW rs \in SUBSET Runs, Release(rs)
      PROVE  Goal
  <2>1. CASE r \in rs
    BY <1>2, <2>1 DEF Release, Rank, Active, TypeOK, Places
  <2>2. CASE r \notin rs
    <3>1. UNCHANGED <<place[r], mode[r], calls[r]>>
      BY <1>2, <2>2 DEF Release, Active
    <3>2. tool'[r] = NoCall <=> tool[r] = NoCall
      BY <1>2, <2>2 DEF Release, Active
    <3> QED BY <3>1, <3>2 DEF Left, Limit, TypeOK, Active
  <2> QED BY <2>1, <2>2
<1>3. ASSUME NEW x \in Runs, Step(x), x # r
      PROVE  Goal
  <2>1. CASE Release({x})
    BY <2>1, <1>2
  <2>2. CASE ~ Release({x})
    <3>1. UNCHANGED <<place[r], mode[r], calls[r], tool[r]>>
      BY <1>3, <2>2
      DEF Step, CheckCeiling, TurnAway, FlagAlerts, Alert, Triage, TriageRaises, Load,
          ToolCall, ToolReturns, ToolAnswers, ToolFails, Research, ResearchRaises, DecisionTaken, DecisionMissed,
          DecisionRaises, WriteProposal, ReportRefusal, AutoBranch, Answer, GoTo, TypeOK,
          Active
    <3> QED BY <3>1, <1>1
  <2> QED BY <2>1, <2>2
<1>4. ASSUME Step(r)
      PROVE  Goal
  <2>0. r \in Runs /\ place[r] # "idle"
    BY DEF Active
  <2>1. CASE Release({r})
    BY <2>0, <2>1, <1>2
  <2>2. CASE CheckCeiling(r)
    <3>1. AfterGate(Tier(ledger, Effective(ceiling))) \in {"idle", "triage", "load"}
      BY TierTypes DEF AfterGate, Modes
    <3> QED BY <2>0, <2>2, <3>1 DEF CheckCeiling, Rank, TypeOK
  <2>3. CASE FlagAlerts(r) \/ (Alert(r) /\ ~ Release({r}))
    BY <2>0, <2>3 DEF FlagAlerts, Alert, GoTo, Rank, TypeOK
  <2>4. CASE (Triage(r) /\ ~ Release({r})) \/ TriageRaises(r) \/ Load(r)
    BY <2>0, <2>4 DEF Triage, TriageRaises, Load, GoTo, Rank, TypeOK
  <2>5. CASE Research(r) \/ ResearchRaises(r)
    BY <2>0, <2>5 DEF Research, ResearchRaises, GoTo, Rank, TypeOK
  <2>6. CASE DecisionTaken(r) \/ DecisionMissed(r) \/ DecisionRaises(r)
    BY <2>0, <2>6 DEF DecisionTaken, DecisionMissed, DecisionRaises, GoTo, Rank, TypeOK
  <2>7. CASE WriteProposal(r) \/ ReportRefusal(r) \/ AutoBranch(r)
    BY <2>0, <2>7 DEF WriteProposal, ReportRefusal, AutoBranch, GoTo, Rank, TypeOK
  <2>8. CASE ToolCall(r)
    BY <2>0, <2>8 DEF ToolCall, Left, Limit, TypeOK
  <2>9. CASE ToolReturns(r)
    BY <2>0, <2>9 DEF ToolReturns, ToolAnswers, ToolFails, Left, Limit, TypeOK
  <2> QED
    BY <1>4, <2>1, <2>2, <2>3, <2>4, <2>5, <2>6, <2>7, <2>8, <2>9
    DEF Step, TurnAway, Answer
<1>5. ASSUME NEW x \in Runs, NEW s \in Askers, Trigger(x, s)
      PROVE  Goal
  <2>1. x # r
    BY <1>5 DEF Trigger, Active
  <2>2. UNCHANGED <<place[r], mode[r], calls[r], tool[r]>>
    BY <1>5, <2>1 DEF Trigger, TypeOK, Active
  <2> QED BY <2>2, <1>1
<1>6. CASE ChangeCeiling \/ NewDay \/ UNCHANGED vars
  BY <1>6, <1>1 DEF ChangeCeiling, NewDay, vars
<1>7. CASE Crash
  BY <1>7, CrashIsStop, <1>2 DEF Stop
<1> QED BY <1>3, <1>4, <1>5, <1>6, <1>7 DEF Next

\* Whatever a run does, and whatever others do to it, brings it nearer to its
\* end.
THEOREM EveryStepAdvances == Spec => RunAdvances
<1>1. Init => ToolsInv
  BY InitTools
<1>2. TypeOK /\ ToolsInv /\ [Next]_vars =>
         [\A r \in Active :
             \/ Rank[place'[r]] < Rank[place[r]]
             \/ place'[r] = place[r] /\ Left(r)' <= Left(r)]_vars
  BY Advance
<1> QED BY <1>1, <1>2, ToolsStep, TypeCorrect, PTL DEF Spec, RunAdvances
=============================================================================
