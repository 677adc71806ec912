------------------------- MODULE TrustLadder_proofs -------------------------
(***************************************************************************)
(* Proofs about TrustLadder, for every threshold and scan limit, any       *)
(* number of runs, promotions, saves and reflexes, and any number of       *)
(* crashes.                                                                *)
(*                                                                         *)
(* The lemmas about the log come first: a log only grows, what an earlier  *)
(* check found in it stays true of the part it looked at, and what the     *)
(* scan finds eligible has been earned.                                    *)
(***************************************************************************)
EXTENDS TrustLadder, FiniteSetTheorems, TLAPS

USE TrustLadderAssumption

LEMMA ConfigExists ==
    /\ NotAsked \in CheckType /\ NotAsked.at = -1
    /\ NoSave \in SaveType /\ NoSave.at = "idle"
<1>1. PICK c \in Configs : TRUE
  OBVIOUS
<1>2. (CHOOSE d \in Configs : TRUE) \in Configs
  BY <1>1
<1> QED BY <1>2 DEF NotAsked, NoSave, CheckType, SaveType, Found

-----------------------------------------------------------------------------
(* The log. *)

\* What stood in the first n events still stands there when one is appended.
LEMMA PrefixStays ==
    ASSUME NEW t \in Seq(EventTypes), NEW e \in EventTypes, NEW n \in 0 .. Len(t)
    PROVE  /\ Append(t, e) \in Seq(EventTypes)
           /\ n \in 0 .. Len(Append(t, e))
           /\ Earned(t, n) => Earned(Append(t, e), n)
<1>1. \A i \in 1 .. n : Append(t, e)[i] = t[i]
  OBVIOUS
<1>2. CleanBy(Append(t, e), n) = CleanBy(t, n)
  BY <1>1 DEF CleanBy, UnstoppedTo
<1> QED BY <1>2 DEF Earned

\* The scan counts what is clean in its window; with no block that is at
\* most what is clean in the whole log.
LEMMA EligibleIsEarned ==
    ASSUME NEW t \in Seq(EventTypes), Eligible(t)
    PROVE  Earned(t, Len(t))
<1>1. Counted(t) \subseteq CleanBy(t, Len(t))
  BY DEF Counted, CleanBy, Window
<1>2. CleanBy(t, Len(t)) \subseteq 1 .. Len(t)
  BY DEF CleanBy
<1>3. IsFiniteSet(1 .. Len(t))
  BY FS_Interval
<1>4. IsFiniteSet(CleanBy(t, Len(t)))
  BY <1>2, <1>3, FS_Subset
<1>5. /\ Cardinality(Counted(t)) <= Cardinality(CleanBy(t, Len(t)))
      /\ Cardinality(Counted(t)) \in Nat
      /\ Cardinality(CleanBy(t, Len(t))) \in Nat
  BY <1>1, <1>4, FS_Subset, FS_CardinalityType
<1> QED BY <1>5 DEF Eligible, Earned

-----------------------------------------------------------------------------
(* Types. *)

LEMMA LogTypes ==
    ASSUME trail \in Seq(EventTypes), NEW e \in EventTypes, Log(e)
    PROVE  trail' \in Seq(EventTypes)
BY DEF Log

LEMMA KnownEvents ==
    /\ Demotions \subseteq EventTypes
    /\ "operator" \in Demotions /\ "anomaly" \in Demotions /\ "material_edit" \in Demotions
    /\ "anomaly_demotion" \in EventTypes /\ "cap_rejection" \in EventTypes
    /\ "approval" \in EventTypes /\ "trust_promoted" \in EventTypes
BY DEF EventTypes, StopTypes, Boundaries, Demotions

LEMMA DemotionTypes ==
    ASSUME TypeOK, NEW reason \in Demotions, NEW found, DemoteFor(found, reason)
    PROVE  trust' \in Levels /\ trail' \in Seq(EventTypes) /\ stragglers' \subseteq Runs
<1>1. trail \in Seq(EventTypes) /\ trust \in Levels /\ stragglers \subseteq Runs
  BY DEF TypeOK, LadderType, RunType
<1>2. Log(reason) /\ reason \in EventTypes
  BY KnownEvents DEF DemoteFor
<1>3. trail' \in Seq(EventTypes)
  BY <1>1, <1>2, LogTypes
<1>4. CASE found = "lower"
  BY <1>1, <1>3, <1>4 DEF DemoteFor, Levels
<1>5. CASE found # "lower"
  BY <1>1, <1>3, <1>5 DEF DemoteFor
<1> QED BY <1>4, <1>5

LEMMA OperatorTypes == ASSUME TypeOK, Operator PROVE TypeOK'
<1> USE ConfigExists DEF TypeOK, LadderType, RunType, ReflexType, DayType
<1>1. ASSUME NEW q \in Requests, AskPromotion(q) \/ PromoteRead(q) PROVE TypeOK'
  <2>1. CASE AskPromotion(q)
    <3>1. [at |-> Len(trail), config |-> config, seen |-> "unread"] \in CheckType
      BY DEF CheckType
    <3>2. asked' \in [Requests -> CheckType]
      BY <2>1, <3>1 DEF AskPromotion
    <3> QED BY <2>1, <3>2 DEF AskPromotion, ladderVars, runVars, reflexVars, dayVars
  <2>2. CASE PromoteRead(q)
    BY <2>2 DEF PromoteRead, CheckType, ladderVars, runVars, reflexVars, dayVars
  <2> QED BY <1>1, <2>1, <2>2
<1>2. ASSUME NEW q \in Requests, Promote(q) PROVE TypeOK'
  <2>1. trust' \in Levels /\ trail' \in Seq(EventTypes) /\ grant' \in CheckType /\ slip' \in BOOLEAN
    <3>1. CASE PromoteAgain(q)
      BY <3>1, LogTypes, KnownEvents DEF PromoteAgain
    <3>2. CASE PromoteToAuto(q)
      <4>1. trail' \in Seq(EventTypes)
        BY <3>2, LogTypes, KnownEvents DEF PromoteToAuto
      <4>2. grant' \in CheckType
        BY <3>2 DEF PromoteToAuto, CheckType
      <4> QED BY <3>2, <4>1, <4>2 DEF PromoteToAuto, Levels
    <3>3. CASE PromoteConflict(q)
      BY <3>3 DEF PromoteConflict, ladderVars
    <3> QED BY <1>2, <3>1, <3>2, <3>3 DEF Promote
  <2> QED BY <1>2, <2>1 DEF Promote, CheckType, runVars, reflexVars, dayVars
<1>3. ASSUME NEW d \in Demoters, HandRead(d) \/ HandDemote(d) PROVE TypeOK'
  <2>1. CASE HandRead(d)
    BY <2>1 DEF HandRead, DemoteReads, Found, ladderVars, runVars, reflexVars, dayVars
  <2>2. CASE HandDemote(d)
    BY <2>2, DemotionTypes, KnownEvents DEF HandDemote, reflexVars, dayVars
  <2> QED BY <1>3, <2>1, <2>2
<1>4. CASE UpsertOther
  BY <1>4 DEF UpsertOther, Levels, askVars, runVars, reflexVars, dayVars
<1>5. ASSUME NEW e \in Saves, NEW new \in Configs, SaveRead(e, new) PROVE TypeOK'
  BY <1>5 DEF SaveRead, SaveType, askVars, ladderVars, runVars, reflexVars, dayVars
<1>6. ASSUME NEW e \in Saves, Save(e) PROVE TypeOK'
  <2>1. CASE SaveInsert(e)
    BY <2>1 DEF SaveInsert, SaveType, askVars, runVars, reflexVars, dayVars
  <2>2. CASE SaveConflict(e) \/ SaveCheck(e)
    BY <2>2 DEF SaveConflict, SaveCheck, SaveType, askVars, ladderVars, runVars,
                reflexVars, dayVars
  <2>4. CASE SaveFind(e)
    BY <2>4 DEF SaveFind, DemoteReads, Found, SaveType, askVars, ladderVars, runVars,
                reflexVars, dayVars
  <2>3. CASE SaveDemote(e)
    BY <2>3, DemotionTypes, KnownEvents DEF SaveDemote, SaveType, askVars, reflexVars, dayVars
  <2> QED BY <1>6, <2>1, <2>2, <2>3, <2>4 DEF Save
<1>7. ASSUME NEW new \in Configs, CreateByCli(new) PROVE TypeOK'
  BY <1>7 DEF CreateByCli, askVars, runVars, reflexVars, dayVars
<1>8. ASSUME NEW r \in Runs, ClickRead(r) \/ ClickWrite(r) PROVE TypeOK'
  BY <1>8, LogTypes, KnownEvents
     DEF ClickRead, ClickWrite, PropStatuses, askVars, ladderVars, reflexVars, dayVars
<1> QED
  <2> HIDE DEF TypeOK
  <2> QED BY <1>1, <1>2, <1>3, <1>4, <1>5, <1>6, <1>7, <1>8 DEF Operator

LEMMA AgentTypes == ASSUME TypeOK, Agent PROVE TypeOK'
<1> USE DEF TypeOK, LadderType, RunType, ReflexType, DayType, Places, PropStatuses,
            BookStates, askVars
<1>1. ASSUME NEW r \in Runs, WriteProposal(r) PROVE TypeOK'
  BY <1>1 DEF WriteProposal, ladderVars, reflexVars, dayVars
<1>2. ASSUME NEW r \in Runs, Run(r) PROVE TypeOK'
  BY <1>2, LogTypes, KnownEvents
     DEF Run, ReadTrust, ReadTrustAs, AutoRead, AutoWrite, ladderVars, reflexVars, dayVars
<1>3. ASSUME NEW r \in Runs, Execute(r) PROVE TypeOK'
  BY <1>3, LogTypes, KnownEvents
     DEF Execute, ExecutePlaces, ExecuteRefuses, ExecuteDrops, ladderVars, reflexVars, dayVars
<1>4. ASSUME NEW r \in Runs, Fill(r) PROVE TypeOK'
  BY <1>4 DEF Fill, ladderVars, reflexVars, dayVars
<1> QED
  <2> HIDE DEF TypeOK
  <2> QED BY <1>1, <1>2, <1>3, <1>4 DEF Agent

LEMMA ReflexTypes == ASSUME TypeOK, NEW v \in Reflexes, Reflex(v) PROVE TypeOK'
<1> USE DEF TypeOK, LadderType, RunType, ReflexType, DayType, ReflexPlaces, MoveReflex, askVars
<1>1. CASE ReflexStart(v) \/ ReflexCompute(v)
  BY <1>1 DEF ReflexStart, ReflexCompute, ladderVars, runVars, dayVars
<1>2. CASE ReflexList(v) \/ ReflexScan(v)
  BY <1>2 DEF ReflexList, ReflexScan, Open, Pending, ladderVars, runVars, dayVars
<1>3. CASE ReflexCancel(v)
  BY <1>3 DEF ReflexCancel, BookStates, ladderVars, dayVars
<1>4. CASE ReflexReject(v)
  BY <1>4 DEF ReflexReject, PropStatuses, ladderVars, dayVars
<1>5. CASE ReflexDemote(v)
  BY <1>5, DemotionTypes, KnownEvents DEF ReflexDemote, dayVars
<1>6. CASE ReflexRecord(v)
  BY <1>6, LogTypes, KnownEvents DEF ReflexRecord, runVars, dayVars
<1>7. CASE ReflexFind(v)
  BY <1>7 DEF ReflexFind, DemoteReads, Found, ladderVars, runVars, dayVars
<1> QED
  <2> HIDE DEF TypeOK
  <2> QED BY <1>1, <1>2, <1>3, <1>4, <1>5, <1>6, <1>7 DEF Reflex

LEMMA DayTypes == ASSUME TypeOK, Day PROVE TypeOK'
BY DEF TypeOK, LadderType, RunType, ReflexType, DayType, Day, OpenSnapshot, MarketMoves,
       NewDay, ladderVars, askVars, runVars, reflexVars

LEMMA CrashTypes == ASSUME TypeOK, Crash PROVE TypeOK'
BY ConfigExists
   DEF TypeOK, LadderType, RunType, ReflexType, DayType, Crash, Places, ReflexPlaces, dayVars

LEMMA InitTypes == Init => TypeOK
<1> SUFFICES ASSUME Init PROVE TypeOK
  OBVIOUS
<1>1. LadderType
  <2>1. trail \in Seq(EventTypes)
    BY DEF Init
  <2> QED BY <2>1, ConfigExists DEF Init, LadderType, Levels
<1>2. RunType
  BY DEF Init, RunType, Places, PropStatuses, BookStates
<1>3. ReflexType /\ DayType
  BY DEF Init, ReflexType, DayType, ReflexPlaces
<1> QED BY <1>1, <1>2, <1>3 DEF TypeOK

LEMMA StepTypes == TypeOK /\ [Next]_vars => TypeOK'
<1> SUFFICES ASSUME TypeOK, [Next]_vars PROVE TypeOK'
  OBVIOUS
<1>1. CASE UNCHANGED vars
  BY <1>1 DEF TypeOK, LadderType, RunType, ReflexType, DayType, vars, ladderVars, askVars,
              runVars, reflexVars, dayVars
<1> QED BY <1>1, OperatorTypes, AgentTypes, ReflexTypes, DayTypes, CrashTypes DEF Next

\* Rung, log, requests, proposals and reflexes keep their types.
THEOREM TypeCorrect == Spec => []TypeOK
BY InitTypes, StepTypes, PTL DEF Spec

-----------------------------------------------------------------------------
(* The rung rests on its check: what a request found eligible had been     *)
(* earned, and stays earned by the part of the log it looked at.           *)

RequestsFound ==
    \A q \in Requests :
        asked[q].at # -1 => asked[q].at \in 0 .. Len(trail) /\ Earned(trail, asked[q].at)

EarnedInv == TypeOK /\ RequestsFound /\ AutoWasEarned

LogGrows ==
    trail' = trail \/ \E e \in EventTypes : trail' = Append(trail, e)

RequestMoves(q) ==
    \/ asked'[q].at = asked[q].at
    \/ asked'[q].at = -1
    \/ Eligible(trail) /\ asked'[q].at = Len(trail) /\ trail' = trail

RungMoves ==
    trust' = "auto" =>
        \/ trust = "auto" /\ grant' = grant
        \/ \E q \in Requests : asked[q].at # -1 /\ grant'.at = asked[q].at

LEMMA LadderMoves ==
    ASSUME TypeOK, [Next]_vars
    PROVE  LogGrows /\ RungMoves /\ (\A q \in Requests : RequestMoves(q))
<1> USE KnownEvents, ConfigExists DEF LogGrows, RequestMoves, RungMoves, Log, ladderVars, askVars
<1>1. ASSUME NEW p \in Requests, AskPromotion(p) \/ PromoteRead(p) \/ Promote(p)
      PROVE  LogGrows /\ RungMoves /\ (\A q \in Requests : RequestMoves(q))
  <2>1. CASE AskPromotion(p)
    BY <2>1 DEF AskPromotion, TypeOK, LadderType, CheckType
  <2>3. CASE PromoteRead(p)
    BY <2>3 DEF PromoteRead, TypeOK, LadderType, CheckType
  <2>2. CASE Promote(p)
    <3>1. asked[p].at # -1 /\ \A q \in Requests : RequestMoves(q)
      BY <2>2 DEF Promote, TypeOK, LadderType, CheckType
    <3>2. CASE PromoteAgain(p) \/ PromoteConflict(p)
      BY <3>1, <3>2 DEF PromoteAgain, PromoteConflict
    <3>3. CASE PromoteToAuto(p)
      <4>1. grant'.at = asked[p].at
        BY <3>3 DEF PromoteToAuto, TypeOK, LadderType, CheckType
      <4> QED BY <3>1, <3>3, <4>1 DEF PromoteToAuto
    <3> QED BY <2>2, <3>2, <3>3 DEF Promote
  <2> QED BY <1>1, <2>1, <2>2, <2>3
<1>2. ASSUME NEW reason \in Demotions, NEW found, DemoteFor(found, reason),
             UNCHANGED <<grant, asked>>
      PROVE  LogGrows /\ RungMoves /\ (\A q \in Requests : RequestMoves(q))
  BY <1>2 DEF DemoteFor
<1>3. ASSUME \/ \E d \in Demoters : HandRead(d) \/ HandDemote(d)
             \/ UpsertOther \/ \E new \in Configs : CreateByCli(new)
      PROVE  LogGrows /\ RungMoves /\ (\A q \in Requests : RequestMoves(q))
  BY <1>2, <1>3 DEF HandRead, HandDemote, UpsertOther, CreateByCli
<1>4. ASSUME NEW e \in Saves, (\E new \in Configs : SaveRead(e, new)) \/ Save(e)
      PROVE  LogGrows /\ RungMoves /\ (\A q \in Requests : RequestMoves(q))
  BY <1>2, <1>4 DEF Save, SaveRead, SaveInsert, SaveConflict, SaveCheck, SaveFind, SaveDemote
<1>5. ASSUME NEW r \in Runs, ClickRead(r) \/ ClickWrite(r)
      PROVE  LogGrows /\ RungMoves /\ (\A q \in Requests : RequestMoves(q))
  BY <1>5 DEF ClickRead, ClickWrite
<1>6. ASSUME NEW r \in Runs, WriteProposal(r) \/ Run(r) \/ Execute(r) \/ Fill(r)
      PROVE  LogGrows /\ RungMoves /\ (\A q \in Requests : RequestMoves(q))
  BY <1>6 DEF WriteProposal, Run, ReadTrust, ReadTrustAs, AutoRead, AutoWrite, Execute,
              ExecutePlaces, ExecuteRefuses, ExecuteDrops, Fill
<1>7. ASSUME NEW v \in Reflexes, Reflex(v)
      PROVE  LogGrows /\ RungMoves /\ (\A q \in Requests : RequestMoves(q))
  <2>1. CASE ReflexDemote(v)
    BY <1>2, <2>1 DEF ReflexDemote
  <2> QED BY <1>7, <2>1 DEF Reflex, ReflexStart, ReflexCompute, ReflexList, ReflexCancel,
              ReflexScan, ReflexReject, ReflexFind, ReflexRecord
<1>8. CASE Day \/ Crash \/ UNCHANGED vars
  BY <1>8 DEF Day, OpenSnapshot, MarketMoves, NewDay, Crash, vars
<1> QED
  <2> HIDE DEF LogGrows, RequestMoves, RungMoves
  <2> QED BY <1>1, <1>3, <1>4, <1>5, <1>6, <1>7, <1>8 DEF Next, Operator, Agent

LEMMA StepEarned == EarnedInv /\ [Next]_vars => EarnedInv'
<1> SUFFICES ASSUME EarnedInv, [Next]_vars PROVE EarnedInv'
  OBVIOUS
<1>1. TypeOK /\ TypeOK'
  BY StepTypes DEF EarnedInv
<1>2. LogGrows /\ RungMoves /\ \A q \in Requests : RequestMoves(q)
  BY <1>1, LadderMoves
<1>3. trail \in Seq(EventTypes) /\ trail' \in Seq(EventTypes)
  BY <1>1 DEF TypeOK, LadderType
<1>4. ASSUME NEW n \in 0 .. Len(trail), Earned(trail, n)
      PROVE  n \in 0 .. Len(trail') /\ Earned(trail', n)
  <2>1. CASE trail' = trail
    BY <1>4, <2>1
  <2>2. ASSUME NEW e \in EventTypes, trail' = Append(trail, e)
        PROVE  n \in 0 .. Len(trail') /\ Earned(trail', n)
    BY <1>3, <1>4, <2>2, PrefixStays
  <2> QED BY <1>2, <2>1, <2>2 DEF LogGrows
<1>5. RequestsFound'
  <2> SUFFICES ASSUME NEW q \in Requests, asked'[q].at # -1
               PROVE  asked'[q].at \in 0 .. Len(trail') /\ Earned(trail', asked'[q].at)
    BY DEF RequestsFound
  <2>1. CASE asked'[q].at = asked[q].at
    BY <1>4, <2>1 DEF EarnedInv, RequestsFound
  <2>2. CASE Eligible(trail) /\ asked'[q].at = Len(trail) /\ trail' = trail
    BY <1>3, <2>2, EligibleIsEarned
  <2> QED BY <1>2, <2>1, <2>2 DEF RequestMoves
<1>6. AutoWasEarned'
  <2> SUFFICES ASSUME trust' = "auto"
               PROVE  grant'.at \in 0 .. Len(trail') /\ Earned(trail', grant'.at)
    BY DEF AutoWasEarned
  <2>1. CASE trust = "auto" /\ grant' = grant
    BY <1>4, <2>1 DEF EarnedInv, AutoWasEarned
  <2>2. CASE \E q \in Requests : asked[q].at # -1 /\ grant'.at = asked[q].at
    BY <1>4, <2>2 DEF EarnedInv, RequestsFound
  <2> QED BY <1>2, <2>1, <2>2 DEF RungMoves
<1> QED BY <1>1, <1>5, <1>6 DEF EarnedInv

\* An auto strategy rests on a check that found enough clean approvals.
THEOREM AutoIsEarned == Spec => []AutoWasEarned
<1>1. Init => EarnedInv
  BY InitTypes, ConfigExists DEF Init, EarnedInv, RequestsFound, AutoWasEarned
<1>2. EarnedInv => AutoWasEarned
  BY DEF EarnedInv
<1> QED BY <1>1, <1>2, StepEarned, PTL DEF Spec

-----------------------------------------------------------------------------
(* A run approves its proposal on the rung it has read. *)

\* Whoever is on the way to an automatic approval has read auto, and it
\* still holds or was taken away meanwhile.
OnTheWay ==
    \A r \in Runs : place[r] \in {"auto", "writing"} => trust = "auto" \/ r \in stragglers

LedInv == TypeOK /\ OnTheWay /\ DemotionHoldsBack

LEMMA StepLed == LedInv /\ [Next]_vars => LedInv'
<1> SUFFICES ASSUME LedInv, [Next]_vars PROVE LedInv'
  OBVIOUS
<1>1. TypeOK /\ TypeOK'
  BY StepTypes DEF LedInv
<1> DEFINE Both == OnTheWay' /\ DemotionHoldsBack'
<1> USE DEF LedInv, OnTheWay, DemotionHoldsBack, ladderVars, runVars
<1>2. ASSUME NEW q \in Requests, AskPromotion(q) \/ PromoteRead(q) \/ Promote(q) PROVE Both
  BY <1>2 DEF AskPromotion, PromoteRead, Promote, PromoteAgain, PromoteToAuto, PromoteConflict
<1>3. ASSUME NEW reason, NEW found, DemoteFor(found, reason), UNCHANGED <<place, unled>>
      PROVE  Both
  BY <1>3 DEF DemoteFor
<1>4. ASSUME \/ \E d \in Demoters : HandRead(d) \/ HandDemote(d)
             \/ UpsertOther \/ \E new \in Configs : CreateByCli(new)
      PROVE  Both
  BY <1>3, <1>4 DEF HandRead, HandDemote, UpsertOther, CreateByCli
<1>5. ASSUME NEW e \in Saves, (\E new \in Configs : SaveRead(e, new)) \/ Save(e) PROVE Both
  BY <1>3, <1>5 DEF Save, SaveRead, SaveInsert, SaveConflict, SaveCheck, SaveFind, SaveDemote
<1>6. ASSUME NEW r \in Runs, ClickRead(r) \/ ClickWrite(r) \/ Execute(r) \/ Fill(r) PROVE Both
  BY <1>6 DEF ClickRead, ClickWrite, Execute, ExecutePlaces, ExecuteRefuses, ExecuteDrops, Fill
<1>7. ASSUME NEW r \in Runs, WriteProposal(r) \/ Run(r) PROVE Both
  BY <1>1, <1>7 DEF WriteProposal, Run, ReadTrust, ReadTrustAs, AutoRead, AutoWrite, TypeOK, RunType
<1>8. ASSUME NEW v \in Reflexes, Reflex(v) PROVE Both
  <2>1. CASE ReflexDemote(v)
    BY <1>3, <2>1 DEF ReflexDemote
  <2> QED BY <1>8, <2>1 DEF Reflex, ReflexStart, ReflexCompute, ReflexList, ReflexCancel,
              ReflexScan, ReflexReject, ReflexFind, ReflexRecord
<1>9. ASSUME Day \/ Crash \/ UNCHANGED vars PROVE Both
  BY <1>1, <1>9 DEF Day, OpenSnapshot, MarketMoves, NewDay, Crash, vars, TypeOK, RunType
<1>10. Both
  <2> HIDE DEF Both
  <2> QED BY <1>2, <1>4, <1>5, <1>6, <1>7, <1>8, <1>9 DEF Next, Operator, Agent
<1> QED BY <1>1, <1>10 DEF LedInv

\* However many runs are under way, a demotion lets through no more than
\* the runs that had read auto before it.
THEOREM DemotionTakesEffect == Spec => []DemotionHoldsBack
<1>1. Init => LedInv
  BY InitTypes DEF Init, LedInv, OnTheWay, DemotionHoldsBack
<1>2. LedInv => DemotionHoldsBack
  BY DEF LedInv
<1> QED BY <1>1, <1>2, StepLed, PTL DEF Spec

-----------------------------------------------------------------------------
(* Edits. *)

\* A save that has found the rung lowered already adds nothing to it: what is
\* auto by then was promoted after the save had its snapshot in.
Settled == {"idle", "insert", "note"}
EditsSettled ==
    (trust = "auto" /\ ~slip /\ \A e \in Saves : save[e].at \in Settled)
        => config = grant.config

LEMMA StepEdits == TypeOK /\ EditsSettled /\ [Next]_vars => EditsSettled'
<1> SUFFICES ASSUME TypeOK, EditsSettled, [Next]_vars PROVE EditsSettled'
  OBVIOUS
<1> USE DEF EditsSettled, Settled, ladderVars, askVars
<1>1. ASSUME NEW q \in Requests, AskPromotion(q) \/ PromoteRead(q) \/ Promote(q)
      PROVE  EditsSettled'
  BY <1>1
     DEF AskPromotion, PromoteRead, Promote, PromoteAgain, PromoteToAuto, PromoteConflict,
         TypeOK, LadderType, CheckType
<1>2. ASSUME NEW reason, NEW found, DemoteFor(found, reason),
             UNCHANGED <<grant, slip, config>>
      PROVE  trust' = "auto" => found # "lower" /\ trust = "auto"
  BY <1>2 DEF DemoteFor
<1>3. ASSUME \/ \E d \in Demoters : HandRead(d) \/ HandDemote(d)
             \/ UpsertOther \/ \E new \in Configs : CreateByCli(new)
      PROVE  EditsSettled'
  BY <1>2, <1>3 DEF HandRead, HandDemote, UpsertOther, CreateByCli
<1>4. ASSUME NEW e \in Saves, NEW new \in Configs, SaveRead(e, new) PROVE EditsSettled'
  BY <1>4 DEF SaveRead, TypeOK, LadderType, SaveType
<1>5. ASSUME NEW e \in Saves, Save(e) PROVE EditsSettled'
  <2>1. CASE SaveInsert(e)
    <3>1. /\ trust' = trust /\ grant' = grant /\ config' = save[e].new
          /\ ~slip' => ~slip /\ save[e].prior = config
          /\ save'[e].at = IF Material(e) THEN "check" ELSE "idle"
          /\ \A f \in Saves \ {e} : save'[f] = save[f]
      BY <2>1 DEF SaveInsert, NoSave, TypeOK, LadderType, SaveType
    <3> SUFFICES ASSUME trust' = "auto", ~slip',
                        \A f \in Saves : save'[f].at \in Settled
                 PROVE  config' = grant'.config
      OBVIOUS
    <3>2. save[e].prior = save[e].new
      BY <3>1 DEF Material
    <3>3. \A f \in Saves : save[f].at \in Settled
      BY <2>1, <3>1 DEF SaveInsert
    <3> QED BY <3>1, <3>2, <3>3
  <2>2. CASE SaveConflict(e) \/ SaveCheck(e) \/ SaveFind(e)
    BY <2>2 DEF SaveConflict, SaveCheck, SaveFind, DemoteReads, TypeOK, LadderType, SaveType
  <2>3. CASE SaveDemote(e)
    BY <1>2, <2>3, ConfigExists DEF SaveDemote, Found, TypeOK, LadderType, SaveType
  <2> QED BY <1>5, <2>1, <2>2, <2>3 DEF Save
<1>6. ASSUME NEW r \in Runs,
             ClickRead(r) \/ ClickWrite(r) \/ WriteProposal(r) \/ Run(r) \/ Execute(r) \/ Fill(r)
      PROVE  EditsSettled'
  BY <1>6 DEF ClickRead, ClickWrite, WriteProposal, Run, ReadTrust, ReadTrustAs, AutoRead,
              AutoWrite, Execute, ExecutePlaces, ExecuteRefuses, ExecuteDrops, Fill
<1>7. ASSUME NEW v \in Reflexes, Reflex(v) PROVE EditsSettled'
  <2>1. CASE ReflexDemote(v)
    BY <1>2, <2>1 DEF ReflexDemote
  <2> QED BY <1>7, <2>1 DEF Reflex, ReflexStart, ReflexCompute, ReflexList, ReflexCancel,
              ReflexScan, ReflexReject, ReflexFind, ReflexRecord
<1>8. CASE Crash
  <2> SUFFICES ASSUME trust' = "auto", ~slip' PROVE config' = grant'.config
    OBVIOUS
  <2>1. \A e \in Saves : save[e].at \in Settled
    BY <1>8 DEF Crash, TypeOK, LadderType, SaveType, Found
  <2>2. ~slip /\ trust = "auto" /\ config' = config /\ grant' = grant
    BY <1>8 DEF Crash, TypeOK, LadderType
  <2> QED BY <2>1, <2>2
<1>9. CASE Day \/ UNCHANGED vars
  BY <1>9 DEF Day, OpenSnapshot, MarketMoves, NewDay, vars
<1> QED
  <2> HIDE DEF EditsSettled
  <2> QED BY <1>1, <1>3, <1>4, <1>5, <1>6, <1>7, <1>8, <1>9 DEF Next, Operator, Agent

\* For any number of overlapping saves, an auto strategy runs under the
\* configuration its promotion was checked for, but for the ways past the
\* demotion that slip records.
THEOREM EditsDemote == Spec => []MaterialEditDemotes
<1>1. Init => EditsSettled
  BY DEF Init, EditsSettled
<1>2. EditsSettled => MaterialEditDemotes
  BY DEF EditsSettled, Settled, MaterialEditDemotes
<1> QED BY <1>1, <1>2, InitTypes, StepTypes, StepEdits, PTL DEF Spec
=============================================================================
