-------------------------- MODULE OrderGate_proofs --------------------------
(***************************************************************************)
(* Proofs about OrderGate, for every set of orders and of commands, every  *)
(* cap, account and quote, and any number of crashes.                      *)
(*                                                                         *)
(* What an executor does, and what a command does, is first summed up in   *)
(* one lemma each; the invariants are proved from the summaries.           *)
(***************************************************************************)
EXTENDS OrderGate, Sums_proofs

States == {"unissued", "issued", "flipped", "sweeping", "complete", "failed", "lost"}
InBook == {"none", "open", "filled", "cancelled", "expired"}

-----------------------------------------------------------------------------
(* What an executor does: it moves to x.                                   *)

\* Past the kill check only with the flag down, past the count of trades
\* only with trades left.
MovesFairly(o, x) ==
    /\ x \in Checked => pc[o] \in Checked \/ (pc[o] = "kill" /\ ~killActive)
    /\ x \in Counted =>
          \/ pc[o] \in Counted
          \/ pc[o] = "trades" /\ ~TradesUsedUp(Cardinality(submitted), Strategy(o))

Submits(o, x) ==
    \/ book' = book /\ slipped' = slipped
    \/ /\ pc[o] = "place"
       /\ x \in {"record", "lost", "refused"}
       /\ book' = [book EXCEPT ![o] = "open"]
       /\ slipped' = IF killActive THEN slipped \cup {o} ELSE slipped

Counts(o, x) ==
    \/ submitted' = submitted
    \/ pc[o] = "record" /\ x \notin Counted /\ submitted' = submitted \cup {o}

Crowds(o) ==
    \/ crowd' = crowd
    \/ crowd' = crowd \cup Unsettled \cup {o}

Peaks(o, x) ==
    \/ peak' = peak /\ (pc[o] = "trades" => x \notin Counted)
    \/ peak' = IF Cardinality(At(Counted)') > peak THEN Cardinality(At(Counted)') ELSE peak

Overlooks == unread' \subseteq unread \cup {"quote", "sector"}

\* Before it has been placed an order is nowhere in the book.
StaysBehind(o, x) ==
    x \in {"idle", "kill"} \cup Checked => pc[o] \in {"idle", "kill"} \cup Checked

Moves(o, x) ==
    /\ x \in Places
    /\ pc' = [pc EXCEPT ![o] = x]
    /\ MovesFairly(o, x)
    /\ StaysBehind(o, x)
    /\ Submits(o, x)
    /\ Counts(o, x)
    /\ Crowds(o)
    /\ Peaks(o, x)
    /\ Overlooks
    /\ UNCHANGED <<seen, marketOpen, flagVars, sweepVars, crashes>>

\* The checks between the count of trades and the submission.
LEMMA LaterCheckMoves ==
    ASSUME NEW o \in Orders, NEW from \in Checked \cap Counted, NEW refuses,
           NEW to \in Checked \cap Counted,
           Check(o, from, refuses, to), UNCHANGED <<crowd, peak>>, Overlooks
    PROVE  \E x \in Places : Moves(o, x)
<1>1. PICK x \in {"refused", to} : pc' = [pc EXCEPT ![o] = x]
  BY DEF Check
<1>2. Moves(o, x)
  BY <1>1 DEF Check, Moves, MovesFairly, StaysBehind, Submits, Counts, Crowds, Peaks,
              Overlooks, Places, Checked, Counted, marketVars, flagVars, sweepVars
<1> QED BY <1>2 DEF Moves

LEMMA ExecutorMoves ==
    ASSUME NEW o \in Orders, Executor(o)
    PROVE  \E x \in Places : Moves(o, x)
<1> USE DEF Moves, MovesFairly, StaysBehind, Submits, Counts, Crowds, Peaks,
            Overlooks, watchVars, Places, Checked, Counted, marketVars, flagVars, sweepVars
<1>1. CASE Start(o)
  <2>1. PICK x \in {"refused", "kill"} : pc' = [pc EXCEPT ![o] = x]
    BY <1>1 DEF Start, Check
  <2>2. Moves(o, x)
    BY <1>1, <2>1 DEF Start, Check
  <2> QED BY <2>2
<1>2. CASE CheckKill(o)
  <2>1. PICK x \in {"refused", "trades"} :
           pc' = [pc EXCEPT ![o] = x] /\ (x = "trades" => ~killActive)
    BY <1>2 DEF CheckKill, Check
  <2>2. Moves(o, x)
    BY <1>2, <2>1 DEF CheckKill, Check
  <2> QED BY <2>2
<1>3. CASE CheckTrades(o)
  <2>1. PICK x \in {"refused", "sector"} :
           /\ pc' = [pc EXCEPT ![o] = x]
           /\ x = "sector" => ~TradesUsedUp(Cardinality(submitted), Strategy(o))
    BY <1>3 DEF CheckTrades, Check
  <2>2. /\ pc[o] = "trades"
        /\ UNCHANGED <<submitted, crowd, unread, marketVars, flagVars, sweepVars, slipped,
                       crashes>>
        /\ peak' = IF Cardinality(At(Counted)') > peak THEN Cardinality(At(Counted)') ELSE peak
    BY <1>3 DEF CheckTrades, Check
  <2>3. Peaks(o, x)
    BY <2>2
  <2>4. Moves(o, x)
    <3> HIDE DEF Peaks
    <3> QED BY <2>1, <2>2, <2>3
  <2> QED BY <2>4
<1>4. CASE CheckSector(o) \/ CheckPortfolio(o) \/ CheckCeiling(o)
  <2>1. UNCHANGED <<crowd, peak>> /\ Overlooks
    BY <1>4 DEF CheckSector, CheckPortfolio, CheckCeiling, GoesWith
  <2>2. \E refuses : \E from, to \in Checked \cap Counted : Check(o, from, refuses, to)
    BY <1>4 DEF CheckSector, CheckPortfolio, CheckCeiling
  <2> HIDE DEF Overlooks
  <2> QED BY <2>1, <2>2, LaterCheckMoves
<1>9. CASE CheckAccount(o) \/ CheckRoundTrips(o) \/ CheckClock(o)
  <2>1. UNCHANGED <<crowd, peak>> /\ Overlooks
    BY <1>9 DEF CheckAccount, CheckRoundTrips, CheckClock
  <2>2. \E refuses : \E from, to \in Checked \cap Counted : Check(o, from, refuses, to)
    BY <1>9 DEF CheckAccount, CheckRoundTrips, CheckClock
  <2> HIDE DEF Overlooks
  <2> QED BY <2>1, <2>2, LaterCheckMoves
<1>5. CASE CallRaises(o)
  <2>1. Moves(o, "lost")
    BY <1>5 DEF CallRaises
  <2> QED BY <2>1
<1>6. CASE PlaceAccepted(o) \/ PlaceLost(o) \/ PlaceDenied(o)
  <2>1. PICK x \in {"record", "lost", "refused"} : Reach(o, x)
    BY <1>6 DEF PlaceAccepted, PlaceLost, PlaceDenied
  <2>2. Moves(o, x)
    BY <2>1 DEF Reach
  <2> QED BY <2>1, <2>2
<1>7. CASE PlaceRejected(o)
  <2>1. Moves(o, "refused")
    BY <1>7 DEF PlaceRejected, Check
  <2> QED BY <2>1
<1>8. CASE Record(o)
  <2>1. Moves(o, "done")
    BY <1>8 DEF Record
  <2> QED BY <2>1
<1> QED
  BY <1>1, <1>2, <1>3, <1>4, <1>5, <1>6, <1>7, <1>8, <1>9 DEF Executor

-----------------------------------------------------------------------------
(* Type correctness.                                                       *)

LEMMA CardinalityIsNat ==
    ASSUME NEW S \in SUBSET Orders
    PROVE  IsFiniteSet(S) /\ Cardinality(S) \in Nat
BY OrderGateAssumption, FS_Subset, FS_CardinalityType DEF OrderGateAssumption

LEMMA ExecutorKeepsType ==
    ASSUME TypeOK, NEW o \in Orders, Executor(o)
    PROVE  TypeOK'
<1>1. PICK x \in Places : Moves(o, x)
  BY ExecutorMoves
<1>2. pc' \in [Orders -> Places] /\ crashes' \in Nat /\ marketOpen' \in BOOLEAN
  BY <1>1 DEF Moves, TypeOK
<1>3. book' \in [Orders -> InBook] /\ slipped' \subseteq Orders /\ submitted' \subseteq Orders
  BY <1>1 DEF Moves, Submits, Counts, TypeOK, InBook
<1>4. crowd' \subseteq Orders
  BY <1>1 DEF Moves, Crowds, Unsettled, At, Open, TypeOK
<1>5. Cardinality(At(Counted)') \in Nat
  BY CardinalityIsNat DEF At
<1>6. peak' \in Nat
  BY <1>1, <1>5 DEF Moves, Peaks, TypeOK
<1>7. unread' \subseteq {"quote", "sector"}
  BY <1>1 DEF Moves, Overlooks, TypeOK
<1> QED
  BY <1>1, <1>2, <1>3, <1>4, <1>6, <1>7 DEF Moves, TypeOK, InBook, flagVars, sweepVars

LEMMA CommandKeepsType ==
    ASSUME TypeOK, NEW k \in Commands,
           Issue(k) \/ Command(k) \/ \E o \in Orders : Cancel(k, o)
    PROVE  TypeOK'
<1> USE DEF TypeOK, gateVars, watchVars, marketVars, flagVars, sweepVars
<1>1. CASE Issue(k)
  BY <1>1 DEF Issue
<1>2. CASE Flip(k)
  BY <1>2 DEF Flip, At
<1>3. CASE Lift(k)
  BY <1>3 DEF Lift
<1>4. CASE LockTimeout(k) \/ ListRaises(k) \/ Report(k) \/ ReportPending(k)
  BY <1>4 DEF LockTimeout, ListRaises, Report, ReportPending
<1>5. CASE List(k)
  BY <1>5 DEF List, OpenIn, Open
<1>6. CASE \E o \in Orders : Cancel(k, o)
  <2>1. PICK o \in Orders : CancelAccepted(k, o) \/ CancelRefused(k, o)
    BY <1>6 DEF Cancel
  <2>2. book' \in [Orders -> InBook] /\ calls' \in [Commands -> SUBSET Orders]
    BY <2>1 DEF CancelAccepted, CancelRefused, InBook
  <2>3. claimed' \in [Commands -> SUBSET Orders]
    BY <2>1 DEF CancelAccepted, CancelRefused
  <2> QED BY <2>1, <2>2, <2>3 DEF CancelAccepted, CancelRefused, InBook
<1> QED BY <1>1, <1>2, <1>3, <1>4, <1>5, <1>6 DEF Command

LEMMA OtherKeepsType ==
    ASSUME TypeOK, CloseMarket \/ Crash \/ \E o \in Orders : Fill(o) \/ SeeFill(o)
    PROVE  TypeOK'
<1> USE DEF TypeOK, gateVars, watchVars, marketVars, flagVars, sweepVars
<1>1. CASE CloseMarket
  BY <1>1 DEF CloseMarket
<1>2. CASE Crash
  BY <1>2 DEF Crash, Places
<1>3. CASE \E o \in Orders : Fill(o) \/ SeeFill(o)
  BY <1>3 DEF Fill, SeeFill
<1> QED BY <1>1, <1>2, <1>3

\* Every variable keeps its type, whatever the constants are.
THEOREM TypeCorrect == Spec => []TypeOK
<1>1. Init => TypeOK
  <2> SUFFICES ASSUME Init PROVE TypeOK
    OBVIOUS
  <2>1. pc \in [Orders -> Places] /\ book \in [Orders -> InBook]
    BY DEF Init, Places, InBook
  <2>2. cmd \in [Commands -> States]
    BY DEF Init, States
  <2>3. /\ listed \in [Commands -> SUBSET Orders]
        /\ calls \in [Commands -> SUBSET Orders]
        /\ claimed \in [Commands -> SUBSET Orders]
    BY DEF Init
  <2>4. \A v \in {submitted, seen, stragglers, slipped, lifted, blind, crowd, unread} : v = {}
    BY DEF Init
  <2>5. /\ \A v \in {marketOpen, killActive, banner} : v \in BOOLEAN
        /\ crashes \in Nat /\ peak \in Nat
    BY DEF Init
  <2> QED BY <2>1, <2>2, <2>3, <2>4, <2>5 DEF TypeOK, States, InBook
<1>2. TypeOK /\ [Next]_vars => TypeOK'
  <2>1. ASSUME TypeOK, UNCHANGED vars PROVE TypeOK'
    BY <2>1 DEF TypeOK, vars, gateVars, watchVars, marketVars, flagVars, sweepVars
  <2> QED
    BY <2>1, ExecutorKeepsType, CommandKeepsType, OtherKeepsType DEF Next
<1> QED BY <1>1, <1>2, PTL DEF Spec

-----------------------------------------------------------------------------
(* The kill switch holds back whoever has not passed its check.            *)

KillHolds ==
    /\ killActive => At(Checked) \subseteq stragglers
    /\ ~killActive => slipped = {}
    /\ KillStopsOrders

LEMMA ExecutorKeepsKillHolds ==
    ASSUME TypeOK, KillHolds, NEW o \in Orders, Executor(o)
    PROVE  KillHolds'
<1>1. PICK x \in Places : Moves(o, x)
  BY ExecutorMoves
<1>2. UNCHANGED <<killActive, stragglers>>
  BY <1>1 DEF Moves, flagVars
<1>3. killActive => At(Checked)' \subseteq At(Checked)
  BY <1>1 DEF Moves, MovesFairly, At, TypeOK
<1>4. pc[o] = "place" => o \in At(Checked)
  BY DEF At, Checked
<1>5. slipped' \subseteq stragglers /\ (~killActive => slipped' = {})
  BY <1>1, <1>4 DEF Moves, Submits, KillHolds, KillStopsOrders
<1> QED BY <1>2, <1>3, <1>5 DEF KillHolds, KillStopsOrders

LEMMA OtherKeepsKillHolds ==
    ASSUME TypeOK, KillHolds,
           \/ \E k \in Commands : Issue(k) \/ Command(k) \/ \E o \in Orders : Cancel(k, o)
           \/ CloseMarket \/ Crash \/ \E o \in Orders : Fill(o) \/ SeeFill(o)
    PROVE  KillHolds'
<1> USE DEF gateVars, watchVars, marketVars, flagVars, sweepVars
<1>1. ASSUME UNCHANGED <<pc, killActive, stragglers, slipped>> PROVE KillHolds'
  BY <1>1 DEF KillHolds, KillStopsOrders, At
<1>2. ASSUME NEW k \in Commands, Flip(k) PROVE KillHolds'
  BY <1>2 DEF Flip, KillHolds, KillStopsOrders, At
<1>3. ASSUME NEW k \in Commands, Lift(k) PROVE KillHolds'
  BY <1>3 DEF Lift, KillHolds, KillStopsOrders
<1>4. CASE Crash
  <2>1. At(Checked)' \subseteq At(Checked)
    BY <1>4 DEF Crash, At, Checked, TypeOK
  <2> QED BY <1>4, <2>1 DEF Crash, KillHolds, KillStopsOrders
<1>5. ASSUME NEW k \in Commands, Issue(k) \/ Command(k) \/ \E o \in Orders : Cancel(k, o)
      PROVE  KillHolds'
  BY <1>1, <1>2, <1>3, <1>5
     DEF Issue, Command, LockTimeout, List, ListRaises, Report, ReportPending,
         Cancel, CancelAccepted, CancelRefused
<1>6. CASE CloseMarket \/ \E o \in Orders : Fill(o) \/ SeeFill(o)
  BY <1>1, <1>6 DEF CloseMarket, Fill, SeeFill
<1> QED BY <1>4, <1>5, <1>6

LEMMA KillHoldsAlways == Spec => []KillHolds
<1>1. Init => KillHolds
  BY DEF Init, KillHolds, KillStopsOrders
<1>2. TypeOK /\ KillHolds /\ [Next]_vars => KillHolds'
  <2>1. ASSUME KillHolds, UNCHANGED vars PROVE KillHolds'
    BY <2>1 DEF KillHolds, KillStopsOrders, At, vars, gateVars, watchVars, flagVars
  <2> QED
    BY <2>1, ExecutorKeepsKillHolds, OtherKeepsKillHolds DEF Next
<1> QED BY <1>1, <1>2, TypeCorrect, PTL DEF Spec

\* While the kill flag is set, the broker receives only orders that were past
\* check_kill_switch when the kill committed.
THEOREM KillHoldsOrdersBack == Spec => []KillStopsOrders
<1>1. KillHolds => KillStopsOrders
  BY DEF KillHolds
<1> QED BY <1>1, KillHoldsAlways, PTL

-----------------------------------------------------------------------------
(* A clean sweep leaves no paper order open but theirs.                    *)

\* A kill in force: committed, and no unkill since.
InForce(k) ==
    /\ Verb[k] = "kill"
    /\ cmd[k] \in {"flipped", "sweeping", "complete"}
    /\ k \notin lifted

SweepHolds ==
    /\ \A k \in Commands : InForce(k) => killActive
    /\ \A k \in Commands :
          InForce(k) /\ cmd[k] # "flipped" /\ k \notin blind
             => OpenIn("PAPER") \subseteq listed[k] \cup stragglers
    /\ \A k \in Commands : \A o \in claimed[k] : book[o] = "cancelled"
    /\ \A o \in Orders : pc[o] \in {"idle", "kill"} \cup Checked => book[o] = "none"

LEMMA ExecutorKeepsSweepHolds ==
    ASSUME TypeOK, KillHolds, SweepHolds, NEW o \in Orders, Executor(o)
    PROVE  SweepHolds'
<1>1. PICK x \in Places : Moves(o, x)
  BY ExecutorMoves
<1>2. UNCHANGED <<killActive, stragglers, lifted, cmd, listed, claimed, blind>>
  BY <1>1 DEF Moves, flagVars, sweepVars
<1>3. \/ book' = book
      \/ /\ pc[o] = "place" /\ x \in {"record", "lost", "refused"}
         /\ book' = [book EXCEPT ![o] = "open"]
         /\ book[o] = "none"
         /\ killActive => o \in stragglers
  BY <1>1 DEF Moves, Submits, SweepHolds, KillHolds, At, Checked
<1>4. OpenIn("PAPER")' \subseteq
          OpenIn("PAPER") \cup (IF killActive THEN stragglers ELSE Orders)
  BY <1>3 DEF OpenIn, Open, TypeOK
<1>5. \A k \in Commands : \A p \in claimed[k] : book'[p] = "cancelled"
  <2> SUFFICES ASSUME NEW k \in Commands, NEW p \in claimed[k] PROVE book'[p] = "cancelled"
    OBVIOUS
  <2>1. p \in Orders /\ book[p] = "cancelled"
    BY DEF SweepHolds, TypeOK
  <2> QED BY <1>3, <2>1 DEF TypeOK
<1>6. \A p \in Orders : pc'[p] \in {"idle", "kill"} \cup Checked => book'[p] = "none"
  <2> SUFFICES ASSUME NEW p \in Orders, pc'[p] \in {"idle", "kill"} \cup Checked
               PROVE  book'[p] = "none"
    OBVIOUS
  <2>1. pc[p] \in {"idle", "kill"} \cup Checked
    BY <1>1 DEF Moves, StaysBehind, TypeOK
  <2>2. CASE p # o
    BY <1>3, <2>1, <2>2 DEF SweepHolds, TypeOK
  <2>3. CASE p = o
    <3>1. pc'[o] = x
      BY <1>1 DEF Moves, TypeOK
    <3> QED BY <1>3, <2>1, <2>3, <3>1 DEF SweepHolds, Checked
  <2> QED BY <2>2, <2>3
<1>7. \A k \in Commands : InForce(k)' <=> InForce(k)
  BY <1>2 DEF InForce
<1> QED BY <1>2, <1>4, <1>5, <1>6, <1>7 DEF SweepHolds

LEMMA CommandKeepsSweepHolds ==
    ASSUME TypeOK, SweepHolds, NEW k \in Commands,
           Issue(k) \/ Command(k) \/ \E o \in Orders : Cancel(k, o)
    PROVE  SweepHolds'
<1> USE DEF gateVars, watchVars, marketVars, flagVars, sweepVars
<1>1. CASE Issue(k) \/ LockTimeout(k)
  BY <1>1 DEF Issue, LockTimeout, SweepHolds, InForce, OpenIn, Open, TypeOK
<1>2. CASE Flip(k)
  <2>1. \A j \in Commands :
           /\ InForce(j)' <=> InForce(j) \/ (j = k /\ k \notin lifted)
           /\ InForce(j)' /\ cmd'[j] # "flipped" => InForce(j) /\ cmd[j] # "flipped"
    BY <1>2 DEF Flip, InForce, TypeOK
  <2>2. killActive => stragglers' = stragglers
    BY <1>2 DEF Flip
  <2> QED BY <1>2, <2>1, <2>2 DEF Flip, SweepHolds, OpenIn, Open
<1>3. CASE Lift(k)
  <2>1. \A j \in Commands : ~InForce(j)'
    BY <1>3 DEF Lift, InForce, TypeOK, Verbs
  <2> QED BY <1>3, <2>1 DEF Lift, SweepHolds
<1>4. CASE List(k) \/ ListRaises(k) \/ Report(k) \/ ReportPending(k)
  <2>1. \A j \in Commands :
           /\ InForce(j)' <=> InForce(j)
           /\ j # k => cmd'[j] = cmd[j] /\ listed'[j] = listed[j]
    BY <1>4 DEF List, ListRaises, Report, ReportPending, InForce, TypeOK
  <2>2. InForce(k) /\ k \notin blind' => OpenIn("PAPER")' \subseteq listed'[k] \cup stragglers'
    BY <1>4 DEF List, ListRaises, Report, ReportPending, SweepHolds, OpenIn, Open, TypeOK
  <2>3. \A j \in Commands : claimed'[j] \subseteq claimed[j]
    BY <1>4 DEF List, ListRaises, Report, ReportPending, TypeOK
  <2>4. blind \subseteq blind' /\ UNCHANGED <<killActive, stragglers, book, pc>>
    BY <1>4 DEF List, ListRaises, Report, ReportPending
  <2>5. OpenIn("PAPER")' = OpenIn("PAPER")
    BY <2>4 DEF OpenIn, Open
  <2>6. \A j \in Commands :
           InForce(j)' /\ cmd'[j] # "flipped" /\ j \notin blind'
              => OpenIn("PAPER")' \subseteq listed'[j] \cup stragglers'
    BY <2>1, <2>2, <2>4, <2>5 DEF SweepHolds
  <2> QED BY <2>1, <2>3, <2>4, <2>6 DEF SweepHolds
<1>5. CASE \E o \in Orders : Cancel(k, o)
  <2>1. PICK o \in Orders : Cancel(k, o)
    BY <1>5
  <2>2. UNCHANGED <<killActive, stragglers, lifted, cmd, listed, blind, pc>>
    BY <2>1 DEF Cancel, CancelAccepted, CancelRefused
  <2>3. OpenIn("PAPER")' \subseteq OpenIn("PAPER")
    BY <2>1 DEF Cancel, CancelAccepted, CancelRefused, OpenIn, Open, TypeOK
  <2>4. \A j \in Commands : \A p \in claimed'[j] : book'[p] = "cancelled"
    BY <2>1 DEF Cancel, CancelAccepted, CancelRefused, SweepHolds, TypeOK
  <2>5. \A p \in Orders : book[p] = "none" => book'[p] = "none"
    BY <2>1 DEF Cancel, CancelAccepted, CancelRefused, TypeOK
  <2>6. \A j \in Commands : InForce(j)' <=> InForce(j)
    BY <2>2 DEF InForce
  <2> QED BY <2>2, <2>3, <2>4, <2>5, <2>6 DEF SweepHolds
<1> QED BY <1>1, <1>2, <1>3, <1>4, <1>5 DEF Command

LEMMA OtherKeepsSweepHolds ==
    ASSUME TypeOK, SweepHolds, CloseMarket \/ Crash \/ \E o \in Orders : Fill(o) \/ SeeFill(o)
    PROVE  SweepHolds'
<1> USE DEF gateVars, watchVars, marketVars, flagVars, sweepVars
<1>1. /\ UNCHANGED <<killActive, stragglers, lifted, listed, claimed, blind>>
      /\ \A k \in Commands : cmd'[k] = cmd[k] \/ cmd'[k] = "lost"
  BY DEF CloseMarket, Crash, Fill, SeeFill, TypeOK
<1>2. \A o \in Orders : book'[o] = book[o] \/ (book[o] = "open" /\ book'[o] # "open")
  BY DEF CloseMarket, Crash, Fill, SeeFill, TypeOK
<1>3. \A o \in Orders : pc'[o] = pc[o] \/ pc'[o] = "lost"
  BY DEF CloseMarket, Crash, Fill, SeeFill, TypeOK
<1>4. OpenIn("PAPER")' \subseteq OpenIn("PAPER")
  BY <1>2 DEF OpenIn, Open
<1>5. \A k \in Commands :
         InForce(k)' => InForce(k) /\ cmd'[k] = cmd[k]
  BY <1>1 DEF InForce
<1>6. \A k \in Commands : \A p \in claimed'[k] : book'[p] = "cancelled"
  BY <1>1, <1>2 DEF SweepHolds, TypeOK
<1>7. \A o \in Orders : pc'[o] \in {"idle", "kill"} \cup Checked => book'[o] = "none"
  BY <1>2, <1>3 DEF SweepHolds, Checked
<1> QED BY <1>1, <1>4, <1>5, <1>6, <1>7 DEF SweepHolds

LEMMA SweepHoldsAlways == Spec => []SweepHolds
<1>1. Init => SweepHolds
  BY DEF Init, SweepHolds, InForce
<1>2. TypeOK /\ KillHolds /\ SweepHolds /\ [Next]_vars => SweepHolds'
  <2>1. ASSUME SweepHolds, UNCHANGED vars PROVE SweepHolds'
    BY <2>1 DEF SweepHolds, InForce, OpenIn, Open, vars, gateVars, watchVars, marketVars,
                flagVars, sweepVars
  <2> QED
    BY <2>1, ExecutorKeepsSweepHolds, CommandKeepsSweepHolds, OtherKeepsSweepHolds DEF Next
<1> QED BY <1>1, <1>2, TypeCorrect, KillHoldsAlways, PTL DEF Spec

\* After a sweep that reports everything cancelled and until the next unkill,
\* an open paper order belongs to an executor that had passed the kill check
\* when the kill committed.
THEOREM CleanSweepsAreClean == Spec => []SweepLeavesStragglers
<1>1. SweepHolds => SweepLeavesStragglers
  <2> SUFFICES ASSUME SweepHolds, NEW k \in Commands \ lifted, CleanSweep(k)
               PROVE  OpenIn("PAPER") \subseteq stragglers
    BY DEF SweepLeavesStragglers
  <2>1. OpenIn("PAPER") \subseteq listed[k] \cup stragglers
    BY DEF SweepHolds, CleanSweep, InForce
  <2>2. \A o \in listed[k] : book[o] # "open"
    BY DEF SweepHolds, CleanSweep
  <2> QED BY <2>1, <2>2 DEF OpenIn, Open
<1> QED BY <1>1, SweepHoldsAlways, PTL

-----------------------------------------------------------------------------
(* Executors that counted the day's trades together overrun the cap by no  *)
(* more than they are.                                                     *)

Committed == Cardinality(submitted) + Cardinality(At(Counted))

TradesHold ==
    submitted \cup At(Counted) # {} =>
        \E s \in Strategies : Committed <= Strat[s].tradesPerDay + peak - 1

LEMMA ExecutorKeepsTradesHold ==
    ASSUME TypeOK, TradesHold, NEW o \in Orders, Executor(o)
    PROVE  TradesHold'
<1>1. PICK x \in Places : Moves(o, x)
  BY ExecutorMoves
<1>2. Strategy(o).tradesPerDay \in Nat /\ Req[o].strategy \in Strategies
  BY OrderGateAssumption DEF OrderGateAssumption, Strategy
<1>3. At(Counted) \in SUBSET Orders /\ At(Counted)' \in SUBSET Orders
  BY DEF At
<1>4. submitted \in SUBSET Orders
  BY DEF TypeOK
<1>5. /\ Cardinality(submitted) \in Nat /\ Cardinality(At(Counted)) \in Nat
      /\ Cardinality(At(Counted)') \in Nat
  BY <1>3, <1>4, CardinalityIsNat
<1>6. CASE x \in Counted /\ pc[o] \notin Counted
  <2>1. pc[o] = "trades" /\ Cardinality(submitted) < Strategy(o).tradesPerDay
    BY <1>1, <1>2, <1>5, <1>6 DEF Moves, MovesFairly, TradesUsedUp
  <2>2. submitted' = submitted /\ Cardinality(At(Counted)') <= peak' /\ peak' \in Nat
    BY <1>1, <1>5, <1>6, <2>1 DEF Moves, Counts, Peaks, TypeOK
  <2>3. Committed' <= Strategy(o).tradesPerDay + peak' - 1
    BY <1>2, <1>5, <2>1, <2>2 DEF Committed
  <2> QED BY <1>2, <2>3 DEF TradesHold, Strategy
<1>7. CASE ~(x \in Counted /\ pc[o] \notin Counted)
  <2>1. At(Counted)' = IF x \in Counted THEN At(Counted) ELSE At(Counted) \ {o}
    BY <1>1, <1>7 DEF Moves, At, TypeOK
  <2>2. peak' \in Nat /\ peak' >= peak /\ peak \in Nat
    BY <1>1, <1>5 DEF Moves, Peaks, TypeOK
  <2>3. Committed' <= Committed /\ Committed' \in Nat /\ Committed \in Nat
    <3>1. CASE submitted' = submitted
      <4>1. At(Counted)' \subseteq At(Counted)
        BY <2>1
      <4>2. Cardinality(At(Counted)') <= Cardinality(At(Counted))
        BY <1>3, <4>1, CardinalityIsNat, FS_Subset
      <4> QED BY <1>5, <3>1, <4>2 DEF Committed
    <3>2. CASE pc[o] = "record" /\ x \notin Counted /\ submitted' = submitted \cup {o}
      <4>1. o \in At(Counted) /\ At(Counted)' = At(Counted) \ {o}
        BY <2>1, <3>2 DEF At, Counted
      <4>2. Cardinality(At(Counted)') = Cardinality(At(Counted)) - 1
        BY <1>3, <4>1, CardinalityIsNat, FS_RemoveElement
      <4>3. /\ Cardinality(submitted') <= Cardinality(submitted) + 1
            /\ Cardinality(submitted') \in Nat
        BY <1>4, <1>5, <3>2, CardinalityIsNat, FS_AddElement
      <4> QED BY <1>5, <4>2, <4>3 DEF Committed
    <3> QED BY <1>1, <3>1, <3>2 DEF Moves, Counts
  <2>4. submitted' \cup At(Counted)' # {} => submitted \cup At(Counted) # {}
    BY <1>1, <2>1 DEF Moves, Counts, At, Counted
  <2>5. \A s \in Strategies : Strat[s].tradesPerDay \in Nat
    BY OrderGateAssumption DEF OrderGateAssumption
  <2> QED BY <2>2, <2>3, <2>4, <2>5 DEF TradesHold
<1> QED BY <1>6, <1>7

LEMMA OtherKeepsTradesHold ==
    ASSUME TypeOK, TradesHold,
           \/ \E k \in Commands : Issue(k) \/ Command(k) \/ \E o \in Orders : Cancel(k, o)
           \/ CloseMarket \/ Crash \/ \E o \in Orders : Fill(o) \/ SeeFill(o)
    PROVE  TradesHold'
<1>1. submitted' = submitted /\ peak' = peak
  BY DEF Issue, Command, Flip, Lift, LockTimeout, List, ListRaises, Report, ReportPending,
         Cancel, CancelAccepted, CancelRefused, CloseMarket, Crash, Fill, SeeFill, gateVars,
         watchVars
<1>2. pc' = pc \/ Crash
  BY DEF Issue, Command, Flip, Lift, LockTimeout, List, ListRaises, Report, ReportPending,
         Cancel, CancelAccepted, CancelRefused, CloseMarket, Fill, SeeFill, gateVars,
         watchVars
<1>3. At(Counted)' \subseteq At(Counted)
  BY <1>2 DEF Crash, At, Counted, TypeOK
<1>4. At(Counted) \in SUBSET Orders /\ submitted \in SUBSET Orders
  BY DEF At, TypeOK
<1>5. Cardinality(At(Counted)') <= Cardinality(At(Counted))
  BY <1>3, <1>4, CardinalityIsNat, FS_Subset
<1>6. /\ Cardinality(submitted) \in Nat /\ Cardinality(At(Counted)) \in Nat
      /\ Cardinality(At(Counted)') \in Nat
  BY <1>3, <1>4, CardinalityIsNat
<1>7. \A s \in Strategies : Strat[s].tradesPerDay \in Nat
  BY OrderGateAssumption DEF OrderGateAssumption
<1>8. Committed' <= Committed /\ Committed \in Nat /\ Committed' \in Nat /\ peak \in Nat
  BY <1>1, <1>5, <1>6 DEF Committed, TypeOK
<1>9. submitted' \cup At(Counted)' # {} => submitted \cup At(Counted) # {}
  BY <1>1, <1>3
<1> QED BY <1>1, <1>7, <1>8, <1>9 DEF TradesHold

LEMMA TradesHoldAlways == Spec => []TradesHold
<1>1. Init => TradesHold
  BY DEF Init, TradesHold, At, Counted
<1>2. TypeOK /\ TradesHold /\ [Next]_vars => TradesHold'
  <2>1. ASSUME TradesHold, UNCHANGED vars PROVE TradesHold'
    BY <2>1 DEF TradesHold, Committed, At, vars, gateVars, watchVars
  <2> QED
    BY <2>1, ExecutorKeepsTradesHold, OtherKeepsTradesHold DEF Next
<1> QED BY <1>1, <1>2, TypeCorrect, PTL DEF Spec

\* max_trades_per_day is overrun at most by the number of executors that were
\* between their count and their record at once, less one.
THEOREM OverrunIsBounded == Spec => []DayTradesBounded
<1>1. TypeOK /\ TradesHold => DayTradesBounded
  <2> SUFFICES ASSUME TypeOK, TradesHold, submitted # {}
               PROVE  \E s \in Strategies :
                         Cardinality(submitted) <= Strat[s].tradesPerDay + peak - 1
    BY DEF DayTradesBounded
  <2>1. PICK s \in Strategies : Committed <= Strat[s].tradesPerDay + peak - 1
    BY DEF TradesHold
  <2>2. Cardinality(submitted) \in Nat /\ Cardinality(At(Counted)) \in Nat
    BY CardinalityIsNat DEF At, TypeOK
  <2>3. Strat[s].tradesPerDay \in Nat /\ peak \in Nat
    BY OrderGateAssumption DEF OrderGateAssumption, TypeOK
  <2> QED BY <2>1, <2>2, <2>3 DEF Committed
<1> QED BY <1>1, TypeCorrect, TradesHoldAlways, PTL
-----------------------------------------------------------------------------
(* What a fill does to the positions.                                      *)

LEMMA SharesAreInt ==
    ASSUME NEW S \in SUBSET Orders
    PROVE  /\ IsFiniteSet(S)
           /\ \A o \in S : SignedQty[o] \in Int
           /\ Total(SignedQty, S) \in Int
<1>1. IsFiniteSet(S)
  BY CardinalityIsNat
<1>2. \A o \in S : SignedQty[o] \in Int
  BY MarketAssumption DEF SignedQty
<1> QED BY <1>1, <1>2, SumIsInt DEF Total

\* The orders in a symbol that have been filled.
FilledIn(m, s) == {o \in Filled(m) : Req[o].symbol = s}

LEMMA HoldingsAreInt ==
    ASSUME NEW m \in Modes
    PROVE  /\ DOMAIN Holdings(m) = DOMAIN Ask
           /\ \A s \in DOMAIN Ask : /\ Holdings(m)[s] \in Int
                                    /\ Holdings(m)[s] = Held[m][s]
                                         + Ask[s] * Total(SignedQty, FilledIn(m, s))
<1>1. DOMAIN Holdings(m) = DOMAIN Ask
  BY DEF Holdings
<1>2. ASSUME NEW s \in DOMAIN Ask
      PROVE  /\ Holdings(m)[s] = Held[m][s] + Ask[s] * Total(SignedQty, FilledIn(m, s))
             /\ Holdings(m)[s] \in Int
  <2>1. Holdings(m)[s] = Held[m][s] + Ask[s] * Total(SignedQty, FilledIn(m, s))
    BY DEF Holdings, FilledIn
  <2>2. Total(SignedQty, FilledIn(m, s)) \in Int
    BY SharesAreInt DEF FilledIn, Filled
  <2>3. Held[m][s] \in Int /\ Ask[s] \in Int
    BY MarketAssumption
  <2> QED BY <2>1, <2>2, <2>3
<1> QED BY <1>1, <1>2

LEMMA SameHoldings ==
    ASSUME \A o \in Orders : book'[o] = "filled" <=> book[o] = "filled"
    PROVE  \A m : Holdings(m)' = Holdings(m)
<1>1. \A m : Filled(m)' = Filled(m)
  BY DEF Filled
<1> QED BY <1>1 DEF Holdings

\* A buy that is filled adds what its shares cost at the market.
LEMMA BuyAdds ==
    ASSUME TypeOK, NEW o \in Orders, Fill(o), Req[o].side = "buy",
           NEW s \in DOMAIN Ask
    PROVE  Holdings(Req[o].mode)'[s]
              = Holdings(Req[o].mode)[s]
                  + (IF s = Req[o].symbol THEN Req[o].qty * AskFor(o) ELSE 0)
<1> DEFINE m == Req[o].mode
           old == FilledIn(m, s)
           new == FilledIn(m, s)'
<1>1. m \in Modes
  BY OrderGateAssumption
<1>2. book' = [book EXCEPT ![o] = "filled"] /\ book[o] = "open"
  BY DEF Fill
<1>3. Filled(m)' = Filled(m) \cup {o} /\ o \notin Filled(m)
  BY <1>2 DEF Filled, TypeOK
<1>4. old \in SUBSET Orders /\ new \in SUBSET Orders
  BY DEF FilledIn, Filled
<1>5. new = IF s = Req[o].symbol THEN old \cup {o} ELSE old
  BY <1>3 DEF FilledIn
<1>6. o \notin old
  BY <1>3 DEF FilledIn
<1>7. /\ Holdings(m)[s] = Held[m][s] + Ask[s] * Total(SignedQty, old)
      /\ Holdings(m)'[s] = Held[m][s] + Ask[s] * Total(SignedQty, new)
  <2>1. Holdings(m)'[s] = Held[m][s] + Ask[s] * Total(SignedQty, new)
    BY DEF Holdings, FilledIn
  <2> QED BY <1>1, <2>1, HoldingsAreInt
<1>8. /\ Held[m][s] \in Int /\ Ask[s] \in Int /\ Req[o].qty \in Int
      /\ SignedQty[o] = Req[o].qty
  BY <1>1, MarketAssumption DEF SignedQty
<1>9. Total(SignedQty, old) \in Int
  BY <1>4, SharesAreInt
<1> HIDE DEF m, old, new
<1>10. CASE s = Req[o].symbol
  <2>1. new = old \cup {o} /\ new \ {o} = old
    BY <1>5, <1>6, <1>10
  <2>2. Total(SignedQty, new) = SignedQty[o] + Total(SignedQty, new \ {o})
    BY <1>4, <2>1, SharesAreInt, SumWithout DEF Total
  <2>3. Total(SignedQty, new) = Req[o].qty + Total(SignedQty, old)
    BY <1>8, <2>1, <2>2
  <2>4. \A a, q, t \in Int : a * (q + t) = q * a + a * t
    OBVIOUS
  <2>5. Ask[s] * Total(SignedQty, new)
           = Req[o].qty * Ask[s] + Ask[s] * Total(SignedQty, old)
    BY <1>8, <1>9, <2>3, <2>4
  <2>6. \A h, x, y \in Int : h + (x + y) = (h + y) + x
    OBVIOUS
  <2>7. \A x, y \in Int : x * y \in Int
    OBVIOUS
  <2>8. Req[o].qty * Ask[s] \in Int /\ Ask[s] * Total(SignedQty, old) \in Int
    BY <1>8, <1>9, <2>7
  <2>9. Holdings(m)'[s] = Holdings(m)[s] + Req[o].qty * Ask[s]
    BY <1>7, <1>8, <2>5, <2>6, <2>8
  <2> QED BY <1>10, <2>9 DEF AskFor, m
<1>11. CASE s # Req[o].symbol
  <2>1. new = old
    BY <1>5, <1>11
  <2>2. Holdings(m)'[s] = Holdings(m)[s] /\ Holdings(m)[s] \in Int
    BY <1>1, <1>7, <2>1, HoldingsAreInt
  <2> QED BY <1>11, <2>2 DEF m
<1> QED BY <1>10, <1>11

LEMMA TotalAdds ==
    ASSUME TypeOK, NEW o \in Orders, Fill(o), Req[o].side = "buy",
           NEW T \in SUBSET DOMAIN Ask
    PROVE  /\ Total(Holdings(Req[o].mode), T) \in Int
           /\ Total(Holdings(Req[o].mode)', T)
                 = Total(Holdings(Req[o].mode), T)
                     + (IF Req[o].symbol \in T THEN Req[o].qty * AskFor(o) ELSE 0)
<1> DEFINE f == Holdings(Req[o].mode)
           g == Holdings(Req[o].mode)'
           x == Req[o].symbol
           c == Req[o].qty * AskFor(o)
<1>1. IsFiniteSet(T)
  BY MarketAssumption, FS_Subset
<1>2. Req[o].mode \in Modes
  BY OrderGateAssumption
<1>3. c \in Int
  <2>1. Req[o].qty \in Int /\ AskFor(o) \in Int
    BY MarketAssumption DEF AskFor
  <2> QED BY <2>1
<1>4. \A y \in T : f[y] \in Int
  BY <1>2, HoldingsAreInt
<1>5. \A y \in T : g[y] = f[y] + (IF y = x THEN c ELSE 0)
  BY BuyAdds
<1> HIDE DEF f, g, x, c
<1>6. \A y \in T : g[y] \in Int /\ (y # x => f[y] = g[y])
  BY <1>3, <1>4, <1>5
<1>7. SumFunctionOnSet(g, T) = SumFunctionOnSet(f, T) + (IF x \in T THEN g[x] - f[x] ELSE 0)
  BY <1>1, <1>4, <1>6, SumChanges
<1>8. x \in T => g[x] - f[x] = c
  BY <1>3, <1>4, <1>5
<1>9. SumFunctionOnSet(f, T) \in Int
  BY <1>1, <1>4, SumIsInt
<1> QED BY <1>7, <1>8, <1>9 DEF Total, f, g, x, c

-----------------------------------------------------------------------------
(* An order that has the gate and the book to itself keeps the caps.       *)

AfterSector == {"portfolio", "ceiling", "account", "roundtrips", "clock", "place"}
AfterPortfolio == AfterSector \ {"portfolio"}
AfterCeiling == AfterPortfolio \ {"ceiling"}
AfterAccount == AfterCeiling \ {"account"}

\* Past a check, and not yet in the positions the check has read.
Cleared(o, S) == pc[o] \in S \/ book[o] = "open"

\* What the checks have found, with what they had, still holds.
SectorFits(o) ==
    "quote" \notin unread /\ "sector" \notin unread =>
        ~SectorTooLarge(Req[o], Strategy(o), Account(o).equity, Holdings(Req[o].mode),
                        Sectors[Req[o].symbol], Sectors, AskFor(o))
PortfolioFits(o) ==
    "quote" \notin unread =>
        \E sectors :
            /\ ~PortfolioTooLarge(Req[o], Caps, Account(o).equity, Holdings(Req[o].mode),
                                  sectors, AskFor(o))
            /\ "sector" \notin unread => sectors = Sectors
CeilingFits(o) ==
    "quote" \notin unread =>
        ~CeilingPassed(Req[o], Strategy(o), Holdings(Req[o].mode), AskFor(o))
IsPriced(o) == ~PriceDrifts(Req[o], AskFor(o))

\* Nothing else is on its way or in the book, so that no fill can come
\* between what an order's checks have read and its own fill.
LoneFits(o) ==
    /\ o \in Unsettled => Unsettled \subseteq {o}
    /\ Cleared(o, AfterSector) => SectorFits(o)
    /\ Cleared(o, AfterPortfolio) => PortfolioFits(o)
    /\ Cleared(o, AfterCeiling) => CeilingFits(o)
    /\ Cleared(o, AfterAccount) => IsPriced(o)

Fits == \A o \in Orders \ crowd : LoneFits(o)

LEMMA PlacesAfter ==
    /\ AfterSector \subseteq Checked /\ AfterPortfolio \subseteq AfterSector
    /\ AfterCeiling \subseteq AfterPortfolio /\ AfterAccount \subseteq AfterCeiling
    /\ Checked \subseteq Working
BY DEF AfterSector, AfterPortfolio, AfterCeiling, AfterAccount, Checked, Working, Places,
       Ended

LEMMA ClearedIsUnsettled ==
    ASSUME NEW o \in Orders, NEW S \in SUBSET Checked, Cleared(o, S)
    PROVE  o \in Unsettled
BY PlacesAfter DEF Cleared, Unsettled, At, Open

\* What was found holds on while no order is filled and nothing is forgotten.
LEMMA FitsKeep ==
    ASSUME NEW o \in Orders, \A p \in Orders : book'[p] = "filled" <=> book[p] = "filled",
           unread \subseteq unread'
    PROVE  /\ SectorFits(o) => SectorFits(o)'
           /\ PortfolioFits(o) => PortfolioFits(o)'
           /\ CeilingFits(o) => CeilingFits(o)'
           /\ IsPriced(o) => IsPriced(o)'
<1>1. Holdings(Req[o].mode)' = Holdings(Req[o].mode)
  BY SameHoldings
<1>2. SectorFits(o) => SectorFits(o)'
  BY <1>1 DEF SectorFits, Strategy, Account, AskFor
<1>3. PortfolioFits(o) => PortfolioFits(o)'
  BY <1>1 DEF PortfolioFits, Account, AskFor
<1>4. CeilingFits(o) => CeilingFits(o)'
  BY <1>1 DEF CeilingFits, Strategy, AskFor
<1>5. IsPriced(o) => IsPriced(o)'
  BY DEF IsPriced, AskFor
<1> QED BY <1>2, <1>3, <1>4, <1>5

\* An executor passes a check only by what the check finds, with what it has.
LEMMA ExecutorClears ==
    ASSUME TypeOK, NEW o \in Orders \ crowd, Executor(o)
    PROVE  /\ Cleared(o, AfterSector)' => Cleared(o, AfterSector) \/ SectorFits(o)'
           /\ Cleared(o, AfterPortfolio)' => Cleared(o, AfterPortfolio) \/ PortfolioFits(o)'
           /\ Cleared(o, AfterCeiling)' => Cleared(o, AfterCeiling) \/ CeilingFits(o)'
           /\ Cleared(o, AfterAccount)' => Cleared(o, AfterAccount) \/ IsPriced(o)'
<1> USE DEF Cleared, AfterSector, AfterPortfolio, AfterCeiling, AfterAccount
<1>1. ASSUME NEW from, NEW refuses, NEW to, Check(o, from, refuses, to)
      PROVE  /\ pc[o] = from /\ book' = book
             /\ pc'[o] = IF refuses THEN "refused" ELSE to
             /\ \A m : Holdings(m)' = Holdings(m)
  <2>1. /\ pc[o] = from /\ book' = book
        /\ pc'[o] = IF refuses THEN "refused" ELSE to
    BY <1>1 DEF Check, TypeOK, marketVars
  <2> QED BY <2>1, SameHoldings
<1>2. CASE Start(o) \/ CheckKill(o) \/ CheckTrades(o)
  <2>1. book' = book /\ pc'[o] \in {"refused", "kill", "trades", "sector"}
    BY <1>1, <1>2 DEF Start, CheckKill, CheckTrades
  <2> QED BY <2>1
<1>3. CASE CheckSector(o)
  <2>1. PICK quote, own, others :
           /\ Check(o, "sector",
                    SectorTooLarge(Req[o], Strategy(o), Account(o).equity,
                                   Holdings(Req[o].mode), own[Req[o].symbol], others, quote),
                    "portfolio")
           /\ GoesWith(o, quote, IF own = Sectors THEN others ELSE own)
    BY <1>3 DEF CheckSector
  <2>2. "quote" \notin unread' => quote = AskFor(o)
    BY <2>1 DEF GoesWith
  <2>3. "sector" \notin unread' => own = Sectors /\ others = Sectors
    BY <2>1 DEF GoesWith
  <2>4. /\ book' = book /\ pc'[o] \in {"refused", "portfolio"}
        /\ pc'[o] = "portfolio" => SectorFits(o)'
    BY <1>1, <2>1, <2>2, <2>3 DEF SectorFits, Strategy, Account, AskFor
  <2> QED BY <2>4
<1>4. CASE CheckPortfolio(o)
  <2>1. PICK quote, sectors :
           /\ Check(o, "portfolio",
                    PortfolioTooLarge(Req[o], Caps, Account(o).equity, Holdings(Req[o].mode),
                                      sectors, quote),
                    "ceiling")
           /\ GoesWith(o, quote, sectors)
    BY <1>4 DEF CheckPortfolio
  <2>2. "quote" \notin unread' => quote = AskFor(o)
    BY <2>1 DEF GoesWith
  <2>3. "sector" \notin unread' => sectors = Sectors
    BY <2>1 DEF GoesWith
  <2>4. /\ book' = book /\ pc[o] = "portfolio" /\ pc'[o] \in {"refused", "ceiling"}
        /\ pc'[o] = "ceiling" => PortfolioFits(o)'
    BY <1>1, <2>1, <2>2, <2>3 DEF PortfolioFits, Account, AskFor
  <2> QED BY <2>4
<1>5. CASE CheckCeiling(o)
  <2>1. PICK quote :
           /\ Check(o, "ceiling",
                    CeilingPassed(Req[o], Strategy(o), Holdings(Req[o].mode), quote),
                    "account")
           /\ GoesWith(o, quote, Sectors)
    BY <1>5 DEF CheckCeiling
  <2>2. "quote" \notin unread' => quote = AskFor(o)
    BY <2>1 DEF GoesWith
  <2>3. /\ book' = book /\ pc[o] = "ceiling" /\ pc'[o] \in {"refused", "account"}
        /\ pc'[o] = "account" => CeilingFits(o)'
    BY <1>1, <2>1, <2>2 DEF CeilingFits, Strategy, AskFor
  <2> QED BY <2>3
<1>6. CASE CheckAccount(o)
  <2>1. /\ book' = book /\ pc[o] = "account" /\ pc'[o] \in {"refused", "roundtrips"}
        /\ pc'[o] = "roundtrips" => IsPriced(o)'
    BY <1>1, <1>6 DEF CheckAccount, IsPriced, AskFor
  <2> QED BY <2>1
<1>7. CASE \/ CheckRoundTrips(o) \/ CheckClock(o)
           \/ PlaceAccepted(o) \/ PlaceLost(o) \/ PlaceDenied(o)
  <2>1. pc[o] \in {"roundtrips", "clock", "place"}
    BY <1>1, <1>7
       DEF CheckRoundTrips, CheckClock, PlaceAccepted, PlaceLost, PlaceDenied, Reach
  <2> QED BY <2>1
<1>8. CASE CallRaises(o) \/ PlaceRejected(o) \/ Record(o)
  <2>1. book' = book /\ pc'[o] \in {"lost", "refused", "done"}
    BY <1>1, <1>8 DEF CallRaises, PlaceRejected, Record, TypeOK, marketVars
  <2> QED BY <2>1
<1> QED BY <1>2, <1>3, <1>4, <1>5, <1>6, <1>7, <1>8 DEF Executor

\* It unsettles its own order alone, and only when it starts.
LEMMA ExecutorUnsettles ==
    ASSUME TypeOK, SweepHolds, NEW o \in Orders, Executor(o)
    PROVE  /\ \A p \in Orders : p # o => pc'[p] = pc[p] /\ book'[p] = book[p]
           /\ \A p \in Orders : book'[p] = "filled" <=> book[p] = "filled"
           /\ o \in Unsettled \/ Start(o)
           /\ crowd \subseteq crowd'
           /\ unread \subseteq unread' \/ Start(o)
<1>1. PICK x \in Places : Moves(o, x)
  BY ExecutorMoves
<1>2. \A p \in Orders : p # o => pc'[p] = pc[p] /\ book'[p] = book[p]
  BY <1>1 DEF Moves, Submits, TypeOK
<1>3. \/ book' = book
      \/ book' = [book EXCEPT ![o] = "open"] /\ book[o] = "none"
  BY <1>1 DEF Moves, Submits, SweepHolds, Checked
<1>4. \A p \in Orders : book'[p] = "filled" <=> book[p] = "filled"
  BY <1>3 DEF TypeOK
<1>5. o \in Unsettled \/ Start(o)
  BY DEF Executor, CheckKill, CheckTrades, CheckSector, CheckPortfolio, CheckCeiling,
         CheckAccount, CheckRoundTrips, CheckClock, CallRaises, CallsUnguarded, PlaceAccepted,
         PlaceLost, PlaceDenied, PlaceRejected, Record, Check, Reach, Unsettled, At,
         Working, Places, Ended
<1>6. crowd \subseteq crowd'
  BY <1>1 DEF Moves, Crowds
<1>7. unread \subseteq unread' \/ Start(o)
  BY DEF Executor, CheckKill, CheckTrades, CheckSector, CheckPortfolio, CheckCeiling,
         CheckAccount, CheckRoundTrips, CheckClock, CallRaises, PlaceAccepted, PlaceLost,
         PlaceDenied, PlaceRejected, Record, Reach, GoesWith, watchVars
<1> QED BY <1>2, <1>4, <1>5, <1>6, <1>7

LEMMA ExecutorKeepsFits ==
    ASSUME TypeOK, SweepHolds, Fits, NEW p \in Orders, Executor(p),
           NEW o \in Orders \ crowd'
    PROVE  LoneFits(o)'
<1>1. o \notin crowd /\ LoneFits(o)
  BY ExecutorUnsettles DEF Fits
<1>2. Unsettled' \subseteq Unsettled \cup {p}
  BY ExecutorUnsettles DEF Unsettled, At, Open
<1>3. p \notin Unsettled =>
         /\ Unsettled = {} \/ crowd' = crowd \cup Unsettled \cup {p}
         /\ Start(p)
  BY ExecutorUnsettles DEF Start
<1>4. CASE o = p
  <2>1. Unsettled' \subseteq {o}
    BY <1>1, <1>2, <1>3, <1>4 DEF LoneFits
  <2>2. CASE Start(p)
    <3>1. book'[o] = "none" /\ pc'[o] \in {"refused", "kill"}
      BY <1>4, <2>2 DEF Start, Check, SweepHolds, TypeOK, marketVars
    <3>2. ASSUME NEW S \in SUBSET Checked, Cleared(o, S)' PROVE FALSE
      BY <3>1, <3>2 DEF Cleared, Checked
    <3> QED BY <2>1, <3>2, PlacesAfter DEF LoneFits
  <2>3. CASE unread \subseteq unread'
    <3>1. /\ SectorFits(o) => SectorFits(o)'
          /\ PortfolioFits(o) => PortfolioFits(o)'
          /\ CeilingFits(o) => CeilingFits(o)'
          /\ IsPriced(o) => IsPriced(o)'
      BY <2>3, ExecutorUnsettles, FitsKeep
    <3>2. /\ Cleared(o, AfterSector)' => Cleared(o, AfterSector) \/ SectorFits(o)'
          /\ Cleared(o, AfterPortfolio)' => Cleared(o, AfterPortfolio) \/ PortfolioFits(o)'
          /\ Cleared(o, AfterCeiling)' => Cleared(o, AfterCeiling) \/ CeilingFits(o)'
          /\ Cleared(o, AfterAccount)' => Cleared(o, AfterAccount) \/ IsPriced(o)'
      BY <1>1, <1>4, ExecutorClears
    <3> QED BY <1>1, <2>1, <3>1, <3>2 DEF LoneFits
  <2> QED BY <2>2, <2>3, ExecutorUnsettles
<1>5. CASE o # p
  <2>1. o \notin Unsettled'
    <3>1. SUFFICES ASSUME o \in Unsettled' PROVE FALSE
      OBVIOUS
    <3>2. o \in Unsettled
      BY <1>2, <1>5, <3>1
    <3>3. p \notin Unsettled
      BY <1>1, <1>5, <3>2 DEF LoneFits
    <3> QED BY <1>3, <3>2, <3>3
  <2>2. ASSUME NEW S \in SUBSET Checked, Cleared(o, S)' PROVE FALSE
    BY <2>1, <2>2, PlacesAfter DEF Cleared, Unsettled, At, Open
  <2> QED BY <2>1, <2>2, PlacesAfter DEF LoneFits
<1> QED BY <1>4, <1>5

\* Whatever else happens settles orders, and one fill at a time.
LEMMA OthersSettle ==
    ASSUME TypeOK,
           \/ \E k \in Commands : Issue(k) \/ Command(k) \/ \E o \in Orders : Cancel(k, o)
           \/ CloseMarket \/ Crash \/ \E o \in Orders : Fill(o) \/ SeeFill(o)
    PROVE  /\ crowd' = crowd /\ unread' = unread
           /\ \A p \in Orders : pc'[p] = pc[p] \/ pc'[p] = "lost"
           /\ \A p \in Orders : book'[p] = "open" => book[p] = "open"
           /\ \/ \A p \in Orders : book'[p] = "filled" <=> book[p] = "filled"
              \/ \E p \in Orders : Fill(p)
<1> USE DEF gateVars, watchVars, marketVars, flagVars, sweepVars
<1>1. CASE \E k \in Commands : Issue(k) \/ Command(k)
  BY <1>1 DEF Issue, Command, Flip, Lift, LockTimeout, List, ListRaises, Report, ReportPending
<1>2. CASE \E k \in Commands : \E o \in Orders : Cancel(k, o)
  BY <1>2 DEF Cancel, CancelAccepted, CancelRefused, TypeOK
<1>3. CASE CloseMarket \/ Crash
  BY <1>3 DEF CloseMarket, Crash, TypeOK
<1>4. CASE \E o \in Orders : Fill(o) \/ SeeFill(o)
  <2>1. PICK o \in Orders : Fill(o) \/ SeeFill(o)
    BY <1>4
  <2>2. UNCHANGED <<crowd, unread, pc>>
    BY <2>1 DEF Fill, SeeFill
  <2>3. \A p \in Orders : book'[p] = "open" => book[p] = "open"
    BY <2>1 DEF Fill, SeeFill, TypeOK
  <2>4. Fill(o) \/ book' = book
    BY <2>1 DEF SeeFill
  <2> QED BY <2>2, <2>3, <2>4
<1> QED BY <1>1, <1>2, <1>3, <1>4

LEMMA OtherKeepsFits ==
    ASSUME TypeOK, SweepHolds, Fits, NEW o \in Orders \ crowd',
           \/ \E k \in Commands : Issue(k) \/ Command(k) \/ \E p \in Orders : Cancel(k, p)
           \/ CloseMarket \/ Crash \/ \E p \in Orders : Fill(p) \/ SeeFill(p)
    PROVE  LoneFits(o)'
<1>1. o \notin crowd /\ LoneFits(o)
  BY OthersSettle DEF Fits
<1>2. \A p \in Orders : pc'[p] = pc[p] \/ pc'[p] = "lost"
  BY OthersSettle
<1>3. \A p \in Orders : book'[p] = "open" => book[p] = "open"
  BY OthersSettle
<1>4. Unsettled' \subseteq Unsettled
  BY <1>2, <1>3 DEF Unsettled, At, Open, Working, Ended
<1>5. o \in Unsettled' => Unsettled' \subseteq {o}
  BY <1>1, <1>4 DEF LoneFits
<1>6. ASSUME NEW S \in SUBSET Checked, Cleared(o, S)'
      PROVE  /\ Cleared(o, S)
             /\ \A p \in Orders : book'[p] = "filled" <=> book[p] = "filled"
  <2>1. Cleared(o, S)
    BY <1>2, <1>3, <1>6 DEF Cleared, Checked
  <2>2. ASSUME NEW p \in Orders, Fill(p) PROVE FALSE
    <3>1. p \in Unsettled /\ book[p] = "open"
      BY <2>2 DEF Fill, Unsettled, Open
    <3>2. p = o
      BY <1>1, <2>1, <3>1, ClearedIsUnsettled DEF LoneFits
    <3>3. pc' = pc /\ book'[o] # "open"
      BY <2>2, <3>2 DEF Fill, TypeOK, gateVars, watchVars
    <3>4. pc[o] \in Checked
      BY <1>6, <3>3 DEF Cleared
    <3> QED BY <3>1, <3>2, <3>4 DEF SweepHolds
  <2> QED BY <2>1, <2>2, OthersSettle
<1>7. /\ Cleared(o, AfterSector)' => SectorFits(o)'
      /\ Cleared(o, AfterPortfolio)' => PortfolioFits(o)'
      /\ Cleared(o, AfterCeiling)' => CeilingFits(o)'
      /\ Cleared(o, AfterAccount)' => IsPriced(o)'
  BY <1>1, <1>6, FitsKeep, OthersSettle, PlacesAfter DEF LoneFits
<1> QED BY <1>5, <1>7 DEF LoneFits

LEMMA FitsAlways == Spec => []Fits
<1>1. Init => Fits
  BY PlacesAfter DEF Init, Fits, LoneFits, Cleared, Unsettled, At, Open, Working, Checked
<1>2. TypeOK /\ SweepHolds /\ Fits /\ [Next]_vars => Fits'
  <2>1. ASSUME Fits, UNCHANGED vars PROVE Fits'
    <3>1. UNCHANGED <<pc, book, crowd, unread>>
      BY <2>1 DEF vars, gateVars, watchVars, marketVars
    <3>2. \A o \in Orders : LoneFits(o) => LoneFits(o)'
      BY <3>1, FitsKeep DEF LoneFits, Cleared, Unsettled, At, Open
    <3> QED BY <2>1, <3>1, <3>2 DEF Fits
  <2>2. ASSUME TypeOK, SweepHolds, Fits, NEW p \in Orders, Executor(p) PROVE Fits'
    BY <2>2, ExecutorKeepsFits DEF Fits
  <2>3. ASSUME TypeOK, SweepHolds, Fits,
               \/ \E k \in Commands : Issue(k) \/ Command(k) \/ \E p \in Orders : Cancel(k, p)
               \/ CloseMarket \/ Crash \/ \E p \in Orders : Fill(p) \/ SeeFill(p)
        PROVE  Fits'
    BY <2>3, OtherKeepsFits DEF Fits
  <2> QED BY <2>1, <2>2, <2>3 DEF Next
<1> QED BY <1>1, <1>2, TypeCorrect, SweepHoldsAlways, PTL DEF Spec

-----------------------------------------------------------------------------

\* An account with equity; without it the percentage caps are not looked at.
Funded == \A m \in Modes : Accounts[m].equity > 0

\* What the caps are asked about covers what the shares cost.
LEMMA BuyIsCovered ==
    ASSUME NEW o \in Orders, Req[o].side = "buy", Marketable(o), IsPriced(o)
    PROVE  /\ BuyNotional(Req[o], AskFor(o)) = Notional(Req[o], AskFor(o))
           /\ Notional(Req[o], AskFor(o)) \in Nat \ {0}
           /\ Req[o].qty * AskFor(o) \in Nat
           /\ Req[o].qty * AskFor(o) <= Notional(Req[o], AskFor(o))
<1> DEFINE q == Req[o].qty
           a == AskFor(o)
           r == RefPrice(Req[o], a)
<1>1. q \in Nat \ {0} /\ a \in Nat /\ Req[o].price \in Int
  BY MarketAssumption DEF AskFor
<1>2. r \in Int /\ r >= a
  BY <1>1 DEF Marketable, RefPrice
<1>3. r > 0
  BY <1>1, <1>2 DEF IsPriced, PriceDrifts
<1>4. Notional(Req[o], a) = q * r /\ BuyNotional(Req[o], a) = q * r
  BY <1>3 DEF Notional, BuyNotional
<1> HIDE DEF q, a, r
<1>5. q * a \in Nat /\ q * r \in Nat \ {0} /\ q * a <= q * r
  <2>1. PICK d \in Nat : r = a + d
    BY <1>1, <1>2
  <2>2. q * r = q * a + q * d
    BY <1>1, <2>1
  <2>3. q * a \in Nat /\ q * d \in Nat
    BY <1>1
  <2>4. q * r > 0
    BY <1>1, <1>2, <1>3
  <2> QED BY <2>2, <2>3, <2>4
<1> QED BY <1>4, <1>5 DEF q, a

LEMMA StillWithin ==
    ASSUME NEW pct \in Nat \cup {NoCap}, NEW equity \in Int, NEW x \in Int, NEW y \in Int,
           x <= y, ~Exceeds(y, pct, equity)
    PROVE  ~Exceeds(x, pct, equity)
<1>1. CASE pct = NoCap
  BY <1>1 DEF Exceeds
<1>2. CASE pct # NoCap
  <2>1. pct * equity \in Int
    BY <1>2
  <2>2. 100 * y <= pct * equity
    BY <1>2, <2>1 DEF Exceeds
  <2> QED BY <2>1, <2>2 DEF Exceeds
<1> QED BY <1>1, <1>2

LEMMA LoneFillKeepsCaps ==
    ASSUME Funded, TypeOK, Fits, NEW o \in Orders \ crowd, Fill(o), Req[o].side = "buy"
    PROVE  CapsKept(o)'
<1> DEFINE m == Req[o].mode
           h == Holdings(m)
           k == Holdings(m)'
           equity == Account(o).equity
           buy == BuyNotional(Req[o], AskFor(o))
           paid == Req[o].qty * AskFor(o)
           sector == Sectors[Req[o].symbol]
           peers == Peers(sector, Sectors)
           all == DOMAIN Ask
           list == Strategy(o).watchlist \cap DOMAIN Ask
<1>1. LoneFits(o) /\ book[o] = "open" /\ Marketable(o)
  BY DEF Fits, Fill
<1>2. SectorFits(o) /\ PortfolioFits(o) /\ CeilingFits(o) /\ IsPriced(o)
  BY <1>1 DEF LoneFits, Cleared
<1>3. /\ m \in Modes /\ equity \in Int /\ equity > 0
      /\ Req[o].strategy \in Strategies /\ Req[o].symbol \in all
  BY OrderGateAssumption, MarketAssumption DEF Funded, Account
<1>4. /\ Caps.exposurePct \in Nat \cup {NoCap} /\ Caps.tickerPct \in Nat \cup {NoCap}
      /\ Caps.sectorPct \in Nat \cup {NoCap} /\ Strategy(o).sectorPct \in Nat \cup {NoCap}
      /\ Ceiling(Strategy(o)) \in Int
  BY <1>3, CapsAssumption DEF Strategy, Ceiling
<1>5. /\ buy = Notional(Req[o], AskFor(o)) /\ buy \in Nat \ {0}
      /\ paid \in Nat /\ paid <= buy
  BY <1>1, <1>2, BuyIsCovered
<1>6. DOMAIN h = all /\ DOMAIN k = all
  BY DEF Holdings
<1>7. peers \subseteq all
  BY MarketAssumption DEF Peers
<1>8. ASSUME NEW T \in SUBSET all
      PROVE  /\ Total(h, T) \in Int /\ Total(k, T) \in Int
             /\ Total(k, T) <= Total(h, T) + buy
  <2>1. /\ Total(h, T) \in Int
        /\ Total(k, T) = Total(h, T) + (IF Req[o].symbol \in T THEN paid ELSE 0)
    BY TotalAdds
  <2> HIDE DEF m, h, k, buy, paid
  <2> QED BY <1>5, <2>1
<1>9. /\ h[Req[o].symbol] \in Int
      /\ k[Req[o].symbol] = h[Req[o].symbol] + paid
  BY <1>3, HoldingsAreInt, BuyAdds
<1>10. ASSUME "quote" \notin unread
       PROVE  /\ ~Exceeds(Total(h, all) + buy, Caps.exposurePct, equity)
              /\ ~Exceeds(h[Req[o].symbol] + buy, Caps.tickerPct, equity)
              /\ "sector" \notin unread /\ sector # NoSector =>
                    ~Exceeds(Total(h, peers) + buy, Caps.sectorPct, equity)
  <2>1. PICK sectors : /\ ~PortfolioTooLarge(Req[o], Caps, equity, h, sectors, AskFor(o))
                       /\ "sector" \notin unread => sectors = Sectors
    BY <1>2, <1>10 DEF PortfolioFits
  <2> QED BY <1>3, <1>6, <2>1 DEF PortfolioTooLarge
<1>11. ASSUME "quote" \notin unread, "sector" \notin unread, sector # NoSector
       PROVE  ~Exceeds(Total(h, peers) + buy, Strategy(o).sectorPct, equity)
  BY <1>2, <1>3, <1>5, <1>11 DEF SectorFits, SectorTooLarge
<1>12. "quote" \notin unread => ~(Total(h, list) + buy > Ceiling(Strategy(o)))
  BY <1>2, <1>5, <1>6 DEF CeilingFits, CeilingPassed
<1>13. unread' = unread
  BY DEF Fill, gateVars, watchVars
<1>14. /\ AmountCapsKept(o)' <=>
            /\ ~Exceeds(Total(k, all), Caps.exposurePct, equity)
            /\ ~Exceeds(k[Req[o].symbol], Caps.tickerPct, equity)
            /\ Total(k, list) <= Ceiling(Strategy(o))
       /\ SectorCapsKept(o)' <=>
            (sector # NoSector => /\ ~Exceeds(Total(k, peers), Caps.sectorPct, equity)
                                  /\ ~Exceeds(Total(k, peers), Strategy(o).sectorPct, equity))
  BY <1>6 DEF AmountCapsKept, SectorCapsKept, Account, Strategy
<1> HIDE DEF m, h, k, equity, buy, paid, sector, peers, all, list
<1>15. ~Exceeds(Total(h, all) + buy, Caps.exposurePct, equity)
          => ~Exceeds(Total(k, all), Caps.exposurePct, equity)
  <2>1. /\ Total(k, all) \in Int /\ Total(h, all) \in Int
        /\ Total(k, all) <= Total(h, all) + buy
    BY <1>8
  <2>2. Total(h, all) + buy \in Int
    BY <1>5, <2>1
  <2> QED BY <1>3, <1>4, <2>1, <2>2, StillWithin
<1>16. ~Exceeds(h[Req[o].symbol] + buy, Caps.tickerPct, equity)
          => ~Exceeds(k[Req[o].symbol], Caps.tickerPct, equity)
  <2>1. /\ k[Req[o].symbol] \in Int /\ h[Req[o].symbol] + buy \in Int
        /\ k[Req[o].symbol] <= h[Req[o].symbol] + buy
    BY <1>5, <1>9
  <2> QED BY <1>3, <1>4, <2>1, StillWithin
<1>17. ASSUME NEW pct \in Nat \cup {NoCap}, ~Exceeds(Total(h, peers) + buy, pct, equity)
       PROVE  ~Exceeds(Total(k, peers), pct, equity)
  <2>1. /\ Total(k, peers) \in Int /\ Total(h, peers) \in Int
        /\ Total(k, peers) <= Total(h, peers) + buy
    BY <1>7, <1>8
  <2>2. Total(h, peers) + buy \in Int
    BY <1>5, <2>1
  <2> QED BY <1>3, <1>17, <2>1, <2>2, StillWithin
<1>18. ~(Total(h, list) + buy > Ceiling(Strategy(o))) => Total(k, list) <= Ceiling(Strategy(o))
  <2>1. list \in SUBSET all
    BY DEF list, all
  <2>2. /\ Total(k, list) \in Int /\ Total(h, list) \in Int
        /\ Total(k, list) <= Total(h, list) + buy
    BY <1>8, <2>1
  <2> QED BY <1>4, <1>5, <2>2
<1>19. "quote" \notin unread => AmountCapsKept(o)'
  BY <1>10, <1>12, <1>15, <1>16, <1>18, <1>14
<1>20. "quote" \notin unread /\ "sector" \notin unread => SectorCapsKept(o)'
  BY <1>4, <1>10, <1>11, <1>17, <1>14
<1> QED BY <1>13, <1>19, <1>20 DEF CapsKept

(***************************************************************************)
(* A buy that had the gate and the book to itself from its first check to  *)
(* its fill leaves portfolio, ticker and strategy within their caps if its *)
(* checks got their quotes, and its sector if they got their sectors too   *)
(* (_portfolio_caps.py, _capital_ceiling.py, _hard_caps.py), whatever      *)
(* kills, sweeps, restarts and ends of the session come in between.  The   *)
(* checks read the positions one after the other; that nothing else is on  *)
(* its way makes them read the same, and a buy is filled at no more than   *)
(* the price it was checked at.                                            *)
(***************************************************************************)
THEOREM LoneOrdersKeepCaps ==
    ASSUME Funded
    PROVE  Spec => LoneOrderKeepsCaps
<1>1. ASSUME TypeOK, SweepHolds, Fits, [Next]_vars,
             NEW o \in Orders \ crowd, book[o] # "filled", book'[o] = "filled",
             Req[o].side = "buy"
      PROVE  CapsKept(o)'
  <2>1. ~UNCHANGED vars
    BY <1>1 DEF vars, marketVars
  <2>2. ~\E p \in Orders : Executor(p)
    BY <1>1, ExecutorUnsettles
  <2>3. PICK p \in Orders : Fill(p)
    BY <1>1, <2>1, <2>2, OthersSettle DEF Next
  <2>4. p = o
    BY <1>1, <2>3 DEF Fill, TypeOK
  <2> QED BY <1>1, <2>3, <2>4, LoneFillKeepsCaps
<1> DEFINE Kept == \A o \in Orders \ crowd :
                     book[o] # "filled" /\ book'[o] = "filled" /\ Req[o].side = "buy"
                        => CapsKept(o)'
<1>2. TypeOK /\ SweepHolds /\ Fits /\ [Next]_vars => Kept
  BY <1>1
<1>3. LoneOrderKeepsCaps <=> [][Kept]_vars
  BY DEF LoneOrderKeepsCaps
<1> HIDE DEF Kept
<1> QED BY <1>2, <1>3, TypeCorrect, SweepHoldsAlways, FitsAlways, PTL DEF Spec
=============================================================================
