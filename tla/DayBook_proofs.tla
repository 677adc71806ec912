--------------------------- MODULE DayBook_proofs ---------------------------
(***************************************************************************)
(* Proofs about the day's book: the types of its books, that each whole    *)
(* fill is entered once, that calm readings are right, that the digest is  *)
(* honest, and what the quiet window means on the clock.                   *)
(***************************************************************************)
EXTENDS DayBook, Sums_proofs

(***************************************************************************)
(* The quiet window is the arc of the clock from its start to its end,     *)
(* whether or not midnight lies on it; a window whose ends are equal is    *)
(* empty (quiet_hours.py, the comparison _resolve_quiet_hours ends in).    *)
(***************************************************************************)
THEOREM WindowIsArc ==
    ASSUME NEW w \in Windows, NEW t \in Clock
    PROVE  InWindow(w, t) <=> OnArc(w, t)
  <1>1. CASE IsSet(w)
    <2>1. w.start \in Clock /\ w.end \in Clock
      BY <1>1 DEF IsSet, Windows, Times
    <2>2. \A s, e, x \in 0 .. Hours - 1 :
             (IF s > e THEN x >= s \/ x < e ELSE s <= x /\ x < e)
                 <=> (IF x < s THEN x - s + Hours ELSE x - s)
                        < (IF e < s THEN e - s + Hours ELSE e - s)
      BY QuietHoursAssumption
    <2> QED BY <1>1, <2>1, <2>2 DEF InWindow, OnArc, Since, Clock
  <1>2. CASE ~IsSet(w)
    BY <1>2 DEF InWindow, OnArc
  <1> QED BY <1>1, <1>2

\* The digest asks about the user's window and no other.
LEMMA DigestWindow ==
    ASSUME NEW w \in Windows, NEW t \in Clock
    PROVE  Quiet(w, NoWindow, t) <=> OnArc(w, t)
  BY WindowIsArc DEF Quiet, Operative, NoWindow, IsSet
-----------------------------------------------------------------------------
(* Types.                                                                  *)

LEMMA PriceIsNat ==
    ASSUME moves \in 0 .. Len(Course) - 1
    PROVE  price \in Nat
  <1>1. Course \in Seq(Nat) /\ Len(Course) \in Nat
    BY DayBookAssumption
  <1>2. moves + 1 \in 1 .. Len(Course)
    BY <1>1
  <1> QED BY <1>1, <1>2 DEF price

LEMMA ProductIsNat == ASSUME NEW a \in Nat, NEW b \in Nat PROVE a * b \in Nat
  OBVIOUS

LEMMA BrokerFillTyped ==
    ASSUME BooksOK, NEW o \in Orders, NEW n \in 1 .. Size[o], BrokerFill(o, n)
    PROVE  BooksOK'
  <1>1. n \in Nat /\ price \in Nat /\ n * price \in Nat
    <2>1. n \in Nat
      BY DayBookAssumption
    <2> QED BY <2>1, PriceIsNat, ProductIsNat DEF BooksOK
  <1>2. cost[o] + n * price \in Nat /\ cost' = [cost EXCEPT ![o] = cost[o] + n * price]
    <2>1. cost[o] \in Nat
      BY DEF BooksOK
    <2>2. \A a, b \in Nat : a + b \in Nat
      OBVIOUS
    <2>3. cost' = [cost EXCEPT ![o] = cost[o] + n * price]
      BY DEF BrokerFill
    <2> QED BY <1>1, <2>1, <2>2, <2>3
  <1>3. cost' \in [Orders -> Nat]
    BY <1>2 DEF BooksOK
  <1>4. position' \in Nat
    BY <1>1 DEF BrokerFill, BooksOK
  <1>5. left' \in [Orders -> Nat]
    BY <1>1 DEF BrokerFill, BooksOK
  <1>6. parts' \in [Orders -> Nat]
    BY DEF BrokerFill, BooksOK
  <1>7. feed' \in Seq(Updates)
    <2>1. Update(o, cost[o] + n * price) \in Updates
      BY <1>2 DEF Update, Updates
    <2>2. feed \in Seq(Updates) /\ \A u \in Updates : Append(feed, u) \in Seq(Updates)
      BY DEF BooksOK
    <2> QED BY <2>1, <2>2 DEF BrokerFill
  <1>8. UNCHANGED <<moves, logged, lost, days>>
    BY DEF BrokerFill
  <1> QED BY <1>3, <1>4, <1>5, <1>6, <1>7, <1>8 DEF BooksOK

LEMMA HeadTail ==
    ASSUME feed \in Seq(Updates), feed # <<>>
    PROVE  /\ Head(feed) \in Updates
           /\ Tail(feed) \in Seq(Updates)
           /\ Len(feed) \in Nat \ {0}
           /\ Len(Tail(feed)) = Len(feed) - 1
           /\ \A i \in 1 .. Len(feed) - 1 : Tail(feed)[i] = feed[i + 1]
           /\ Head(feed) = feed[1]
  OBVIOUS

LEMMA OnFillTyped == ASSUME BooksOK, OnFill PROVE BooksOK'
  <1>1. Head(feed) \in Updates /\ feed' \in Seq(Updates)
    BY HeadTail DEF OnFill, BooksOK
  <1>2. Head(feed).order \in Orders /\ Head(feed).sum \in Nat
    BY <1>1 DEF Updates
  <1>3. logged' \in [Orders -> Nat]
    <2>1. logged' = [logged EXCEPT ![Head(feed).order] = @ + Head(feed).sum]
      BY DEF OnFill
    <2>2. \A a, b \in Nat : a + b \in Nat
      OBVIOUS
    <2>3. logged \in [Orders -> Nat] /\ logged[Head(feed).order] + Head(feed).sum \in Nat
      BY <1>2, <2>2 DEF BooksOK
    <2> QED BY <1>2, <2>1, <2>3
  <1> QED BY <1>1, <1>3 DEF OnFill, BooksOK, brokerVars

LEMMA FillDroppedTyped == ASSUME BooksOK, FillDropped PROVE BooksOK'
  <1>1. Head(feed).order \in Orders /\ feed' \in Seq(Updates)
    BY HeadTail DEF FillDropped, BooksOK, Updates
  <1> QED BY <1>1 DEF FillDropped, BooksOK, brokerVars

LEMMA CrashTyped == ASSUME BooksOK, Crash PROVE BooksOK'
  <1>1. \A i \in DOMAIN feed : feed[i] \in Updates
    BY DEF BooksOK
  <1>2. lost' \subseteq Orders
    BY <1>1 DEF Crash, BooksOK, Updates
  <1>3. feed' \in Seq(Updates)
    BY DEF Crash
  <1> QED BY <1>2, <1>3 DEF Crash, BooksOK, brokerVars

LEMMA NewDayTyped == ASSUME BooksOK, NewDay PROVE BooksOK'
  BY DEF NewDay, BooksOK

LEMMA MarketTyped == ASSUME BooksOK, MarketMoves PROVE BooksOK'
  <1>1. moves' \in 0 .. Len(Course) - 1
    BY DayBookAssumption DEF MarketMoves, BooksOK
  <1> QED BY <1>1 DEF MarketMoves, BooksOK, logVars

\* What leaves the books alone: the program's own reads and the digest.
Aside == \/ SnapshotPositions \/ SnapshotFills
         \/ \E v \in Evaluations : Evaluate(v)
         \/ DigestRead \/ DigestSend \/ DigestSendUnread \/ DigestRaises \/ DigestEntry

LEMMA AsideKeepsBooks ==
    ASSUME Aside
    PROVE  UNCHANGED <<brokerVars, logVars, days>>
  BY DEF Aside, SnapshotPositions, SnapshotFills, Evaluate, ReadBaseline, ReadPositions,
         ReadFills, Evaluated, DigestRead, DigestSend, DigestSendUnread, DigestRaises,
         DigestEntry

LEMMA NextCases ==
    ASSUME [Next]_vars
    PROVE  \/ MarketMoves
           \/ \E o \in Orders : \E n \in 1 .. Size[o] : BrokerFill(o, n)
           \/ OnFill \/ FillDropped \/ Aside \/ NewDay \/ Crash
           \/ UNCHANGED vars
  BY DEF Next, Aside

LEMMA InitTyped == ASSUME Init PROVE BooksOK
  BY DayBookAssumption DEF Init, BooksOK

LEMMA StepTyped == ASSUME BooksOK, [Next]_vars PROVE BooksOK'
  <1>1. CASE Aside
    BY <1>1, AsideKeepsBooks DEF BooksOK, brokerVars, logVars
  <1>2. CASE UNCHANGED vars
    BY <1>2 DEF vars, BooksOK, brokerVars, logVars
  <1>3. CASE \E o \in Orders : \E n \in 1 .. Size[o] : BrokerFill(o, n)
    BY <1>3, BrokerFillTyped
  <1> QED BY <1>1, <1>2, <1>3, NextCases, MarketTyped, OnFillTyped, FillDroppedTyped,
             NewDayTyped, CrashTyped

(***************************************************************************)
(* Shares and money are never negative, and the updates on their way are   *)
(* of the day's orders.  (TypeOK, without the readings, whose numbers are  *)
(* sums over a set of orders.)                                             *)
(***************************************************************************)
THEOREM BooksAreTyped == Spec => []BooksOK
  BY InitTyped, StepTyped, PTL DEF Spec
-----------------------------------------------------------------------------
(* Each order's way from the broker into the log.                          *)

\* An order nothing was filled of has left no trace.
Untouched(o) == cost[o] = 0 /\ logged[o] = 0 /\ ~InFlight(o)

\* The one update of an order is on its way, and it is the whole story.
OnItsWay(o) ==
    /\ logged[o] = 0
    /\ \E i \in DOMAIN feed :
          /\ feed[i].order = o
          /\ feed[i].sum = cost[o]
          /\ \A j \in DOMAIN feed : feed[j].order = o => j = i

Entered(o) == ~InFlight(o) /\ logged[o] = cost[o]

Traced(o) ==
    /\ parts[o] = 0 => Untouched(o)
    /\ parts[o] = 1 /\ o \in Streamed \ lost => OnItsWay(o) \/ Entered(o)

LogInv == BooksOK /\ \A o \in Orders : Traced(o)

LEMMA InitTraced == ASSUME Init PROVE LogInv
  <1>1. \A o \in Orders : Traced(o)
    BY DEF Init, Traced, Untouched, InFlight
  <1> QED BY <1>1, InitTyped DEF LogInv

LEMMA BrokerFillTraced ==
    ASSUME LogInv, NEW o \in Orders, NEW n \in 1 .. Size[o], BrokerFill(o, n),
           NEW p \in Orders
    PROVE  Traced(p)'
  <1> DEFINE u == Update(o, cost[o] + n * price)
  <1>1. BooksOK /\ Traced(p) /\ Traced(o)
    BY DEF LogInv
  <1>2. /\ parts' = [parts EXCEPT ![o] = parts[o] + 1]
        /\ cost' = [cost EXCEPT ![o] = cost[o] + n * price]
        /\ feed' = IF o \in Streamed THEN Append(feed, u) ELSE feed
        /\ logged' = logged
        /\ lost' = lost
    BY DEF BrokerFill
  <1>3. /\ cost \in [Orders -> Nat] /\ parts \in [Orders -> Nat]
        /\ feed \in Seq(Updates) /\ Len(feed) \in Nat
    BY <1>1 DEF BooksOK
  <1>4. ASSUME o \in Streamed
        PROVE  /\ DOMAIN feed = 1 .. Len(feed)
               /\ DOMAIN feed' = 1 .. Len(feed) + 1
               /\ \A i \in 1 .. Len(feed) : feed'[i] = feed[i]
               /\ feed'[Len(feed) + 1] = u
    BY <1>2, <1>3, <1>4
  <1>5. u.order = o /\ u.sum = cost'[o]
    BY <1>2, <1>3 DEF Update
  <1>6. CASE p # o
    <2>1. /\ cost'[p] = cost[p] /\ parts'[p] = parts[p]
          /\ logged'[p] = logged[p] /\ lost' = lost
      BY <1>2, <1>3, <1>6
    <2>2. InFlight(p)' => InFlight(p)
      BY <1>2, <1>4, <1>5, <1>6 DEF InFlight
    <2>3. OnItsWay(p) => OnItsWay(p)'
      <3>1. CASE o \notin Streamed
        BY <2>1, <1>2, <3>1 DEF OnItsWay
      <3>2. CASE o \in Streamed
        <4>1. SUFFICES ASSUME OnItsWay(p) PROVE OnItsWay(p)'
          OBVIOUS
        <4>2. PICK i \in 1 .. Len(feed) :
                 /\ feed[i].order = p
                 /\ feed[i].sum = cost[p]
                 /\ \A j \in 1 .. Len(feed) : feed[j].order = p => j = i
          BY <4>1, <1>4, <3>2 DEF OnItsWay
        <4>3. \A j \in DOMAIN feed' : feed'[j].order = p => j = i
          BY <1>3, <1>4, <1>5, <1>6, <3>2, <4>2
        <4>4. i \in DOMAIN feed' /\ feed'[i] = feed[i]
          BY <1>3, <1>4, <3>2, <4>2
        <4> QED BY <4>1, <4>2, <4>3, <4>4, <2>1 DEF OnItsWay
      <3> QED BY <3>1, <3>2
    <2> QED BY <1>1, <2>1, <2>2, <2>3 DEF Traced, Untouched, Entered
  <1>7. CASE p = o
    <2>1. parts'[o] = parts[o] + 1 /\ parts[o] \in Nat
      BY <1>2, <1>3
    <2>2. ASSUME parts'[o] = 1, o \in Streamed \ lost'
          PROVE  OnItsWay(o)'
      <3>1. parts[o] = 0
        BY <2>1, <2>2
      <3>2. Untouched(o)
        BY <1>1, <3>1 DEF Traced
      <3>3. \A j \in 1 .. Len(feed) : feed[j].order # o
        BY <3>2, <1>4, <2>2 DEF Untouched, InFlight
      <3>4. \A j \in DOMAIN feed' : feed'[j].order = o => j = Len(feed) + 1
        BY <3>3, <1>3, <1>4, <2>2
      <3>5. Len(feed) + 1 \in DOMAIN feed'
        BY <1>3, <1>4, <2>2
      <3>6. logged'[o] = 0
        BY <3>2, <1>2 DEF Untouched
      <3> QED BY <3>4, <3>5, <3>6, <1>4, <1>5, <2>2 DEF OnItsWay
    <2>3. parts'[o] # 0
      BY <2>1
    <2> QED BY <1>7, <2>2, <2>3 DEF Traced
  <1> QED BY <1>6, <1>7

LEMMA OnFillTraced ==
    ASSUME LogInv, OnFill, NEW p \in Orders
    PROVE  Traced(p)'
  <1> DEFINE u == Head(feed)
  <1>1. /\ feed \in Seq(Updates) /\ feed # <<>> /\ Traced(p)
        /\ logged \in [Orders -> Nat] /\ cost \in [Orders -> Nat]
    BY DEF LogInv, BooksOK, OnFill
  <1>2. /\ feed' = Tail(feed)
        /\ logged' = [logged EXCEPT ![u.order] = logged[u.order] + u.sum]
        /\ UNCHANGED <<cost, parts, lost>>
    BY DEF OnFill, brokerVars
  <1>3. /\ Len(feed) \in Nat \ {0}
        /\ DOMAIN feed = 1 .. Len(feed)
        /\ DOMAIN feed' = 1 .. Len(feed) - 1
        /\ \A i \in 1 .. Len(feed) - 1 : feed'[i] = feed[i + 1]
        /\ u = feed[1] /\ u.order \in Orders /\ u.sum \in Nat
    BY <1>1, <1>2, HeadTail DEF Updates
  <1>4. InFlight(p)' => InFlight(p)
    <2>1. \A i \in 1 .. Len(feed) - 1 : i + 1 \in 1 .. Len(feed)
      BY <1>3
    <2> QED BY <1>3, <2>1 DEF InFlight
  <1>5. ~InFlight(p) => u.order # p
    BY <1>3 DEF InFlight
  <1>6. u.order # p => logged'[p] = logged[p]
    BY <1>1, <1>2, <1>3
  <1>7. OnItsWay(p) => OnItsWay(p)' \/ Entered(p)'
    <2>1. SUFFICES ASSUME OnItsWay(p) PROVE OnItsWay(p)' \/ Entered(p)'
      OBVIOUS
    <2>2. PICK i \in 1 .. Len(feed) :
             /\ feed[i].order = p
             /\ feed[i].sum = cost[p]
             /\ \A j \in 1 .. Len(feed) : feed[j].order = p => j = i
      BY <2>1, <1>3 DEF OnItsWay
    <2>3. CASE i = 1
      <3>1. u.order = p /\ u.sum = cost[p] /\ logged[p] = 0
        BY <2>1, <2>2, <2>3, <1>3 DEF OnItsWay
      <3>2. logged'[p] = cost'[p]
        BY <3>1, <1>1, <1>2
      <3>3. ~InFlight(p)'
        BY <1>3, <2>2, <2>3 DEF InFlight
      <3> QED BY <3>2, <3>3 DEF Entered
    <2>4. CASE i # 1
      <3>1. i - 1 \in DOMAIN feed' /\ feed'[i - 1] = feed[i]
        BY <1>3, <2>2, <2>4
      <3>2. \A j \in DOMAIN feed' : feed'[j].order = p => j = i - 1
        BY <1>3, <2>2
      <3>3. u.order # p
        BY <1>3, <2>2, <2>4
      <3>4. logged'[p] = 0
        BY <3>3, <1>6, <2>1 DEF OnItsWay
      <3> QED BY <3>1, <3>2, <3>4, <2>2, <1>2 DEF OnItsWay
    <2> QED BY <2>3, <2>4
  <1> QED BY <1>1, <1>2, <1>4, <1>5, <1>6, <1>7 DEF Traced, Untouched, Entered

\* What is taken off the feed without an event is lost.
LEMMA FillDroppedTraced ==
    ASSUME LogInv, FillDropped, NEW p \in Orders
    PROVE  Traced(p)'
  <1> DEFINE u == Head(feed)
  <1>1. feed \in Seq(Updates) /\ feed # <<>> /\ Traced(p)
    BY DEF LogInv, BooksOK, FillDropped
  <1>2. feed' = Tail(feed) /\ lost' = lost \cup {u.order} /\ UNCHANGED <<cost, parts, logged>>
    BY DEF FillDropped, brokerVars
  <1>3. /\ Len(feed) \in Nat \ {0}
        /\ DOMAIN feed = 1 .. Len(feed)
        /\ DOMAIN feed' = 1 .. Len(feed) - 1
        /\ \A i \in 1 .. Len(feed) - 1 : feed'[i] = feed[i + 1]
        /\ u = feed[1]
    BY <1>1, <1>2, HeadTail
  <1>4. InFlight(p)' => InFlight(p)
    <2>1. \A i \in 1 .. Len(feed) - 1 : i + 1 \in 1 .. Len(feed)
      BY <1>3
    <2> QED BY <1>3, <2>1 DEF InFlight
  <1>5. ASSUME p \notin lost', OnItsWay(p) PROVE OnItsWay(p)'
    <2>1. PICK i \in 1 .. Len(feed) :
             /\ feed[i].order = p
             /\ feed[i].sum = cost[p]
             /\ \A j \in 1 .. Len(feed) : feed[j].order = p => j = i
      BY <1>5, <1>3 DEF OnItsWay
    <2>2. i # 1
      BY <1>5, <1>2, <1>3, <2>1
    <2>3. i - 1 \in DOMAIN feed' /\ feed'[i - 1] = feed[i]
      BY <1>3, <2>1, <2>2
    <2>4. \A j \in DOMAIN feed' : feed'[j].order = p => j = i - 1
      BY <1>3, <2>1
    <2> QED BY <1>5, <1>2, <2>1, <2>3, <2>4 DEF OnItsWay
  <1> QED BY <1>1, <1>2, <1>4, <1>5 DEF Traced, Untouched, Entered

LEMMA CrashTraced ==
    ASSUME LogInv, Crash, NEW p \in Orders
    PROVE  Traced(p)'
  <1>1. /\ feed' = <<>> /\ UNCHANGED <<cost, parts, logged>>
        /\ lost' = lost \cup {feed[i].order : i \in DOMAIN feed}
    BY DEF Crash, brokerVars
  <1>2. Traced(p)
    BY DEF LogInv
  <1>3. ~InFlight(p)'
    BY <1>1 DEF InFlight
  <1>4. p \notin lost' => p \notin lost /\ ~OnItsWay(p)
    BY <1>1 DEF OnItsWay
  <1> QED BY <1>1, <1>2, <1>3, <1>4 DEF Traced, Untouched, Entered

LEMMA NewDayTraced ==
    ASSUME LogInv, NewDay, NEW p \in Orders
    PROVE  Traced(p)'
  BY DEF NewDay, Traced, Untouched, InFlight

LEMMA StepTraced == ASSUME LogInv, [Next]_vars PROVE LogInv'
  <1>1. BooksOK'
    BY StepTyped DEF LogInv
  <1>2. ASSUME NEW p \in Orders, UNCHANGED <<brokerVars, logVars>> PROVE Traced(p)'
    BY <1>2 DEF LogInv, brokerVars, logVars, Traced, Untouched, OnItsWay, Entered, InFlight
  <1>3. ASSUME NEW p \in Orders, MarketMoves PROVE Traced(p)'
    BY <1>3 DEF MarketMoves, LogInv, logVars, Traced, Untouched, OnItsWay, Entered, InFlight
  <1>4. ASSUME NEW p \in Orders PROVE Traced(p)'
    <2>1. CASE Aside \/ UNCHANGED vars
      BY <2>1, <1>2, AsideKeepsBooks DEF vars
    <2>2. CASE \E o \in Orders : \E n \in 1 .. Size[o] : BrokerFill(o, n)
      BY <2>2, BrokerFillTraced
    <2> QED BY <2>1, <2>2, <1>3, NextCases, OnFillTraced, FillDroppedTraced,
               NewDayTraced, CrashTraced
  <1> QED BY <1>1, <1>4 DEF LogInv

LEMMA LogInvHolds == Spec => []LogInv
  BY InitTraced, StepTraced, PTL DEF Spec

LEMMA TracedIsCounted == LogInv => FillsCountOnce
  <1>1. SUFFICES ASSUME LogInv, NEW o \in Streamed \ lost, parts[o] <= 1, ~InFlight(o)
                 PROVE  logged[o] = cost[o]
    BY DEF FillsCountOnce
  <1>2. o \in Orders /\ parts[o] \in Nat
    BY <1>1, DayBookAssumption DEF LogInv, BooksOK
  <1>3. parts[o] = 0 \/ parts[o] = 1
    BY <1>1, <1>2
  <1>4. Traced(o)
    BY <1>1, <1>2 DEF LogInv
  <1>5. ~OnItsWay(o)
    BY <1>1 DEF OnItsWay, InFlight
  <1> QED BY <1>1, <1>3, <1>4, <1>5 DEF Traced, Untouched, Entered

(***************************************************************************)
(* A fill made in one go is in the log with what it cost, once its update  *)
(* has been handled (stream.py, on_fill_event).  An order with one fill    *)
(* has one update, and from the broker to the log it is either on its way  *)
(* with nothing entered or entered and gone from the feed; a restart that  *)
(* takes it off the feed makes it one of the lost.                         *)
(***************************************************************************)
THEOREM WholeFillsAreCounted == Spec => []FillsCountOnce
  BY LogInvHolds, TracedIsCounted, PTL
-----------------------------------------------------------------------------
(* What is computed from the log.                                          *)

\* A log in step with the broker holds what every order cost.
LEMMA InStep ==
    ASSUME LogInv, Heard, Whole
    PROVE  Flow(logged) = CashToday
  <1>1. \A o \in Orders : logged[o] = cost[o]
    <2>1. SUFFICES ASSUME NEW o \in Orders PROVE logged[o] = cost[o]
      OBVIOUS
    <2>2. Traced(o) /\ parts[o] \in Nat /\ parts[o] <= 1
      BY DEF LogInv, BooksOK, Whole
    <2>3. ~InFlight(o)
      BY DEF Heard, InFlight
    <2>4. CASE parts[o] = 0
      BY <2>2, <2>4 DEF Traced, Untouched
    <2>5. CASE parts[o] = 1
      <3>1. o \in Streamed \ lost
        BY <2>5 DEF Heard
      <3>2. ~OnItsWay(o)
        BY <2>3 DEF OnItsWay, InFlight
      <3> QED BY <2>2, <2>5, <3>1, <3>2 DEF Traced, Entered
    <2> QED BY <2>2, <2>4, <2>5
  <1>2. logged = cost
    BY <1>1 DEF LogInv, BooksOK
  <1>3. Flow(cost) = CashToday
    BY DEF Flow, CashToday
  <1> QED BY <1>2, <1>3

ReadingOK(r) ==
    /\ r.at = "held" /\ r.heard => r.worth = r.held + r.cash
    /\ r.at = "taken" /\ r.heard /\ r.whole => r.value = r.worth

\* The evaluations, without the numbers' types.
EvalShape == eval = [v \in Evaluations |-> [sod |-> eval[v].sod, now |-> eval[v].now]]

ReadingsInv ==
    /\ EvalShape
    /\ ReadingOK(baseline)
    /\ \A v \in Evaluations : ReadingOK(eval[v].sod) /\ ReadingOK(eval[v].now)

LEMMA NoReadingOK == ReadingOK(NoReading)
  BY DEF ReadingOK, NoReading

LEMMA PositionsOK == ASSUME NEW answers \in BOOLEAN PROVE ReadingOK(Positions(answers))
  <1> DEFINE r == Positions(answers)
  <1>1. r.at = "held" /\ (r.heard => answers)
    BY DEF Positions
  <1>2. answers => r.held = position * price /\ r.worth = position * price + CashToday
                   /\ r.cash = CashToday
    BY DEF Positions, Worth
  <1> QED BY <1>1, <1>2 DEF ReadingOK

LEMMA WithFillsOK ==
    ASSUME LogInv, NEW r, r.at = "held", ReadingOK(r)
    PROVE  ReadingOK(WithFills(r))
  <1> DEFINE w == WithFills(r)
  <1>1. /\ w.at = "taken" /\ w.value = r.held + Flow(logged) /\ w.worth = r.worth
        /\ w.heard => r.heard /\ Heard /\ r.cash = CashToday
        /\ w.whole => Whole
    BY DEF WithFills
  <1>2. ASSUME w.heard, w.whole PROVE w.value = w.worth
    <2>1. r.worth = r.held + r.cash
      BY <1>1, <1>2 DEF ReadingOK
    <2>2. Flow(logged) = r.cash
      BY <1>1, <1>2, InStep
    <2> QED BY <1>1, <2>1, <2>2
  <1> QED BY <1>1, <1>2 DEF ReadingOK

LEMMA AnswersAreBoolean == Answers \subseteq BOOLEAN
  BY DEF Answers

\* An evaluation that replaces one of its readings by a right one.
LEMMA EvalStep ==
    ASSUME ReadingsInv, NEW v \in Evaluations, NEW s, NEW n,
           ReadingOK(s), ReadingOK(n),
           eval' = [eval EXCEPT ![v] = [sod |-> s, now |-> n]], baseline' = baseline
    PROVE  ReadingsInv'
  <1>1. \A w \in Evaluations : eval'[w] = IF w = v THEN [sod |-> s, now |-> n] ELSE eval[w]
    BY DEF ReadingsInv, EvalShape
  <1>2. eval' = [w \in Evaluations |-> eval'[w]]
    BY DEF ReadingsInv, EvalShape
  <1>3. \A w \in Evaluations : eval'[w] = [sod |-> eval'[w].sod, now |-> eval'[w].now]
    BY <1>1 DEF ReadingsInv, EvalShape
  <1>4. EvalShape'
    BY <1>2, <1>3 DEF EvalShape
  <1>5. \A w \in Evaluations : ReadingOK(eval'[w].sod) /\ ReadingOK(eval'[w].now)
    BY <1>1 DEF ReadingsInv
  <1> QED BY <1>4, <1>5 DEF ReadingsInv

LEMMA ReadingsInit == ASSUME Init PROVE ReadingsInv
  BY NoReadingOK DEF Init, ReadingsInv, EvalShape

LEMMA OneReadingReplaced ==
    ASSUME NEW e, e = [sod |-> e.sod, now |-> e.now], NEW r
    PROVE  /\ [e EXCEPT !.sod = r] = [sod |-> r, now |-> e.now]
           /\ [e EXCEPT !.now = r] = [sod |-> e.sod, now |-> r]
  <1>1. DOMAIN e = {"sod", "now"}
    <2>1. DOMAIN [sod |-> e.sod, now |-> e.now] = {"sod", "now"}
      OBVIOUS
    <2> QED BY <2>1
  <1> QED BY <1>1

LEMMA EvaluateOK ==
    ASSUME LogInv, ReadingsInv, NEW v \in Evaluations, Evaluate(v)
    PROVE  ReadingsInv'
  <1>1. /\ eval[v] = [sod |-> eval[v].sod, now |-> eval[v].now]
        /\ ReadingOK(eval[v].sod) /\ ReadingOK(eval[v].now) /\ ReadingOK(baseline)
    BY DEF ReadingsInv, EvalShape
  <1>2. baseline' = baseline
    BY DEF Evaluate, ReadBaseline, ReadPositions, ReadFills, Evaluated
  <1>3. CASE ReadBaseline(v)
    <2>1. eval' = [eval EXCEPT ![v] = [sod |-> baseline, now |-> eval[v].now]]
      <3>1. eval' = [eval EXCEPT ![v] = [eval[v] EXCEPT !.sod = baseline]]
        BY <1>3 DEF ReadBaseline
      <3> QED BY <3>1, <1>1, OneReadingReplaced
    <2> QED BY <1>1, <1>2, <2>1, EvalStep
  <1>4. CASE ReadPositions(v)
    <2>1. PICK answers \in BOOLEAN :
             eval' = [eval EXCEPT ![v] = [sod |-> eval[v].sod, now |-> Positions(answers)]]
      BY <1>1, <1>4, AnswersAreBoolean DEF ReadPositions
    <2> QED BY <1>1, <1>2, <2>1, EvalStep, PositionsOK
  <1>5. CASE ReadFills(v)
    <2>1. eval' = [eval EXCEPT ![v] = [sod |-> eval[v].sod, now |-> WithFills(eval[v].now)]]
      <3>1. eval' = [eval EXCEPT ![v] = [eval[v] EXCEPT !.now = WithFills(eval[v].now)]]
        BY <1>5 DEF ReadFills
      <3> QED BY <3>1, <1>1, OneReadingReplaced
    <2>2. ReadingOK(WithFills(eval[v].now))
      BY <1>1, <1>5, WithFillsOK DEF ReadFills
    <2> QED BY <1>1, <1>2, <2>1, <2>2, EvalStep
  <1>6. CASE Evaluated(v)
    BY <1>2, <1>6, NoReadingOK, EvalStep DEF Evaluated
  <1> QED BY <1>3, <1>4, <1>5, <1>6 DEF Evaluate

LEMMA ReadingsStep ==
    ASSUME LogInv, ReadingsInv, [Next]_vars
    PROVE  ReadingsInv'
  <1>1. CASE UNCHANGED <<baseline, eval>>
    BY <1>1 DEF ReadingsInv, EvalShape
  <1>2. CASE SnapshotPositions
    <2>1. PICK answers \in BOOLEAN : baseline' = Positions(answers)
      BY <1>2, AnswersAreBoolean DEF SnapshotPositions
    <2>2. eval' = eval
      BY <1>2 DEF SnapshotPositions
    <2> QED BY <2>1, <2>2, PositionsOK DEF ReadingsInv, EvalShape
  <1>3. CASE SnapshotFills
    <2>1. ReadingOK(WithFills(baseline))
      BY <1>3, WithFillsOK DEF SnapshotFills, ReadingsInv
    <2> QED BY <1>3, <2>1 DEF SnapshotFills, ReadingsInv, EvalShape
  <1>4. CASE \E v \in Evaluations : Evaluate(v)
    BY <1>4, EvaluateOK
  <1>5. CASE NewDay
    BY <1>5, NoReadingOK DEF NewDay, ReadingsInv, EvalShape
  <1>6. CASE Crash
    <2>1. ReadingOK([NoReading EXCEPT !.at = "missed"])
      BY DEF NoReading, ReadingOK
    <2> QED BY <1>6, <2>1, NoReadingOK DEF Crash, ReadingsInv, EvalShape
  <1>7. CASE MarketMoves \/ OnFill \/ FillDropped \/ UNCHANGED vars
             \/ \E o \in Orders : \E n \in 1 .. Size[o] : BrokerFill(o, n)
    BY <1>1, <1>7 DEF MarketMoves, OnFill, FillDropped, BrokerFill, vars
  <1>8. CASE DigestRead \/ DigestSend \/ DigestSendUnread \/ DigestRaises \/ DigestEntry
    BY <1>1, <1>8 DEF DigestRead, DigestSend, DigestSendUnread, DigestRaises, DigestEntry
  <1> QED BY <1>2, <1>3, <1>4, <1>5, <1>6, <1>7, <1>8 DEF Next

LEMMA ReadingsAreRight == ReadingsInv => CalmReadingsAreRight
  BY DEF ReadingsInv, ReadingOK, CalmReadingsAreRight

(***************************************************************************)
(* Snapshot and drawdown are computed from positions read at the broker    *)
(* and events read afterwards; if the log was in step both times and no    *)
(* money moved in between, the sum is what the book was worth              *)
(* (_compute_current_value).  A reading half taken remembers what the book *)
(* was worth as positions and cash; the log in step supplies the cash.     *)
(***************************************************************************)
THEOREM CalmReadings == Spec => []CalmReadingsAreRight
  <1>1. Init => LogInv /\ ReadingsInv
    BY InitTraced, ReadingsInit
  <1>2. LogInv /\ ReadingsInv /\ [Next]_vars => (LogInv /\ ReadingsInv)'
    BY StepTraced, ReadingsStep
  <1> QED BY <1>1, <1>2, ReadingsAreRight, PTL DEF Spec

-----------------------------------------------------------------------------
(* The digest.                                                             *)

LEMMA DigestStep ==
    ASSUME LogInv, DigestIsHonest, [Next]_vars
    PROVE  DigestIsHonest'
  <1>1. CASE digest' = digest
    BY <1>1 DEF DigestIsHonest
  <1>2. CASE DigestRead
    <2>1. /\ digest'.at = "read" /\ digest'.gross = Flow(logged)
          /\ digest'.cash = CashToday /\ (digest'.heard => Heard /\ Whole)
      BY <1>2 DEF DigestRead, NoDigest
    <2> QED BY <2>1, InStep DEF DigestIsHonest
  <1>3. CASE DigestSend
    <2>1. PICK user \in Windows : \E t \in Clock :
             digest' = [NoDigest EXCEPT !.at = "posted", !.posted = ~Quiet(user, NoWindow, t),
                                        !.quiet = OnArc(user, t)]
      BY <1>3 DEF DigestSend
    <2>2. PICK t \in Clock :
             digest' = [NoDigest EXCEPT !.at = "posted", !.posted = ~Quiet(user, NoWindow, t),
                                        !.quiet = OnArc(user, t)]
      BY <2>1
    <2>3. Quiet(user, NoWindow, t) <=> OnArc(user, t)
      BY DigestWindow
    <2>4. /\ digest'.at = "posted" /\ digest'.heard = FALSE
          /\ digest'.posted = ~Quiet(user, NoWindow, t) /\ digest'.quiet = OnArc(user, t)
      BY <2>2 DEF NoDigest
    <2>5. ~digest'.heard /\ digest'.at # "entered"
      BY <2>4
    <2>6. digest'.posted = ~digest'.quiet
      BY <2>3, <2>4 DEF OnArc, IsSet
    <2> QED BY <2>5, <2>6 DEF DigestIsHonest
  <1>4. CASE DigestSendUnread
    BY <1>4 DEF DigestSendUnread, NoDigest, DigestIsHonest
  <1>5. CASE DigestRaises
    BY <1>5 DEF DigestRaises, NoDigest, DigestIsHonest
  <1>6. CASE DigestEntry
    BY <1>6 DEF DigestEntry, NoDigest, DigestIsHonest
  <1>7. CASE NewDay
    BY <1>7 DEF NewDay, NoDigest, DigestIsHonest
  <1>8. CASE Crash
    BY <1>1, <1>8 DEF Crash, NoDigest, DigestIsHonest
  <1>9. CASE \/ MarketMoves \/ OnFill \/ FillDropped \/ SnapshotPositions \/ SnapshotFills
             \/ UNCHANGED vars
             \/ \E o \in Orders : \E n \in 1 .. Size[o] : BrokerFill(o, n)
             \/ \E v \in Evaluations : Evaluate(v)
    BY <1>1, <1>9 DEF MarketMoves, OnFill, FillDropped, BrokerFill, SnapshotPositions,
                      SnapshotFills, Evaluate, ReadBaseline, ReadPositions, ReadFills,
                      Evaluated, vars
  <1> QED BY <1>2, <1>3, <1>4, <1>5, <1>6, <1>7, <1>8, <1>9 DEF Next

(***************************************************************************)
(* The digest says what the day brought in when the log was in step, goes  *)
(* out unless the operator's window is open, and is entered in the log as  *)
(* delivered exactly when it went out (daily_pnl.py).                      *)
(***************************************************************************)
THEOREM HonestDigest == Spec => []DigestIsHonest
  <1>1. Init => LogInv /\ DigestIsHonest
    BY InitTraced DEF Init, NoDigest, DigestIsHonest
  <1>2. LogInv /\ DigestIsHonest /\ [Next]_vars => (LogInv /\ DigestIsHonest)'
    BY StepTraced, DigestStep
  <1> QED BY <1>1, <1>2, PTL DEF Spec
-----------------------------------------------------------------------------
(* The types of what is computed.                                          *)

LEMMA FlowIsInt ==
    ASSUME NEW sums \in [Orders -> Nat]
    PROVE  Flow(sums) \in Int
  <1> DEFINE signed == [o \in Orders |-> IF o \in Buys THEN 0 - sums[o] ELSE sums[o]]
  <1>1. \A o \in Orders : signed[o] \in Int
    OBVIOUS
  <1>2. IsFiniteSet(Orders)
    BY DayBookAssumption
  <1> HIDE DEF signed
  <1>3. SumFunctionOnSet(signed, Orders) \in Int
    BY <1>1, <1>2, SumIsInt
  <1> QED BY <1>3 DEF signed, Flow

LEMMA CashIsInt == ASSUME BooksOK PROVE CashToday \in Int
  <1>1. Flow(cost) = CashToday
    BY DEF Flow, CashToday
  <1>2. cost \in [Orders -> Nat]
    BY DEF BooksOK
  <1> QED BY <1>1, <1>2, FlowIsInt

LEMMA ReadingIsTyped ==
    ASSUME NEW at \in {"none", "held", "taken", "missed"}, NEW held \in Int,
           NEW value \in Int, NEW worth \in Int, NEW cash \in Int,
           NEW heard \in BOOLEAN, NEW whole \in BOOLEAN
    PROVE  [at |-> at, held |-> held, value |-> value, worth |-> worth, cash |-> cash,
            heard |-> heard, whole |-> whole] \in Reading
  BY DEF Reading

LEMMA NoReadingTyped == NoReading \in Reading /\ [NoReading EXCEPT !.at = "missed"] \in Reading
  <1>1. FALSE \in BOOLEAN /\ 0 \in Int
    OBVIOUS
  <1>2. NoReading \in Reading
    BY <1>1, ReadingIsTyped DEF NoReading
  <1>3. \A r \in Reading : [r EXCEPT !.at = "missed"] \in Reading
    BY DEF Reading
  <1> QED BY <1>2, <1>3

LEMMA PositionsTyped ==
    ASSUME BooksOK, NEW answers \in BOOLEAN
    PROVE  Positions(answers) \in Reading
  <1>1. price \in Nat /\ position \in Nat /\ position * price \in Nat
    BY PriceIsNat, ProductIsNat DEF BooksOK
  <1>2. CashToday \in Int
    BY CashIsInt
  <1> DEFINE h == IF answers THEN position * price ELSE 0
             s == answers /\ Heard
  <1>3. h \in Int /\ Worth \in Int
    BY <1>1, <1>2 DEF Worth
  <1>4. s \in BOOLEAN /\ Whole \in BOOLEAN
    BY DEF Heard, Whole
  <1>5. Positions(answers) = [at |-> "held", held |-> h, value |-> 0, worth |-> Worth,
                              cash |-> CashToday, heard |-> s, whole |-> Whole]
    BY DEF Positions
  <1> HIDE DEF h, s
  <1> QED BY <1>2, <1>3, <1>4, <1>5, ReadingIsTyped

LEMMA WithFillsTyped ==
    ASSUME BooksOK, NEW r \in Reading
    PROVE  WithFills(r) \in Reading
  <1>1. Flow(logged) \in Int
    BY FlowIsInt DEF BooksOK
  <1> DEFINE v == r.held + Flow(logged)
             s == r.heard /\ Heard /\ r.cash = CashToday
             w == r.whole /\ Whole
  <1>2. r.held \in Int /\ r.worth \in Int
    BY DEF Reading
  <1>3. v \in Int
    BY <1>1, <1>2
  <1>4. s \in BOOLEAN /\ w \in BOOLEAN
    OBVIOUS
  <1>5. WithFills(r) = [at |-> "taken", held |-> 0, value |-> v, worth |-> r.worth,
                        cash |-> 0, heard |-> s, whole |-> w]
    BY DEF WithFills
  <1> HIDE DEF v, s, w
  <1> QED BY <1>2, <1>3, <1>4, <1>5, ReadingIsTyped

Evaluating == [sod : Reading, now : Reading]

LEMMA EvaluateTyped ==
    ASSUME TypeOK, NEW v \in Evaluations, Evaluate(v)
    PROVE  eval' \in [Evaluations -> Evaluating]
  <1>1. eval \in [Evaluations -> Evaluating] /\ baseline \in Reading /\ BooksOK
    BY DEF TypeOK, Evaluating
  <1>2. eval[v].now \in Reading
    BY <1>1 DEF Evaluating
  <1>3. CASE ReadBaseline(v)
    BY <1>1, <1>3 DEF ReadBaseline, Evaluating
  <1>4. CASE ReadPositions(v)
    <2>1. PICK answers \in BOOLEAN : eval' = [eval EXCEPT ![v].now = Positions(answers)]
      BY <1>4, AnswersAreBoolean DEF ReadPositions
    <2>2. Positions(answers) \in Reading
      BY <1>1, PositionsTyped
    <2> QED BY <1>1, <2>1, <2>2 DEF Evaluating
  <1>5. CASE ReadFills(v)
    <2>1. WithFills(eval[v].now) \in Reading
      BY <1>1, <1>2, WithFillsTyped
    <2>2. eval' = [eval EXCEPT ![v].now = WithFills(eval[v].now)]
      BY <1>5 DEF ReadFills
    <2> QED BY <1>1, <2>1, <2>2 DEF Evaluating
  <1>6. CASE Evaluated(v)
    BY <1>1, <1>6, NoReadingTyped DEF Evaluated, Evaluating
  <1> QED BY <1>3, <1>4, <1>5, <1>6 DEF Evaluate

LEMMA ReadingsTyped ==
    ASSUME TypeOK, [Next]_vars
    PROVE  baseline' \in Reading /\ eval' \in [Evaluations -> Evaluating]
  <1>1. eval \in [Evaluations -> Evaluating] /\ baseline \in Reading /\ BooksOK
    BY DEF TypeOK, Evaluating
  <1>2. CASE UNCHANGED <<baseline, eval>>
    BY <1>1, <1>2
  <1>3. CASE SnapshotPositions
    <2>1. PICK answers \in BOOLEAN : baseline' = Positions(answers)
      BY <1>3, AnswersAreBoolean DEF SnapshotPositions
    <2> QED BY <1>1, <1>3, <2>1, PositionsTyped DEF SnapshotPositions
  <1>4. CASE SnapshotFills
    BY <1>1, <1>4, WithFillsTyped DEF SnapshotFills
  <1>5. CASE \E v \in Evaluations : Evaluate(v)
    <2>1. baseline' = baseline
      BY <1>5 DEF Evaluate, ReadBaseline, ReadPositions, ReadFills, Evaluated
    <2> QED BY <1>1, <1>5, <2>1, EvaluateTyped
  <1>6. CASE NewDay
    BY <1>1, <1>6, NoReadingTyped DEF NewDay
  <1>7. CASE Crash
    BY <1>1, <1>7, NoReadingTyped DEF Crash, Evaluating
  <1>8. CASE MarketMoves \/ OnFill \/ FillDropped \/ UNCHANGED vars
             \/ \E o \in Orders : \E n \in 1 .. Size[o] : BrokerFill(o, n)
    BY <1>2, <1>8 DEF MarketMoves, OnFill, FillDropped, BrokerFill, vars
  <1>9. CASE DigestRead \/ DigestSend \/ DigestSendUnread \/ DigestRaises \/ DigestEntry
    BY <1>2, <1>9 DEF DigestRead, DigestSend, DigestSendUnread, DigestRaises, DigestEntry
  <1> QED BY <1>3, <1>4, <1>5, <1>6, <1>7, <1>8, <1>9 DEF Next

LEMMA DigestIsTyped ==
    ASSUME NEW at \in {"due", "read", "posted", "entered", "over"}, NEW gross \in Int,
           NEW cash \in Int, NEW heard \in BOOLEAN, NEW posted \in BOOLEAN,
           NEW quiet \in BOOLEAN, NEW delivered \in BOOLEAN
    PROVE  [at |-> at, gross |-> gross, cash |-> cash, heard |-> heard, posted |-> posted,
            quiet |-> quiet, delivered |-> delivered] \in Digest
  BY DEF Digest

LEMMA NoDigestTyped == NoDigest \in Digest
  <1>1. FALSE \in BOOLEAN /\ 0 \in Int
    OBVIOUS
  <1> QED BY <1>1, DigestIsTyped DEF NoDigest

LEMMA DigestMoved ==
    ASSUME NEW d \in Digest, NEW at \in {"due", "read", "posted", "entered", "over"},
           NEW posted \in BOOLEAN
    PROVE  /\ [d EXCEPT !.at = at] \in Digest
           /\ [d EXCEPT !.at = at, !.posted = posted] \in Digest
  BY DEF Digest

LEMMA DigestTyped ==
    ASSUME TypeOK, [Next]_vars
    PROVE  digest' \in Digest
  <1>1. digest \in Digest /\ BooksOK
    BY DEF TypeOK
  <1>2. CASE digest' = digest
    BY <1>1, <1>2
  <1>3. CASE DigestRead
    <2> DEFINE s == Heard /\ Whole
    <2>1. s \in BOOLEAN /\ Flow(logged) \in Int /\ CashToday \in Int
      BY <1>1, FlowIsInt, CashIsInt DEF BooksOK
    <2>2. digest' = [at |-> "read", gross |-> Flow(logged), cash |-> CashToday, heard |-> s,
                     posted |-> FALSE, quiet |-> FALSE, delivered |-> FALSE]
      BY <1>3 DEF DigestRead, NoDigest
    <2> HIDE DEF s
    <2> QED BY <2>1, <2>2, DigestIsTyped
  <1>4. CASE DigestSend
    <2>1. PICK user \in Windows, t \in Clock :
             digest' = [NoDigest EXCEPT !.at = "posted", !.posted = ~Quiet(user, NoWindow, t),
                                        !.quiet = OnArc(user, t)]
      BY <1>4 DEF DigestSend
    <2> DEFINE p == ~Quiet(user, NoWindow, t)
               q == OnArc(user, t)
    <2>2. p \in BOOLEAN /\ q \in BOOLEAN /\ FALSE \in BOOLEAN /\ 0 \in Int
      BY DEF OnArc
    <2>3. digest' = [at |-> "posted", gross |-> 0, cash |-> 0, heard |-> FALSE,
                     posted |-> p, quiet |-> q, delivered |-> FALSE]
      BY <2>1 DEF NoDigest
    <2> HIDE DEF p, q
    <2> QED BY <2>2, <2>3, DigestIsTyped
  <1>5. CASE DigestSendUnread \/ DigestRaises
    BY <1>5, NoDigestTyped, DigestMoved DEF DigestSendUnread, DigestRaises
  <1>6. CASE DigestEntry
    <2>1. /\ digest.posted \in BOOLEAN /\ digest.quiet \in BOOLEAN
          /\ FALSE \in BOOLEAN /\ 0 \in Int
      BY <1>1 DEF Digest
    <2>2. digest' = [at |-> "entered", gross |-> 0, cash |-> 0, heard |-> FALSE,
                     posted |-> digest.posted, quiet |-> digest.quiet,
                     delivered |-> digest.posted]
      BY <1>6 DEF DigestEntry, NoDigest
    <2> QED BY <2>1, <2>2, DigestIsTyped
  <1>7. CASE NewDay \/ Crash
    BY <1>1, <1>7, NoDigestTyped, DigestMoved DEF NewDay, Crash
  <1>8. CASE \/ MarketMoves \/ OnFill \/ FillDropped \/ SnapshotPositions \/ SnapshotFills
             \/ UNCHANGED vars
             \/ \E o \in Orders : \E n \in 1 .. Size[o] : BrokerFill(o, n)
             \/ \E v \in Evaluations : Evaluate(v)
    BY <1>2, <1>8 DEF MarketMoves, OnFill, FillDropped, BrokerFill, SnapshotPositions,
                      SnapshotFills, Evaluate, ReadBaseline, ReadPositions, ReadFills,
                      Evaluated, vars
  <1> QED BY <1>3, <1>4, <1>5, <1>6, <1>7, <1>8 DEF Next

(***************************************************************************)
(* Shares and money never go below zero, and what snapshot, drawdown and   *)
(* digest compute from them is a whole number, however many orders a day   *)
(* has and however they are filled.                                        *)
(***************************************************************************)
THEOREM TypeCorrect == Spec => []TypeOK
  <1>1. Init => TypeOK
    <2> SUFFICES ASSUME Init PROVE TypeOK
      OBVIOUS
    <2>1. LogInv
      BY InitTraced
    <2> QED BY <2>1, NoReadingTyped DEF LogInv, TypeOK, Init, Digest, NoDigest
  <1>2. TypeOK /\ [Next]_vars => TypeOK'
    <2>1. ASSUME TypeOK, [Next]_vars PROVE BooksOK'
      BY <2>1, StepTyped DEF TypeOK
    <2> QED BY <2>1, ReadingsTyped, DigestTyped DEF TypeOK, Evaluating
  <1> QED BY <1>1, <1>2, PTL DEF Spec
=============================================================================
