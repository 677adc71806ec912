------------------------------ MODULE DayBook ------------------------------
(***************************************************************************)
(* What the program believes a strategy's day has been worth.  The broker  *)
(* fills orders, at once or in parts, and its stream tells of each fill    *)
(* with what the order has filled so far (brokers/stream.py); each update  *)
(* becomes a fill event of the audit log (on_fill_event), and the day's    *)
(* fill events are summed: with the positions' market value for the        *)
(* start-of-day snapshot and the drawdown (anomaly/evaluator.py), alone    *)
(* for the evening digest (reporter/daily_pnl.py).  The positions are read *)
(* at the broker and the events from the log, one after the other.         *)
(*                                                                         *)
(* One strategy, one ticker.  What a drawdown does to the strategy is      *)
(* TrustLadder's subject, what a fill does to its proposal                 *)
(* ProposalLifecycle's.                                                    *)
(***************************************************************************)
EXTENDS QuietHours, Sequences, FiniteSets, Functions

CONSTANTS
    Orders,      \* slots for the orders of a day
    Buys,        \* those that buy; the others sell
    Size,        \* Size[o]: shares of order o
    Streamed,    \* orders of the paper account, whose fills the stream carries
    Course,      \* what a share costs at the market, from one move to the next
    Overnight,   \* shares held when the first day begins
    Threshold,   \* anomaly_threshold_pct, in percent
    Evaluations, \* drawdowns computed at once: the tick's, a fill's
    Mishaps,     \* what may go wrong in this instance
    MaxDays      \* bound on midnights

MishapKinds == {"split", "drop", "positions", "settings", "slack", "crash"}

ASSUME DayBookAssumption ==
    /\ IsFiniteSet(Orders)
    /\ Buys \subseteq Orders
    /\ Streamed \subseteq Orders
    /\ Size \in [Orders -> Nat \ {0}]
    /\ Course \in Seq(Nat)
    /\ Course # <<>>
    /\ Overnight \in Nat
    /\ Threshold \in Nat
    /\ Mishaps \subseteq MishapKinds
    /\ MaxDays \in Nat

VARIABLES
    moves,       \* moves of the market so far
    position,    \* shares at the broker
    left,        \* left[o]: shares order o has still to fill
    cost,        \* cost[o]: filled_qty times filled_avg_price, today
    feed,        \* trade updates on their way
    logged,      \* logged[o]: sum over o's fill events of today
    baseline,    \* the start-of-day snapshot
    eval,        \* eval[v]: an evaluation between its reads
    digest,      \* the evening digest
    days,
    \* what has been observed, read by no action's guard
    parts,       \* parts[o]: in how many fills o was filled
    lost         \* orders with an update that never became an event

brokerVars == <<moves, position, left, cost, parts>>
logVars == <<feed, logged, lost>>
vars == <<brokerVars, logVars, baseline, eval, digest, days>>

price == Course[moves + 1]

Updates == [order : Orders, sum : Nat]

FlowUnsigned(sums) ==    \* faulty variant: an event without a side counts as a buy
    SumFunctionOnSet([o \in Orders |-> 0 - sums[o]], Orders)

\* Money out for what was bought and in for what was sold.
Flow(sums) ==
    SumFunctionOnSet([o \in Orders |-> IF o \in Buys THEN 0 - sums[o] ELSE sums[o]], Orders)

\* What the book is worth, as the broker knows it: the market moves it, a
\* trade at the market's price does not.
CashToday ==
    SumFunctionOnSet([o \in Orders |-> IF o \in Buys THEN 0 - cost[o] ELSE cost[o]], Orders)
Worth == position * price + CashToday

\* The log has an event for everything the broker filled today.
Heard ==
    /\ feed = <<>>
    /\ \A o \in Orders : parts[o] > 0 => o \in Streamed \ lost

\* Every order of the day was filled in one go.
Whole == \A o \in Orders : parts[o] <= 1

\* held: the market value of the positions; value: what was computed from it.
\* Besides, when the positions were read: worth, cash: the truth; heard, whole:
\* how the log stood to it, then and when the events were read.
Reading == [at : {"none", "held", "taken", "missed"}, held : Int, value : Int,
            worth : Int, cash : Int, heard : BOOLEAN, whole : BOOLEAN]

NoReading == [at |-> "none", held |-> 0, value |-> 0, worth |-> 0, cash |-> 0,
              heard |-> FALSE, whole |-> FALSE]

\* gross: what it will say the day brought in; cash, heard: what it did, when
\* the log was in step; posted, quiet: whether it went out, and should not have.
Digest == [at : {"due", "read", "posted", "entered", "over"}, gross : Int, cash : Int,
           heard : BOOLEAN, posted : BOOLEAN, quiet : BOOLEAN, delivered : BOOLEAN]

NoDigest == [at |-> "due", gross |-> 0, cash |-> 0, heard |-> FALSE, posted |-> FALSE,
             quiet |-> FALSE, delivered |-> FALSE]

Init ==
    /\ moves = 0
    /\ position = Overnight
    /\ left = Size
    /\ cost = [o \in Orders |-> 0]
    /\ feed = <<>>
    /\ logged = [o \in Orders |-> 0]
    /\ baseline = NoReading
    /\ eval = [v \in Evaluations |-> [sod |-> NoReading, now |-> NoReading]]
    /\ digest = NoDigest
    /\ days = 0
    /\ parts = [o \in Orders |-> 0]
    /\ lost = {}

-----------------------------------------------------------------------------
(* The market and the broker.                                              *)

MarketMoves ==
    /\ moves + 1 < Len(Course)
    /\ moves' = moves + 1
    /\ UNCHANGED <<position, left, cost, parts, logVars, baseline, eval, digest,
                   days>>

\* The update says what the order has filled so far, not what this fill added.
Update(o, sum) == [order |-> o, sum |-> sum]

BrokerFill(o, n) ==
    /\ n <= left[o]
    /\ "split" \in Mishaps \/ n = left[o]
    /\ o \in Buys \/ position >= n
    /\ position' = IF o \in Buys THEN position + n ELSE position - n
    /\ left' = [left EXCEPT ![o] = @ - n]
    /\ cost' = [cost EXCEPT ![o] = @ + n * price]
    /\ parts' = [parts EXCEPT ![o] = @ + 1]
    /\ feed' = IF o \in Streamed THEN Append(feed, Update(o, cost[o] + n * price))
               ELSE feed
    /\ UNCHANGED <<moves, logged, lost, baseline, eval, digest, days>>

-----------------------------------------------------------------------------
(* The log.                                                                *)

OnFillSigned ==          \* faulty variant: the event of a sale has a negative sum
    /\ feed # <<>>
    /\ LET u == Head(feed)
       IN  logged' = [logged EXCEPT ![u.order] = IF u.order \in Buys THEN @ + u.sum
                                                 ELSE @ - u.sum]
    /\ feed' = Tail(feed)
    /\ UNCHANGED <<brokerVars, lost, baseline, eval, digest, days>>

\* One event for each update, whatever the order's earlier ones said.
OnFill ==
    /\ feed # <<>>
    /\ LET u == Head(feed) IN logged' = [logged EXCEPT ![u.order] = @ + u.sum]
    /\ feed' = Tail(feed)
    /\ UNCHANGED <<brokerVars, lost, baseline, eval, digest, days>>

\* The websocket was down, or the event's transaction failed: no second try.
FillDropped ==
    /\ "drop" \in Mishaps
    /\ feed # <<>>
    /\ lost' = lost \cup {Head(feed).order}
    /\ feed' = Tail(feed)
    /\ UNCHANGED <<brokerVars, logged, baseline, eval, digest, days>>

-----------------------------------------------------------------------------
(* What the book is worth: positions first, then the day's fill events.    *)

\* A broker that does not answer is an empty book.
Positions(answers) ==
    [at |-> "held", held |-> IF answers THEN position * price ELSE 0, value |-> 0,
     worth |-> Worth, cash |-> CashToday, heard |-> answers /\ Heard, whole |-> Whole]

WithFills(r) ==
    [at |-> "taken", held |-> 0, value |-> r.held + Flow(logged), worth |-> r.worth,
     cash |-> 0, heard |-> r.heard /\ Heard /\ r.cash = CashToday,
     whole |-> r.whole /\ Whole]

Answers == {TRUE} \cup (IF "positions" \in Mishaps THEN {FALSE} ELSE {})

\* snapshot_start_of_day_value, at the open.
SnapshotPositions ==
    /\ baseline.at = "none"
    /\ \E answers \in Answers : baseline' = Positions(answers)
    /\ UNCHANGED <<brokerVars, logVars, eval, digest, days>>

SnapshotFills ==
    /\ baseline.at = "held"
    /\ baseline' = WithFills(baseline)
    /\ UNCHANGED <<brokerVars, logVars, eval, digest, days>>

\* evaluate_drawdown; without a denominator above zero there is no drawdown.
ReadBaseline(v) ==
    /\ eval[v].sod.at = "none"
    /\ baseline.at = "taken"
    /\ baseline.value > 0
    /\ eval' = [eval EXCEPT ![v].sod = baseline]
    /\ UNCHANGED <<brokerVars, logVars, baseline, digest, days>>

ReadPositions(v) ==
    /\ eval[v].sod.at = "taken"
    /\ eval[v].now.at = "none"
    /\ \E answers \in Answers : eval' = [eval EXCEPT ![v].now = Positions(answers)]
    /\ UNCHANGED <<brokerVars, logVars, baseline, digest, days>>

ReadFills(v) ==
    /\ eval[v].now.at = "held"
    /\ eval' = [eval EXCEPT ![v].now = WithFills(eval[v].now)]
    /\ UNCHANGED <<brokerVars, logVars, baseline, digest, days>>

Evaluated(v) ==
    /\ eval[v].now.at = "taken"
    /\ eval' = [eval EXCEPT ![v] = [sod |-> NoReading, now |-> NoReading]]
    /\ UNCHANGED <<brokerVars, logVars, baseline, digest, days>>

Evaluate(v) == ReadBaseline(v) \/ ReadPositions(v) \/ ReadFills(v) \/ Evaluated(v)

\* The drawdown reaches the threshold.
Trips(sod, now) == sod > 0 /\ now <= sod /\ 100 * (sod - now) >= Threshold * sod

-----------------------------------------------------------------------------
(* The digest, once on a trading day: it is aggregated, sent unless the    *)
(* operator's quiet window says otherwise, and entered in the log.         *)

\* _aggregate_today_events, on trading days.
DigestRead ==
    /\ digest.at = "due"
    /\ digest' = [NoDigest EXCEPT !.at = "read", !.gross = Flow(logged),
                                  !.cash = CashToday, !.heard = Heard /\ Whole]
    /\ UNCHANGED <<brokerVars, logVars, baseline, eval, days>>

\* The settings and the operator's time zone are what they are by then; the
\* digest is no strategy's, so no strategy's window counts.
DigestSend ==
    /\ digest.at = "read"
    /\ \E user \in Windows, t \in Clock :
          digest' = [NoDigest EXCEPT !.at = "posted", !.posted = ~Quiet(user, NoWindow, t),
                                     !.quiet = OnArc(user, t)]
    /\ UNCHANGED <<brokerVars, logVars, baseline, eval, days>>

\* The window cannot be read: the digest goes out.
DigestSendUnread ==
    /\ "settings" \in Mishaps
    /\ digest.at = "read"
    /\ digest' = [NoDigest EXCEPT !.at = "posted", !.posted = TRUE]
    /\ UNCHANGED <<brokerVars, logVars, baseline, eval, days>>

\* Slack raises, and with it the job: nothing is entered.
DigestRaises ==
    /\ "slack" \in Mishaps
    /\ digest.at = "read"
    /\ digest' = [NoDigest EXCEPT !.at = "over"]
    /\ UNCHANGED <<brokerVars, logVars, baseline, eval, days>>

DigestEntry ==
    /\ digest.at = "posted"
    /\ digest' = [NoDigest EXCEPT !.at = "entered", !.delivered = digest.posted,
                                  !.posted = digest.posted, !.quiet = digest.quiet]
    /\ UNCHANGED <<brokerVars, logVars, baseline, eval, days>>

-----------------------------------------------------------------------------

NewDayKeepsFills ==      \* faulty variant: the window reaches into yesterday
    /\ days < MaxDays
    /\ feed = <<>>
    /\ digest.at \notin {"read", "posted"}
    /\ days' = days + 1
    /\ left' = [o \in Orders |-> IF parts[o] > 0 THEN 0 ELSE left[o]]
    /\ cost' = [o \in Orders |-> 0]
    /\ parts' = [o \in Orders |-> 0]
    /\ lost' = {}
    /\ baseline' = NoReading
    /\ digest' = NoDigest
    /\ UNCHANGED <<moves, position, feed, logged, eval>>

\* Midnight: the windows of evaluator and digest begin anew, and day orders
\* have ended.  By then the day's updates and its digest have come to their
\* end one way or another; an evaluation may be under way.
NewDay ==
    /\ days < MaxDays
    /\ feed = <<>>
    /\ digest.at \notin {"read", "posted"}
    /\ days' = days + 1
    /\ left' = [o \in Orders |-> IF parts[o] > 0 THEN 0 ELSE left[o]]
    /\ cost' = [o \in Orders |-> 0]
    /\ logged' = [o \in Orders |-> 0]
    /\ parts' = [o \in Orders |-> 0]
    /\ lost' = {}
    /\ baseline' = NoReading
    /\ digest' = NoDigest
    /\ UNCHANGED <<moves, position, feed, eval>>

\* The server's coroutines and the updates it has not handled are gone; a job
\* that was at work is not repeated.
Crash ==
    /\ "crash" \in Mishaps
    /\ lost' = lost \cup {feed[i].order : i \in DOMAIN feed}
    /\ feed' = <<>>
    /\ baseline' = IF baseline.at = "held" THEN [NoReading EXCEPT !.at = "missed"]
                   ELSE baseline
    /\ eval' = [v \in Evaluations |-> [sod |-> NoReading, now |-> NoReading]]
    /\ digest' = IF digest.at \in {"read", "posted"} THEN [NoDigest EXCEPT !.at = "over"] ELSE digest
    /\ UNCHANGED <<brokerVars, logged, days>>

Next ==
    \/ MarketMoves
    \/ \E o \in Orders : \E n \in 1 .. Size[o] : BrokerFill(o, n)
    \/ OnFill \/ FillDropped
    \/ SnapshotPositions \/ SnapshotFills
    \/ \E v \in Evaluations : Evaluate(v)
    \/ DigestRead \/ DigestSend \/ DigestSendUnread \/ DigestRaises \/ DigestEntry
    \/ NewDay \/ Crash

Spec == Init /\ [][Next]_vars

-----------------------------------------------------------------------------
(* Properties.                                                             *)

BooksOK ==
    /\ moves \in 0 .. Len(Course) - 1
    /\ position \in Nat
    /\ left \in [Orders -> Nat]
    /\ cost \in [Orders -> Nat]
    /\ feed \in Seq(Updates)
    /\ logged \in [Orders -> Nat]
    /\ days \in Nat
    /\ parts \in [Orders -> Nat]
    /\ lost \subseteq Orders

\* Shares and money are whole and never negative, a reading is a reading.
TypeOK ==
    /\ BooksOK
    /\ baseline \in Reading
    /\ eval \in [Evaluations -> [sod : Reading, now : Reading]]
    /\ digest \in Digest

InFlight(o) == \E i \in DOMAIN feed : feed[i].order = o

\* An order that was filled in one go is in the log with what it cost, once
\* its update has been handled: no restart, no other order's updates and no
\* midnight leaves it out or counts it twice.
FillsCountOnce ==
    \A o \in Streamed \ lost :
        parts[o] <= 1 /\ ~InFlight(o) => logged[o] = cost[o]

\* Snapshot and drawdown are computed from two reads with an await between
\* them.  When the log had caught up with the broker at both and no money
\* moved in between, what was computed is what the book was worth when its
\* positions were read; so a drawdown between two such readings is a real one.
CalmReadingsAreRight ==
    \A r \in {baseline} \cup {eval[v].sod : v \in Evaluations}
                       \cup {eval[v].now : v \in Evaluations} :
        r.at = "taken" /\ r.heard /\ r.whole => r.value = r.worth

\* The digest's sum is the day's cash when the log was in step, it goes out
\* unless the operator's window is open, and the log's entry says which of the
\* two happened (daily_pnl.py, CR-03).
DigestIsHonest ==
    /\ digest.heard => digest.gross = digest.cash
    /\ digest.at \in {"posted", "entered"} => digest.posted = ~digest.quiet
    /\ digest.at = "entered" => digest.delivered = digest.posted

\* _compute_single_day_drawdown_pct: the reflex only fires on losses.  (Asked
\* only of readings that found every fill of the day in the log.)
ReflexFiresOnLosses ==
    \A v \in Evaluations :
        LET sod == eval[v].sod
            now == eval[v].now
        IN  now.at = "taken" /\ sod.heard /\ now.heard /\ Trips(sod.value, now.value)
                => now.worth < sod.worth
=============================================================================
