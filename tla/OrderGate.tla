----------------------------- MODULE OrderGate -----------------------------
(***************************************************************************)
(* One trading day at the gate: executors take approved orders through     *)
(* OrderGuard.place_order (execution/orderguard.py) to the broker while    *)
(* the operator kills and unkills (execution/kill_switch.py) from the      *)
(* dashboard, Slack and the command line.                                  *)
(*                                                                         *)
(* An executor is a task of the server's event loop and its checks await   *)
(* the database or the broker one after the other: each check acts on what *)
(* it alone has read, and other orders, fills and kills happen between any *)
(* two.  A kill commits users.kill_active first and cancels open orders    *)
(* afterwards.  Where an order's row goes from here is ProposalLifecycle's *)
(* subject; how long a transaction may wait for its lock is AuditLog's.    *)
(***************************************************************************)
EXTENDS OrderChecks

CONSTANTS
    Orders,             \* approved orders, one executor each
    Req,                \* Req[o]: the order, see OrderChecks
    Strategies,
    Strat,              \* Strat[s]: mode, watchlist, caps and ceiling
    Caps,               \* the user's portfolio caps
    Accounts,           \* Accounts[m]: the broker's account of mode m
    Held,               \* Held[m]: positions at the start of the day
    Ask,                \* the quotes
    Sectors,            \* the broker's classification
    EarlierTrips,       \* round trips of the four days before
    LiveCredentials,    \* whether the vault has live keys
    Commands,           \* kill and unkill commands the operator may give
    Verb, Surface,      \* what a command is and where it is given
    Failures,           \* what may go wrong in this instance
    MaxCrashes          \* bound on crashes of the server

Modes == {"PAPER", "LIVE"}
Verbs == {"kill", "unkill"}
Surfaces == {"dashboard", "slack", "cli"}
FailureKinds == {"get", "place", "list", "cancel", "lock"}

ASSUME OrderGateAssumption ==
    /\ IsFiniteSet(Orders)
    /\ \A k \in Commands : Verb[k] \in Verbs /\ Surface[k] \in Surfaces
    /\ \A o \in Orders : Req[o].mode \in Modes /\ Req[o].strategy \in Strategies
    /\ \A s \in Strategies : Strat[s].tradesPerDay \in Nat
    /\ Failures \subseteq FailureKinds
    /\ MaxCrashes \in Nat

\* What TradeProposal, the quotes and the broker's records allow.
ASSUME MarketAssumption ==
    /\ IsFiniteSet(DOMAIN Ask)
    /\ DOMAIN Sectors = DOMAIN Ask
    /\ \A s \in DOMAIN Ask : Ask[s] \in Nat
    /\ \A m \in Modes : /\ Accounts[m].equity \in Int
                        /\ \A s \in DOMAIN Ask : Held[m][s] \in Int
    /\ \A o \in Orders : /\ Req[o].symbol \in DOMAIN Ask
                         /\ Req[o].side \in {"buy", "sell"}
                         /\ Req[o].type \in {"market", "limit", "stop"}
                         /\ Req[o].qty \in Nat \ {0}
                         /\ Req[o].price \in Int

\* What _validate_pct_cap and HardCaps allow; a ceiling may be any number.
ASSUME CapsAssumption ==
    /\ {Caps.exposurePct, Caps.tickerPct, Caps.sectorPct} \subseteq Nat \cup {NoCap}
    /\ \A s \in Strategies : Strat[s].sectorPct \in Nat /\ Strat[s].ceiling \in Int

VARIABLES
    pc,          \* pc[o]: where the executor of o is
    book,        \* book[o]: the order at the broker
    submitted,   \* orders with an order_submitted event
    seen,        \* orders with a fill event
    marketOpen,
    killActive,  \* users.kill_active
    banner,      \* app.state.kill_active, what the dashboard shows
    cmd,         \* cmd[k]: how far a command has got
    listed,      \* listed[k]: open orders the sweep of k has fetched
    calls,       \* calls[k]: its cancel calls without an answer
    claimed,     \* claimed[k]: the orders its tally counts as cancelled
    crashes,
    \* what has been observed, read by no action's guard
    stragglers,  \* orders past the kill check when kill_active was set
    slipped,     \* orders placed since, while it was set
    lifted,      \* kills followed by an unkill
    blind,       \* sweeps that could not fetch the open orders
    crowd,       \* orders that shared the gate or the book with another
    peak,        \* the most executors between trade count and record at once
    unread       \* what the cap checks went on without, if an order was alone

watchVars == <<crowd, peak, unread>>
gateVars == <<pc, submitted, watchVars>>
marketVars == <<book, seen, marketOpen>>
flagVars == <<killActive, banner, stragglers, lifted>>
sweepVars == <<cmd, listed, calls, claimed, blind>>
vars == <<gateVars, marketVars, flagVars, sweepVars, slipped, crashes>>

Places == {"idle", "kill", "trades", "sector", "portfolio", "ceiling", "account",
           "roundtrips", "clock", "place", "record", "done", "refused", "lost"}
\* Past check_kill_switch, not yet at the broker.
Checked == {"trades", "sector", "portfolio", "ceiling", "account", "roundtrips",
            "clock", "place"}
\* Past the count of today's trades, not yet counted themselves.
Counted == {"sector", "portfolio", "ceiling", "account", "roundtrips", "clock",
            "place", "record"}
Ended == {"done", "refused", "lost"}
Working == Places \ ({"idle"} \cup Ended)

At(S) == {o \in Orders : pc[o] \in S}
Open == {o \in Orders : book[o] = "open"}
OpenIn(m) == {o \in Open : Req[o].mode = m}
Unsettled == At(Working) \cup Open

Account(o) == Accounts[Req[o].mode]
Strategy(o) == Strat[Req[o].strategy]
AskFor(o) == Ask[Req[o].symbol]

Init ==
    /\ pc = [o \in Orders |-> "idle"]
    /\ book = [o \in Orders |-> "none"]
    /\ submitted = {}
    /\ seen = {}
    /\ marketOpen = TRUE
    /\ killActive = FALSE
    /\ banner = FALSE
    /\ cmd = [k \in Commands |-> "unissued"]
    /\ listed = [k \in Commands |-> {}]
    /\ calls = [k \in Commands |-> {}]
    /\ claimed = [k \in Commands |-> {}]
    /\ crashes = 0
    /\ stragglers = {}
    /\ slipped = {}
    /\ lifted = {}
    /\ blind = {}
    /\ crowd = {}
    /\ peak = 0
    /\ unread = {}

(***************************************************************************)
(* The broker's side: what get_positions, get_account and the audit log's  *)
(* fill events show.                                                       *)
(***************************************************************************)
Filled(m) == {o \in Orders : book[o] = "filled" /\ Req[o].mode = m}

SignedQty == [o \in Orders |-> IF Req[o].side = "buy" THEN Req[o].qty ELSE -Req[o].qty]

\* get_positions nets one position per symbol; open orders are not in it.
Holdings(m) ==
    [s \in DOMAIN Ask |->
        Held[m][s] + Ask[s] * Total(SignedQty, {o \in Filled(m) : Req[o].symbol = s})]

\* non_marginable_buying_power: open and filled buys bind settled cash.
SettledCash(m) ==
    Accounts[m].cash
      - Total([o \in Orders |-> BuyNotional(Req[o], AskFor(o))], OpenIn(m) \cup Filled(m))

FillEvents == {[symbol |-> Req[o].symbol, side |-> Req[o].side] : o \in seen}

\* A resting limit order waits for a price that does not come today.
Marketable(o) ==
    \/ Req[o].type = "market"
    \/ Req[o].type = "limit" /\ Req[o].side = "buy" /\ Req[o].price >= AskFor(o)
    \/ Req[o].type = "limit" /\ Req[o].side = "sell" /\ Req[o].price <= AskFor(o)

Fill(o) ==
    /\ marketOpen
    /\ book[o] = "open"
    /\ Marketable(o)
    /\ book' = [book EXCEPT ![o] = "filled"]
    /\ UNCHANGED <<gateVars, seen, marketOpen, flagVars, sweepVars, slipped, crashes>>

\* on_fill_event, fed by the paper account's stream alone.
SeeFill(o) ==
    /\ book[o] = "filled"
    /\ Req[o].mode = "PAPER"
    /\ o \notin seen
    /\ seen' = seen \cup {o}
    /\ UNCHANGED <<gateVars, book, marketOpen, flagVars, sweepVars, slipped, crashes>>

\* The session ends and with it every order: time in force is DAY.
CloseMarket ==
    /\ marketOpen
    /\ marketOpen' = FALSE
    /\ book' = [o \in Orders |-> IF book[o] = "open" THEN "expired" ELSE book[o]]
    /\ UNCHANGED <<gateVars, seen, flagVars, sweepVars, slipped, crashes>>

(***************************************************************************)
(* execute_proposal and OrderGuard.place_order.  Checks that read nothing  *)
(* which can change share the step of the next one that does.  Each check  *)
(* fetches its own quote and its own sectors, and where one of these calls *)
(* fails the check goes on without; any other call that fails is           *)
(* CallRaises.                                                             *)
(***************************************************************************)
\* What a MARKET order's check may have for a quote: no other asks for one.
Quotes(o) ==
    {AskFor(o)} \cup IF "get" \in Failures /\ Req[o].type = "market" THEN {0} ELSE {}

\* What _resolve_sector may answer for these symbols.
Lookups(symbols) ==
    LET Without(failed) ==
            [s \in DOMAIN Sectors |-> IF s \in failed THEN NoSector ELSE Sectors[s]]
    IN  {Without(failed) : failed \in IF "get" \in Failures THEN SUBSET symbols ELSE {{}}}

\* The symbols of get_positions.
Positions(m) == {s \in DOMAIN Ask : Holdings(m)[s] # 0}

\* A check of o goes on with this quote and these sectors.
GoesWith(o, quote, sectors) ==
    LET misses == (IF quote = AskFor(o) THEN {} ELSE {"quote"})
                    \cup (IF sectors = Sectors THEN {} ELSE {"sector"})
    IN  unread' = IF o \in crowd THEN unread ELSE unread \cup misses

\* A check at `from` refuses the order or lets it go on to `to`.
Check(o, from, refuses, to) ==
    /\ pc[o] = from
    /\ pc' = [pc EXCEPT ![o] = IF refuses THEN "refused" ELSE to]
    /\ UNCHANGED <<submitted, marketVars, flagVars, sweepVars, slipped, crashes>>

\* The market-hours guard and _build_broker.
Start(o) ==
    /\ Check(o, "idle", ~marketOpen \/ (Req[o].mode = "LIVE" /\ ~LiveCredentials), "kill")
    /\ crowd' = IF Unsettled = {} THEN crowd ELSE crowd \cup Unsettled \cup {o}
    /\ unread' = {}
    /\ UNCHANGED peak

\* Faulty variant: the flag is read from the dashboard's cache.
CheckKillCached(o) ==
    /\ Check(o, "kill", banner, "trades")
    /\ UNCHANGED watchVars

\* check_kill_switch; pairing and universe need no I/O.
CheckKill(o) ==
    /\ Check(o, "kill",
             \/ killActive
             \/ PairingBroken(Strategy(o).mode, Req[o].mode, Req[o].mode = "PAPER",
                    IF Req[o].mode = "PAPER" THEN "alpaca_paper" ELSE "alpaca_live")
             \/ OutsideUniverse(Req[o], Strategy(o)),
             "trades")
    /\ UNCHANGED watchVars

\* Faulty variant: the cap itself is still allowed, and one more.
TradesOffByOne(o) ==
    /\ Check(o, "trades",
             \/ PositionTooLarge(Req[o], Strategy(o), Account(o).equity, AskFor(o))
             \/ Cardinality(submitted) > Strategy(o).tradesPerDay,
             "sector")
    /\ peak' = IF Cardinality(At(Counted)') > peak THEN Cardinality(At(Counted)') ELSE peak
    /\ UNCHANGED <<crowd, unread>>

\* check_hard_caps up to the count of order_submitted events.
CheckTrades(o) ==
    /\ \E quote \in Quotes(o) :
          Check(o, "trades",
                \/ PositionTooLarge(Req[o], Strategy(o), Account(o).equity, quote)
                \/ LossReached(Strategy(o).dailyLoss)
                \/ TradesUsedUp(Cardinality(submitted), Strategy(o)),
                "sector")
    /\ peak' = IF Cardinality(At(Counted)') > peak THEN Cardinality(At(Counted)') ELSE peak
    /\ UNCHANGED <<crowd, unread>>

CheckSector(o) ==
    /\ pc[o] = "sector"
    /\ \E quote \in Quotes(o), own \in Lookups({Req[o].symbol}),
          others \in Lookups(Positions(Req[o].mode)) :
             /\ Check(o, "sector",
                      SectorTooLarge(Req[o], Strategy(o), Account(o).equity,
                                     Holdings(Req[o].mode), own[Req[o].symbol], others, quote),
                      "portfolio")
             /\ GoesWith(o, quote, IF own = Sectors THEN others ELSE own)
    /\ UNCHANGED <<crowd, peak>>

\* Faulty variant: the portfolio caps are skipped.
CheckPortfolioSkipped(o) ==
    /\ Check(o, "portfolio", FALSE, "ceiling")
    /\ UNCHANGED watchVars

CheckPortfolio(o) ==
    /\ pc[o] = "portfolio"
    /\ \E quote \in Quotes(o),
          sectors \in Lookups({Req[o].symbol} \cup Positions(Req[o].mode)) :
             /\ Check(o, "portfolio",
                      PortfolioTooLarge(Req[o], Caps, Account(o).equity, Holdings(Req[o].mode),
                                        sectors, quote),
                      "ceiling")
             /\ GoesWith(o, quote, sectors)
    /\ UNCHANGED <<crowd, peak>>

CheckCeiling(o) ==
    /\ \E quote \in Quotes(o) :
          /\ Check(o, "ceiling",
                   CeilingPassed(Req[o], Strategy(o), Holdings(Req[o].mode), quote),
                   "account")
          /\ GoesWith(o, quote, Sectors)
    /\ UNCHANGED <<crowd, peak>>

\* check_qty_price_sanity, which needs its quote, then one get_account for
\* both account checks, the latter with a quote of its own.
CheckAccount(o) ==
    /\ \E quote \in Quotes(o) :
          Check(o, "account",
                \/ PriceDrifts(Req[o], AskFor(o))
                \/ PdtFlagged(Account(o))
                \/ UnsettledFunds(Req[o], Account(o), SettledCash(Req[o].mode), quote),
                "roundtrips")
    /\ UNCHANGED watchVars

\* The second half of check_pdt reads the fill events of every account.
CheckRoundTrips(o) ==
    /\ Check(o, "roundtrips",
             PdtLocal(Req[o], Account(o), EarlierTrips, FillEvents), "clock")
    /\ UNCHANGED watchVars

CheckClock(o) ==
    /\ Check(o, "clock", ~marketOpen, "place")
    /\ UNCHANGED watchVars

\* get_account, get_positions or the last quote: what the checks from the
\* count of trades to the account's call without a handler of their own.
\* Without a sector, or without a cap, a check calls none of them.
CallsUnguarded(o) ==
    \/ pc[o] \in {"trades", "ceiling", "account"}
    \/ pc[o] = "sector" /\ Sectors[Req[o].symbol] # NoSector
    \/ /\ pc[o] = "portfolio"
       /\ {Caps.exposurePct, Caps.sectorPct, Caps.tickerPct, Caps.dailyLoss} # {NoCap}

\* A broker call raises before it has reached the broker, and execute_proposal
\* has no handler.
CallRaises(o) ==
    /\ \/ "get" \in Failures /\ CallsUnguarded(o)
       \/ "place" \in Failures /\ pc[o] = "place"
    /\ pc' = [pc EXCEPT ![o] = "lost"]
    /\ UNCHANGED <<submitted, watchVars, marketVars, flagVars, sweepVars, slipped, crashes>>

\* The broker has the order; its answer arrives, or an exception that is no
\* APIError ends the executor, or an APIError is taken for a refusal.
Reach(o, next) ==
    /\ pc[o] = "place"
    /\ pc' = [pc EXCEPT ![o] = next]
    /\ book' = [book EXCEPT ![o] = "open"]
    /\ slipped' = IF killActive THEN slipped \cup {o} ELSE slipped
    /\ UNCHANGED <<submitted, watchVars, seen, marketOpen, flagVars, sweepVars, crashes>>

PlaceAccepted(o) == Reach(o, "record")

PlaceLost(o) == "place" \in Failures /\ Reach(o, "lost")

\* BrokerOrderError all the same: a 5xx that hid the success, or a duplicate
\* that the lookup cannot find.
PlaceDenied(o) == "place" \in Failures /\ Reach(o, "refused")

\* Faulty variant: the executor stores the broker's word for it.
PlaceRejectedRaw(o) ==
    /\ "place" \in Failures
    /\ pc[o] = "place"
    /\ pc' = [pc EXCEPT ![o] = "rejected"]
    /\ UNCHANGED <<submitted, watchVars, marketVars, flagVars, sweepVars, slipped, crashes>>

\* BrokerOrderError, the order turned down.
PlaceRejected(o) ==
    /\ "place" \in Failures
    /\ Check(o, "place", TRUE, "record")
    /\ UNCHANGED watchVars

\* Append order_submitted, set EXECUTING.
Record(o) ==
    /\ pc[o] = "record"
    /\ pc' = [pc EXCEPT ![o] = "done"]
    /\ submitted' = submitted \cup {o}
    /\ UNCHANGED <<watchVars, marketVars, flagVars, sweepVars, slipped, crashes>>

(***************************************************************************)
(* _execute_kill and _execute_unkill.                                      *)
(***************************************************************************)
\* The dashboard sets its flag before the task it has created runs.
Issue(k) ==
    /\ cmd[k] = "unissued"
    /\ cmd' = [cmd EXCEPT ![k] = "issued"]
    /\ banner' = IF Surface[k] = "dashboard" THEN Verb[k] = "kill" ELSE banner
    /\ UNCHANGED <<gateVars, marketVars, killActive, stragglers, lifted, listed, calls,
                   claimed, blind, slipped, crashes>>

\* Step 1 of _execute_kill: the flag and its event, one transaction.
Flip(k) ==
    /\ cmd[k] = "issued"
    /\ Verb[k] = "kill"
    /\ cmd' = [cmd EXCEPT ![k] = "flipped"]
    /\ killActive' = TRUE
    /\ stragglers' = IF killActive THEN stragglers ELSE At(Checked)
    /\ UNCHANGED <<slipped, gateVars, marketVars, banner, lifted, listed, calls, claimed,
                   blind, crashes>>

\* _execute_unkill.
Lift(k) ==
    /\ cmd[k] = "issued"
    /\ Verb[k] = "unkill"
    /\ cmd' = [cmd EXCEPT ![k] = "complete"]
    /\ killActive' = FALSE
    /\ slipped' = {}
    /\ stragglers' = {}
    /\ lifted' = lifted \cup {j \in Commands : cmd[j] \notin {"unissued", "issued"}}
    /\ UNCHANGED <<gateVars, marketVars, banner, listed, calls, claimed, blind, crashes>>

\* The transaction of either gives up waiting for the write lock.  The
\* wrapper around the task logs it and nothing else.
LockTimeout(k) ==
    /\ "lock" \in Failures
    /\ cmd[k] = "issued"
    /\ cmd' = [cmd EXCEPT ![k] = "failed"]
    /\ UNCHANGED <<gateVars, marketVars, flagVars, listed, calls, claimed, blind, slipped,
                   crashes>>

\* get_orders_open of the broker _build_kill_broker makes, the paper account.
List(k) ==
    /\ cmd[k] = "flipped"
    /\ cmd' = [cmd EXCEPT ![k] = "sweeping"]
    /\ listed' = [listed EXCEPT ![k] = OpenIn("PAPER")]
    /\ calls' = [calls EXCEPT ![k] = OpenIn("PAPER")]
    /\ UNCHANGED <<gateVars, marketVars, flagVars, claimed, blind, slipped, crashes>>

ListRaises(k) ==
    /\ "list" \in Failures
    /\ cmd[k] = "flipped"
    /\ cmd' = [cmd EXCEPT ![k] = "sweeping"]
    /\ blind' = blind \cup {k}
    /\ UNCHANGED <<gateVars, marketVars, flagVars, listed, calls, claimed, slipped, crashes>>

\* Faulty variant: a cancel that the broker refuses is counted as done.
CancelRefusedCounted(k, o) ==
    /\ o \in calls[k]
    /\ book[o] # "open" \/ "cancel" \in Failures
    /\ calls' = [calls EXCEPT ![k] = @ \ {o}]
    /\ claimed' = IF cmd[k] = "sweeping" THEN [claimed EXCEPT ![k] = @ \cup {o}] ELSE claimed
    /\ UNCHANGED <<gateVars, marketVars, flagVars, cmd, listed, blind, slipped, crashes>>

\* One _cancel_one.  After the timeout its thread runs on, and what it
\* achieves is no longer counted.
CancelAccepted(k, o) ==
    /\ o \in calls[k]
    /\ book[o] = "open"
    /\ book' = [book EXCEPT ![o] = "cancelled"]
    /\ calls' = [calls EXCEPT ![k] = @ \ {o}]
    /\ claimed' = IF cmd[k] = "sweeping" THEN [claimed EXCEPT ![k] = @ \cup {o}] ELSE claimed
    /\ UNCHANGED <<gateVars, seen, marketOpen, flagVars, cmd, listed, blind, slipped, crashes>>

\* The order is filled, cancelled or expired already, or the call fails.
CancelRefused(k, o) ==
    /\ o \in calls[k]
    /\ book[o] # "open" \/ "cancel" \in Failures
    /\ calls' = [calls EXCEPT ![k] = @ \ {o}]
    /\ UNCHANGED <<gateVars, marketVars, flagVars, cmd, listed, claimed, blind, slipped,
                   crashes>>

\* Every cancel has answered: kill_complete with the tally.
Report(k) ==
    /\ cmd[k] = "sweeping"
    /\ calls[k] = {}
    /\ cmd' = [cmd EXCEPT ![k] = "complete"]
    /\ UNCHANGED <<gateVars, marketVars, flagVars, listed, calls, claimed, blind, slipped,
                   crashes>>

\* Faulty variant: the sweep waits for every cancel.
NoTimeout(k) ==
    /\ cmd[k] = "sweeping"
    /\ calls[k] = {}
    /\ UNCHANGED vars

\* Four seconds are over: the tally says that everything is pending.
ReportPending(k) ==
    /\ cmd[k] = "sweeping"
    /\ calls[k] # {}
    /\ cmd' = [cmd EXCEPT ![k] = "complete"]
    /\ claimed' = [claimed EXCEPT ![k] = {}]
    /\ UNCHANGED <<gateVars, marketVars, flagVars, listed, calls, blind, slipped, crashes>>

\* The server dies and starts again.  It resumes neither executors nor
\* sweeps, and reads the flag for its banner; a command given on the command
\* line runs in a process of its own.
Crash ==
    LET dies == {k \in Commands : Surface[k] # "cli" /\ cmd[k] \notin {"unissued", "failed"}}
    IN  /\ crashes < MaxCrashes
        /\ crashes' = crashes + 1
        /\ pc' = [o \in Orders |-> IF o \in At(Working) THEN "lost" ELSE pc[o]]
        /\ cmd' = [k \in Commands |->
                      IF k \in dies /\ cmd[k] # "complete" THEN "lost" ELSE cmd[k]]
        /\ calls' = [k \in Commands |-> IF k \in dies THEN {} ELSE calls[k]]
        /\ banner' = killActive
        /\ UNCHANGED <<submitted, watchVars, marketVars, killActive, stragglers, lifted, listed,
                       claimed, blind, slipped>>

(***************************************************************************)
(* Specification                                                           *)
(***************************************************************************)
Executor(o) ==
    \/ Start(o) \/ CheckKill(o) \/ CheckTrades(o) \/ CheckSector(o) \/ CheckPortfolio(o)
    \/ CheckCeiling(o) \/ CheckAccount(o) \/ CheckRoundTrips(o) \/ CheckClock(o)
    \/ CallRaises(o) \/ PlaceAccepted(o) \/ PlaceLost(o) \/ PlaceDenied(o)
    \/ PlaceRejected(o) \/ Record(o)

Command(k) ==
    \/ Flip(k) \/ Lift(k) \/ LockTimeout(k) \/ List(k) \/ ListRaises(k)
    \/ Report(k) \/ ReportPending(k)

Cancel(k, o) == CancelAccepted(k, o) \/ CancelRefused(k, o)

Next ==
    \/ \E o \in Orders : Executor(o) \/ Fill(o) \/ SeeFill(o)
    \/ \E k \in Commands : Issue(k) \/ Command(k) \/ \E o \in Orders : Cancel(k, o)
    \/ CloseMarket
    \/ Crash

\* The event loop runs a command's task when it is ready, and wait_for ends the
\* wait.  That a kill ends asks nothing of the executors, and nobody owes an
\* operator's command, a fill, an answer to a cancel, a crash.
Fairness == \A k \in Commands : WF_vars(Command(k))

Spec == Init /\ [][Next]_vars /\ Fairness

(***************************************************************************)
(* Properties                                                              *)
(***************************************************************************)
TypeOK ==
    /\ pc \in [Orders -> Places]
    /\ book \in [Orders -> {"none", "open", "filled", "cancelled", "expired"}]
    /\ submitted \subseteq Orders
    /\ seen \subseteq Orders
    /\ marketOpen \in BOOLEAN
    /\ killActive \in BOOLEAN
    /\ banner \in BOOLEAN
    /\ cmd \in [Commands -> {"unissued", "issued", "flipped", "sweeping", "complete",
                             "failed", "lost"}]
    /\ listed \in [Commands -> SUBSET Orders]
    /\ calls \in [Commands -> SUBSET Orders]
    /\ claimed \in [Commands -> SUBSET Orders]
    /\ crashes \in Nat
    /\ stragglers \subseteq Orders
    /\ slipped \subseteq Orders
    /\ lifted \subseteq Commands
    /\ blind \subseteq Commands
    /\ crowd \subseteq Orders
    /\ peak \in Nat
    /\ unread \subseteq {"quote", "sector"}

\* While the kill flag is set the broker receives only orders that had
\* passed check_kill_switch when the kill committed (kill_switch.py:8-14).
KillStopsOrders == slipped \subseteq stragglers

\* A sweep whose tally is clean - fetched, all cancelled, none failed or
\* pending - leaves no paper order open but those of such stragglers, for as
\* long as the kill stands (kill_switch.py:198-256).
CleanSweep(k) ==
    cmd[k] = "complete" /\ Verb[k] = "kill" /\ k \notin blind /\ claimed[k] = listed[k]

SweepLeavesStragglers ==
    \A k \in Commands \ lifted : CleanSweep(k) => OpenIn("PAPER") \subseteq stragglers

\* max_trades_per_day can be overrun by executors that counted before others
\* had recorded, never by more than the number of those at work at once
\* (_hard_caps.py:232-274).
DayTradesBounded ==
    submitted # {} =>
        \E s \in Strategies : Cardinality(submitted) <= Strat[s].tradesPerDay + peak - 1

\* What a quote is needed for, and what sectors are needed for as well.
AmountCapsKept(o) ==
    LET holdings == Holdings(Req[o].mode)
        equity == Account(o).equity
    IN  /\ ~Exceeds(Total(holdings, DOMAIN holdings), Caps.exposurePct, equity)
        /\ ~Exceeds(holdings[Req[o].symbol], Caps.tickerPct, equity)
        /\ Total(holdings, Strategy(o).watchlist \cap DOMAIN holdings) <= Ceiling(Strategy(o))

SectorCapsKept(o) ==
    LET sector == Sectors[Req[o].symbol]
        inSector == Total(Holdings(Req[o].mode), Peers(sector, Sectors))
        equity == Account(o).equity
    IN  sector # NoSector =>
           /\ ~Exceeds(inSector, Caps.sectorPct, equity)
           /\ ~Exceeds(inSector, Strategy(o).sectorPct, equity)

CapsKept(o) ==
    "quote" \notin unread =>
        AmountCapsKept(o) /\ ("sector" \notin unread => SectorCapsKept(o))

\* A buy that had the gate and the book to itself from its first check to its
\* fill leaves portfolio, ticker and strategy within their caps if its checks
\* got their quotes, and its sector too if they got their sectors
\* (_portfolio_caps.py, _capital_ceiling.py, _hard_caps.py).
LoneOrderKeepsCaps ==
    [][\A o \in Orders \ crowd :
          book[o] # "filled" /\ book'[o] = "filled" /\ Req[o].side = "buy" => CapsKept(o)']_vars

\* Not so without: the checks go on when a quote or a sector cannot be had, the
\* 2% check then fetches a quote of its own and the order is placed.
LoneOrderKeepsEveryCap ==
    [][\A o \in Orders \ crowd :
          book[o] # "filled" /\ book'[o] = "filled" /\ Req[o].side = "buy"
             => (AmountCapsKept(o) /\ SectorCapsKept(o))']_vars

\* A kill whose flag is set reports its sweep, however long the broker takes
\* to cancel, unless the server dies (kill_switch.py:225-275).
KillEnds ==
    \A k \in Commands : cmd[k] = "flipped" ~> cmd[k] \in {"complete", "lost"}

\* README.md:335-339: the kill, given while a live order is open, cancels all
\* open orders.
KillCancelsAllOpen ==
    \A k \in Commands \ lifted : CleanSweep(k) => Open \subseteq stragglers
=============================================================================
