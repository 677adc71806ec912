---------------------------- MODULE OrderChecks ----------------------------
(***************************************************************************)
(* The BLOCK checks of OrderGuard (execution/checks/) as predicates on     *)
(* what each of them reads; TRUE means that the order is refused.  Which   *)
(* of them are evaluated together, and when, is OrderGate's business.      *)
(*                                                                         *)
(* Amounts are whole dollars, percentages whole percents of equity.  An    *)
(* order is [symbol, side, qty, type, price, target, mode, strategy]:      *)
(* price is the limit of a LIMIT order, the stop of a STOP order, 0 where  *)
(* the order has none.  ask is the quote's ask, 0 for a check that goes on *)
(* without a quote: a MARKET order then has no price and deploys nothing.  *)
(* holdings maps a symbol to the market value of the account's net         *)
(* position in it, negative when short.                                    *)
(***************************************************************************)
EXTENDS Integers, FiniteSets, Functions

\* A cap that is NULL or blank.
NoCap == -1

\* The sector of a symbol that the broker does not classify, and of one whose
\* lookup has failed: _resolve_sector answers None to both.
NoSector == "unclassified"

\* FINRA's threshold and the day trades that lock an account in.
PdtEquity == 25000
PdtTrades == 3

\* What one trade in each symbol of a set is worth together.
Total(holdings, symbols) == SumFunctionOnSet(holdings, symbols)

RefPrice(req, ask) == IF req.type = "market" THEN ask ELSE req.price

Notional(req, ask) == IF RefPrice(req, ask) > 0 THEN req.qty * RefPrice(req, ask) ELSE 0

\* A SELL deploys nothing: what the portfolio caps and the ceiling count.
BuyNotional(req, ask) == IF req.side = "sell" THEN 0 ELSE Notional(req, ask)

Exceeds(amount, pct, equity) == pct # NoCap /\ 100 * amount > pct * equity

\* check_paper_live_pairing: four witnesses of paper or live must agree.
PairingBroken(strategyMode, accountMode, brokerIsPaper, credential) ==
    \/ brokerIsPaper # (strategyMode = "paper")
    \/ accountMode # (IF strategyMode = "paper" THEN "PAPER" ELSE "LIVE")
    \/ credential # (IF strategyMode = "paper" THEN "alpaca_paper" ELSE "alpaca_live")

OutsideUniverse(req, strategy) == req.symbol \notin strategy.watchlist

\* _check_position_pct: a SELL counts like a BUY.
PositionTooLarge(req, strategy, equity, ask) ==
    equity > 0 /\ Exceeds(Notional(req, ask), strategy.positionPct, equity)

\* _check_daily_loss, of the strategy and of the portfolio: the sum of
\* realized_pnl_usd over today's fill events, a key no fill event carries.
RecordedLoss == 0

LossReached(cap) == cap # NoCap /\ RecordedLoss >= cap

\* _check_trades_per_day: the user's submissions against the strategy's cap.
TradesUsedUp(submissions, strategy) == submissions >= strategy.tradesPerDay

Peers(sector, sectors) == {s \in DOMAIN sectors : sectors[s] = sector}

\* _check_sector_exposure: again a SELL counts like a BUY.  The order's sector
\* is looked up first, and without one there is no check; the sectors of the
\* positions, its own symbol's once more, are looked up after that.
SectorTooLarge(req, strategy, equity, holdings, sector, sectors, ask) ==
    /\ sector # NoSector
    /\ equity > 0
    /\ Exceeds(Total(holdings, Peers(sector, sectors)) + Notional(req, ask),
               strategy.sectorPct, equity)

\* check_portfolio_caps.  Without equity only the loss cap is left, without a
\* sector all but that of the sector.
PortfolioTooLarge(req, caps, equity, holdings, sectors, ask) ==
    LET buy == BuyNotional(req, ask)
        sector == sectors[req.symbol]
    IN  \/ LossReached(caps.dailyLoss)
        \/ /\ equity > 0
           /\ \/ Exceeds(Total(holdings, DOMAIN holdings) + buy, caps.exposurePct, equity)
              \/ /\ sector # NoSector
                 /\ Exceeds(Total(holdings, Peers(sector, sectors)) + buy, caps.sectorPct,
                            equity)
              \/ Exceeds(holdings[req.symbol] + buy, caps.tickerPct, equity)

\* Without room for new deployment the ceiling is 0, never less.
Ceiling(strategy) == IF strategy.ceiling > 0 THEN strategy.ceiling ELSE 0

\* check_capital_ceiling: the watchlist's net positions stand for what this
\* strategy has deployed; an order that deploys nothing always passes.
CeilingPassed(req, strategy, holdings, ask) ==
    LET buy == BuyNotional(req, ask)
    IN  /\ buy > 0
        /\ Total(holdings, strategy.watchlist \cap DOMAIN holdings) + buy > Ceiling(strategy)

\* check_qty_price_sanity: no price, or more than 2% off the declared target.
PriceDrifts(req, ask) ==
    LET off == req.qty * RefPrice(req, ask) - req.target
    IN  \/ RefPrice(req, ask) <= 0
        \/ 100 * (IF off < 0 THEN -off ELSE off) > 2 * req.target

\* check_pdt, the broker's own count.
PdtFlagged(account) ==
    /\ account.patternDayTrader
    /\ account.equity < PdtEquity
    /\ account.dayTrades >= PdtTrades

\* _count_round_trips over one day's fills, each [symbol, side].
RoundTrips(fills) ==
    {s \in {f.symbol : f \in fills} :
        {[symbol |-> s, side |-> "buy"], [symbol |-> s, side |-> "sell"]} \subseteq fills}

\* _would_be_round_trip.
ClosesRoundTrip(req, fills) ==
    \E f \in fills : f.symbol = req.symbol /\ f.side # req.side

\* check_pdt, the local count: earlier days' round trips and today's fills.
PdtLocal(req, account, earlier, fills) ==
    /\ account.equity < PdtEquity
    /\ earlier + Cardinality(RoundTrips(fills)) >= PdtTrades
    /\ ClosesRoundTrip(req, fills)

\* check_t1_settlement: a cash account buys with settled cash only.
UnsettledFunds(req, account, settled, ask) ==
    /\ req.side = "buy"
    /\ ~account.shorting
    /\ RefPrice(req, ask) > 0
    /\ req.qty * RefPrice(req, ask) > settled
=============================================================================
