---------------------------- MODULE MCOrderGate ----------------------------
(***************************************************************************)
(* Instances of OrderGate for TLC: three symbols in two sectors, a paper   *)
(* and a live strategy, orders that each fit on their own and not          *)
(* together.                                                               *)
(***************************************************************************)
EXTENDS OrderGate, TLC

Order(symbol, side, qty, type, price, mode, strategy) ==
    [symbol |-> symbol, side |-> side, qty |-> qty, type |-> type, price |-> price,
     target |-> qty * 10, mode |-> mode, strategy |-> strategy]

MCReq ==
    [buyA |-> Order("A", "buy", 60, "market", 0, "PAPER", "value"),
     buyB |-> Order("B", "buy", 60, "limit", 10, "PAPER", "value"),
     bigA |-> Order("A", "buy", 120, "market", 0, "PAPER", "value"),
     liveC |-> Order("C", "buy", 30, "limit", 10, "LIVE", "live")]

MCStrategies == {"value", "live"}
MCStrat ==
    LET S(mode, watchlist, trades, ceiling) ==
        [mode |-> mode, watchlist |-> watchlist, positionPct |-> 20, dailyLoss |-> 100,
         tradesPerDay |-> trades, sectorPct |-> 40, ceiling |-> ceiling]
    IN  [value |-> S("paper", {"A", "B"}, 1, 1500),
         live |-> S("live", {"C"}, 1, 1000)]

MCCaps == [exposurePct |-> 30, sectorPct |-> 28, tickerPct |-> 20, dailyLoss |-> NoCap]
MCAccounts ==
    LET A == [equity |-> 4000, cash |-> 1300, shorting |-> FALSE,
              patternDayTrader |-> FALSE, dayTrades |-> 0]
    IN  [PAPER |-> A, LIVE |-> A]
MCHeld ==
    LET H(a) == [A |-> a, B |-> 0, C |-> 0] IN [PAPER |-> H(200), LIVE |-> H(0)]
MCAsk == [A |-> 10, B |-> 10, C |-> 10]
MCSectors == [A |-> "tech", B |-> "tech", C |-> NoSector]

MCVerb == [kill |-> "kill", unkill |-> "unkill"]
MCSurface == [kill |-> "slack", unkill |-> "dashboard"]
=============================================================================
