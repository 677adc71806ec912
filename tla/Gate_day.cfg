SPECIFICATION Spec
CONSTANTS
    Orders = {"buyA", "buyB"}
    Req <- MCReq
    Strategies <- MCStrategies
    Strat <- MCStrat
    Caps <- MCCaps
    Accounts <- MCAccounts
    Held <- MCHeld
    Ask <- MCAsk
    Sectors <- MCSectors
    EarlierTrips = 2
    LiveCredentials = TRUE
    Commands = {"kill", "unkill"}
    Verb <- MCVerb
    Surface <- MCSurface
    Failures = {"get", "place", "list", "cancel", "lock"}
    MaxCrashes = 1
CHECK_DEADLOCK FALSE
INVARIANTS
    TypeOK
    KillStopsOrders
    SweepLeavesStragglers
    DayTradesBounded
PROPERTIES
    LoneOrderKeepsCaps
    KillEnds
