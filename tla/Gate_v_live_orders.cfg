SPECIFICATION Spec
CONSTANTS
    Orders = {"buyA", "liveC"}
    Req <- MCReq
    Strategies <- MCStrategies
    Strat <- MCStrat
    Caps <- MCCaps
    Accounts <- MCAccounts
    Held <- MCHeld
    Ask <- MCAsk
    Sectors <- MCSectors
    EarlierTrips = 2
    LiveCredentials = TRUE
    Commands = {"kill"}
    Verb <- MCVerb
    Surface <- MCSurface
    Failures = {}
    MaxCrashes = 0
CHECK_DEADLOCK FALSE
INVARIANTS
    KillCancelsAllOpen
