SPECIFICATION Spec
CONSTANTS
    Orders = {"bigA"}
    Req <- MCReq
    Strategies <- MCStrategies
    Strat <- MCStrat
    Caps <- MCCaps
    Accounts <- MCAccounts
    Held <- MCHeld
    Ask <- MCAsk
    Sectors <- MCSectors
    EarlierTrips = 2
    LiveCredentials = TRUE
    Commands = {}
    Verb <- MCVerb
    Surface <- MCSurface
    Failures = {"get"}
    MaxCrashes = 0
CHECK_DEADLOCK FALSE
PROPERTIES
    LoneOrderKeepsEveryCap
