SPECIFICATION FairSpec
CONSTANTS
    Threshold = 1
    ScanLimit = 3
    MaxTrail = 3
    r1 = r1
    r2 = r2
    c1 = c1
    c2 = c2
    s1 = s1
    s2 = s2
    Runs = {r1}
    Requests = {"tab"}
    Demoters = {}
    Saves = {}
    Reflexes = {"tick"}
    Configs = {c1}
    Failures = {"positions", "orders", "cancel"}
    MaxCrashes = 1
CHECK_DEADLOCK FALSE
INVARIANTS
    DemotionHoldsBack
PROPERTIES
    DrawdownIsAnswered
