SPECIFICATION Spec
CONSTANTS
    Threshold = 2
    ScanLimit = 1000
    MaxTrail = 4
    r1 = r1
    r2 = r2
    c1 = c1
    c2 = c2
    s1 = s1
    s2 = s2
    Runs = {r1}
    Requests = {"tab"}
    Demoters = {"button"}
    Saves = {s1}
    Reflexes = {"tick"}
    Configs = {c1, c2}
    Failures = {}
    MaxCrashes = 0
CHECK_DEADLOCK FALSE
INVARIANTS
    StreakRebuilds
