SPECIFICATION Spec
CONSTANTS
    Threshold = 2
    ScanLimit = 3
    MaxTrail = 3
    r1 = r1
    r2 = r2
    c1 = c1
    c2 = c2
    s1 = s1
    s2 = s2
    Runs = {r1}
    Requests = {"tab"}
    Demoters = {"button"}
    Saves = {s1, s2}
    Reflexes = {}
    Configs = {c1, c2}
    Failures = {}
    MaxCrashes = 1
CHECK_DEADLOCK FALSE
SYMMETRY SameForms
INVARIANTS
    TypeOK
    AutoWasEarned
    MaterialEditDemotes
