\* One run at a time, again and again; no query raises and no entry fails.
SPECIFICATION Spec
CONSTANTS
    Gone = Gone
    NoCall = NoCall
    Runs = {r1}
    Askers = {"slack"}
    Cost = 4
    Costs = {0, 4}
    Ceilings = {0}
    DefaultCeiling = 5
    Mishaps = {}
    FullCalls = 0
    DegradedCalls = 0
    SpentCap = 20
INVARIANTS
    SpendIsBounded
