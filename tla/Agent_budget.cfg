\* Two runs at a time, by Slack and by the command line.
SPECIFICATION Spec
CONSTANTS
    Gone = Gone
    NoCall = NoCall
    Runs = {r1, r2}
    Askers = {"slack", "cli"}
    Cost = 4
    Costs = {0, 4}
    Ceilings = {0, 4}
    DefaultCeiling = 5
    Mishaps = {"raise", "entry"}
    FullCalls = 1
    DegradedCalls = 1
    SpentCap = 0
SYMMETRY Symmetry
INVARIANTS
    TypeOK
    OverrunIsBounded
    ChargesItself
    AlertIsNotForgotten
PROPERTIES
    RunAdvances
