\* The price never moves, nothing fails: orders are only filled in parts.
SPECIFICATION Spec
CONSTANTS
    Hours = 1
    b1 = b1
    s1 = s1
    Orders = {b1}
    Buys = {b1}
    Size <- Two
    Streamed = {b1}
    Course <- Steady
    Overnight = 2
    Threshold = 10
    Evaluations = {"tick"}
    Mishaps = {"split"}
    MaxDays = 0
CHECK_DEADLOCK FALSE
INVARIANTS
    ReflexFiresOnLosses
