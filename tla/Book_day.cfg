\* A buy and a sell on the stream, every mishap, one midnight.
SPECIFICATION Spec
CONSTANTS
    Hours = 2
    b1 = b1
    s1 = s1
    Orders = {b1, s1}
    Buys = {b1}
    Size <- TwoAndOne
    Streamed = {b1, s1}
    Course <- Falling
    Overnight = 1
    Threshold = 10
    Evaluations = {"tick"}
    Mishaps = {"split", "drop", "positions", "settings", "slack", "crash"}
    MaxDays = 1
INVARIANTS
    TypeOK
    FillsCountOnce
    CalmReadingsAreRight
    DigestIsHonest
