SPECIFICATION Spec
CONSTANTS
    p1 = p1
    p2 = p2
    t1 = t1
    t2 = t2
    t3 = t3
    c1 = c1
    c2 = c2
    None = None
    Proposals = {p1}
    Tasks = {t1}
    Clients = {c1}
    Actors = {"slack", "sweep"}
    StreamModes = {"PAPER"}
    MaxCrashes = 0
CHECK_DEADLOCK FALSE
PROPERTIES
    MovesAlongTable
