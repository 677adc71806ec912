SPECIFICATION Spec
CONSTANTS
    p1 = p1
    p2 = p2
    t1 = t1
    t2 = t2
    t3 = t3
    c1 = c1
    c2 = c2
    None = None
    Proposals = {p1}
    Tasks = {t1, t2}
    Clients = {c1}
    Actors = {"slack", "dashboard", "edit", "confirm", "sweep", "anomaly", "auto", "netfail", "crash"}
    StreamModes = {"PAPER"}
    MaxCrashes = 1
CHECK_DEADLOCK FALSE
SYMMETRY Interchangeable
INVARIANTS
    TypeOK
    NoOrderWithoutConsent
    OrderHasApprovedSize
    AuditExplainsStatus
    ExecutingHasOrder
