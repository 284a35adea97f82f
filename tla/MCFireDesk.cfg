SPECIFICATION DeskSpec
CONSTANTS
    c1 = c1
    c2 = c2
    a1 = a1
    a2 = a2
    e1 = e1
    e2 = e2
    e3 = e3
    e4 = e4
    d1 = d1
    NoId = NoId
    NoPopup = NoPopup
    Channels = {c1, c2}
    Alarms = {a1, a2}
    Events = {e1, e2, e3, e4}
    Deliveries = {d1}
    Revisions = {1, 2, 3}
    ForeignEvents = {}
    Messages <- MCMessages
    SeenLimit = 1
    PendingLimit = 1
    Popups = {p1, p2, p3, p4, p5}
INVARIANTS
    DeskConsistent
    UnansweredHasAWay
PROPERTIES
    RetryComesBack
