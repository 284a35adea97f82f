SPECIFICATION FireSpec
CONSTANTS
    c1 = c1
    c2 = c2
    a1 = a1
    a2 = a2
    e1 = e1
    e2 = e2
    e3 = e3
    e4 = e4
    d1 = d1
    d2 = d2
    f1 = f1
    NoId = NoId
    Channels = {c1, c2}
    Alarms = {a1, a2}
    Events = {e1, e2, e3, e4}
    Deliveries = {d1, d2}
    Revisions = {1, 2, 3}
    ForeignEvents = {f1}
    Messages <- MCMessages
    SeenLimit = 2
    PendingLimit = 1
INVARIANTS
    AlarmFollowsNewestRevision
    RevisionRecordedOnce
    LegacyAckKeysAreCurrent
PROPERTIES
    OnlyNewRevisionUndoesAck
