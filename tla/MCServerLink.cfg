SPECIFICATION LinkSpec
CONSTANTS
    Thresholds = {s1, s2}
    Rois = {r1, r2}
    BaseDelay = 2
    MaxDelay = 5
    None = None
INVARIANTS
    LinkConsistent
PROPERTIES
    ReportsAreConfirmed
    NoPollAfterExpiry
    WaitsEnd
    PollsWhileOn
CHECK_DEADLOCK FALSE
