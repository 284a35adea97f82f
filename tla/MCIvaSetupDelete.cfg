SPECIFICATION IvaSpec
CONSTANTS
    Cameras = {m1, m2}
    Areas = {a1}
    Values = {v1}
    None = None
INVARIANTS
    OnlyDeletesWhenAsked
CHECK_DEADLOCK FALSE
