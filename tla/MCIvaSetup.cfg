SPECIFICATION IvaSpec
CONSTANTS
    Cameras = {m1, m2}
    Areas = {a1}
    Values = {v1}
    None = None
INVARIANTS
    IvaConsistent
    WritesWhatWasAsked
PROPERTIES
    OverwritesOnlyWhatIsShown
    SaveEnds
CHECK_DEADLOCK FALSE
