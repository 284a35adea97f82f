SPECIFICATION ViewSpec
CONSTANTS
    Slots = {ev1, p1}
    Lists = {1, 2}
    LoadBound = 3
    None = None
INVARIANTS
    ViewConsistent
PROPERTIES
    DownloadsEnd
