SPECIFICATION EvidenceSpec
CONSTANTS
    ev1 = ev1
    p1 = p1
    Slots = {ev1, p1}
    EvSlots = {ev1}
    LastSession = 2
    Legacy = {2}
    RefLimit = 1
    NetBound = 2
    Events <- MCEvents
    Home <- MCHome
    None = None
INVARIANTS
    EvidenceConsistent
    PairsAreOfTheirSlot
