SPECIFICATION BoardSpec
CONSTANTS
    p1 = p1
    p2 = p2
    e1 = e1
    e2 = e2
    e3 = e3
    e4 = e4
    e5 = e5
    e6 = e6
    None = None
    Slots = {p1}
    Events <- MCEvents
    Reports <- MCReports
    SeenLimit = 2
    NoticeLimit = 2
INVARIANTS
    BoardConsistent
PROPERTIES
    AlarmsSurvivePolls
    NoticeGoesWithAlarm
    BannerComesBack
