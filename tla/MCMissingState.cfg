SPECIFICATION StateSpec
CONSTANTS
    Scope = {p1, p2}
    Thresholds = {2, 3}
    GatedByMatch = FALSE
    StrangeCount = 1
    MaxFeeds = 4
INVARIANT CountsAbsenceStreak
PROPERTY ProposesWhenDue
