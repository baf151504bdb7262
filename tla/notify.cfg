\* Three overlapping calls and three changes, with every failure.
CONSTANTS
    Runs = {g1, g2, g3}
    MaxLive = 3
    MaxChanges = 3
    CanFail = TRUE
SPECIFICATION FairSpec
INVARIANTS TypeOK BehindExplained CountsOwnChange
PROPERTIES RunsEnd
\* Callers may stop changing subscriptions.
CHECK_DEADLOCK FALSE
