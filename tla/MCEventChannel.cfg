SPECIFICATION FairSpec
CONSTANTS
    Panels = {p2, p4, p6}
    Subscribed = {p4, p6}
    QuietHour = FALSE
    OldPages = FALSE
    BrokenRefetch = FALSE
    PruneInReplay = FALSE
    MaxSeq = 3
    MaxRebuilds = 1
INVARIANT NothingMissed
INVARIANT StaleIsOnItsWay
PROPERTY ChangeIsHeard
