SPECIFICATION FairSpec
CONSTANTS
    NoMark = NoMark
    Asks = {p1}
    Offers = {r1}
    Settlers = {s1, s2}
    Polling = {s1}
    RebuildCap = 1
    RebuildUnconfirmedAfter = 0
    OverlapLimit = 1
    MaxReads = 2
PROPERTY FinishedIsNoticed
