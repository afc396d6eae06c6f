SPECIFICATION FairSpec
CONSTANTS
    p1 = p1
    p2 = p2
    r1 = r1
    r2 = r2
    NoClaim = NoClaim
    Presses = {p1}
    Cards = {r1, r2}
    Subject <- SameSubject
    SlackOnly = {r2}
    Settlers = {s1}
    NotRecordedAfter = 1
    OverlapLimit = 1
    MaxReads = 2
    MaxRebuilds = 1
PROPERTY WaitingEnds
INVARIANT AlreadyIsTrue
