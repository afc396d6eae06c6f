SPECIFICATION Spec
CONSTANTS
    NoMark = NoMark
    Asks = {p1, p2}
    Offers = {r1}
    Settlers = {s1}
    Polling = {s1}
    RebuildCap = 1
    RebuildUnconfirmedAfter = 2
    OverlapLimit = 1
    MaxReads = 3
    p1 = p1
    p2 = p2
SYMMETRY Symmetry
INVARIANT AskIsHeld
INVARIANT DoneIsProved
INVARIANT UnconfirmedIsEarned
