SPECIFICATION Spec
CONSTANTS
    p1 = p1
    p2 = p2
    r1 = r1
    r2 = r2
    NoClaim = NoClaim
    Presses = {p1, p2}
    Cards = {r1}
    Subject <- OwnSubject
    SlackOnly = {}
    Settlers = {s1}
    NotRecordedAfter = 3
    OverlapLimit = 1
    MaxReads = 4
    MaxRebuilds = 0
SYMMETRY Symmetry
INVARIANT TypeOK
INVARIANT NotRecordedIsEarned
INVARIANT SentAnswerIsHeld
INVARIANT CountKeepsUp
INVARIANT OneSenderPerOpenCard
PROPERTY ClearedOnlyByTheRecord
PROPERTY ImplementsLease
