SPECIFICATION FairSpec
CONSTANTS
    none = none
    sent_by_a = sent_by_a
    sent_by_b = sent_by_b
    Panels = {p4, p6}
    CardPanel = p4
    Answers <- AllAnswers
    NoAnswers = none
    Token <- TokenOf
    SlowPage = FALSE
    MaxChanges = 2
    MaxCrashes = 1
    MaxTicks = 0
    MaxAnswers = 0
PROPERTY PageCatchesUp
