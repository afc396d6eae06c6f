SPECIFICATION Spec
CONSTANTS
    Contents = {none, a}
    NoContents = none
    NoHash = NoHash
    Appended = {stage_log, planning_events}
    Rows = {x, y}
    MaxRows = 2
    MaxReads = 2
SYMMETRY Symmetry
INVARIANT CopyFits
PROPERTY ImplementsFeedPasses
INVARIANT EveryChangeIsTold
