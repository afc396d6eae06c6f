SPECIFICATION Spec
CONSTANTS
    None = None
    UnbackedEnd = 1
    StartWrittenAtEnd = 0
    Norm <- NormUsed
    Starts = {"queue", "planning", "build", "overlap", "merging", "mission", "joined"}
    Doors = {"spec", "sign_in"}
    Resends = TRUE
    Answerers = {"ann"}
    Endings = {"COMPLETE", "FAILED"}
    RunEndings = {"BUILD_QUEUED", "PLANNED_HANDOFF", "FAILED"}
    MaxRows <- FewRows
    MaxBuilds <- FewBuilds
    MaxClock = 2
INVARIANT WaitsFollowTheRule
INVARIANT EachMomentOnce
INVARIANT OpenWaitIsShown
INVARIANT FailureHasIssue
INVARIANT OnTrackHasNoIssue
PROPERTY DeliveredStays
PROPERTY AnswersStay
CHECK_DEADLOCK FALSE
