SPECIFICATION Spec
CONSTANTS
    None = None
    UnbackedEnd = 1
    StartWrittenAtEnd = 0
    Norm <- NormUsed
    Starts = {"planning"}
    Doors = {"spec", "sign_in"}
    Resends = FALSE
    Answerers = {"ann"}
    Endings = {"COMPLETE", "FAILED"}
    RunEndings = {"BUILD_QUEUED", "FAILED"}
    MaxRows <- FewRows
    MaxBuilds <- FewBuilds
    MaxClock = 3
INVARIANT StalledIsNotWaiting
