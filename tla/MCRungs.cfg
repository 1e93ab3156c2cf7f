SPECIFICATION Spec
CONSTANTS
    None = None
    Rungs <- MCRungs
    FoldWidth = 2
    SideBySide = TRUE
    Statuses = {"NAN", "INVALID_ARTIFACT", "CONTRACT", "INTERRUPTED"}
    MaxRepairs = 1
    MaxFaults = 2
INVARIANTS
    RungOfOneRevision
    QuietWhileRepaired
    CompletedRepairIsBacked
PROPERTIES
    DecidedOnce
    RepairsAreBounded
CHECK_DEADLOCK FALSE
