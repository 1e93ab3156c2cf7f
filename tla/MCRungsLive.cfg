SPECIFICATION Spec
CONSTANTS
    None = None
    Rungs <- MCOneFold
    FoldWidth = 2
    SideBySide = TRUE
    Statuses = {"NAN", "INTERRUPTED"}
    MaxRepairs = 1
    MaxFaults = 3
PROPERTY RungConcludes
CHECK_DEADLOCK FALSE
