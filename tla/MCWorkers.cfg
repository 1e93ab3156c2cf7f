SPECIFICATION ExecuteSpec
CONSTANTS
    Runners = {r1, r2}
    None = None
    MaxFaults = 2
    MaxWorkers = 6
INVARIANTS
    LeasesHold
    NoOrphans
PROPERTIES
    FinishedWorkIsKept
    AttemptIsDurable
    AttemptConcludes
CHECK_DEADLOCK FALSE
