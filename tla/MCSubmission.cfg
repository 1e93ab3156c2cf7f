SPECIFICATION SubSpec
CONSTANTS
    Coordinators = {c1, c2}
    Targets = {t1, t2}
    MaxFaults = 1
    None = None
INVARIANTS
    SealAttestsBundle
PROPERTIES
    OnePrediction
    ImplementsOneTimeHandoff
    JobConcludes
CHECK_DEADLOCK FALSE
