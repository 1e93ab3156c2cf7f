SPECIFICATION SupSafety
CONSTANTS
    NumCards = 1
    Family <- MCFamily
    MaxHypotheses = 1
    MaxOfficial = 1
    MaxRepairs = 2
    Patience = 2
    MinFamilies = 1
    Epsilon = 1
    BaselineUnits = 0
    Scores <- OneScore
    Statuses = {"timeout"}
    BaselineId = BaselineId
    None = None
    Controllers = {c1, c2}
    StaleTakeover = TRUE
    MaxCrashes = 0
    Repairable = {"timeout"}
    Revising = {"timeout"}
    PartlyReplayed = {}
INVARIANTS
    OneRepairAtATime
CHECK_DEADLOCK FALSE
