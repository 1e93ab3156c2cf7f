SPECIFICATION SupSpec
CONSTANTS
    NumCards = 1
    Family <- MCFamily
    MaxHypotheses = 2
    MaxOfficial = 1
    MaxRepairs = 2
    Patience = 2
    MinFamilies = 2
    Epsilon = 1
    BaselineUnits = 0
    Scores <- TwoScores
    Statuses = {"crash", "timeout", "contract"}
    BaselineId = BaselineId
    None = None
    Controllers = {c1}
    StaleTakeover = FALSE
    MaxCrashes = 2
    Repairable = {"timeout", "contract"}
    Revising = {"timeout", "contract"}
    PartlyReplayed = {"contract"}
INVARIANTS
    SealedIsChampion

    
CHECK_DEADLOCK FALSE
