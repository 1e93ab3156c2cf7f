SPECIFICATION StoreSpec
CONSTANTS
    NumCards = 1
    Family <- MCFamily
    MaxHypotheses = 2
    MaxOfficial = 2
    MaxRepairs = 1
    Patience = 2
    MinFamilies = 1
    Epsilon = 1
    BaselineUnits = 0
    Scores <- MCScores
    Statuses = {"timeout"}
    BaselineId = BaselineId
    None = None
INVARIANTS
    TypeOK
    ChampionEarnedIt
PROPERTIES
    OnlyLegalTransitions
CHECK_DEADLOCK FALSE
