SPECIFICATION StoreSpec
CONSTANTS
    NumCards = 2
    Family <- MCFamily
    MaxHypotheses = 2
    MaxOfficial = 2
    MaxRepairs = 0
    Patience = 2
    MinFamilies = 2
    Epsilon = 1
    BaselineUnits = 0
    Scores <- MCScores
    Statuses = {}
    BaselineId = BaselineId
    None = None
INVARIANTS
    OfficialBoundToFinalist
    ShadowChampionIsBest
    StreakCountsHypothesesOnce
    DiscoveryPlateauIsDiverse
PROPERTIES
    ValidationIsOneWay
CHECK_DEADLOCK FALSE
