SPECIFICATION SupSpec
CONSTANTS
    NumCards = 2
    Family <- MCFamily
    MaxHypotheses = 2
    MaxOfficial = 1
    MaxRepairs = 0
    Patience = 2
    MinFamilies = 2
    Epsilon = 1
    BaselineUnits = 0
    Scores <- MCScores
    Statuses = {"crash"}
    BaselineId = BaselineId
    None = None
    Controllers = {c1}
    StaleTakeover = FALSE
    MaxCrashes = 1
    Repairable = {}
    Revising = {}
    PartlyReplayed = {}
INVARIANTS
    FinalistIsShadowChampion
    SearchEndsSettled
PROPERTIES
    DiscoveryStaysClosed
    ImplementsStore
CHECK_DEADLOCK FALSE
