SPECIFICATION Spec
CONSTANTS
  None = None
  Torn = Torn
  Extractors = {"expanding", "history", "repeat", "recency", "candidate", "feedback"}
  Users <- MCUsers
  Items <- MCItems
  Logs <- MCLogs
  Later <- MCLater
  TicksPerDay = 2
  Horizon = 4
  MaxFaults = 1
  NRows = 3
INVARIANTS
    TrainedOnThePast
    ServedAsTrained
CHECK_DEADLOCK FALSE
