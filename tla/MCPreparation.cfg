SPECIFICATION Spec
CONSTANTS
    None = None
    Route <- McRoute
    Paid = "openai_api"
    Retries = 1
    MaxCalls = 1
    MaxRepairs = 1
    MaxFaults = 2
INVARIANTS
    CommittedPatchPassed
    BooksBalance
PROPERTIES
    DecisionsAreFinal
    PreparationConcludes
    ImplementsPromise
CHECK_DEADLOCK FALSE
