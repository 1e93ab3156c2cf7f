SPECIFICATION Spec
CONSTANTS
    None = None
    Runs = {r1, r2}
    MaxFaults = 2
    Parts = 1
    Acceptable = {TRUE, FALSE}
INVARIANTS
    WhatIsUsedIsWhole
PROPERTIES
    ControlCacheIsSealed
    RunsConclude
CHECK_DEADLOCK FALSE
