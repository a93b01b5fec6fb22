SPECIFICATION FairSpec
CONSTANTS
    frametime_us = 2
    period_us = 3
    MinSleep = 1
    MaxPeriods = 10
    MaxTime = 20
    MaxPauses = 2
INVARIANTS
    NoDrift
    NeverFarAhead
PROPERTIES
    CatchesUp
    EventuallyCaughtUp
CHECK_DEADLOCK FALSE
