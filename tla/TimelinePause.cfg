SPECIFICATION Spec
CONSTANTS
    frametime_us = 2
    period_us = 3
    MinSleep = 1
    MaxPeriods = 3
    MaxTime = 15
    MaxPauses = 2
INVARIANTS
    PauseNotRecorded
CHECK_DEADLOCK FALSE
