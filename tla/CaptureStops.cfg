SPECIFICATION OnTheFlySpec
CONSTANTS
    Args <- OnTheFly
    MaxFrames = 2
    MaxClone = 1
    MaxPeriods = 1
    EndSignals = {"SIGINT"}
    MaxPauses = 1
    MaxSpurious = 1
PROPERTIES
    FrameTaken
    PeriodTaken
    StopsOnTheFly
CHECK_DEADLOCK FALSE
