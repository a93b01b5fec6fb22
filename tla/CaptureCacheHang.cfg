SPECIFICATION FairSpec
CONSTANTS
    Args <- CacheNoSound
    MaxFrames = 1
    MaxClone = 1
    MaxPeriods = 1
    EndSignals = {"SIGINT"}
    MaxPauses = 0
    MaxSpurious = 0
PROPERTIES
    ConsumerNotLost
CHECK_DEADLOCK FALSE
