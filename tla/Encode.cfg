SPECIFICATION Spec
CONSTANTS
    frametime_us = 2
    periodtime_us = 3
    Modes = {"onTheFly", "cache"}
    MaxFrames = 5
    MaxPeriods = 2
INVARIANTS
    FileRight
    FileComplete
    EncoderExclusive
PROPERTIES
    FlushEnds
CHECK_DEADLOCK FALSE
