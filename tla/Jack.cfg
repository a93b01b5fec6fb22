SPECIFICATION Spec
CONSTANTS
    nports = 2
    nframes = 2
    RingSize = 7
    MaxPeriods = 5
    MaxPauses = 3
INVARIANTS
    SoundRight
    ReaderAwake
PROPERTIES
    PeriodHeard
    JackStops
CHECK_DEADLOCK FALSE
