SPECIFICATION Spec
CONSTANTS
    Args <- Sound
    MaxFrames = 2
    MaxClone = 2
    MaxPeriods = 2
    EndSignals = {"SIGABRT"}
    MaxPauses = 1
    MaxSpurious = 0
INVARIANTS
    SoundKept
    FramesInStep
    OnePeriodPerPause
    ConsumersAwake
PROPERTIES
    ImplementsRecording
CHECK_DEADLOCK FALSE
