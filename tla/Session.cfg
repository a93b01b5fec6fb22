SPECIFICATION Spec
CONSTANTS
    Runs = 2
    Taken = {0}
    MaxNumber = 2
    MaxFaults = 1
INVARIANTS
    RunsRight
    RecordingKept
    AbortLeavesNothing
PROPERTIES
    FilesRespected
    SessionEnds
CHECK_DEADLOCK FALSE
