SPECIFICATION Spec
CONSTANTS
    CACHE_FILE_SIZE_LIMIT = 2
    MaxFrames = 3
    MaxBody = 2
    MaxFailures = 1
INVARIANTS
    HandlesRight
    FramesLoaded
    AllPurged
PROPERTIES
    AllLoaded
    CacheEnds
