SPECIFICATION EventSpec
CONSTANTS
    Width = 4
    Height = 4
    Settings <- MCSettings
    CursorSize = 2
    dummy_p_size = 1
    Y_UNIT_WIDTH = 2
INVARIANTS
    ListInside
    Refetched
    BlocksMarked
    ChromaWhole
