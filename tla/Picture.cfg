SPECIFICATION Spec
CONSTANTS
    Settings <- MCSettings
    ScreenWidth = 5
    Width = 4
    CursorWidth = 2
    xhot = 1
    Y_UNIT_WIDTH = 2
    Colours = {0, 3}
    Shade = 20
    FirstScreens <- FirstScreen
    MaxPaints = 2
    PointerAt = {0, 2, 4}
INVARIANTS
    PictureRight
    ColoursFresh
PROPERTIES
    CachedButPointer
