SPECIFICATION Spec
CHECK_DEADLOCK FALSE
CONSTANTS
    Keys = {Ctrl}
    Modifiers = {Ctrl}
    Buttons = {Right}
    Right = Right
    Sizes = {5, 8}
    ViewSizes = {2, 6}
    Chrome = 2
    Default = 2
INVARIANT FrameFits
PROPERTIES NothingSticks WindowFollows
