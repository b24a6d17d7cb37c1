SPECIFICATION Spec
CONSTANTS
    None = None
    Slots = {1, 2}
    Sizes = {1, 3}
    CubeFaces = 2
    Count = 2
    MaxRecorded = 3
    MaxQueued = 0
    ScreenSlots = {2}
INVARIANTS OwnedOnce LayoutsAgree ViewsCurrent
