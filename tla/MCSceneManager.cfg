SPECIFICATION Spec
CONSTANTS
    Names <- MCNames
    EmptyName = "Empty Scene"
    Strip <- MCStrip
    Stored <- MCStored
    MaxScenes = 3
INVARIANTS
    ProjectKept
PROPERTY UnknownKeepsScene
