CONSTANTS
    NoTexture = NoTexture
    MaxQuads = 3
    TextQuads = 2
    MaxTextures = 2
    MaxBatches = 2
    MaxItems = 2
    Scenes <- MCScenes
    Asked <- MCShapes
    Levels = {5, 6}
    Compute = {TRUE, FALSE}
SPECIFICATION Spec
CONSTRAINTS DebugAlone SpritesFirst
VIEW View
INVARIANTS FrameLegal EffectsShown SpritesShown DebugShown
