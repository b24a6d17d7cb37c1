SPECIFICATION Spec
CONSTANTS
    MaxFrames = 3
    Data = {d1, d2}
    Unset = Unset
    Textures = {t1}
INVARIANTS
    UnmarkedIsFresh
    DrawsSeeTheirData
PROPERTY InFlightUntouched
