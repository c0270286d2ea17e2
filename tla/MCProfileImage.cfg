\* Three uploads, two calls at a time that may fail anywhere.
SPECIFICATION ImageSpec
CONSTANTS
    Files = {f1, f2, f3}
    Updates = {c1, c2}
    Faults = TRUE
    None = None
SYMMETRY Symmetry
INVARIANTS
    ImageTypeOK
    ImageMissingHasCause
    NoImageLeftBehind
