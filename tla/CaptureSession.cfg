SPECIFICATION Spec
CONSTANTS
    Controls = {k1, k2}
    Channels = {c1, c2}
    Own = own
    None = none
    Strikes = 2
    Watched = TRUE
SYMMETRY Symmetry
INVARIANTS
    RestoredMeansReleased
    SilentMeansSilent
