SPECIFICATION Spec
CONSTANTS
    Controls = {k1}
    Channels = {c1}
    Own = own
    None = none
    Strikes = 2
    Watched = TRUE
INVARIANTS
    PreSleepStrikeCleared
