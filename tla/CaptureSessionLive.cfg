SPECIFICATION FairSpec
CONSTANTS
    Controls = {k1}
    Channels = {c1, c2}
    Own = own
    None = none
    Strikes = 2
    Watched = TRUE
PROPERTIES
    StopIsSeen
    DeafnessNoticed
    RestoredElsewhere
