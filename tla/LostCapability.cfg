SPECIFICATION MCSpec
CONSTANTS
    Devices = {d1}
    Places = {bolt}
    bolt = bolt
    d1 = d1
    None = None
    Kind <- MCKind
    Traits <- MCTraits
    Grace = 1
    MaxMoves = 1
    MaxLost = 1
INVARIANT WheelStaysKnown
CHECK_DEADLOCK FALSE
