SPECIFICATION FairSpec
CONSTANTS
    r1 = r1  r2 = r2  r3 = r3  r4 = r4
    Requests = {r1, r2}
    Silent = {}
    HeaderOf <- MCHeaderOf
    WidthOf <- MCWidthOf
    SupportsShort = FALSE
    SupportsLong = TRUE
    Listeners = {l1}
    MaxEvents = 1
    None = None
INVARIANT
    LateAnswerUnmatched
CHECK_DEADLOCK FALSE
