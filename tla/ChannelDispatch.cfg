SPECIFICATION FairSpec
CONSTANTS
    r1 = r1  r2 = r2  r3 = r3  r4 = r4
    Requests = {r1, r2, r3}
    Silent = {r2}
    HeaderOf <- MCHeaderOf
    WidthOf <- MCWidthOf
    SupportsShort = TRUE
    SupportsLong = FALSE
    Listeners = {l1, l2}
    MaxEvents = 1
    None = None
INVARIANTS
    NoListenerSkipped
PROPERTIES
    EveryCallReturns
    DropCompletes
CHECK_DEADLOCK FALSE
