SPECIFICATION Spec
CONSTANTS
    r1 = r1  r2 = r2  r3 = r3  r4 = r4
    Requests = {r1, r2, r3, r4}
    Silent = {r4}
    HeaderOf <- MCHeaderOf
    WidthOf <- MCWidthOf
    SupportsShort = FALSE
    SupportsLong = TRUE
    Listeners = {}
    MaxEvents = 0
    None = None
SYMMETRY Symmetry
INVARIANTS
    PendingExact
    OwnAnswerOnly
    MatchedMeansTaken
PROPERTIES
    AnswerReachesItsCall
    ImplementsRequestReply
CHECK_DEADLOCK FALSE
