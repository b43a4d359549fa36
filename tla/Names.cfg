SPECIFICATION Spec
CONSTANTS
    PartSize = 2
    MarketSizes = {1, 2}
    MaxName = 6
    NewNames <- MCNewNames
INVARIANT NameIsSet
CHECK_DEADLOCK FALSE
