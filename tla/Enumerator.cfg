SPECIFICATION FairSpec
CONSTANTS
    n1 = n1
    ch1 = ch1
    ch2 = ch2
    s1 = s1
    s2 = s2
    Nodes = {n1}
    Channels = {ch1, ch2}
    Slots = {s1}
    ReplayGrace = 3
    EvictAfter = 2
    MaxFailures = 4
    None = None
INVARIANTS
    OneOpenPerNode
    PublishedIsActive
    ReplacementUnnoticed
    FailuresAskForRetry
PROPERTIES
    NodesRecover
