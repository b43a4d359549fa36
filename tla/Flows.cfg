SPECIFICATION MCSpec
CONSTANTS
    Keyboard = kb
    t1 = t1  t2 = t2
    Targets = {t1, t2}
    c1 = c1  c2 = c2
    Controls = {c1, c2}
    Hosts = {0, 1}
    NoHost = NoHost
    MaxLeaves = 1
    HostOf <- MCHostOf
    Shares <- MCShares
    Sources <- MCSources
    Panel = panel
    gs = gs
    DpiControls = {dpi1, dpi2}
    Plain = {}
    Dpi = dpi
    Nobody = Nobody
    Threshold = 2
    Deadzone = 1
    Bound = 3
    MaxEvents = 1
    MaxNaps = 2
    bolt = bolt  cable = cable
    d1 = d1  d2 = d2
    Devices = {d1, d2}
    Places = {bolt, cable}
    None = None
    Kind <- MCKind
    Traits <- MCTraits
    Grace = 1
    MaxMoves = 2
    MaxLost = 1
    Senses = {1, 2}
    MaxMeddling = 1
    MaxCrossed = 1
    Keys <- MCKeys
    ChunkSize = 3
    ZoneCap = 2
    MaxZones = 3
    m1 = m1
    Callers = {caller1, caller2}
    Mice = {m1, m2}
    Nowhere = Nowhere
    HapticIndex <- MCIndex
    MaxChannels = 2
    MaxPairings = 2
    Expected = {n1, n2}
    Attempts = 4
    NoCandidate = NoCandidate
    Processes = {p1, p2}
    Edits = {e1, e2}
    Absent = Absent
    Generations = 3
    MaxCrashes = 1
    o1 = o1  o2 = o2
    usb = usb  bluetooth = bluetooth  slot1 = slot1
    Owners = {o1, o2}
    Cables <- MCCables
    Slots = {slot1}
    Unset = Unset
    KeyOrder <- MCOrder
    Writers = {w1, w2, w3}
    MaxTurns = 3
INVARIANTS
    ControlsGivenBack LinkedDevicesGoTogether
    InputIsUnderstood
    KnownStaysKnown StoreIsCurrent
    StopsOnEvidence WritesAreHonest PaintedWhole PlaysAreFelt
    NothingIsLost GateIsHeeded
PROPERTIES
    SettingsFollowDevices
CHECK_DEADLOCK FALSE
