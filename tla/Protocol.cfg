SPECIFICATION MCSpec
CONSTANTS
    Slots = {s1, s2}
    Devices = {d1, d2}
    MaxInbox = 1
    MaxWire = 1
    None = None
    c1 = c1  c2 = c2  c3 = c3
    Channels = {c1, c2, c3}
    Ids <- MCIds
    NoId = NoId
    Nobody = Nobody
    Table <- MCTable
    Attempts = 2
    MaxWalks = 2
    PartSize = 2
    MarketSizes = {1, 2}
    MaxName = 6
    NewNames <- MCNewNames
    Base = 8
    AnswerSize = 15
    PageSize = 3
    MaxPages = 3
    Tables <- MCTables
    FieldsPerPage = 2
    MaxFields = 4
    Wrappers <- MCWrappers
    Registers <- MCRegisters
    MaxCalls = 2
SYMMETRY Sym
INVARIANTS
    CancelClosesWindow SessionTellsTheTruth ChangesAreCovered
    MaskExact NoCrossMatch
    TableIsRight NamesReadWhole
    TablesAreRight ReadAsMeant
PROPERTIES NoEcho
CHECK_DEADLOCK FALSE
