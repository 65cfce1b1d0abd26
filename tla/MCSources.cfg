SPECIFICATION FairSpec
CONSTANTS
    None = None
    f = f
    v = v
    w = w
    Chats = {1, 2}
    Uploads = {1, 2, 3, 4}
    Kind <- MCKind
    File <- MCFile
    Reloads = {1, 2}
    Loads = {1, 2}
    PollInterval = 1
    PollMaxInterval = 2
    PollTimeout = 4
    Plans <- MCPlans
CHECK_DEADLOCK FALSE
INVARIANTS
    TypeOK
    MarkedIsWorkedOn
    BusyIsAdding
    RestShowsStatus
    ManagerShowsLinks
    BarShowsSources
PROPERTIES
    AddressKept
    BusyEnds
    SourceSettles
