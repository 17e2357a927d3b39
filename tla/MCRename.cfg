SPECIFICATION FairSpec
CONSTANTS
    i1 = i1
    i2 = i2
    u1 = u1
    u2 = u2
    p1 = p1
    p2 = p2
    None = None
    NotRead = NotRead
    NoRecorder = NoRecorder
    Ips <- MCIps
    Units <- MCUnits
    Names = {"aio", "cam-01", "cam-02"}
    Rest = {"r1", "r2"}
    NamesFor <- MCNamesFor
    InitialAt <- MCAt
    InitialSettings <- MCSettings
    WrittenElsewhere <- MCElsewhere
    Plans <- MCPlans
    Scans = {"s1"}
    MaxReads = 2
    ChangesInRun = FALSE
    MaxMoves = 1
    MaxChanges = 1
    MaxScans = 1
    MaxCrashes = 1
INVARIANTS
    TypeOK
    IndInv
    OneInDoubt
    ReportExact
    NamedByJournal
PROPERTIES
    VerifiedAsPlanned
    ImportKeepsRest
    RunEnds
CHECK_DEADLOCK FALSE
