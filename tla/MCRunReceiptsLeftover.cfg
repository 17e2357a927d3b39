SPECIFICATION Spec
CONSTANTS
    r1 = r1
    r2 = r2
    t1 = t1
    t2 = t2
    Ids <- MCIds
    Targets <- MCTargets
    NoFile = NoFile
    MaxRecords = 5
    MaxBytes = 75
    Slot = 9
    HeadBytes = 4
    TargetBytes <- MCTargetBytes
    StampBytes = 3
    ReservationBytes = 1
    TornWrites = TRUE
    MaxFaults = 2
PROPERTY
    SummaryFollowsJournal
\* The journal fills up and no receipt can be issued any more.
CHECK_DEADLOCK FALSE
