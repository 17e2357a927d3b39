SPECIFICATION Spec
CONSTANTS
    d1 = d1
    d2 = d2
    p1 = p1
    p2 = p2
    None = None
    NotRead = NotRead
    Ids <- MCOne
    Targets <- MCTwo
    TargetLocalKeys <- MCLocalKeys
    Settings <- MCSettings
    InitialSettings <- MCInitialTwo
    LocallyChanged <- MCLocallyChanged
    Scans = {s1}
    Verifiers = {v1, v2}
    MaxReads = 2
    MalformedReplies = FALSE
    MaxCrashes = 1
    MaxChanges = 0
PROPERTY
    VerificationFinal
