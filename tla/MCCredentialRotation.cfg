SPECIFICATION FairSpec
CONSTANTS
    Devices     = {d1, d2}
    Inventories = {s1}
    Rotations   = {r1, r2}
    MaxCrashes  = 1
    None        = None
INVARIANTS TypeOK LockHeld DoubtBarred NewIsNew
PROPERTIES NoRetryInDoubt RotationEnds
