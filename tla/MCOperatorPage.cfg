SPECIFICATION Spec
CONSTANTS
    a = a
    b = b
    c = c
    Devices        <- MCDevices
    CompatibleWith <- MCCompatibleWith
    ScanResults    <- MCScanResults
    Controls       = {c1}
    MaxPlans       = 1
    None           = None
INVARIANTS TypeOK PlanFits SelectionAdmissible SourceAgrees OwedLocks
SYMMETRY Symmetry
