SPECIFICATION Spec
CONSTANTS
    c1 = c1
    c2 = c2
    c3 = c3
    None = None
    Torn = Torn
    Runs <- MCThree
    Rest = {a, b}
    MaxReads = 2
    MaxChanges = 1
SYMMETRY Symmetry
INVARIANTS
    TypeOK
    IndInv
    RecoveryReady
    VerifiedIsBackup
PROPERTIES
    RepairIsBackup
    EffectsOnce
