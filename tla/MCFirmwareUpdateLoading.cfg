SPECIFICATION Spec
CONSTANTS
    c1 = c1
    c2 = c2
    c3 = c3
    None = None
    Torn = Torn
    Runs <- MCTwo
    Rest = {a}
    MaxReads = 3
    MaxChanges = 0
SYMMETRY Symmetry
INVARIANT
    RepairFailedIsSettled
