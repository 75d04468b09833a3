SPECIFICATION ActionsSpec
CONSTANTS
    Restarts = {}
    Scales = {s1, s2}
    Scans = {u1}
    Pages = {p1}
    Counts = {1, 3}
    FirstCount = 2
    MaxTroubles = 2
    None = None
SYMMETRY ScaleSymmetry
INVARIANTS VerdictsAgree SuccessStands WaitIsOwed
CHECK_DEADLOCK FALSE
