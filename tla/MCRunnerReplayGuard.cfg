CONSTANTS
    j1 = j1
    j2 = j2
    j3 = j3
    JobIds = {j1, j2, j3}
    Capacity = 2
    Skew = 1
    MaxTime = 4
SPECIFICATION GuardSpec
SYMMETRY Symmetry
INVARIANTS
    WindowSafety
PROPERTIES
    ExecutedOnce
