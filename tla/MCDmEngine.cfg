CONSTANTS
    k1 = k1
    k2 = k2
    k3 = k3
    k4 = k4
    Keys = {k1, k2, k3, k4}
    Items = {k3, k4}
    NoKey = NoKey
    Plans <- MCPlans
    MaxLedger = 3
    MaxPreviews = 2
    MaxQueue = 3
SPECIFICATION Spec
INVARIANTS
    LedgerSafety
PROPERTIES
    SendsAsPromised
    WithinTheRun
