CONSTANTS
    MCSlotCount = 2
    Slots <- MCSlots
    Versions = {0, 1}
    MaxSnapshots = 3
    MaxMishaps = 2
    MaxStarts = 4
    Partial = Partial
    NoSlot = NoSlot
SPECIFICATION RecoveryFairSpec
INVARIANTS
    RecoverySafety
PROPERTIES
    RestoredIsKept
    HangHoldsUpNobody
CHECK_DEADLOCK FALSE
