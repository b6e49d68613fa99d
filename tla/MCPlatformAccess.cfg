SPECIFICATION FairSpec
CONSTANTS
  Identities = {i1, i2}
  NoId = NoId
  MaxCalls = 3
  MaxBoots = 2
INVARIANTS
    SessionSafety
    UpgradeKept
PROPERTIES
    KeepsEpochs
    OperationsEnd
CHECK_DEADLOCK FALSE
