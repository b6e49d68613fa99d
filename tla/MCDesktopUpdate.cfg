SPECIFICATION FairSpec
CONSTANTS
  MaxRelease = 2
  MaxDownloads = 3
  MaxProcesses = 3
  MaxPublished = 2
  MaxFaults = 1
INVARIANTS
    CacheSafety
PROPERTIES
    LaunchIsCurrent
    KeepsAPackage
    ManualIsAnswered
CHECK_DEADLOCK FALSE
