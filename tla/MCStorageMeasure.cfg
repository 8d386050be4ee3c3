\* The disk of MCStorage.cfg.
SPECIFICATION FairSpec
CONSTANTS
    Total = 9
    MinFree = 2
    Percent = 40
    Batch = 2
    Pass = 1
    WalMax = 2
    StartPages = 3
PROPERTIES
    PausesOnlyIfNeeded
