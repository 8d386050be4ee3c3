\* A persist batch larger than the spool, as the options allow.
CONSTANTS
    Events <- MCEvents
    Ids <- MCEvents
    IdOf <- MCIdOf
    SizeOf <- MCSizeOf
    IlpSizeOf <- MCIlpSizeOf
    Limits <- MCLimits
    NumEvents = 3
    PendingRows = 2
    Heavy = {}
    Huge = {}
    Lowered = FALSE
    MaxSequence = 3
    MaxAttempts = 6
    MaxBatch = 3
    IngressCapacity = 3
    PersistBatchRows = 3
    DeliveryBatchRows = 2
    DeliveryBatchBytes = 2
    FlushOnShutdown = FALSE
    Gated = FALSE
    Corrupt = {}
    Poison = {}
    Answers = {}
    DiskFaults = {}
    Breakage = {}
    MaxFaults = 0
    MaxCrashes = 0
    MaxStops = 0
SPECIFICATION FairSpec
PROPERTIES
    PauseEnds
\* The service is one-shot: stopped or failed, it may stay so.
CHECK_DEADLOCK FALSE
