\* A row that is longer once encoded than a whole delivery batch may be, and one
\* behind it.
CONSTANTS
    Events <- MCEvents
    Ids <- MCEvents
    IdOf <- MCIdOf
    SizeOf <- MCSizeOf
    IlpSizeOf <- MCIlpSizeOf
    Limits <- MCLimits
    NumEvents = 2
    PendingRows = 2
    Heavy = {}
    Huge = {1}
    Lowered = FALSE
    MaxSequence = 3
    MaxAttempts = 6
    MaxBatch = 3
    IngressCapacity = 2
    PersistBatchRows = 2
    DeliveryBatchRows = 2
    DeliveryBatchBytes = 2
    FlushOnShutdown = FALSE
    Gated = FALSE
    Corrupt = {}
    Poison = {}
    Answers = {}
    DiskFaults = {}
    Breakage = {}
    MaxFaults = 0
    MaxCrashes = 0
    MaxStops = 0
SPECIFICATION FairSpec
PROPERTIES
    AcceptedSettles
\* The service is one-shot: stopped or failed, it may stay so.
CHECK_DEADLOCK FALSE
