\* Lost answers, a read-only disk, a rejected row, a kill and a restart, perhaps
\* with lower limits.
CONSTANTS
    Events <- MCEvents
    Ids <- MCEvents
    IdOf <- MCIdOf
    SizeOf <- MCSizeOf
    IlpSizeOf <- MCIlpSizeOf
    Limits <- MCLimits
    NumEvents = 3
    PendingRows = 3
    Heavy = {2}
    Huge = {}
    Lowered = TRUE
    MaxSequence = 3
    MaxAttempts = 3
    MaxBatch = 3
    IngressCapacity = 2
    PersistBatchRows = 2
    DeliveryBatchRows = 2
    DeliveryBatchBytes = 2
    FlushOnShutdown = FALSE
    Gated = FALSE
    Corrupt = {}
    Poison = {2}
    Answers = {"uncertain"}
    DiskFaults = {"readonly"}
    Breakage = {}
    MaxFaults = 2
    MaxCrashes = 1
    MaxStops = 1
SPECIFICATION Spec
INVARIANTS
    TypeOK
    AcceptedAccounted
    NoDurableLoss
    OnlyGuiltyBuried
    DeliveredInOrder
PROPERTIES
    ImplementsContract
\* The service is one-shot: stopped or failed, it may stay so.
CHECK_DEADLOCK FALSE
