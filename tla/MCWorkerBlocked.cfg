\* Rejected credentials, then a storage pause that ends.
CONSTANTS
    Events <- MCEvents
    Ids <- MCEvents
    IdOf <- MCIdOf
    SizeOf <- MCSizeOf
    IlpSizeOf <- MCIlpSizeOf
    Limits <- MCLimits
    NumEvents = 2
    PendingRows = 2
    Heavy = {}
    Huge = {}
    Lowered = FALSE
    MaxSequence = 3
    MaxAttempts = 6
    MaxBatch = 3
    IngressCapacity = 2
    PersistBatchRows = 2
    DeliveryBatchRows = 2
    DeliveryBatchBytes = 2
    FlushOnShutdown = FALSE
    Gated = FALSE
    Corrupt = {}
    Poison = {}
    Answers = {"auth"}
    DiskFaults = {"full"}
    Breakage = {}
    MaxFaults = 2
    MaxCrashes = 0
    MaxStops = 0
SPECIFICATION Spec
INVARIANTS
    BlockVisible
\* The service is one-shot: stopped or failed, it may stay so.
CHECK_DEADLOCK FALSE
