\* A stop while the delivery task waits for an answer, with flush_on_shutdown.
CONSTANTS
    Events <- MCEvents
    Ids <- MCEvents
    IdOf <- MCIdOf
    SizeOf <- MCSizeOf
    IlpSizeOf <- MCIlpSizeOf
    Limits <- MCLimits
    NumEvents = 1
    PendingRows = 2
    Heavy = {}
    Huge = {}
    Lowered = FALSE
    MaxSequence = 3
    MaxAttempts = 6
    MaxBatch = 3
    IngressCapacity = 2
    PersistBatchRows = 2
    DeliveryBatchRows = 2
    DeliveryBatchBytes = 2
    FlushOnShutdown = TRUE
    Gated = FALSE
    Corrupt = {}
    Poison = {}
    Answers = {}
    DiskFaults = {}
    Breakage = {}
    MaxFaults = 2
    MaxCrashes = 0
    MaxStops = 1
SPECIFICATION Spec
INVARIANTS
    TransportNeverShared
\* The service is one-shot: stopped or failed, it may stay so.
CHECK_DEADLOCK FALSE
