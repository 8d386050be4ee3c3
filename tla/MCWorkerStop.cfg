\* Shutdown with a flush, the schema gate, an unencodable row, an encoded row over
\* the batch limit, and failures while the worker starts and ends.
CONSTANTS
    Events <- MCEvents
    Ids <- MCEvents
    IdOf <- MCIdOf
    SizeOf <- MCSizeOf
    IlpSizeOf <- MCIlpSizeOf
    Limits <- MCLimits
    NumEvents = 3
    PendingRows = 2
    Heavy = {}
    Huge = {3}
    Lowered = FALSE
    MaxSequence = 3
    MaxAttempts = 6
    MaxBatch = 3
    IngressCapacity = 2
    PersistBatchRows = 2
    DeliveryBatchRows = 2
    DeliveryBatchBytes = 2
    FlushOnShutdown = TRUE
    Gated = TRUE
    Corrupt = {2}
    Poison = {}
    Answers = {"retry", "auth", "permanent"}
    DiskFaults = {"low", "full"}
    Breakage = {"open", "start_timeout", "persist", "schema", "close"}
    MaxFaults = 2
    MaxCrashes = 0
    MaxStops = 2
SPECIFICATION Spec
INVARIANTS
    AcceptedAccounted
    CleanStopPersistsAll
PROPERTIES
    ImplementsContract
\* The service is one-shot: stopped or failed, it may stay so.
CHECK_DEADLOCK FALSE
