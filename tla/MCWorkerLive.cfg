\* Progress under fairness: an outage, a full disk, a rejected row, a stop at any
\* moment.
CONSTANTS
    Events <- MCEvents
    Ids <- MCEvents
    IdOf <- MCIdOf
    SizeOf <- MCSizeOf
    IlpSizeOf <- MCIlpSizeOf
    Limits <- MCLimits
    NumEvents = 3
    PendingRows = 2
    Heavy = {}
    Huge = {}
    Lowered = FALSE
    MaxSequence = 3
    MaxAttempts = 6
    MaxBatch = 3
    IngressCapacity = 2
    PersistBatchRows = 2
    DeliveryBatchRows = 2
    DeliveryBatchBytes = 2
    FlushOnShutdown = FALSE
    Gated = FALSE
    Corrupt = {}
    Poison = {2}
    Answers = {"uncertain"}
    DiskFaults = {"full"}
    Breakage = {"open", "start_timeout"}
    MaxFaults = 1
    MaxCrashes = 0
    MaxStops = 1
SPECIFICATION FairSpec
PROPERTIES
    StopEndsThread
    StartReturnsEventually
    AcceptedSettles
    PauseEnds
\* The service is one-shot: stopped or failed, it may stay so.
CHECK_DEADLOCK FALSE
