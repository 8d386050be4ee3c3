CONSTANTS
    a = a
    b = b
    c = c
    c2 = c2
    Events <- MCEvents
    Ids <- MCIds
    IdOf <- MCIdOf
    SizeOf <- MCSizeOf
    Limits <- MCLimits
    MaxSequence = 4
    MaxAttempts = 1
    MaxBatch = 2
SPECIFICATION SpoolSpec
INVARIANTS
    SpoolTypeOK
    RowCountsExact
    ByteCountsExact
    OneHome
    BurialPossible
PROPERTIES
    SequencesNeverReissued
    CapacityRespected
    UncertaintyKept
    RingEvictsOnlyWhatItMust
