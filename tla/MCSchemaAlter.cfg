\* A server that knows a TTL, and credentials that change at any moment.
SPECIFICATION Spec
CONSTANTS
    Days = {0, 1}
    Editions = {"open_source"}
    Breakage = {}
    Operator = {"credentials"}
    MaxFaults = 0
    MaxActs = 1
    MaxQueue = 2
CHECK_DEADLOCK FALSE
INVARIANTS
    RetentionGivenUpByEdition
