SPECIFICATION Spec
CONSTANTS
    Days = {0, 1}
    Editions = {"open_source"}
    Breakage = {}
    Operator = {}
    MaxFaults = 0
    MaxActs = 2
    MaxQueue = 2
CHECK_DEADLOCK FALSE
INVARIANTS
    RetentionAligned
