\* An operator who replaces a table of another shape; nothing fails.
SPECIFICATION MCSpec
CONSTANTS
    Days = {0, 1}
    Editions = {"open_source"}
    Breakage = {}
    Operator = {"replace"}
    MaxFaults = 0
    MaxActs = 1
    MaxQueue = 2
CHECK_DEADLOCK FALSE
INVARIANTS
    BlockedUntilReload
