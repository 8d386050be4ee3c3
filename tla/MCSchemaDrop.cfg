\* An operator who drops the table at any moment; nothing fails.
SPECIFICATION Spec
CONSTANTS
    Days = {0, 1}
    Editions = {"open_source"}
    Breakage = {}
    Operator = {"drop"}
    MaxFaults = 0
    MaxActs = 1
    MaxQueue = 2
CHECK_DEADLOCK FALSE
INVARIANTS
    RowsOnlyIntoDeclaredTable
