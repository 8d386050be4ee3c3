SPECIFICATION FairSpec
CONSTANTS
    Days = {0, 1}
    Editions = {"open_source", "enterprise"}
    Breakage = {"lost", "closed", "busy", "garbage", "malformed", "kill"}
    Operator = {"drop", "replace", "ttl", "credentials"}
    MaxFaults = 1
    MaxActs = 2
    MaxQueue = 2
CHECK_DEADLOCK FALSE
INVARIANTS
    SchemaTypeOK
    TtlSettled
PROPERTIES
    GateDiesOnlyOfShape
    GateOpens
