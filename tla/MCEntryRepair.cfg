\* A reauthentication and a reconfiguration that race each other; nothing fails.
SPECIFICATION MCFairSpec
CONSTANTS
    Destinations = {"here", "there"}
    Secrets = {"none", "new"}
    Filters = {"f", "g"}
    Tunings = {"a", "b"}
    Unrunnable = {"b"}
    Slots <- MCSlots
    Breakage = {}
    MaxFaults = 0
    MaxRotations = 1
    MaxActs = 3
CHECK_DEADLOCK FALSE
PROPERTIES
    RepairMovesNothing
