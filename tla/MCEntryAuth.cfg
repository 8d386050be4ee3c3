SPECIFICATION MCFairSpec
CONSTANTS
    Destinations = {"here", "there"}
    Secrets = {"none", "new"}
    Filters = {"f", "g"}
    Tunings = {"a", "b"}
    Unrunnable = {"b"}
    Slots <- MCSlots
    Breakage = {}
    MaxFaults = 0
    MaxRotations = 1
    MaxActs = 0
CHECK_DEADLOCK FALSE
PROPERTIES
    RejectionSurfaces
