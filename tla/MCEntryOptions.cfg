\* Options saved while the setup is under way; nothing fails.
SPECIFICATION MCFairSpec
CONSTANTS
    Destinations = {"here", "there"}
    Secrets = {"none", "new"}
    Filters = {"f", "g"}
    Tunings = {"a", "b"}
    Unrunnable = {"b"}
    Slots <- MCSlots
    Breakage = {}
    MaxFaults = 0
    MaxRotations = 0
    MaxActs = 1
CHECK_DEADLOCK FALSE
INVARIANTS
    OptionsReload
