\* A worker that is slow to start and slow to stop.
SPECIFICATION MCFairSpec
CONSTANTS
    Destinations = {"here", "there"}
    Secrets = {"none", "new"}
    Filters = {"f", "g"}
    Tunings = {"a", "b"}
    Unrunnable = {"b"}
    Slots <- MCSlots
    Breakage = {"slow_start", "slow_stop"}
    MaxFaults = 2
    MaxRotations = 0
    MaxActs = 0
CHECK_DEADLOCK FALSE
INVARIANTS
    OneService
