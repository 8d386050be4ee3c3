SPECIFICATION MCFairSpec
CONSTANTS
    Destinations = {"here", "there"}
    Secrets = {"none", "new"}
    Filters = {"f", "g"}
    Tunings = {"a", "b"}
    Unrunnable = {"b"}
    Slots <- MCSlots
    Breakage = {"open", "slow_start", "slow_stop", "register", "unsubscribe", "forward", "platforms", "fail", "pause", "probe", "kill"}
    MaxFaults = 2
    MaxRotations = 1
    MaxActs = 3
CHECK_DEADLOCK FALSE
INVARIANTS
    EntryTypeOK
    RecordedOnce
    OneOwner
    IssueHasRuntime
    UniqueIds
PROPERTIES
    RejectedSendReported
    StoredIsUsed
