SPECIFICATION Spec
CONSTANTS
    SettingLists <- VisibleLists
    PcChecks <- ChecksInOrder
    MayRaise <- Raising
    MaxWorkers = 2
    MaxChanges = 1
INVARIANT FailureIsolated
