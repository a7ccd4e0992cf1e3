SPECIFICATION FairSpec
CONSTANTS
    SettingLists <- VisibleLists
    PcChecks <- ChecksInOrder
    MayRaise <- Raising
    MaxWorkers = 2
    MaxChanges = 1
INVARIANTS ShownIsFresh QuietWhenIdle
PROPERTIES RefreshProgresses RefreshEnds
