CONSTANT MaxClicks = 3
SPECIFICATION FairSpec
INVARIANTS TypeOK BusyHasOneOwner AutoSendExactlyOnce TestModeInert
           BoxesDoNotPileUp
PROPERTIES ImplementsExclusiveJobs AutoSendHappens ComesToRest
CHECK_DEADLOCK FALSE
