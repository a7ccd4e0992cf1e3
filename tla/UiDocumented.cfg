CONSTANT MaxClicks = 2
SPECIFICATION Spec
INVARIANT EntryLoadedOrConfirmed
CHECK_DEADLOCK FALSE
