SPECIFICATION FairSpec
CONSTANTS
    MaxRetry = 3
    MaxReports = 2
INVARIANTS TypeOK SuccessMeansStored CopiesBounded
PROPERTIES GivesUpOnlyWithCause ShownGoesForward SendEnds DeliveryImplemented
CHECK_DEADLOCK FALSE
