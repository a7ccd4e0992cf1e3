SPECIFICATION Spec
CONSTANTS
    Browsers = {"chrome", "edge"}
    CommonSettings = {"show_file_extensions"}
    Win11Settings = {"win11_start_more_pins"}
    InitialPcs <- MCInitialPcs
    MaxEvents = 3
CHECK_DEADLOCK FALSE
INVARIANTS
    TypeOK
    AppliedIsInForce
    FailureIsPrefix
    RowsTellTruth
    KeyIsOfChoice
    SelectionAgrees
