SPECIFICATION Spec
CONSTANTS
    Hardware <- MCHardware
    Networks <- MCNetworks
    Programs <- MCPrograms
    Browsers <- MCBrowsers
    Roots <- MCRoots
    Typical <- MCTypical
    Threshold = 5
    MaxEvents = 3
CHECK_DEADLOCK FALSE
INVARIANTS
    FixedOrConnected
