SPECIFICATION FairSpec
CONSTANTS
    Adapters = {"Ethernet", "WiFi"}
    Addresses = {"ip1"}
    Servers = {"s1", "s2"}
    DnsLists <- TwoServerLists
    MaxJobs = 2
INVARIANTS TypeOK AppliedIsReal ChangeIsPrefix OnlyAskedAdapterChanges
PROPERTIES ReloadTriesEnough ChangeEnds
