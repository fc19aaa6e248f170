SPECIFICATION FairSpec
CONSTANTS
    None = None
    Workers = {1, 2}
    Feeds = {2, 3}
    Instructions = {1, 2}
    Catalogs <- Changing
    MaxFaults <- EveryFault
INVARIANTS
    NothingWithoutLease
    OneElectedJob
PROPERTIES
    EventuallyFetched
CHECK_DEADLOCK FALSE
