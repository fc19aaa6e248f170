SPECIFICATION MCSpec
CONSTANTS
    Feeds = {"f1", "f2"}
    Zips = {1, 2, 3}
    Broken = {3}
    Urls = {"u1", "u2"}
    Chateaux = {"c1", "c2"}
    Slots = {1, 2, 3}
    Threads = 2
    Repositories <- MCRepositories
    Modes <- MCModes
    None = None
    StaleTables = 5
    MaxFaults <- MCMaxFaults
    Together <- MCTogether
INVARIANTS
    OneOnTheMap
    MapIsComplete
    MarkedWasShown
    NoOrphans
PROPERTIES
    StaysOnTheMap
    EventuallyMarked
    ChateauxSettle
