SPECIFICATION FairSpec
CONSTANTS
    l1 = l1
    l2 = l2
    None = None
    Leaders = {l1, l2}
    Workers = {1, 2}
    Chateaux = {2, 3}
    Feeds = {1}
    Catalogs <- Grows
    MaxFaults <- Lapses
PROPERTIES
    EventuallyBalanced
    EventuallyRegistered
