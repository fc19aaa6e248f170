SPECIFICATION FairSpec
CONSTANTS
    f1 = f1
    c1 = c1
    h1 = h1
    h2 = h2
    p1 = p1
    p2 = p2
    None = None
    Chateaux = {c1}
    Feeds = {f1}
    ChateauOf <- OneFeed
    Types = {1, 2}
    Handlers = {h1}
    Threads = {p1, p2}
    AlwaysNew = {f1}
    AlwaysWritten = {}
    AlwaysQueued = {}
    Overlap = FALSE
    MaxVersion = 2
    MaxFaults <- CancelAndCrash
PROPERTIES
    ServedMonotone
    GraceKeepsTrips
    MarkedIsServed
    UntimedFeedsConverge
