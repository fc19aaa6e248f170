SPECIFICATION Spec
CONSTANTS
    f1 = f1
    c1 = c1
    h1 = h1
    h2 = h2
    p1 = p1
    p2 = p2
    None = None
    Chateaux = {c1}
    Feeds = {f1}
    ChateauOf <- OneFeed
    Types = {2}
    Handlers = {h1, h2}
    Threads = {p1, p2}
    AlwaysNew = {}
    AlwaysWritten = {}
    AlwaysQueued = {c1}
    Overlap = TRUE
    MaxVersion = 2
    MaxFaults <- EveryFault
SYMMETRY HandlerSymmetry
INVARIANTS
    MarkIsALock
    FreshUnlessLost
