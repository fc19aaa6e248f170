SPECIFICATION Spec
CONSTANTS
    Fetchers = {a1, a2}
    Workers = {w1, w2}
    Feeds = {f1}
    Chateau = ch
    Tiles = {1, 2, 3}
    Views <- MCViews
    None = None
    MaxVersion = 1
    MaxEvents = 1
INVARIANTS
    MapIsOneDataset
PROPERTIES
    OwnerIsFed
    EventuallyShown
