SPECIFICATION TimelineSpec
CONSTANTS
    None = None
    c1 = c1
    c2 = c2
    t1 = t1
    t2 = t2
    a1 = a1
    Requests = {r1, r2, r3}
    ClipIds = {c1, c2, c3}
    Tracks = {t1, t2, t3}
    Viewers = {v1}
    InitialTracks = {t1, t2}
    AssetIds = {a1}
    InitialClips <- MCInitialClips
    InitialAssetOf <- MCInitialAssetOf
    Calls <- MCCalls
    MinDur = 1
    FaultSets <- MCFaultSets
SYMMETRY Symmetry
INVARIANTS
    TimelineOK
    SplitHalvesMeet
    SplitAllOrNothing
    SpectatorConverges
CHECK_DEADLOCK FALSE
