SPECIFICATION AssetsSpec
CONSTANTS
    None = None
    video = video
    image = image
    w1 = w1
    w2 = w2
    k1 = k1
    k2 = k2
    AssetIds = {video, image}
    Workspaces = {w1, w2}
    FirstWorkspace = w1
    Clips = {k1, k2}
    OwnClips = {k1}
    Recipe <- MCRecipe
    Rank <- MCRank
    PageSize = 2
    MaxPolls = 2
    MaxSwitches = 1
    MaxCrashes = 1
    FaultSets <- MCFaultSets
INVARIANTS
    AssetsOK
    UsedAssetsStay
    TabCatchesUp
PROPERTIES
    ShownInTheEnd
CHECK_DEADLOCK FALSE
