SPECIFICATION PlayerSpec
CONSTANTS
    Nothing = Nothing
    c1 = c1
    c2 = c2
    a1 = a1
    V1 = V1
    V2 = V2
    A1 = A1
    m1 = m1
    m2 = m2
    s1 = s1
    ClipOrder <- MCClipOrder
    VideoTracks <- MCVideoTracks
    AudioTracks = {A1}
    TrackOf <- MCTrackOf
    AssetOf <- MCAssetOf
    Dur <- MCDur
    InPoint <- MCInPoint
    Place0 <- MCPlace0
    Speeds = {1, 2}
    Marks = {0, 3, 5}
    MaxOps = 3
    MishapSets <- MCMishapSets
INVARIANTS
    PlayerOK
    OnlyHeardClips
PROPERTIES
    PlaybackEnds
CHECK_DEADLOCK FALSE
