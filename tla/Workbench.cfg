SPECIFICATION WorkbenchSpec
CONSTANTS
    None = None
    Ghost = c0
    c1 = c1
    c2 = c2
    n1 = n1
    n2 = n2
    s1 = s1
    s2 = s2
    V1 = V1
    V2 = V2
    A1 = A1
    TmpIds = {n1, n2}
    ServerIdOf <- MCServerIdOf
    KindOf <- MCKindOf
    Clips0 <- MCClips0
    Places <- MCPlaces
    MinDur = 2
    Reaches = {1, 3}
    EffectTypes = {"blur", "contrast"}
    Entries0 = 1
    Readings <- MCReadings
    MaxUndo = 3
    MaxOps = 5
    TopicSets <- MCTopicSets
INVARIANTS
    WorkbenchOK
    DragIsOneStep
    SnapLineTrue
PROPERTIES
    PasteKeepsShape
CHECK_DEADLOCK FALSE
