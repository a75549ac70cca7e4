SPECIFICATION EditorSpec
CONSTANTS
    None = None
    c1 = c1
    c2 = c2
    c3 = c3
    tmp1 = tmp1
    tmp2 = tmp2
    TmpIds = {tmp1, tmp2}
    ServerIds = {c1, c2, c3}
    InitialClips <- MCInitialClips
    Positions = {1, 2}
    Durations = {1}
    MinDur = 1
    MaxUndo = 2
    MaxSteps = 4
    FaultSets <- MCFaultSets
SYMMETRY Symmetry
INVARIANTS
    EditorOK
    SettledAgrees
PROPERTIES
    IsUndoHistory
CHECK_DEADLOCK FALSE
