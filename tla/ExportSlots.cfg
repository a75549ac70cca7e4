SPECIFICATION SlotFairSpec
CONSTANTS
    Requests = {r1, r2, r3}
    Limit = 2
    FaultSets <- AllFaultSets
INVARIANTS SlotOK
PROPERTIES SaturationEnds
CHECK_DEADLOCK FALSE
