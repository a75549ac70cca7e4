SPECIFICATION MembersSpec
CONSTANTS
    None = None
    Mock = Mock
    alice = alice
    bob = bob
    carol = carol
    dave = dave
    w1 = w1
    w2 = w2
    w3 = w3
    p1 = p1
    p2 = p2
    p3 = p3
    p4 = p4
    Users = {alice, bob, carol, dave}
    Here = {alice, bob}
    Workspaces = {w1, w2, w3}
    Projects = {p1, p2, p3, p4}
    Made <- MCMade
    Members0 <- MCMembers
    Home0 <- MCHome
    Recent0 <- MCRecent
    FaultSets <- MCFaultSets
    MaxFlows = 3
    OthersGive = {"admin", "viewer"}
    MaxChanges = 3
    MaxChoices = 1
INVARIANTS
    MembersOK
PROPERTIES
    SelectionFits
    EditorComesUp
    MembersKept
CHECK_DEADLOCK FALSE
