SPECIFICATION SessionSpec
CONSTANTS
    None = None
    Logout = Logout
    Tabs = {t1, t2}
    Users = {alice, bob}
    Calls = {c1, c2}
    Tokens = {k1, k2}
    MaxEpoch = 2
    MaxReloads = 1
    FaultSets <- MCFaultSets
INVARIANTS
    SessionOK
    LogoutReachesAll
PROPERTIES
    NobodyWaits
CHECK_DEADLOCK FALSE
