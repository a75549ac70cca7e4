SPECIFICATION PresenceSpec
CONSTANTS
    Null = Null
    t1 = t1
    t2 = t2
    t3 = t3
    t4 = t4
    bob = bob
    me = me
    ann = ann
    p1 = p1
    p2 = p2
    Others = {t1, t2, t3, t4}
    UserOf <- MCUserOf
    Me = me
    Shared = p1
    Projects = {p1, p2}
    Times = {0, 1, 3}
    MaxOps = 3
    TopicSets <- MCTopicSets
INVARIANTS
    PresenceOK
    
    StaleIsMissed
PROPERTIES
    PresenceSettles
CHECK_DEADLOCK FALSE
