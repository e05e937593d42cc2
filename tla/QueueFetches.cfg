SPECIFICATION FairSpec
CONSTANTS
    g1 = g1
    g2 = g2
    t1 = t1
    t2 = t2
    failure = failure
    Failed = failure
    Groups <- TwoGroups
    Tasks <- TwoTasks
    MaxVersion = 2
    MaxRepublish = 1
CHECK_DEADLOCK FALSE
INVARIANTS
    SettledIsCurrent
PROPERTIES
    NeverRegresses
    EventuallyCurrent
