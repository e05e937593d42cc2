SPECIFICATION FairSpec
CONSTANTS
    p1 = p1
    p2 = p2
    p3 = p3
    g1 = g1
    g2 = g2
    Players <- ThreePlayers
    Primary = p1
    LOST = LOST
    Groups <- TwoGroups
    Topologies <- ThreeTopologies
    MaxTopo = 2
    MaxLoss = 2
INVARIANTS
    NoStaleTeardown
    DeadRoomsAreKnown
    SettledIsPublished
PROPERTY
    PrimaryLossIsRecovered
    DeadRoomsAreReplaced
CHECK_DEADLOCK FALSE
