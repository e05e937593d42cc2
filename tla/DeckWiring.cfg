SPECIFICATION Spec
CONSTANTS
    Hidden = Hidden
    Kitchen = Kitchen
    G1 = G1
    G2 = G2
    Groups <- MCGroups
    Players <- MCPlayers
    Primary = Hidden
    Topologies <- MCTopologies
    FirstTopology <- One
    Fragile <- MCFragile
    Changing <- MCRooms
    MaxTurns = 2
    MaxDelays = 1
INVARIANTS
    WiredIsSubscribed
    HeardRoomsAreCurrent
PROPERTY EverythingIsWired
CHECK_DEADLOCK FALSE
