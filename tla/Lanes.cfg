SPECIFICATION FairSpec
CONSTANTS
    bass1 = bass1
    bass2 = bass2
    toggle = toggle
    play = play
    split = split
    group = group
    read = read
    kitchen = kitchen
    den = den
    free = free
    barr = barr
    bass = bass
    nothing = nothing
    Jobs <- AllJobs
    LaneOf <- Lane
    Free = free
    Barrier = barr
    SetsOf <- Setting
    Nothing = nothing
    MaxInbox = 1
    SentAfter <- Alike
CHECK_DEADLOCK FALSE
INVARIANTS
    BarrierRunsAlone
    LastValueWins
    ReturnsWithNothingLeft
PROPERTIES
    EveryJobIsServed
    KeepsTheOrder
