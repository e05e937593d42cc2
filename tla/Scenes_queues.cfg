SPECIFICATION Spec
CONSTANTS
    a = a
    b = b
    c = c
    former = former
    Rooms <- MCRooms
    NameOf <- MCNameOf
    MutedBefore <- MCMutedBefore
    Commands <- MCCommands
    MaxLate = 1
INVARIANT ScenesKeepQueues
CHECK_DEADLOCK FALSE
