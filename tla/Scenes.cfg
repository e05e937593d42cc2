SPECIFICATION Spec
CONSTANTS
    a = a
    b = b
    c = c
    former = former
    Rooms <- MCRooms
    NameOf <- MCNameOf
    MutedBefore <- MCMutedBefore
    Commands <- MCCommands
    MaxLate = 1
INVARIANTS
    TypeOK
    AppliedIsTheScene
    DoneIsThere
    QueuesAreKept
PROPERTIES
    OnlyWhatDiffers
    EveryCommandReturns
CHECK_DEADLOCK FALSE
