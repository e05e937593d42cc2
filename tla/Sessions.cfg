SPECIFICATION Spec
CONSTANTS
    A = A
    B = B
    C = C
    H = H
    I = I
    First = First
    Second = Second
    Ips <- MCIps
    Households <- MCHouseholds
    Worlds <- MCWorlds
    Files <- MCFiles
    Selectors <- MCSelectors
    MaxCalls = 2
    MaxTurns = 2
    Writes <- MCWrites
SYMMETRY MCSymmetry
INVARIANTS
    OneSession
    RightHousehold
    NothingLeftOpen
    OnlyTheFailedIsClosed
PROPERTY ForgottenOnEvidence
CHECK_DEADLOCK FALSE
