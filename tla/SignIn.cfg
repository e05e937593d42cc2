SPECIFICATION Spec
CONSTANTS
    daemon = daemon
    cli = cli
    d1 = d1
    d2 = d2
    c1 = c1
    person = person
    Processes <- MCProcesses
    Callers <- MCCallers
    ProcessOf <- MCProcessOf
    People <- MCPeople
    MaxTokens = 3
SYMMETRY MCSymmetry
INVARIANT SignInOfTheFile
PROPERTIES
    AnswersWereHeld
    AsksOncePerToken
