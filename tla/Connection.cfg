SPECIFICATION FairSpec
CONSTANTS
    c1 = c1
    c2 = c2
    none = none
    None = none
    Cmds <- TwoCmds
    Untagged <- OneUntagged
    InOrder = FALSE
    SilentTicks = 1
CHECK_DEADLOCK FALSE
INVARIANTS
    RegisteredWhileOutstanding
    TaggedReplyIsOwn
    ReaderGoneSocketDown
PROPERTIES
    EveryCommandEnds
    SilenceIsNoticed
    ShutdownIsHeeded
