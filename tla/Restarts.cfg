SPECIFICATION RestartsFairSpec
CONSTANTS
    MaxBackoff = 2
    MaxTime = 7
CHECK_DEADLOCK FALSE
INVARIANTS
    OneWatcherTells
PROPERTIES
    FreshIsKept
    ChangesAreAnswered
