SPECIFICATION FairSpec
CONSTANTS
    LogLen = 1
    MaxUpdates = 1
    MaxRandom = 1
    MaxSleeps = 1
INVARIANTS ReaderSafe LogComplete
PROPERTY ShutdownEnds
\* The process ends.
CHECK_DEADLOCK FALSE
