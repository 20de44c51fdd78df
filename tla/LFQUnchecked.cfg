\* The queue from the order server to MatchingEngine::run.
SPECIFICATION Spec
CONSTANTS
    Producers = {p1}
    Values = {a, b}
    EmptySlot = EmptySlot
    Capacity = 3
    Backlog = 2
    SizeChecked = FALSE
    ReadsAfterRelease = FALSE
    MaxPushes = 3
INVARIANT NoInvalidRead
CHECK_DEADLOCK FALSE
