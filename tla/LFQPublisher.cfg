\* The queue from the matching engine to MarketDataPublisher.
SPECIFICATION FairSpec
CONSTANTS
    Producers = {p1}
    Values = {a, b}
    EmptySlot = EmptySlot
    Capacity = 3
    Backlog = 2
    SizeChecked = TRUE
    ReadsAfterRelease = TRUE
    MaxPushes = 5
INVARIANTS TypeOK NoInvalidRead NoElementHidden ForwardedAsReceived
PROPERTIES ImplementsFifo Delivered
