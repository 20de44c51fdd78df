SPECIFICATION FairSpec
CONSTANTS
    Clients = {1, 2}
    Ticker = 0
    Prices = {10, 11, 12}
    Quantities = {1, 2}
    MaxLevels = 3
    MaxOrders = 3
    MinPrice = 0
INVARIANTS TypeOK Uncrossed LevelsAreSound IndexIsExact LedgerAddsUp MirrorIsBook
PROPERTIES PriceTimePriority RequestsEnd
\* A shutdown and an exhausted level pool end the process.
CHECK_DEADLOCK FALSE
