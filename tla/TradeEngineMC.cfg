\* With ticker 1 the acknowledgements of client 0 go astray.
SPECIFICATION FairSpec
CONSTANTS
    ClientId = 0
    Tickers = {0, 1}
    Algos = {"MAKER", "TAKER"}
    Prices = {1, 2}
    Quantities = {1, 2}
    Threshold = 1
    Clip = 2
    MaxOrderSize = 2
    MaxPosition = 3
    MaxLoss <- LosesTwo
    Uninitialised = {0}
    Unit = 6
    MaxOrders <- FourAndThree
    MaxInFlight = 2
    MaxStray = 1
INVARIANTS TypeOK PositionLimited OneOrderASide BooksAgree ProfitIsCash
PROPERTY PendingEnds
\* A client that has made its last order stops.
CHECK_DEADLOCK FALSE
