SPECIFICATION Spec
CONSTANTS
    Clients = {1, 2}
    Ticker = 1
    Prices = {10, 11, 12}
    Quantities = {1, 2}
    MaxLevels = 3
    MaxOrders = 2
    MinPrice = 0
INVARIANT RespondsToConnected
\* A shutdown and an exhausted level pool end the process.
CHECK_DEADLOCK FALSE
