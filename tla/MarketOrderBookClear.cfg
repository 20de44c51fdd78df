\* Two levels are as many as the pool gives out one after the other.
SPECIFICATION Spec
CONSTANTS
    Prices = {1, 2}
    Quantities = {1}
    MaxLevels = 2
    MaxOrderId = 4
    MaxClears = 2
    Null = Null
INVARIANT NoLevelFreedTwice
CHECK_DEADLOCK FALSE
