\* A destructor or an assertion ends the process.
SPECIFICATION Spec
CONSTANTS
    Prices = {1, 2, 3}
    Quantities = {1, 2}
    MaxLevels = 4
    MaxOrderId = 3
    MaxClears = 2
    Null = Null
INVARIANTS KnownById BookIsFeed BboIsSound
PROPERTY BboStays
CHECK_DEADLOCK FALSE
