SPECIFICATION FairSpec
CONSTANTS
    Prices = {1, 2, 3, 4, 5}
    Null = Null
INVARIANT RingIsSorted
PROPERTY SearchEnds
