SPECIFICATION PoolSpec
CONSTANT NumElems = 6
INVARIANTS EndsOnlyWhenFull
PROPERTY NoBlockShared
\* "out of space" ends the process.
CHECK_DEADLOCK FALSE
