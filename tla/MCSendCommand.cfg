SPECIFICATION Spec
CONSTANTS
    Commands = {i1, i2}
    MaxTries = 2
    MaxStops = 1
CHECK_DEADLOCK FALSE
INVARIANTS
    DeliveriesAreExplained
    ReportsAreTrue
    NewestTokenKept
PROPERTIES
    CommandEnds
