SPECIFICATION Spec
CONSTANTS
    i1 = i1
    i2 = i2
    i3 = i3
    t1 = t1
    t2 = t2
    Items = {i1, i2, i3}
    Invalid = {i3}
    Broadcast = {i1}
    Requested <- Asked
    Targets = {t1, t2}
    MaxMentions = 2
    Runners = {r1, r2}
    NoItem = NoItem
    MaxRuns = 2
    MaxCrashes = 1
    MaxFaults = 1
SYMMETRY Symmetry
CHECK_DEADLOCK FALSE
INVARIANTS
    BindingsAreWhole
    QueuedIsTrue
    RowsAreExplained
    DoneMeansAllQueued
