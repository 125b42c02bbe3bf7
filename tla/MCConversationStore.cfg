SPECIFICATION FairSpec
CONSTANTS
    m1 = m1
    m2 = m2
    m3 = m3
    Msgs = {m1, m2, m3}
    SortKey <- SharedKey
    Callers = {c1, c2}
    Workers = {w1, w2, w3}
    None = None
    per_route_buffer = 1
    MaxGCs = 1
    MaxPanics = 1
CHECK_DEADLOCK FALSE
INVARIANTS
    RouteUntilCollected
    HandledOnce
    ReleasedInOrder
PROPERTIES
    AcceptedIsProcessed
