SPECIFICATION InboundSpec
CONSTANTS
    Msgs = {m1, m2}
    Handlers = {h1, h2, h3}
    NoMsg = NoMsg
    MaxDeliveries = 3
    MaxFaults = 1
    MaxFull = 1
    MaxEvictions = 1
    MaxCrashes = 1
SYMMETRY Symmetry
CHECK_DEADLOCK FALSE
INVARIANTS
    RepeatsAreEvictions
    AckedIsKeptWhenHealthy
