SPECIFICATION GateFairSpec
CONSTANTS
    Callers = {c1, c2, c3}
    failure_threshold = 3
    half_open_max = 2
    max_concurrent = 2
INVARIANTS
    BulkheadAccounting
    NeverStuck
    ProbesBounded
PROPERTIES
    OpenIsProbed
