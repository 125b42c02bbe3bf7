SPECIFICATION Spec
CONSTANTS
    Recorders = {r1, r2}
    Contents <- MCContents
    Bar = "|"
    pool_size = 1
    MaxRows = 4
    MaxRawWrites = 1
    MaxReadFaults = 1
    MaxEdits = 1
SYMMETRY Symmetry
INVARIANTS
    RecordersKeepChain
    EditIsDetected
