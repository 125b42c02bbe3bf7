SPECIFICATION Spec
CONSTANTS
    Recorders = {r1, r2}
    Contents <- MCContents
    Bar = "|"
    pool_size = 2
    MaxRows = 3
    MaxRawWrites = 0
    MaxReadFaults = 0
    MaxEdits = 0
SYMMETRY Symmetry
INVARIANT OnlyEditsRefuseStart
