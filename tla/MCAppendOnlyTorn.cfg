SPECIFICATION Spec
CONSTANTS
    Clients = {c1, c2}
    MaxWrites = 3
    MaxStops = 1
    MaxFailures = 0
SYMMETRY Symmetry
INVARIANT AckedIsReadBack
CHECK_DEADLOCK FALSE
