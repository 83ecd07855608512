SPECIFICATION Spec
CONSTANTS
    Clients = {c1, c2}
    MaxWrites = 3
    MaxStops = 0
    MaxFailures = 0
SYMMETRY Symmetry
INVARIANT RecordReplays
CHECK_DEADLOCK FALSE
