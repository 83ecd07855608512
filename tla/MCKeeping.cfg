SPECIFICATION SpecKeeping
CONSTANTS
    Clients = {c1, c2}
    MaxWrites = 4
    MaxStops = 2
    MaxFailures = 1
SYMMETRY Symmetry
INVARIANTS
    TypesOK
    AckedIsRecordedOnce
    
    LoadsAllOrNothing
    
CHECK_DEADLOCK FALSE
