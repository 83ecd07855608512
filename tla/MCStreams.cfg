SPECIFICATION FairSpec
CONSTANTS
    c1 = c1
    c2 = c2
    k1 = k1
    k2 = k2
    Clients = {c1, c2}
    Keys = {k1, k2}
    MaxMs = 1
    MaxSeq = 1
    Dollar = Dollar
    Calls <- Reading
INVARIANTS
    TypeOK
    StreamsAreLogs
    RangeIsExact
    NothingSlipsPast
    
PROPERTIES
    DollarSeesAll
    ReadersAreAnswered
