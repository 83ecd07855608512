SPECIFICATION FairSpec
CONSTANTS
    Clients = {c1, c2}
    Impatient = {c1}
    Keys = {k1, k2}
    Elements = {e1, e2}
    MaxBatch = 2
    NoElement = NoElement
    Gone = Gone
INVARIANTS
    TypeOK
    ListsInShape
    EachWaiterInLineOnce
    NoElementTwice
    NoPileUp
    ServedInOrder
PROPERTIES
    LostOnlyToLate
    WaitersAreAnswered
    KeepsPromise
