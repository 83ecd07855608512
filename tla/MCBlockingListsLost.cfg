SPECIFICATION Spec
CONSTANTS
    Clients = {c1, c2}
    Impatient = {c1}
    Keys = {k1}
    Elements = {e1, e2}
    MaxBatch = 2
    NoElement = NoElement
    Gone = Gone
INVARIANT
    NoElementLost
