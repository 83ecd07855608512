SPECIFICATION Spec
CONSTANTS
    Clients = {c1}
    Impatient = {}
    Replicas = {r1}
    Length <- Lengths
    MaxStream = 2
SYMMETRY Symmetry
INVARIANT NothingSlipsThrough
