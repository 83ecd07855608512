SPECIFICATION SpecFollowing
CONSTANTS
    Clients = {c1, c2}
    Impatient = {c1}
    Replicas = {r1, r2}
    Length <- Lengths
    MaxStream = 2
SYMMETRY Symmetry
INVARIANTS
    TypesOK
    CountsAgree
    
    StreamIsCarriedOut
    NothingLeftLying
