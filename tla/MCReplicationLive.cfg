SPECIFICATION FairSpec
CONSTANTS
    Clients = {c1, c2}
    Impatient = {c1}
    Replicas = {r1}
    Length <- Lengths
    MaxStream = 3
INVARIANT
    ReportsAreTrue
PROPERTIES
    WaitIsAnswered
