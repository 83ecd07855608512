SPECIFICATION SpecStore
CONSTANTS
    Clients = {c1, c2}
    Keys = {k1, k2}
    Ops = {"SET", "SET PX", "SET text", "INCR", "RPUSH", "LPOP", "LPOP 0",
           "ZADD", "ZREM", "ZREM none", "XADD"}
    QueueOps = {"ZADD"}
    MaxChanges = 3
    MaxQueue = 1
    MaxLen = 2
    NoQueue = NoQueue
    NotANumber = NotANumber
    NotHeld = NotHeld
    WrongType = WrongType
    AnyRun = AnyRun
SYMMETRY Symmetry
INVARIANTS
    TypesOK
    WatchIsExact
    SetIsItsMap
    PlacesComeBack
    RepliesWereTrue
    MatchIsExact
