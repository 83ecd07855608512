SPECIFICATION FairSpec
CONSTANTS
    Clients = {c1, c2}
    Channels = {a, b}
    Passwords = {p}
    Wrong = Wrong
    MaxArgs = 2
    QueueNames = {"SUBSCRIBE", "PUBLISH"}
    MaxQueue = 1
    MaxMessages = 1
    NoQueue = NoQueue
INVARIANTS
    TypeOK
    TallyIsTrue
    GatesHold
PROPERTIES
    ReachesWhoListens
    ConfirmedBeforeHeard
    MessagesAreWritten
