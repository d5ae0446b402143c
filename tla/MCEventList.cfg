SPECIFICATION FairSpec
CONSTANTS
    f1 = f1
    f2 = f2
    e1 = e1
    e2 = e2
    e3 = e3
    Files <- MCFiles
    NoFile = NoFile
    Senders <- MCSenders
    NoSender = NoSender
    Events <- MCEvents
    UpdateReadies <- MCUpdateReadies
    NoNode = NoNode
INVARIANTS
    TypeOK
    ListIsQueue
    UpdateReadyMeetsClient
PROPERTIES
    EventsAreRead
CHECK_DEADLOCK FALSE
