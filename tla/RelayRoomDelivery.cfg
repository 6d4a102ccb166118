SPECIFICATION FairSpec
CONSTANTS
    p1 = p1
    p2 = p2
    v1 = v1
    v2 = v2
    NoConn = NoConn
    Producers <- OneProducer
    Viewers <- OneViewer
    MaxViewers = 1
    TTL = 1
    WriteTimeout = 2
    MaxFrame = 2
    MaxTime = 2
PROPERTIES WritesNewAndFresh MailboxSpec RoomProgress
CHECK_DEADLOCK FALSE
