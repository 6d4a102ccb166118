SPECIFICATION FairSpec
CONSTANTS
    s1 = s1
    s2 = s2
    v1 = v1
    v2 = v2
    NoSession = NoSession
    Sessions <- TwoSessions
    Viewers <- TwoViewers
    MaxSessions = 1
    MaxPerSession = 1
    SessionTTL = 1
    MaxTime = 1
INVARIANTS SessionsAccounted RevokedStreamsAreCut
PROPERTIES RefusalCostsNothing StreamsEnd
