SPECIFICATION Spec
CONSTANTS
    p1 = p1
    p2 = p2
    v1 = v1
    v2 = v2
    NoConn = NoConn
    Producers <- TwoProducers
    Viewers <- TwoViewers
    MaxViewers = 2
    TTL = 0
    WriteTimeout = 0
    MaxFrame = 1
    MaxTime = 0
SYMMETRY RequestSymmetry
INVARIANTS ClaimsExact NoConnEscapesClose NoMissedFrame
