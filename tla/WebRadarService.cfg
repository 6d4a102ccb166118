SPECIFICATION FairSpec
CONSTANTS
    Conns = {c1, c2}
    MaxViewers = 1
    MaxFrames = 2
INVARIANTS ViewersBounded NothingOutlives
PROPERTIES ViewersServed ServiceProgress
