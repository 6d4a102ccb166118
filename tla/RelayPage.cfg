SPECIFICATION FairPage
CONSTANTS
    Sockets = {w1, w2, w3}
    None = None
    MaxEvents = 2
INVARIANTS ConnectsOnce PageIsHonest
PROPERTIES OldEventsInert KeepsTrying AccessFollows
