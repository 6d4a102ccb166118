SPECIFICATION PartsSpec
CONSTANTS
    Images = {m1, m2, m3}
    Nothing = Nothing
    MaxCached = 2
    Rects = {r1, r2}
    Views = {Full, bars}
    Full = Full
    None = None
    Interval = 2
    MaxStep = 1
    MaxSequence = 3
    MaxStarts = 2
    MaximumFrames = 2
INVARIANTS TexturesAccounted RendererIsWhole ViewportInOrder RecorderIsHonest
PROPERTIES TwoAgree MapComesBack DetectionServes StopEnds
CHECK_DEADLOCK FALSE
