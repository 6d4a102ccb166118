SPECIFICATION RecordingSpec
CONSTANTS
    Interval = 2
    MaxStep = 1
    MaxSequence = 3
    MaxStarts = 1
    MaximumFrames = 2
INVARIANTS RecordedStrictly
CHECK_DEADLOCK FALSE
