SPECIFICATION Spec
CONSTANTS
    Images = {m1}
    Nothing = Nothing
    MaxCached = 1
INVARIANTS FramesHaveBackends
CHECK_DEADLOCK FALSE
