SPECIFICATION FairSpec
CONSTANTS
    MaxFrame = 3
    MaxTime = 2
    MaxAge = 1
INVARIANTS StatusIsTrue
PROPERTIES DeliveryIsExact RetiringIsFinal WorkerProgress
CHECK_DEADLOCK FALSE
