CONSTANTS
    Parts = {"dpos"}
    Scenarios <- MCShrink
    Schedule <- MCSchedule
    Own <- MCOwn
    Repetitions = 2
    Interval = 2
    Offset = 0
    LastOffset = 1
    StaleAge = 4
    Ahead = 1
    MaxTime = 8
    MaxNum = 3
    MaxTimers = 4
SPECIFICATION MCSpec
INVARIANT ChildPreferred
CHECK_DEADLOCK FALSE
