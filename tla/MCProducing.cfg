CONSTANTS
    Parts = {"loop", "dpos"}
    Scenarios <- MCScenarios
    Schedule <- MCSchedule
    Own <- MCOwn
    Repetitions = 2
    Interval = 2
    Offset = 0
    LastOffset = 1
    StaleAge = 4
    Ahead = 1
    MaxTime = 8
    MaxNum = 3
    MaxTimers = 4
SPECIFICATION MCSpec
INVARIANTS ConfirmationsAgree HonestGoesOn AwakeInTime
PROPERTIES SignsOnce SealedInTime
CHECK_DEADLOCK FALSE
