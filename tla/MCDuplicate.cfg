CONSTANTS
    Epoch = 100
    MaxDials = 2
    MaxAgain = 1
SPECIFICATION DialSpec
INVARIANT OneSurvives
CHECK_DEADLOCK FALSE
