SPECIFICATION Spec
CONSTANTS
    Second = 5
    ReadInterval = 5
    SleepTime = 4
    Keys = 0
    Reading = 1
    Late = 1
    Start = 1
    Horizon = 20
    Width32 = 32
    Width64 = 128
    RateInterval = 5
    RateVariance = 2
    Precision = 6
    Quiet = 1
    Busy = 2
CHECK_DEADLOCK FALSE
INVARIANTS RateNotUnder OnTime
