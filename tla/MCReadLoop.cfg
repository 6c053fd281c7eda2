SPECIFICATION FairSpec
CONSTANTS
    Second = 4
    ReadInterval = 6
    SleepTime = 3
    Keys = 1
    Reading = 9
    Late = 1
    Start = 5
    Horizon = 80
CHECK_DEADLOCK FALSE
INVARIANTS NoDrift NeverEarly CaughtUp
PROPERTIES ReadsGoOn
