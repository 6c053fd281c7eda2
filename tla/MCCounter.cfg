SPECIFICATION Spec
CONSTANTS
    Width32 = 16
    Width64 = 256
    KernelWidth = 16
    Restarts = TRUE
    IgnoreOverflows = FALSE
    RateInterval = 3
    RateVariance = 1
    Precision = 4
    Quiet = 1
    Busy = 3
    MinGap = 1
    MaxGap = 4
    Delay = 1
    Horizon = 8
CHECK_DEADLOCK FALSE
INVARIANTS TotalExact ShownSinceReset NoSpike
PROPERTIES TotalNeverFalls
