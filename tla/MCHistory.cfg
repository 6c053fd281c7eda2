SPECIFICATION Spec
CONSTANTS
    Size = 3
    Intervals = {1, 2, 4}
    ReadInterval = 2
    Tolerance = 2
    Gaps = {2, 3, 13}
    Types = {"counter", "rate"}
    Amounts = {1, 15}
    Widths = {4, 256}
    Width64 = 256
    Accuracy = 256
    Unknown = Unknown
    Horizon = 26
CHECK_DEADLOCK FALSE
INVARIANTS GraphIsRecent MeansAddUp
