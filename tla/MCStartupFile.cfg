SPECIFICATION StartupSpec
CONSTANTS
    None = None
    LowerOf <- MCLowerOf
    Scale = 2
    Mantissa = 8
    Ulps = {1, 2, 4}
    Starts <- MCStarts
    Defaults <- MCDefaults
    DefaultConfig <- MCDefaultConfig
    Letters = {"a", "A", "b"}
    MaxMask = 3
    MaxArgs = 3
CHECK_DEADLOCK FALSE
INVARIANTS GivenIsRead
