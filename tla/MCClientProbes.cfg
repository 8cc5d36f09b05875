CONSTANTS
    r1 = r1
    r2 = r2
    Requests <- MCTwo
    FailureThreshold = 2
    CooldownTicks = 3
    MaxAttempts = 2
SPECIFICATION ClientSpec
INVARIANT AtMostOneProbe
