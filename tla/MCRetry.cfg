CONSTANTS
    MaxAttempts = 4
    Base = 1
    MaxBackoff = 3
    MaxRetryAfter = 8
    Second = 4
    Half = 64
    Headers <- MCHeaders
    Deadlines <- MCDeadlines
SPECIFICATION FairSpec
INVARIANT SafeToRepeat
INVARIANT NothingElseIsLeft
INVARIANT AnswerKept
INVARIANT WaitIsBounded
PROPERTY CallEnds
CHECK_DEADLOCK FALSE
