CONSTANTS
    s1 = s1
    s2 = s2
    c1 = c1
    c2 = c2
    q1 = q1
    q2 = q2
    NoStart = NoStart
    Starts <- MCStarts
    Stops <- MCStops
    Requests <- MCRequests
SPECIFICATION OrdersSpec
INVARIANT ShutdownDrains
INVARIANT StoredIsFound
PROPERTY DeathIsReported
PROPERTY NothingLeftListening
CHECK_DEADLOCK FALSE
