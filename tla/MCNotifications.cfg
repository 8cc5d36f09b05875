CONSTANTS
    N = 4
    StartedHooks = 1
    DrainHooks = 1
    q1 = q1
    q2 = q2
    q3 = q3
    Requests <- MCRequests
    Capacity = 1
    Outcomes = {"delivered", "failed"}
    Nobody = Nobody
    NoStart = NoStart
SPECIFICATION StackSpec
SYMMETRY Symmetry
INVARIANT HandlerHasWorker
INVARIANT NothingLostOrTwice
INVARIANT AcceptedIsSettled
INVARIANT ReadyMeansServing
