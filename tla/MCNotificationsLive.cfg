CONSTANTS
    N = 3
    StartedHooks = 1
    DrainHooks = 1
    q1 = q1
    q2 = q2
    q3 = q3
    Requests <- MCRequests
    Capacity = 1
    Outcomes = {"failed"}
    Nobody = Nobody
    NoStart = NoStart
SPECIFICATION FairStackSpec
PROPERTY KeepsContract
PROPERTY ProcessEnds
PROPERTY SubmitIsAnswered
