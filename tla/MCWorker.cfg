CONSTANTS
    p1 = p1
    p2 = p2
    a = a
    b = b
    s1 = s1
    s2 = s2
    c1 = c1
    c2 = c2
    Probes <- MCProbes
    Checks <- MCChecks
    Starts <- MCStarts
    Stops <- MCStops
    NoLoop = NoLoop
SPECIFICATION WorkerSpec
SYMMETRY Symmetry
INVARIANT NotReadyAfterDrain
INVARIANT ReadyMeansChecked
INVARIANT StopEndsItsLoop
INVARIANT NoLoopIsOrphaned
