CONSTANTS
    N = 3
    StartedHooks = 1
    DrainHooks = 1
SPECIFICATION FairSpec
INVARIANT DependenciesUp
INVARIANT NothingLeftRunning
INVARIANT HooksBracketService
INVARIANT DoomedBootStartsNoMore
PROPERTY ImplementsPromise
PROPERTY EveryFailureReported
PROPERTY RunEnds
