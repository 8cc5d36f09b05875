CONSTANTS
    N = 2
    StartedHooks = 1
    DrainHooks = 1
SPECIFICATION FairSpec
PROPERTY FatalIsHeard
