CONSTANTS
    Attrs = {"a"}
    Groups = {"g"}
    MaxHandlers = 4
    Spare = {1}
SPECIFICATION Spec
INVARIANT DerivedKeepsCalls
INVARIANT RecordedIsReceived
INVARIANT PanicIsAnswered
INVARIANT LineIsCorrelated
