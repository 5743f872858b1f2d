SPECIFICATION FairSpec
CONSTANTS
    Scenarios = 2
    MaxSignals = 3
INVARIANTS
    TypeOK
    StopIsPrompt
    SkipIsKept
    SkipMarksOne
    SuccessIsWhole
PROPERTIES
    StopEndsBatch
