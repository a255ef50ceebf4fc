SPECIFICATION Spec
CONSTANTS
    MaxId = 2
    MaxOld = 1
    Batch = 1
    CatchUpEvery = 1
    MaxAge = 1
    LexiconStates <- MCAllLexiconStates
    Commands <- MCNoCommands
    MaxCommands = 0
    MaxEdits = 0
    MaxFaults = 1
    MaxUpsets = 1
INVARIANTS
    WarmStart
CHECK_DEADLOCK FALSE
