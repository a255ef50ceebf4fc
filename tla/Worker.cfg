SPECIFICATION Spec
CONSTANTS
    MaxId = 2
    MaxOld = 1
    Batch = 1
    CatchUpEvery = 1
    MaxAge = 0
    LexiconStates <- MCLexiconStates
    Commands <- MCCommands
    MaxCommands = 1
    MaxEdits = 1
    MaxFaults = 1
    MaxUpsets = 1
INVARIANTS
    TypeOK
    NeverOvercounted
    SeededUnlessCut
    BeatsFollowWork
PROPERTIES
    Regrades
    EventuallyGrouped
    EventuallyGraded
    HealthReturns
    StopEnds
CHECK_DEADLOCK FALSE
