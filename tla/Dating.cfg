SPECIFICATION DatingSpec
CONSTANTS
    NoDate = NoDate
    Entries <- MCEntries
    Pages <- MCPages
    Offset = 345
    Elsewhere = 330
    Gap = 30000000
    Swap = 250000
    SinceMidnight = 700
    Day = 1440
    Hour = 60
    Since2000 = 14000000
INVARIANTS
    DatesResolve
CHECK_DEADLOCK FALSE
