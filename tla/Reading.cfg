SPECIFICATION Spec
CONSTANTS
    MaxId = 4
    Grades = {"A", "F"}
    Ungraded = "none"
    Limits <- MCLimits
    Filters <- MCFilters
    Incidents = {i1, i2, i3}
    PageSize = 2
    MaxPages = 3
    VerifiedOnly = TRUE
    PrefixKey = 2
    NoGrade = "none"
    MaxPhraseWords = 2
    TopN = 3
    Tokens <- MCTokens
    Files <- MCFiles
    MaxTitle = 2
    MaxBody = 4
    NoDate = NoDate
    Entries <- MCEntries
    Pages <- MCPages
    Offset = 345
    Elsewhere = 330
    Gap = 30000000
    Swap = 250000
    SinceMidnight = 700
    Day = 1440
    Hour = 60
    Since2000 = 14000000
INVARIANTS
    NoRowTwice
    NothingSkipped
    CrawlComplete
    RepeatsExplained
    IndexLosesNothing
    DampeningOnlyLowers
    KeywordsOfTheText
    DatesAreMeant
PROPERTIES
    WalkEnds
    CrawlEnds
CHECK_DEADLOCK FALSE
