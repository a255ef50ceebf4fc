SPECIFICATION Spec
CONSTANTS
    main = main
    econ = econ
    wire = wire
    a = a
    b = b
    c = c
    t1 = t1
    t2 = t2
    Sources = {main, econ, wire}
    Sections = {econ}
    Urls = {a, b, c}
    Terms = {t1, t2}
    Category <- MCCategory
    Pages <- MCPagesTrio
    TermsOf <- MCTermsOf
    Near <- MCNear
    Concurrency = 1
    MaxBodies = 1
    LexiconStates = {FALSE}
    RecentLimit = 3
    Ageing = TRUE
    MaxFaults = 0
    NoRow = NoRow
INVARIANTS
    NoTwinsStored
    SectionWins
    OpenCounts
    TermStatsExact
