SPECIFICATION FairSpec
CONSTANTS
    main = main
    econ = econ
    wire = wire
    a = a
    b = b
    c = c
    t1 = t1
    t2 = t2
    Sources = {main, econ}
    Sections = {econ}
    Urls = {a, b, c}
    Terms = {t1, t2}
    Category <- MCCategory
    Pages <- MCPagesPair
    TermsOf <- MCTermsOf
    Near <- MCNear
    Concurrency = 2
    MaxBodies = 0
    LexiconStates = {TRUE}
    RecentLimit = 2
    Ageing = FALSE
    MaxFaults = 1
    NoRow = NoRow
INVARIANTS
    TypeOK
    TermStatsAccount
    LogAccounts
    Isolation
    EtagCovers
PROPERTIES
    ArticlesKeep
    ImplementsCorpus
    EventuallyCovered
