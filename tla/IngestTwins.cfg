SPECIFICATION Spec
CONSTANTS
    main = main
    econ = econ
    wire = wire
    a = a
    b = b
    c = c
    t1 = t1
    t2 = t2
    Sources = {main, wire}
    Sections = {}
    Urls = {a, b, c}
    Terms = {t1, t2}
    Category <- MCCategory
    Pages <- MCPagesTwins
    TermsOf <- MCTermsOf
    Near <- MCNear
    Concurrency = 2
    MaxBodies = 1
    LexiconStates = {TRUE}
    RecentLimit = 3
    Ageing = FALSE
    MaxFaults = 0
    NoRow = NoRow
INVARIANT NoTwinsStored
