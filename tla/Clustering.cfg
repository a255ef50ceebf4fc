SPECIFICATION FairSpec
CONSTANTS
    worker = worker
    cli = cli
    agency = agency
    daily = daily
    ne = ne
    en = en
    None = None
    Clusterers = {worker, cli}
    Articles = {1, 2, 3, 4}
    Source <- MCSource
    Lang <- MCLang
    Published <- MCPublished
    Score <- MCScore
    Threshold = 2
    Window = 1
    MaxCandidates = 4
    ClusterBatch = 2
    Limit <- MCLimit
    MaxFaults = 1
INVARIANTS
    TypeOK
    OneClusterer
    LoneFounders
    Coherent
PROPERTIES
    ImplementsStoryBook
    EventuallyInAStory
