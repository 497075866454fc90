SPECIFICATION Spec
CONSTANTS
    api = api  orders = orders  db = db
    Services <- MCServices
    DependsOn <- MCDependsOn
    Records <- MCRecords
    MaxGap = 1
    MaxSpan = 3
    Horizon = 4
    MaxTime = 6
    MaxClusters = 4
CHECK_DEADLOCK FALSE
INVARIANTS
    TypeOK
    CandidatesDisjoint
    MutualLinksTogether
PROPERTIES
    PrunedTooOldToMatter
    CandidatesStandAlone
