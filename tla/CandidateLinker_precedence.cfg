SPECIFICATION Spec
CONSTANTS
    api = api  orders = orders  db = db
    Services <- MCServices
    DependsOn <- MCDependsOn
    Records <- MCRecords
    MaxGap = 1
    MaxSpan = 3
    Horizon = 4
    MaxTime = 6
    MaxClusters = 2
CHECK_DEADLOCK FALSE
INVARIANT UpstreamBeginsFirst
