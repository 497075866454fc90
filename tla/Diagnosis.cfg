CONSTANTS
    api = api
    auth = auth
    worker = worker
    orders = orders
    inventory = inventory
    userdb = userdb
    ordersdb = ordersdb
    inventorydb = inventorydb
    Times = {0, 10, 40, 60}
    Ends = {0, 40, 60}
    Services <- MCServices
    DependsOn <- MCDependsOn
    MaxGap = 45
    MaxSpan = 120
    Overlap = 10
    MaxLag = 180
    TopK = 5
    Clusters <- MCClusters
    MaxSize = 3
SPECIFICATION Spec
INVARIANTS TypeOK CausesAreDependencies RootRankedFirst LoneServiceAtMostMedium
