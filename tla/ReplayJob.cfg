SPECIFICATION JobSpec
CONSTANTS
    w1 = w1
    w2 = w2
    db = db
    orders = orders
    cascade = cascade
    Nowhere = Nowhere
    Workers <- MCWorkers
    Root <- MCRoot
    Archive <- MCArchive
    Diagnoses <- MCDiagnoses
    Requests <- MCRequests
    MaxJobs = 3
    Limit = 2
    MaxFaults = 1
CHECK_DEADLOCK FALSE
INVARIANTS
    TypeOK
    OncePerWorker
    RunningHasWorker
    CountedOncePerJob
    CountsOnlyLater
    EvaluationAddsUp
PROPERTIES
    EventuallyStarted
