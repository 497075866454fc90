SPECIFICATION Spec
CONSTANTS
    i1 = i1  i2 = i2  NoOwner = NoOwner
    Instances <- MCInstances
    MaxCandidates = 2
    Requests = {1}
    MaxFaults = 2
SYMMETRY Symmetry
CHECK_DEADLOCK FALSE
INVARIANTS
    AnnouncedIsWhole
    OneListOfEdges
    CommittedDiagnosed
PROPERTY
    AtLeastOnce
