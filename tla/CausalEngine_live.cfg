SPECIFICATION FairSpec
CONSTANTS
    i1 = i1  i2 = i2  NoOwner = NoOwner
    Instances <- MCInstances
    MaxCandidates = 2
    Requests = {}
    MaxFaults = 2
CHECK_DEADLOCK FALSE
PROPERTIES
    EventuallyAnnounced
