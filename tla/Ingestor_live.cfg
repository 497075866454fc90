SPECIFICATION FairSpec
CONSTANTS
    i1 = i1  i2 = i2  k1 = k1
    Invalid = Invalid  Undecodable = Undecodable  NoOwner = NoOwner
    Instances <- MCInstances
    Keys <- MCKeys
    MaxRaw = 2
    MaxFaults = 2
    Budget <- LiveBudget
CHECK_DEADLOCK FALSE
PROPERTIES
    EventuallyHandled
    StoredReachesStream
