SPECIFICATION Spec
CONSTANTS
    i1 = i1  i2 = i2  k1 = k1
    Invalid = Invalid  Undecodable = Undecodable  NoOwner = NoOwner
    Instances <- MCInstances
    Keys <- MCKeys
    MaxRaw = 3
    MaxFaults = 2
    Budget <- SafetyBudget
CONSTRAINT FewFaults
SYMMETRY Symmetry
CHECK_DEADLOCK FALSE
INVARIANTS
    CommittedAccounted
    OneRowPerEvent
    DuplicatesCostAFault
PROPERTY
    AtLeastOnce
