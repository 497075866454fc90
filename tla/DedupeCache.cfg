SPECIFICATION Spec
CONSTANTS
    k1 = k1  k2 = k2  k3 = k3
    Keys <- MCKeys
    Ttl = 2
    MaxSize = 2
    MaxTime = 6
SYMMETRY Symmetry
INVARIANT TypeOK
PROPERTIES
    DuplicateMeansAskedWithinTtl
    ForgottenForCause
