SPECIFICATION Spec
CONSTANTS
    s1 = s1
    Invalid = Invalid  Undecodable = Undecodable
    Services <- MCServices
    Times <- MCTimes
    Lateness = 1
    MergeGap = 0
    Grace = 0
    CloseAfter = 1
    MaxLog = 4
    MaxFaults = 2
CHECK_DEADLOCK FALSE
INVARIANTS
    HandedOverOnce
    OnlyOpenWindowsLost
    ForgetsOnlyRecent
    StopLosesNoCandidate
PROPERTIES
    AtLeastOnce
