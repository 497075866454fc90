SPECIFICATION Spec
CONSTANTS
    s1 = s1  s2 = s2
    Services <- MCServices
    Times <- MCTimes
    Lateness = 2
    MergeGap = 1
    Grace = 3
    CloseAfter = 4
    MaxTime = 9
    MaxEvents = 5
SYMMETRY Symmetry
INVARIANTS
    WindowsApart
PROPERTIES
    FinalizedNeverChanges
    NoPrematureClose
    HandedOverInOrder
    IdleDrainFindsNothing
