SPECIFICATION Spec
CONSTANTS
    Collections = {c1, c2}
    Keys = {k}
    Values = {v}
    NoValue = nil
    Requests <- Puts
    Cutoffs <- AllCutoffs
    MaxSeq = 2
    MaxTime = 2
    ClockStepsBack = FALSE
    Faults = {}
    Retention = 0
    MaxSnapshots = 0
    MaxPurges = 1
    MaxCrashes = 0
    TicksPerSecond = 2
INVARIANT PurgeMirrorsPrimary
CHECK_DEADLOCK FALSE
